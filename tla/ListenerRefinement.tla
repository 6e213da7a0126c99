------------------------- MODULE ListenerRefinement -------------------------
(* Without -mirror, Listener implements QueryService: every step of the    *)
(* coroutine, the socket or Steam is, on the requests that wait and the    *)
(* answers that have left, a step of the service or no step at all.        *)
EXTENDS ListenerProofs

-----------------------------------------------------------------------------
(* The invariant of the mapping.  The listener has at most one send in the *)
(* queue, the one it waits for; while it answers, that send is an answer   *)
(* to the datagram being handled, which leaves as composed or fails.       *)

IsAnswer(s) ==
    /\ s.req = cur /\ s.to = cur.from
    /\ Len(s.want) >= 2 /\ s.want[2] \in AnswersTo[Kind(cur)]
OneSend ==
    /\ Len(sendq) <= 1
    /\ sendq # <<>> => sendq[1].by = "listener" /\ "listener" \notin failed
    /\ lpc \in {"start", "wait", "received"} =>
          sendq = <<>> /\ "listener" \notin failed
    /\ lpc # "query"
    /\ lpc = "reply" => cur \in Datagrams
    /\ lpc = "reply" /\ sendq # <<>> => IsAnswer(sendq[1])
    /\ lpc = "relay" /\ sendq # <<>> => sendq[1].req = NoDatagram
ServeInv == SteamInv /\ OneSend
-----------------------------------------------------------------------------
(* What is sent, and for which request.                                    *)

\* The kinds of answers, request by request.
LEMMA AnswersFacts ==
    /\ AnswersTo["A2S_INFO"] = {"S2A_INFO_SRC"}
    /\ AnswersTo["A2S_PLAYER"] = {"S2A_PLAYER"}
    /\ AnswersTo["A2S_GETCHALLENGE"] =
          {"S2C_CHALLENGE", "S2C_CONNECTION", "S2C_CONNREJECT"}
    /\ AnswersTo["C2S_CONNECT"] = {"S2C_CONNREJECT"}
    /\ AnswersTo["partial"] = ReplyOps
<1>1. {"A2S_INFO", "A2S_PLAYER", "A2S_GETCHALLENGE", "C2S_CONNECT"} \subseteq Cells
  BY CellFacts DEF RequestOps
<1> QED BY <1>1 DEF AnswersTo

\* A datagram of the length to hold an operation holds a cell there.
LEMMA KindType ==
    ASSUME NEW d, d.data \in Messages
    PROVE  Kind(d) \in Cells \cup {"partial"}
<1>1. Len(d.data) \in 0..4 /\ d.data \in [1..Len(d.data) -> Cells]
  BY MessageFacts
<1>2. CASE Len(d.data) >= 2
  BY <1>1, <1>2 DEF Kind
<1>3. CASE ~(Len(d.data) >= 2)
  BY <1>3 DEF Kind
<1> QED BY <1>2, <1>3

\* When it is handled, m_Buf holds the operation of the datagram if it has one.
LEMMA KindRead ==
    ASSUME ~Mirror, SteamInv, lpc = "received"
    PROVE  Kind(cur) = buf[2] \/ Kind(cur) = "partial"
<1>1. cur \in Datagrams /\ Cut(buf, cur.data) = cur.data
  BY DEF SteamInv, WireInv, TypeOK
<1>2. cur.data \in Messages
  BY <1>1 DEF Datagrams
<1>3. Len(cur.data) \in 0..4
  BY <1>2, MessageFacts
<1>4. Len(cur.data) >= 2 => Cut(buf, cur.data)[2] = buf[2]
  BY <1>3 DEF Cut
<1> QED BY <1>1, <1>4 DEF Kind

\* A list after the operation leaves the operation in its place.
LEMMA PlayerReplyOp ==
    ASSUME NEW p \in PlayerLists
    PROVE  /\ Len(<<CONN, "S2A_PLAYER">> \o p) >= 2
           /\ (<<CONN, "S2A_PLAYER">> \o p)[2] = "S2A_PLAYER"
<1>1. PICK n \in 0..2 : p \in [1..n -> Cells]
  BY DEF PlayerLists
<1> DEFINE h == <<CONN, "S2A_PLAYER">>
<1>2. CONN \in Cells /\ "S2A_PLAYER" \in Cells
  BY CellFacts DEF ReplyOps
<1>3. h \in Seq(Cells) /\ Len(h) = 2 /\ h[2] = "S2A_PLAYER"
  BY <1>2
<1>4. p \in Seq(Cells) /\ Len(p) = n
  BY <1>1
<1> HIDE DEF h
<1>5. /\ Len(h \o p) = Len(h) + Len(p)
      /\ \A i \in 1..Len(h) + Len(p) :
            (h \o p)[i] = IF i <= Len(h) THEN h[i] ELSE p[i - Len(h)]
  BY <1>3, <1>4, ConcatProperties
<1> QED BY <1>3, <1>4, <1>5 DEF h

\* Whatever ProcessConnectionlessPacket replies is an answer to the kind of the
\* datagram being handled.
LEMMA AnswerFits ==
    ASSUME ~Mirror, SteamInv, lpc = "received",
           AnswerInfo \/ AnswerPlayer \/ AnswerGetChallenge \/ AnswerConnect
    PROVE  \E m \in Messages : /\ Reply(m) /\ Len(m) >= 2
                               /\ m[2] \in AnswersTo[Kind(cur)]
<1>t. TypeOK
  BY DEF SteamInv, WireInv
<1>c. /\ CONN \in Cells /\ ReplyOps \subseteq Cells
      /\ {"ConnectRedirectAddress", "RejectText", "MaxPlayers",
          "SERVER_CHALLENGE"} \subseteq Cells
  BY CellFacts
<1>k. Kind(cur) = buf[2] \/ Kind(cur) = "partial"
  BY KindRead
<1>1. CASE AnswerInfo
  <2> DEFINE m == <<CONN, "S2A_INFO_SRC", info>>
  <2>1. m \in Messages
    BY <1>c, <1>t, MessageFacts DEF ReplyOps, TypeOK
  <2>2. Len(m) >= 2 /\ m[2] = "S2A_INFO_SRC"
    OBVIOUS
  <2>3. "S2A_INFO_SRC" \in AnswersTo[Kind(cur)]
    BY <1>1, <1>k, AnswersFacts DEF AnswerInfo, ReplyOps
  <2>4. Reply(m)
    BY <1>1 DEF AnswerInfo
  <2> HIDE DEF m
  <2> QED BY <2>1, <2>2, <2>3, <2>4
<1>2. CASE AnswerPlayer
  <2> DEFINE p == IF players = <<>> THEN <<"MaxPlayers">> ELSE players
             m == <<CONN, "S2A_PLAYER">> \o p
  <2>1. <<"MaxPlayers">> \in PlayerLists
    <3>1. "MaxPlayers" \in Cells
      BY <1>c
    <3>2. <<"MaxPlayers">> \in [1..1 -> Cells]
      BY <3>1
    <3> QED BY <3>2, 1 \in 0..2 DEF PlayerLists
  <2>2. p \in PlayerLists
    BY <2>1, <1>t DEF TypeOK
  <2>3. m \in Messages /\ Len(m) >= 2 /\ m[2] = "S2A_PLAYER"
    BY <2>2, PlayerReplyType, PlayerReplyOp
  <2>4. "S2A_PLAYER" \in AnswersTo[Kind(cur)]
    BY <1>2, <1>k, AnswersFacts DEF AnswerPlayer, ReplyOps
  <2>5. Reply(m)
    BY <1>2 DEF AnswerPlayer
  <2> HIDE DEF m
  <2> QED BY <2>3, <2>4, <2>5
<1>3. CASE AnswerGetChallenge
  <2>1. {"S2C_CHALLENGE", "S2C_CONNECTION", "S2C_CONNREJECT"}
          \subseteq AnswersTo[Kind(cur)]
    BY <1>3, <1>k, AnswersFacts DEF AnswerGetChallenge, ReplyOps
  <2>2. CASE \E x \in {"S2C_CONNECTION", "S2C_CONNREJECT"} : Reply(<<CONN, x>>)
    <3>1. PICK x \in {"S2C_CONNECTION", "S2C_CONNREJECT"} : Reply(<<CONN, x>>)
      BY <2>2
    <3> DEFINE m == <<CONN, x>>
    <3>2. m \in Messages
      BY <1>c, MessageFacts DEF ReplyOps
    <3>3. Len(m) >= 2 /\ m[2] = x
      OBVIOUS
    <3>4. Reply(m)
      BY <3>1
    <3> HIDE DEF m
    <3> QED BY <2>1, <3>2, <3>3, <3>4
  <2>3. CASE \E x \in {"S2C_CONNREJECT", "S2C_CHALLENGE"},
                y \in {"ConnectRedirectAddress", "SERVER_CHALLENGE"} :
                Reply(<<CONN, x, y>>)
    <3>1. PICK x \in {"S2C_CONNREJECT", "S2C_CHALLENGE"},
               y \in {"ConnectRedirectAddress", "SERVER_CHALLENGE"} :
                  Reply(<<CONN, x, y>>)
      BY <2>3
    <3> DEFINE m == <<CONN, x, y>>
    <3>2. m \in Messages
      BY <1>c, MessageFacts DEF ReplyOps
    <3>3. Len(m) >= 2 /\ m[2] = x
      OBVIOUS
    <3>4. Reply(m)
      BY <3>1
    <3> HIDE DEF m
    <3> QED BY <2>1, <3>2, <3>3, <3>4
  <2> QED BY <1>3, <2>2, <2>3 DEF AnswerGetChallenge
<1>4. CASE AnswerConnect
  <2> DEFINE t == IF HasRdip THEN "ConnectRedirectAddress" ELSE "RejectText"
             m == <<CONN, "S2C_CONNREJECT", t>>
  <2>1. t \in Cells
    BY <1>c
  <2>2. Len(m) >= 2 /\ m[2] = "S2C_CONNREJECT"
    OBVIOUS
  <2>3. Reply(m)
    BY <1>4 DEF AnswerConnect
  <2> HIDE DEF t
  <2>4. m \in Messages
    BY <1>c, <2>1, MessageFacts DEF ReplyOps
  <2>5. "S2C_CONNREJECT" \in AnswersTo[Kind(cur)]
    BY <1>4, <1>k, AnswersFacts DEF AnswerConnect, ReplyOps
  <2> HIDE DEF m
  <2> QED BY <2>2, <2>3, <2>4, <2>5
<1> QED BY <1>1, <1>2, <1>3, <1>4

\* A send of the listener, whose queue is empty, leaves as composed, waits alone
\* in the queue, or fails.
LEMMA SendOutcome ==
    ASSUME TypeOK, sendq = <<>>, NEW req, NEW to, NEW m \in Messages,
           NEW s, s = [by |-> "listener", req |-> req, to |-> to, want |-> m],
           Send("listener", req, to, m)
    PROVE  \/ /\ UNCHANGED <<sendq, failed>>
              /\ out' = out \cup {[send |-> s, wire |-> m]}
           \/ sendq' = <<s>> /\ UNCHANGED <<failed, out>>
           \/ UNCHANGED <<sendq, out>> /\ "listener" \in failed'
<1>1. Cut(buf', m) = m
  BY OverlayType DEF Send, TypeOK
<1>2. Append(sendq, s) = <<s>>
  OBVIOUS
<1> QED BY <1>1, <1>2 DEF Send

\* The listener is resumed when its queue is empty and none of its sends failed.
LEMMA ReadyMeans ==
    ASSUME OneSend, sendq \in Seq(Sends)
    PROVE  Ready("listener") <=> sendq = <<>> /\ "listener" \notin failed
<1>1. CASE sendq = <<>>
  BY <1>1 DEF Ready
<1>2. CASE sendq # <<>>
  <2>1. Len(sendq) \in Nat \ {0}
    BY <1>2, EmptySeq, LenProperties
  <2>2. 1 \in 1..Len(sendq)
    BY <2>1
  <2>3. sendq[1].by = "listener"
    BY <1>2 DEF OneSend
  <2>4. ~Ready("listener")
    BY <2>2, <2>3 DEF Ready
  <2> QED BY <1>2, <2>4
<1> QED BY <1>1, <1>2
-----------------------------------------------------------------------------
(* The invariant.                                                          *)

\* A send begun with an empty queue leaves at most itself there.
LEMMA OneSendAfter ==
    ASSUME TypeOK, TypeOK', sendq = <<>>, "listener" \notin failed,
           lpc' \in {"reply", "relay"}, lpc' = "reply" => cur' \in Datagrams,
           NEW req, NEW to, NEW m \in Messages, Send("listener", req, to, m),
           lpc' = "reply" =>
               /\ req = cur' /\ to = cur'.from
               /\ Len(m) >= 2 /\ m[2] \in AnswersTo[Kind(cur')],
           lpc' = "relay" => req = NoDatagram
    PROVE  OneSend'
<1> DEFINE s == [by |-> "listener", req |-> req, to |-> to, want |-> m]
<1>1. /\ s.by = "listener" /\ s.req = req /\ s.to = to /\ s.want = m
  OBVIOUS
<1>2. \/ sendq' = <<>>
      \/ sendq' = <<s>> /\ UNCHANGED failed
  BY SendOutcome
<1> HIDE DEF s
<1>3. CASE sendq' = <<>>
  BY <1>3 DEF OneSend
<1>4. CASE sendq' = <<s>> /\ UNCHANGED failed
  <2>1. Len(sendq') = 1 /\ sendq'[1] = s /\ sendq' # <<>>
    BY <1>4
  <2>2. lpc' = "reply" => IsAnswer(sendq[1])'
    BY <1>1, <2>1 DEF IsAnswer
  <2>3. lpc' = "relay" => sendq'[1].req = NoDatagram
    BY <1>1, <2>1
  <2>4. lpc' \notin {"start", "wait", "received", "query"}
    OBVIOUS
  <2> QED BY <1>1, <1>4, <2>1, <2>2, <2>3, <2>4 DEF OneSend
<1> QED BY <1>2, <1>3, <1>4

\* Back at the socket, or at the end, nothing is queued.
LEMMA NoSendAfter ==
    ASSUME sendq' = <<>>, lpc' # "query",
           lpc' \in {"start", "wait", "received"} => "listener" \notin failed',
           lpc' = "reply" => cur' \in Datagrams
    PROVE  OneSend'
<1>1. Len(sendq') = 0
  OBVIOUS
<1> QED BY <1>1 DEF OneSend

\* Relaying a packet, or having none to relay.
LEMMA OneSendRelay ==
    ASSUME TypeOK, TypeOK', sendq = <<>>, "listener" \notin failed, RelayNext
    PROVE  OneSend'
<1>1. CASE Park /\ UNCHANGED <<buf, ioVars, outgoing>>
  BY <1>1, NoSendAfter DEF Park, ioVars
<1>2. CASE lpc' = "relay" /\ \E p \in SteamPackets, to \in Clients :
                                Send("listener", NoDatagram, to, p)
  <2>1. PICK p \in SteamPackets, to \in Clients :
               Send("listener", NoDatagram, to, p)
    BY <1>2
  <2>2. p \in Messages
    BY DataAssumption
  <2> QED BY <1>2, <2>1, <2>2, OneSendAfter
<1> QED BY <1>1, <1>2 DEF RelayNext

\* No step of the listener, the socket or Steam breaks ServeInv.
LEMMA ServeNext == ~Mirror /\ ServeInv /\ [Next]_vars => ServeInv'
<1> SUFFICES ASSUME ~Mirror, ServeInv, [Next]_vars PROVE OneSend'
  BY SteamNext DEF ServeInv
<1>t. TypeOK /\ TypeOK' /\ SteamInv /\ OneSend /\ mpc = "off"
  BY TypeNext DEF ServeInv, SteamInv, WireInv
<1>q. sendq \in Seq(Sends) /\ cur \in Datagrams \cup {NoDatagram}
  BY <1>t DEF TypeOK
<1>r. Ready("listener") => sendq = <<>> /\ "listener" \notin failed
  BY <1>t, <1>q, ReadyMeans
<1>i. lpc \in {"start", "wait", "received"} => sendq = <<>> /\ "listener" \notin failed
  BY <1>t DEF OneSend
<1>k. UNCHANGED <<lpc, cur, sendq, failed>> => OneSend'
  BY <1>t DEF OneSend, IsAnswer
<1>1. CASE Start
  <2>1. CASE Park /\ UNCHANGED ioVars
    BY <1>1, <1>i, <2>1, NoSendAfter DEF Start, Park, ioVars
  <2>2. CASE Stop
    BY <2>2, NoSendAfter DEF Stop
  <2> QED BY <1>1, <2>1, <2>2 DEF Start
<1>2. CASE Receive
  BY <1>2, <1>i, NoSendAfter DEF Receive, ioVars
<1>3. CASE HandleClient
  <2>1. /\ lpc = "received" /\ sendq = <<>> /\ "listener" \notin failed
        /\ UNCHANGED cur /\ cur \in Datagrams
    BY <1>3, <1>i, <1>t DEF HandleClient, TypeOK
  <2>2. CASE AnswerInfo \/ AnswerPlayer \/ AnswerGetChallenge \/ AnswerConnect
    <3>1. PICK m \in Messages : /\ Reply(m) /\ Len(m) >= 2
                                /\ m[2] \in AnswersTo[Kind(cur)]
      BY <1>t, <2>1, <2>2, AnswerFits
    <3>2. Send("listener", cur, cur.from, m) /\ lpc' = "reply"
      BY <3>1 DEF Reply
    <3> QED BY <1>t, <2>1, <3>1, <3>2, OneSendAfter
  <2>3. CASE Park /\ UNCHANGED ioVars
    BY <2>1, <2>3, NoSendAfter DEF Park, ioVars
  <2>4. CASE RelayNext
    BY <1>t, <2>1, <2>4, OneSendRelay
  <2>5. CASE Stop
    BY <2>5, NoSendAfter DEF Stop
  <2> QED BY <1>3, <2>2, <2>3, <2>4, <2>5 DEF HandleClient, PassToSteam
<1>4. CASE ResumeReply
  BY <1>4, <1>r, NoSendAfter DEF ResumeReply, Park, ioVars
<1>5. CASE ResumeRelay
  BY <1>5, <1>r, <1>t, OneSendRelay DEF ResumeRelay
<1>6. CASE ListenerFails
  BY <1>6, NoSendAfter DEF ListenerFails, Stop
<1>7. CASE Transmit
  <2>1. /\ sendq # <<>> /\ sendq' = Tail(sendq) /\ UNCHANGED <<lpc, cur>>
    BY <1>7 DEF Transmit, mirrorKeeps
  <2>2. Len(sendq) \in Nat \ {0} /\ Len(sendq) <= 1
    BY <1>t, <1>q, <2>1, EmptySeq, LenProperties DEF OneSend
  <2>3. Len(Tail(sendq)) = Len(sendq) - 1 /\ Tail(sendq) \in Seq(Sends)
    BY <1>q, <2>1, HeadTailProperties
  <2>4. sendq' = <<>>
    BY <2>1, <2>2, <2>3, EmptySeq
  <2>5. lpc \notin {"start", "wait", "received", "query"}
    BY <1>t, <1>i, <2>1 DEF OneSend
  <2> QED BY <1>t, <2>1, <2>4, <2>5, NoSendAfter DEF OneSend
<1>8. ~HandleRedirect /\ ~ResumeQuery /\ ~MirrorPoll /\ ~MirrorResumes
  BY <1>t DEF HandleRedirect, FromRedirect, ResumeQuery, OneSend, MirrorPoll,
              MirrorResumes
<1>9. Arrive \/ LogonResult \/ UNCHANGED vars => UNCHANGED <<lpc, cur, sendq, failed>>
  BY DEF Arrive, LogonResult, vars, ioVars
<1> QED BY <1>1, <1>2, <1>3, <1>4, <1>5, <1>6, <1>7, <1>8, <1>9, <1>k
        DEF Next, ListenerStep, MirrorStep
-----------------------------------------------------------------------------
(* The requests that wait, as the service sees them.                       *)

Asks == [id : 1..MaxArrivals, from : Clients \cup {Redirect},
         kind : Cells \cup {"partial"}]

\* A datagram is seen as a request of one of the service's kinds.
LEMMA RequestType ==
    ASSUME NEW d \in Datagrams
    PROVE  Request(d) \in Asks
<1>1. /\ d.id \in 1..MaxArrivals /\ d.from \in Clients \cup {Redirect}
      /\ d.data \in Messages
  BY DEF Datagrams
<1>2. Kind(d) \in Cells \cup {"partial"}
  BY <1>1, KindType
<1> QED BY <1>1, <1>2 DEF Request, Asks

\* Each datagram in the queue is seen as its request, in its place.
LEMMA RequestsSeq ==
    ASSUME NEW w \in Seq(Datagrams)
    PROVE  /\ Requests(w) \in Seq(Asks)
           /\ Len(Requests(w)) = Len(w) /\ Len(w) \in Nat
           /\ \A i \in 1..Len(w) : Requests(w)[i] = Request(w[i])
<1> DEFINE n == Len(w)
<1>1. n \in Nat /\ \A i \in 1..n : w[i] \in Datagrams
  BY LenProperties, ElementOfSeq
<1>2. Requests(w) = [i \in 1..n |-> Request(w[i])]
  BY DEF Requests
<1> HIDE DEF n
<1>3. Requests(w) \in [1..n -> Asks]
  BY <1>1, <1>2, RequestType
<1>4. Requests(w) \in Seq(Asks) /\ Len(Requests(w)) = n
  BY <1>1, <1>3
<1> QED BY <1>1, <1>2, <1>4 DEF n

\* The datagram being handled is the oldest request; those in the socket follow.
LEMMA RequestsHead ==
    ASSUME NEW c \in Datagrams, NEW t \in Seq(Datagrams)
    PROVE  /\ Requests(<<c>> \o t) # <<>>
           /\ Head(Requests(<<c>> \o t)) = Request(c)
           /\ Tail(Requests(<<c>> \o t)) = Requests(t)
<1> DEFINE w == <<c>> \o t
           r == Requests(w)
<1>1. <<c>> \in Seq(Datagrams) /\ Len(<<c>>) = 1 /\ <<c>>[1] = c
  OBVIOUS
<1>2. /\ w \in Seq(Datagrams) /\ Len(w) = 1 + Len(t) /\ Len(t) \in Nat
      /\ \A i \in 1..(1 + Len(t)) : w[i] = IF i <= 1 THEN c ELSE t[i - 1]
  BY <1>1, ConcatProperties, LenProperties
<1>3. /\ r \in Seq(Asks) /\ Len(r) = 1 + Len(t)
      /\ \A i \in 1..(1 + Len(t)) : r[i] = Request(w[i])
  BY <1>2, RequestsSeq
<1>4. w[1] = c /\ \A i \in 1..Len(t) : w[i + 1] = t[i]
  BY <1>2
<1> HIDE DEF w, r
<1>5. r # <<>>
  BY <1>2, <1>3, EmptySeq
<1>6. /\ Head(r) = r[1] /\ Len(Tail(r)) = Len(t)
      /\ Tail(r) \in Seq(Asks)
      /\ \A i \in 1..Len(t) : Tail(r)[i] = r[i + 1]
  BY <1>2, <1>3, <1>5, HeadTailProperties
<1>7. Head(r) = Request(c)
  BY <1>2, <1>3, <1>4, <1>6
<1>8. \A i \in 1..Len(t) : Tail(r)[i] = Request(t[i])
  BY <1>2, <1>3, <1>4, <1>6
<1>9. Tail(r) = [i \in 1..Len(t) |-> Tail(r)[i]]
  BY <1>6, LenProperties
<1>10. Tail(r) = Requests(t)
  BY <1>8, <1>9 DEF Requests
<1> QED BY <1>5, <1>7, <1>10 DEF w, r

\* A datagram that arrives is the last of the requests.
LEMMA RequestsAppend ==
    ASSUME NEW w \in Seq(Datagrams), NEW d \in Datagrams
    PROVE  Requests(Append(w, d)) = Append(Requests(w), Request(d))
<1> DEFINE v == Append(w, d)
           r == Requests(w)
           n == Len(w)
<1>1. /\ v \in Seq(Datagrams) /\ Len(v) = n + 1 /\ n \in Nat
      /\ \A i \in 1..n : v[i] = w[i]
      /\ v[n + 1] = d
  BY AppendProperties, LenProperties
<1>2. /\ r \in Seq(Asks) /\ Request(d) \in Asks
      /\ Len(r) = n /\ \A i \in 1..n : r[i] = Request(w[i])
  BY RequestsSeq, RequestType
<1> DEFINE a == Append(r, Request(d))
<1> HIDE DEF v, n, r
<1>3. /\ a \in Seq(Asks)
      /\ Len(a) = n + 1 /\ \A i \in 1..n : a[i] = r[i]
      /\ a[n + 1] = Request(d)
  BY <1>2, AppendProperties
<1> HIDE DEF a
<1>4. \A i \in 1..(n + 1) : a[i] = Request(v[i])
  BY <1>1, <1>2, <1>3
<1>5. a = [i \in 1..(n + 1) |-> a[i]]
  BY <1>3, LenProperties
<1>6. Requests(v) = [i \in 1..(n + 1) |-> Request(v[i])]
  BY <1>1 DEF Requests
<1>7. a = Requests(v)
  BY <1>4, <1>5, <1>6
<1> QED BY <1>7 DEF a, v, r

\* While the listener runs, what is pending is the socket's queue, after the
\* datagram being handled if that is still unanswered.
LEMMA PendingIs ==
    ASSUME lpc # "done", inbox \in Seq(Datagrams)
    PROVE  /\ Unanswered => Pending = Requests(<<cur>> \o inbox)
           /\ ~Unanswered => Pending = Requests(inbox)
<1>1. <<>> \o inbox = inbox
  BY ConcatEmptySeq
<1>2. Unanswered => Waiting = <<cur>> \o inbox
  BY DEF Waiting
<1>3. ~Unanswered => Waiting = inbox
  BY <1>1 DEF Waiting
<1> QED BY <1>2, <1>3 DEF Pending

\* What leaves the socket for a request is one more answer; what leaves it for
\* nobody's request is none.
LEMMA AnsweredGrows ==
    ASSUME NEW o, out' = out \cup {o}
    PROVE  /\ o.send.req # NoDatagram => Answered' = Answered \cup {AnswerOf(o)}
           /\ o.send.req = NoDatagram => Answered' = Answered
<1>1. {p \in out' : p.send.req # NoDatagram} =
        {p \in out : p.send.req # NoDatagram}
          \cup (IF o.send.req # NoDatagram THEN {o} ELSE {})
  OBVIOUS
<1> QED BY <1>1 DEF Answered, AnswerOf
-----------------------------------------------------------------------------
(* The steps of the service.                                               *)

\* The listener runs: its socket is bound and has not been destroyed.
Open == {"wait", "received", "reply", "query", "relay"}

\* No answer is given as long as nothing leaves the socket.
LEMMA SameAnswers == UNCHANGED out => Answered' = Answered
  BY DEF Answered, AnswerOf

\* As long as the same datagram is to be answered, the same requests wait.
LEMMA SamePending ==
    ASSUME UNCHANGED <<cur, inbox>>, Unanswered' <=> Unanswered,
           lpc \in Open, lpc' \in Open
    PROVE  Pending' = Pending
<1>1. Waiting' = Waiting
  BY DEF Waiting
<1> QED BY <1>1 DEF Pending, Requests, Open

\* Nothing changes for the clients.
LEMMA Stutters ==
    ASSUME UNCHANGED arrivals, Answered' = Answered, Pending' = Pending,
           lpc \in Open, lpc' \in Open
    PROVE  UNCHANGED Service!vars
<1>1. Phase' = Phase
  BY DEF Phase, Open
<1> QED BY <1>1 DEF Service!vars

\* The end of the listener, at whatever point, closes the service.
LEMMA Closes ==
    ASSUME lpc # "done", lpc' = "done", UNCHANGED <<arrivals, out>>
    PROVE  Service!Close
<1>1. Answered' = Answered
  BY DEF Answered, AnswerOf
<1>2. Phase # "closed" /\ Phase' = "closed" /\ Pending' = <<>>
  BY DEF Phase, Pending
<1> QED BY <1>1, <1>2 DEF Service!Close

\* Once the datagram being handled needs no answer any more, the oldest request
\* is dealt with, and the others wait on.
LEMMA Dealt ==
    ASSUME cur \in Datagrams, inbox \in Seq(Datagrams),
           lpc \in Open, lpc' \in Open, Unanswered, ~Unanswered', UNCHANGED inbox
    PROVE  /\ Phase = "open" /\ Phase' = "open"
           /\ Pending # <<>> /\ Head(Pending) = Request(cur)
           /\ Pending' = Tail(Pending)
<1>1. lpc # "done" /\ lpc' # "done"
  BY DEF Open
<1>2. Pending = Requests(<<cur>> \o inbox)
  BY <1>1, PendingIs
<1>3. Waiting' = inbox
  BY ConcatEmptySeq DEF Waiting
<1>4. Pending' = Requests(inbox)
  BY <1>1, <1>3 DEF Pending, Requests
<1>5. Phase = "open" /\ Phase' = "open"
  BY DEF Phase, Open
<1> QED BY <1>2, <1>4, <1>5, RequestsHead

\* The datagram being handled is left without an answer.
LEMMA PassesOver ==
    ASSUME cur \in Datagrams, inbox \in Seq(Datagrams),
           lpc \in Open, lpc' \in Open, Unanswered, ~Unanswered',
           UNCHANGED <<inbox, arrivals>>, Answered' = Answered
    PROVE  Service!PassOver
  BY Dealt DEF Service!PassOver

\* The answer to the datagram being handled leaves the socket.
LEMMA Answers ==
    ASSUME cur \in Datagrams, inbox \in Seq(Datagrams),
           lpc \in Open, lpc' \in Open, Unanswered, ~Unanswered',
           UNCHANGED <<inbox, arrivals>>,
           NEW o, out' = out \cup {o},
           o.send.req = cur, o.send.to = cur.from,
           o.wire[2] \in AnswersTo[Kind(cur)]
    PROVE  Service!Answer
<1>1. /\ Phase = "open" /\ Phase' = "open"
      /\ Pending # <<>> /\ Head(Pending) = Request(cur)
      /\ Pending' = Tail(Pending)
  BY Dealt
<1>2. /\ Request(cur).id = cur.id /\ Request(cur).from = cur.from
      /\ Request(cur).kind = Kind(cur)
  BY DEF Request
<1>3. o.send.req # NoDatagram
  BY DEF Datagrams, NoDatagram
<1>4. Answered' = Answered \cup {AnswerOf(o)}
  BY <1>3, AnsweredGrows
<1>5. AnswerOf(o) = [id |-> Head(Pending).id, to |-> Head(Pending).from,
                     kind |-> o.wire[2]]
  BY <1>1, <1>2 DEF AnswerOf
<1>6. o.wire[2] \in AnswersTo[Head(Pending).kind]
  BY <1>1, <1>2
<1>7. \E a \in AnswersTo[Head(Pending).kind] :
         Answered' = Answered \cup
             {[id |-> Head(Pending).id, to |-> Head(Pending).from, kind |-> a]}
  BY <1>4, <1>5, <1>6
<1> QED BY <1>1, <1>7 DEF Service!Answer

\* A datagram that reaches the socket is a new request, and the last to wait.
LEMMA NewRequest ==
    ASSUME ServeInv, Arrive
    PROVE  Service!Ask
<1>t. TypeOK /\ OneSend
  BY DEF ServeInv, SteamInv, WireInv
<1>1. PICK s \in Clients \cup {Redirect}, m \in Messages :
         inbox' = Append(inbox, [id |-> arrivals + 1, from |-> s, data |-> m])
  BY DataAssumption DEF Arrive
<1> DEFINE d == [id |-> arrivals + 1, from |-> s, data |-> m]
           h == IF Unanswered THEN <<cur>> ELSE <<>>
           w == h \o inbox
<1>2. /\ lpc \in Open /\ arrivals < MaxArrivals /\ arrivals' = arrivals + 1
      /\ UNCHANGED <<lpc, cur, sendq, failed, out>>
  BY <1>t DEF Arrive, TypeOK, Open, ioVars
<1>3. arrivals + 1 \in 1..MaxArrivals
  BY <1>t, <1>2, BoundAssumption DEF TypeOK
<1>4. d \in Datagrams /\ inbox' = Append(inbox, d)
  BY <1>1, <1>3 DEF Datagrams
<1>5. Request(d) = [id |-> arrivals + 1, from |-> s, kind |-> Kind(d)]
  BY DEF Request
<1>6. Kind(d) \in Cells \cup {"partial"}
  BY KindType
<1> HIDE DEF d
<1>7. inbox \in Seq(Datagrams) /\ h \in Seq(Datagrams)
  <2>1. Unanswered => cur \in Datagrams
    BY <1>t DEF TypeOK, OneSend, Unanswered
  <2> QED BY <1>t, <2>1, EmptySeq DEF TypeOK
<1>8. Unanswered' <=> Unanswered
  BY <1>2 DEF Unanswered, Ready
<1>9. Waiting' = h \o Append(inbox, d)
  BY <1>2, <1>4, <1>8 DEF Waiting
<1>w. Waiting = w
  BY DEF Waiting
<1> HIDE DEF h
<1>10. h \o Append(inbox, d) = Append(w, d) /\ w \in Seq(Datagrams)
  <2>1. <<d>> \in Seq(Datagrams)
    BY <1>4
  <2>2. w \in Seq(Datagrams) /\ (h \o inbox) \o <<d>> = h \o (inbox \o <<d>>)
    BY <1>7, <2>1, ConcatAssociative, ConcatProperties
  <2>3. Append(inbox, d) = inbox \o <<d>> /\ Append(w, d) = w \o <<d>>
    BY <1>4, <1>7, <2>2, AppendIsConcat
  <2> QED BY <2>2, <2>3
<1> HIDE DEF w
<1>11. Pending = Requests(w) /\ Pending' = Requests(Append(w, d))
  BY <1>2, <1>9, <1>w, <1>10 DEF Pending, Requests, Open
<1>12. Pending' = Append(Pending, Request(d))
  BY <1>4, <1>10, <1>11, RequestsAppend
<1>13. Answered' = Answered
  BY <1>2, SameAnswers
<1>14. Phase = "open" /\ Phase' = "open"
  BY <1>2 DEF Phase, Open
<1>15. \E q \in Clients \cup {Redirect}, k \in Cells \cup {"partial"} :
          Pending' = Append(Pending, [id |-> arrivals + 1, from |-> q, kind |-> k])
  BY <1>5, <1>6, <1>12
<1> QED BY <1>2, <1>13, <1>14, <1>15 DEF Service!Ask

\* The datagram that is taken from the socket is still the oldest request.
LEMMA Receives ==
    ASSUME TypeOK, Receive
    PROVE  UNCHANGED Service!vars
<1>1. /\ lpc = "wait" /\ lpc' = "received" /\ inbox # <<>>
      /\ cur' = Head(inbox) /\ inbox' = Tail(inbox)
      /\ UNCHANGED <<arrivals, out>>
  BY DEF Receive, ioVars
<1>2. inbox \in Seq(Datagrams)
  BY DEF TypeOK
<1>3. <<Head(inbox)>> \o Tail(inbox) = inbox
  BY <1>1, <1>2, HeadTailProperties
<1>4. Waiting' = inbox
  BY <1>1, <1>3 DEF Waiting, Unanswered
<1>5. Waiting = inbox
  BY <1>1, <1>2, ConcatEmptySeq DEF Waiting, Unanswered
<1>6. Pending' = Pending
  BY <1>1, <1>4, <1>5 DEF Pending, Requests
<1> QED BY <1>1, <1>6, SameAnswers, Stutters DEF Open

\* The packets of Steam's that are relayed answer nobody.
LEMMA RelayAnswersNone ==
    ASSUME TypeOK, RelayNext
    PROVE  /\ Answered' = Answered /\ lpc' \in {"wait", "relay"}
           /\ ~Unanswered'
<1>1. CASE Park /\ UNCHANGED <<buf, ioVars, outgoing>>
  BY <1>1, SameAnswers DEF Park, ioVars, Unanswered
<1>2. CASE lpc' = "relay" /\ \E p \in SteamPackets, to \in Clients :
                                Send("listener", NoDatagram, to, p)
  <2>1. PICK p \in SteamPackets, to \in Clients :
               Send("listener", NoDatagram, to, p)
    BY <1>2
  <2> DEFINE s == [by |-> "listener", req |-> NoDatagram, to |-> to, want |-> p]
             o == [send |-> s, wire |-> Cut(buf', p)]
  <2>2. out' = out \cup {o} \/ UNCHANGED out
    BY <2>1 DEF Send
  <2>3. o.send.req = NoDatagram
    OBVIOUS
  <2> HIDE DEF o
  <2>4. Answered' = Answered
    BY <2>2, <2>3, SameAnswers, AnsweredGrows
  <2> QED BY <1>2, <2>4 DEF Unanswered
<1> QED BY <1>1, <1>2 DEF RelayNext

\* A reply that leaves at once answers the request; one that has to wait, or
\* that fails, leaves the request pending.
LEMMA Replies ==
    ASSUME ServeInv, lpc = "received", UNCHANGED <<cur, inbox, arrivals>>,
           NEW m \in Messages, Len(m) >= 2, m[2] \in AnswersTo[Kind(cur)],
           Reply(m)
    PROVE  Service!Answer \/ UNCHANGED Service!vars
<1>t. TypeOK /\ OneSend /\ cur \in Datagrams /\ inbox \in Seq(Datagrams)
  BY DEF ServeInv, SteamInv, WireInv, TypeOK
<1> DEFINE s == [by |-> "listener", req |-> cur, to |-> cur.from, want |-> m]
           o == [send |-> s, wire |-> m]
<1>1. /\ sendq = <<>> /\ "listener" \notin failed /\ lpc' = "reply"
      /\ Send("listener", cur, cur.from, m)
  BY <1>t DEF OneSend, Reply
<1>2. /\ o.send = s /\ o.wire = m /\ s.by = "listener" /\ s.req = cur
      /\ s.to = cur.from
  OBVIOUS
<1>3. \/ UNCHANGED <<sendq, failed>> /\ out' = out \cup {o}
      \/ sendq' = <<s>> /\ UNCHANGED <<failed, out>>
      \/ UNCHANGED <<sendq, out>> /\ "listener" \in failed'
  BY <1>t, <1>1, SendOutcome
<1> HIDE DEF s, o
<1>4. Unanswered /\ lpc \in Open /\ lpc' \in Open
  BY <1>1 DEF Unanswered, Open
<1>5. CASE UNCHANGED <<sendq, failed>> /\ out' = out \cup {o}
  <2>1. ~Unanswered'
    BY <1>1, <1>5 DEF Unanswered, Ready
  <2>2. o.send.req = cur /\ o.send.to = cur.from /\ o.wire[2] \in AnswersTo[Kind(cur)]
    BY <1>2
  <2> QED BY <1>t, <1>4, <1>5, <2>1, <2>2, Answers
<1>6. CASE ~Ready("listener")' /\ UNCHANGED out
  <2>1. Unanswered' <=> Unanswered
    BY <1>1, <1>4, <1>6 DEF Unanswered
  <2> QED BY <1>4, <1>6, <2>1, SamePending, SameAnswers, Stutters
<1>7. CASE sendq' = <<s>> /\ UNCHANGED <<failed, out>>
  <2>1. Len(sendq') = 1 /\ sendq'[1] = s
    BY <1>7
  <2>2. ~Ready("listener")'
    BY <1>2, <2>1 DEF Ready
  <2> QED BY <1>6, <1>7, <2>2
<1>8. CASE UNCHANGED <<sendq, out>> /\ "listener" \in failed'
  BY <1>6, <1>8 DEF Ready
<1> QED BY <1>3, <1>5, <1>7, <1>8

\* A client's datagram is answered, passed over, kept for a send that waits, or
\* the last before the service closes.
LEMMA Handles ==
    ASSUME ~Mirror, ServeInv, HandleClient
    PROVE  Service!Next \/ UNCHANGED Service!vars
<1>t. /\ TypeOK /\ SteamInv /\ lpc = "received"
      /\ cur \in Datagrams /\ inbox \in Seq(Datagrams)
  BY DEF ServeInv, SteamInv, WireInv, TypeOK, HandleClient
<1>u. Unanswered /\ lpc \in Open /\ UNCHANGED <<cur, inbox, arrivals>>
  BY <1>t DEF Unanswered, Open, HandleClient
<1>1. CASE AnswerInfo \/ AnswerPlayer \/ AnswerGetChallenge \/ AnswerConnect
  <2>1. PICK m \in Messages : /\ Reply(m) /\ Len(m) >= 2
                              /\ m[2] \in AnswersTo[Kind(cur)]
    BY <1>t, <1>1, AnswerFits
  <2> QED BY <1>t, <1>u, <2>1, Replies DEF Service!Next
<1>2. CASE Park /\ UNCHANGED ioVars
  <2>1. lpc' \in Open /\ ~Unanswered' /\ UNCHANGED out
    BY <1>2 DEF Park, ioVars, Open, Unanswered
  <2> QED BY <1>t, <1>u, <2>1, SameAnswers, PassesOver DEF Service!Next
<1>3. CASE RelayNext
  <2>1. Answered' = Answered /\ lpc' \in Open /\ ~Unanswered'
    BY <1>t, <1>3, RelayAnswersNone DEF Open
  <2> QED BY <1>t, <1>u, <2>1, PassesOver DEF Service!Next
<1>4. CASE Stop /\ UNCHANGED out
  BY <1>t, <1>u, <1>4, Closes DEF Stop, Service!Next
<1> QED BY <1>1, <1>2, <1>3, <1>4 DEF HandleClient, PassToSteam

\* A send that waited leaves and answers its request, or fails and answers none.
LEMMA Transmits ==
    ASSUME ~Mirror, ServeInv, Transmit
    PROVE  Service!Next \/ UNCHANGED Service!vars
<1>t. TypeOK /\ WireInv /\ OneSend /\ inbox \in Seq(Datagrams) /\ sendq \in Seq(Sends)
  BY DEF ServeInv, SteamInv, WireInv, TypeOK
<1> DEFINE s == sendq[1]
           o == [send |-> s, wire |-> Cut(buf, s.want)]
<1>1. /\ sendq # <<>> /\ sendq' = Tail(sendq)
      /\ UNCHANGED <<lpc, cur, inbox, arrivals>>
  BY DEF Transmit, mirrorKeeps
<1>2. Len(sendq) = 1 /\ sendq' = <<>> /\ Head(sendq) = s
  <2>1. Len(sendq) \in Nat \ {0} /\ Len(sendq) <= 1
    BY <1>t, <1>1, EmptySeq, LenProperties DEF OneSend
  <2>2. Len(Tail(sendq)) = Len(sendq) - 1 /\ Tail(sendq) \in Seq(Sends)
        /\ Head(sendq) = sendq[1]
    BY <1>t, <1>1, HeadTailProperties
  <2> QED BY <1>1, <2>1, <2>2, EmptySeq
<1>3. /\ s.by = "listener" /\ "listener" \notin failed
      /\ lpc \in {"reply", "relay"} /\ Cut(buf, s.want) = s.want
  BY <1>t, <1>1, <1>2 DEF OneSend, WireInv, Holds
<1>4. \/ out' = out \cup {o} /\ UNCHANGED failed
      \/ UNCHANGED out /\ failed' = failed \cup {"listener"}
  BY <1>2, <1>3 DEF Transmit
<1>5. o.send = s /\ o.wire = s.want
  BY <1>3
<1>6. lpc \in Open /\ lpc' \in Open
  BY <1>1, <1>3 DEF Open
<1> HIDE DEF s, o
<1>7. CASE lpc = "relay"
  <2>1. o.send.req = NoDatagram
    BY <1>t, <1>1, <1>5, <1>7 DEF OneSend, s
  <2>2. Answered' = Answered
    BY <1>4, <2>1, SameAnswers, AnsweredGrows
  <2>3. Unanswered' <=> Unanswered
    BY <1>1, <1>7 DEF Unanswered
  <2> QED BY <1>1, <1>6, <2>2, <2>3, SamePending, Stutters
<1>8. CASE lpc = "reply"
  <2>1. cur \in Datagrams /\ IsAnswer(s)
    BY <1>t, <1>1, <1>8 DEF OneSend, s
  <2>2. Unanswered
    BY <1>t, <1>1, <1>8, ReadyMeans DEF Unanswered
  <2>3. CASE out' = out \cup {o} /\ UNCHANGED failed
    <3>1. ~Unanswered'
      BY <1>1, <1>2, <1>3, <1>8, <2>3 DEF Unanswered, Ready
    <3>2. o.send.req = cur /\ o.send.to = cur.from /\ o.wire[2] \in AnswersTo[Kind(cur)]
      BY <1>5, <2>1 DEF IsAnswer
    <3> QED BY <1>t, <1>1, <1>6, <2>1, <2>2, <2>3, <3>1, <3>2, Answers
            DEF Service!Next
  <2>4. CASE UNCHANGED out /\ failed' = failed \cup {"listener"}
    <3>1. Unanswered' <=> Unanswered
      BY <1>1, <1>8, <2>2, <2>4 DEF Unanswered, Ready
    <3> QED BY <1>1, <1>6, <2>4, <3>1, SamePending, SameAnswers, Stutters
  <2> QED BY <1>4, <2>3, <2>4
<1> QED BY <1>3, <1>7, <1>8

-----------------------------------------------------------------------------
(* The refinement.                                                         *)

\* The server starts as the service does.
LEMMA ServiceInit == Init => Service!Init
<1> SUFFICES ASSUME Init PROVE Service!Init
  OBVIOUS
<1>1. Phase = "new" /\ arrivals = 0
  BY DEF Init, Phase
<1>2. Answered = {}
  BY DEF Init, Answered
<1>3. Pending = <<>>
  <2>1. Waiting = <<>>
    BY DEF Init, Waiting, Unanswered
  <2> QED BY <2>1 DEF Init, Pending, Requests
<1> QED BY <1>1, <1>2, <1>3 DEF Service!Init

\* Every step is a step of the service, or none.
LEMMA ServiceNext ==
    ~Mirror /\ ServeInv /\ [Next]_vars => [Service!Next]_Service!vars
<1> SUFFICES ASSUME ~Mirror, ServeInv, [Next]_vars
             PROVE  Service!Next \/ UNCHANGED Service!vars
  OBVIOUS
<1>t. /\ TypeOK /\ OneSend /\ mpc = "off" /\ sendq \in Seq(Sends)
      /\ inbox \in Seq(Datagrams)
  BY DEF ServeInv, SteamInv, WireInv, TypeOK
<1>1. CASE Start
  <2>1. CASE Park /\ UNCHANGED ioVars
    <3>1. /\ lpc = "start" /\ lpc' = "wait"
          /\ UNCHANGED <<cur, inbox, arrivals, out>>
      BY <1>1, <2>1 DEF Start, Park, ioVars
    <3>2. Phase = "new" /\ Phase' = "open"
      BY <3>1 DEF Phase
    <3>3. Pending' = Pending
      BY <3>1 DEF Pending, Requests, Waiting, Unanswered
    <3> QED BY <3>1, <3>2, <3>3, SameAnswers DEF Service!Next, Service!Open
  <2>2. CASE Stop /\ UNCHANGED out
    BY <1>1, <2>2, Closes DEF Start, Stop, Service!Next
  <2> QED BY <1>1, <1>t, <2>1, <2>2 DEF Start
<1>2. CASE Receive
  BY <1>2, <1>t, Receives
<1>3. CASE HandleClient
  BY <1>3, Handles
<1>4. CASE ResumeReply
  <2>1. /\ lpc \in Open /\ lpc' \in Open /\ ~Unanswered /\ ~Unanswered'
        /\ UNCHANGED <<cur, inbox, arrivals, out>>
    BY <1>4 DEF ResumeReply, Park, listenerKeeps, ioVars, Open, Unanswered
  <2> QED BY <2>1, SamePending, SameAnswers, Stutters
<1>5. CASE ResumeRelay
  <2>1. /\ lpc \in Open /\ ~Unanswered /\ UNCHANGED <<cur, inbox, arrivals>>
    BY <1>5 DEF ResumeRelay, listenerKeeps, Open, Unanswered
  <2>2. Answered' = Answered /\ lpc' \in Open /\ ~Unanswered'
    BY <1>5, <1>t, RelayAnswersNone DEF ResumeRelay, Open
  <2> QED BY <2>1, <2>2, SamePending, Stutters
<1>6. CASE ListenerFails
  BY <1>6, Closes DEF ListenerFails, Stop, listenerKeeps, Service!Next
<1>7. CASE Transmit
  BY <1>7, Transmits
<1>8. CASE Arrive
  BY <1>8, NewRequest DEF Service!Next
<1>9. CASE LogonResult \/ UNCHANGED vars
  <2>1. UNCHANGED <<lpc, cur, inbox, sendq, failed, arrivals, out>>
    BY <1>9 DEF LogonResult, vars, ioVars
  <2>2. Pending' = Pending
    BY <2>1 DEF Pending, Requests, Waiting, Unanswered, Ready
  <2>3. Phase' = Phase /\ Answered' = Answered
    BY <2>1, SameAnswers DEF Phase
  <2> QED BY <2>1, <2>2, <2>3 DEF Service!vars
<1>10. ~HandleRedirect /\ ~ResumeQuery /\ ~MirrorPoll /\ ~MirrorResumes
  BY <1>t DEF HandleRedirect, FromRedirect, ResumeQuery, OneSend, MirrorPoll,
              MirrorResumes
<1> QED BY <1>1, <1>2, <1>3, <1>4, <1>5, <1>6, <1>7, <1>8, <1>9, <1>10
        DEF Next, ListenerStep, MirrorStep

(***************************************************************************)
(* Without -mirror the listener implements QueryService: every datagram is *)
(* answered at most once, in the order of arrival, to its sender and with  *)
(* an answer of the kind it asks for, or is passed over, whatever sends    *)
(* wait or fail (server.hpp, HandleIncommingPacket).                       *)
(***************************************************************************)
THEOREM ImplementsService == ASSUME ~Mirror PROVE Spec => ServesQueries
<1>1. Init => ServeInv
  <2> SUFFICES ASSUME Init PROVE ServeInv
    OBVIOUS
  <2>1. SteamInv
    BY WireInit DEF Init, SteamInv, SteamIntact
  <2>2. Len(sendq) = 0
    BY DEF Init
  <2>3. OneSend
    BY <2>2 DEF Init, OneSend
  <2> QED BY <2>1, <2>3 DEF ServeInv
<1>2. ServeInv /\ [Next]_vars => ServeInv'
  BY ServeNext
<1>3. ServeInv /\ [Next]_vars => [Service!Next]_Service!vars
  BY ServiceNext
<1> QED BY ServiceInit, <1>1, <1>2, <1>3, PTL DEF Spec, ServesQueries, Service!Spec
=============================================================================
