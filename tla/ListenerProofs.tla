--------------------------- MODULE ListenerProofs ---------------------------
(* Theorems about Listener.                                                *)
EXTENDS Listener, SequenceTheorems, TLAPS

-----------------------------------------------------------------------------
(* The cells and messages the server composes.                             *)

\* Messages holds the messages of up to four cells, and nothing longer.
LEMMA MessageFacts ==
    /\ <<>> \in Messages
    /\ \A a, b \in Cells : <<a, b>> \in Messages
    /\ \A a, b, c \in Cells : <<a, b, c>> \in Messages
    /\ \A a, b, c, d \in Cells : <<a, b, c, d>> \in Messages
    /\ \A m \in Messages : Len(m) \in 0..4 /\ m \in [1..Len(m) -> Cells]
<1>1. \A n \in 0..4 : [1..n -> Cells] \subseteq Messages
  BY DEF Messages
<1>a. 0 \in 0..4 /\ 2 \in 0..4 /\ 3 \in 0..4 /\ 4 \in 0..4
  OBVIOUS
<1>2. <<>> \in [1..0 -> Cells]
  OBVIOUS
<1>3. \A a, b \in Cells : <<a, b>> \in [1..2 -> Cells]
  OBVIOUS
<1>4. \A a, b, c \in Cells : <<a, b, c>> \in [1..3 -> Cells]
  OBVIOUS
<1>5. \A a, b, c, d \in Cells : <<a, b, c, d>> \in [1..4 -> Cells]
  OBVIOUS
<1>6. ASSUME NEW m \in Messages
      PROVE  Len(m) \in 0..4 /\ m \in [1..Len(m) -> Cells]
  <2>1. PICK n \in 0..4 : m \in [1..n -> Cells]
    BY DEF Messages
  <2>2. Len(m) = n
    BY <2>1
  <2> QED BY <2>1, <2>2
<1> QED BY <1>1, <1>a, <1>2, <1>3, <1>4, <1>5, <1>6

\* Every constant cell the server writes is a cell (proto_oob.h, info_const.hpp).
LEMMA CellFacts ==
    /\ {CONN, KEY, TINY, ZERO, MISREAD, FirstInfo, "ConnectRedirectAddress",
        "RejectText", "MaxPlayers", "SERVER_CHALLENGE"} \subseteq Cells
    /\ ReplyOps \subseteq Cells /\ RequestOps \subseteq Cells
  BY CellsAssumption DEF ReplyTexts

\* Composing a message in m_Buf keeps its size, and the message can be read back.
LEMMA OverlayType ==
    ASSUME NEW b \in [1..4 -> Cells], NEW m \in Messages
    PROVE  /\ Overlay(b, m) \in [1..4 -> Cells]
           /\ Cut(b, m) \in Messages
           /\ Len(m) \in 0..4
           /\ Cut(Overlay(b, m), m) = m
<1>1. Len(m) \in 0..4 /\ m \in [1..Len(m) -> Cells]
  BY MessageFacts
<1>2. Overlay(b, m) \in [1..4 -> Cells]
  BY <1>1 DEF Overlay
<1>3. Cut(b, m) \in [1..Len(m) -> Cells]
  BY <1>1 DEF Cut
<1>4. Cut(b, m) \in Messages
  BY <1>1, <1>3 DEF Messages
<1>5. Cut(Overlay(b, m), m) = m
  BY <1>1 DEF Cut, Overlay
<1> QED BY <1>1, <1>2, <1>4, <1>5

\* The answer to A2S_PLAYER is a connectionless message, whatever list it carries.
LEMMA PlayerReplyType ==
    ASSUME NEW p \in PlayerLists
    PROVE  /\ <<CONN, "S2A_PLAYER">> \o p \in Messages
           /\ Len(<<CONN, "S2A_PLAYER">> \o p) >= 1
           /\ (<<CONN, "S2A_PLAYER">> \o p)[1] = CONN
<1>1. PICK n \in 0..2 : p \in [1..n -> Cells]
  BY DEF PlayerLists
<1> DEFINE h == <<CONN, "S2A_PLAYER">>
<1>2. CONN \in Cells /\ "S2A_PLAYER" \in Cells
  BY CellFacts DEF ReplyOps
<1>3. h \in Seq(Cells) /\ Len(h) = 2 /\ h[1] = CONN
  BY <1>2
<1>4. p \in Seq(Cells) /\ Len(p) = n
  BY <1>1
<1> HIDE DEF h
<1>5. /\ h \o p \in Seq(Cells) /\ Len(h \o p) = Len(h) + Len(p)
      /\ \A i \in 1..Len(h) + Len(p) :
            (h \o p)[i] = IF i <= Len(h) THEN h[i] ELSE p[i - Len(h)]
  BY <1>3, <1>4, ConcatProperties
<1>6. Len(h \o p) \in 0..4
  BY <1>3, <1>4, <1>5
<1>7. h \o p \in [1..Len(h \o p) -> Cells]
  BY <1>5, LenProperties
<1>8. h \o p \in Messages
  BY <1>6, <1>7 DEF Messages
<1>9. Len(h \o p) >= 1 /\ (h \o p)[1] = CONN
  BY <1>3, <1>4, <1>5
<1> QED BY <1>8, <1>9 DEF h

\* async_send_to keeps the buffer, the queue and the wire well typed.
LEMMA SendType ==
    ASSUME TypeOK, NEW by \in {"listener", "mirror"},
           NEW req \in Datagrams \cup {NoDatagram},
           NEW to \in Clients \cup {Redirect}, NEW m \in Messages,
           Send(by, req, to, m)
    PROVE  /\ buf' \in [1..4 -> Cells]
           /\ sendq' \in Seq(Sends)
           /\ failed' \subseteq {"listener", "mirror"}
           /\ out' \subseteq Outputs
<1> DEFINE s == [by |-> by, req |-> req, to |-> to, want |-> m]
<1>1. s \in Sends
  BY DEF Sends
<1>2. buf' = Overlay(buf, m) /\ buf' \in [1..4 -> Cells]
  BY OverlayType DEF Send, TypeOK
<1>3. Cut(buf', m) \in Messages
  BY <1>2, OverlayType
<1>4. [send |-> s, wire |-> Cut(buf', m)] \in Outputs
  BY <1>1, <1>3 DEF Outputs
<1>5. Append(sendq, s) \in Seq(Sends)
  BY <1>1, AppendProperties DEF TypeOK
<1> QED BY <1>2, <1>4, <1>5 DEF Send, TypeOK

\* The end of the listener coroutine aborts sends of known coroutines only.
LEMMA StopType ==
    ASSUME TypeOK, Stop
    PROVE  lpc' = "done" /\ sendq' \in Seq(Sends)
           /\ failed' \subseteq {"listener", "mirror"}
<1>1. sendq \in Seq(Sends) /\ failed \subseteq {"listener", "mirror"}
  BY DEF TypeOK
<1>2. ASSUME NEW i \in 1..Len(sendq) PROVE sendq[i] \in Sends
  BY <1>1, ElementOfSeq
<1>3. \A x \in Sends : x.by \in {"listener", "mirror"}
  BY DEF Sends
<1>4. failed' \subseteq {"listener", "mirror"}
  BY <1>1, <1>2, <1>3 DEF Stop
<1> QED BY <1>4, EmptySeq DEF Stop
-----------------------------------------------------------------------------
(* Type correctness.                                                       *)

\* Relaying Steam's outgoing packets keeps the state well typed.
LEMMA RelayType ==
    ASSUME TypeOK, RelayNext
    PROVE  /\ lpc' \in {"wait", "relay"} /\ latch' \in Cells
           /\ buf' \in [1..4 -> Cells] /\ sendq' \in Seq(Sends)
           /\ failed' \subseteq {"listener", "mirror"} /\ out' \subseteq Outputs
           /\ outgoing' \in 0..MaxOutgoing
<1>1. CASE Park /\ UNCHANGED <<buf, ioVars, outgoing>>
  BY <1>1 DEF Park, Fetched, ioVars, TypeOK
<1>2. CASE /\ outgoing < MaxOutgoing /\ outgoing' = outgoing + 1
           /\ lpc' = "relay" /\ UNCHANGED latch
           /\ \E p \in SteamPackets, to \in Clients :
                 Send("listener", NoDatagram, to, p)
  <2>1. PICK p \in SteamPackets, to \in Clients :
               Send("listener", NoDatagram, to, p)
    BY <1>2
  <2>2. p \in Messages
    BY DataAssumption
  <2>3. /\ buf' \in [1..4 -> Cells] /\ sendq' \in Seq(Sends)
        /\ failed' \subseteq {"listener", "mirror"} /\ out' \subseteq Outputs
    BY <2>1, <2>2, SendType
  <2>4. outgoing' \in 0..MaxOutgoing
    BY <1>2, BoundAssumption DEF TypeOK
  <2> QED BY <1>2, <2>3, <2>4 DEF TypeOK
<1> QED BY <1>1, <1>2 DEF RelayNext

\* Handing a packet to Steam keeps the state well typed.
LEMMA PassType ==
    ASSUME TypeOK, PassToSteam
    PROVE  /\ lpc' \in {"wait", "relay", "done"} /\ latch' \in Cells
           /\ buf' \in [1..4 -> Cells] /\ sendq' \in Seq(Sends)
           /\ failed' \subseteq {"listener", "mirror"} /\ out' \subseteq Outputs
           /\ steamIn' \subseteq [req : Datagrams \cup {NoDatagram},
                                  wire : Messages]
           /\ outgoing' \in 0..MaxOutgoing
<1>1. cur.data \in Messages
  BY MessageFacts DEF TypeOK, Datagrams, NoDatagram
<1>2. Cut(buf, cur.data) \in Messages
  BY <1>1, OverlayType DEF TypeOK
<1>3. steamIn' \subseteq [req : Datagrams \cup {NoDatagram}, wire : Messages]
  BY <1>2 DEF TypeOK, PassToSteam
<1>4. CASE RelayNext
  BY <1>3, <1>4, RelayType
<1>5. CASE Stop /\ UNCHANGED <<buf, latch, out, outgoing>>
  BY <1>3, <1>5, StopType DEF TypeOK
<1> QED BY <1>4, <1>5 DEF PassToSteam

\* What follows header and operation is at most two cells.
LEMMA TailLength ==
    ASSUME NEW k \in 0..4, ~(k < 2)
    PROVE  k - 2 \in 0..2
  OBVIOUS

\* What follows header and operation in m_Buf is made of cells.
LEMMA TailCells ==
    ASSUME NEW b \in [1..4 -> Cells], NEW n \in 0..2
    PROVE  [i \in 1..n |-> b[i + 2]] \in [1..n -> Cells]
  OBVIOUS

\* SaveA2sPlayerResponse stores a player list.
LEMMA SavedType ==
    ASSUME TypeOK
    PROVE  SavedPlayers \in PlayerLists
<1>1. CASE Len(cur.data) < 2
  BY <1>1 DEF SavedPlayers, TypeOK
<1>2. CASE ~(Len(cur.data) < 2)
  <2>1. cur.data \in Messages
    BY MessageFacts DEF TypeOK, Datagrams, NoDatagram
  <2> DEFINE n == Len(cur.data) - 2
  <2>2. Len(cur.data) \in 0..4
    BY <2>1, MessageFacts
  <2>3. n \in 0..2
    BY <1>2, <2>2, TailLength
  <2>4. [i \in 1..n |-> buf[i + 2]] \in [1..n -> Cells]
    BY <2>3, TailCells DEF TypeOK
  <2>5. SavedPlayers = [i \in 1..n |-> buf[i + 2]]
    BY <1>2 DEF SavedPlayers
  <2> HIDE DEF n
  <2> QED BY <2>3, <2>4, <2>5 DEF PlayerLists
<1> QED BY <1>1, <1>2

\* A reply to the datagram being handled keeps the state well typed.
LEMMA ReplyType ==
    ASSUME TypeOK, lpc = "received", NEW m \in Messages, Reply(m)
    PROVE  /\ lpc' = "reply" /\ latch' \in Cells
           /\ buf' \in [1..4 -> Cells] /\ sendq' \in Seq(Sends)
           /\ failed' \subseteq {"listener", "mirror"} /\ out' \subseteq Outputs
<1>1. cur \in Datagrams \cup {NoDatagram} /\ cur.from \in Clients \cup {Redirect}
  BY DEF TypeOK, Datagrams
<1> QED BY <1>1, SendType DEF Reply, TypeOK

\* The replies of ProcessConnectionlessPacket are connectionless messages.
LEMMA AnswerIsReply ==
    ASSUME TypeOK,
           AnswerInfo \/ AnswerPlayer \/ AnswerGetChallenge \/ AnswerConnect
    PROVE  \E m \in Messages : Reply(m) /\ Len(m) >= 1 /\ m[1] = CONN
<1>1. /\ CONN \in Cells /\ ReplyOps \subseteq Cells
      /\ {"ConnectRedirectAddress", "RejectText", "MaxPlayers",
          "SERVER_CHALLENGE"} \subseteq Cells
  BY CellFacts
<1>2. CASE AnswerInfo
  <2>1. <<CONN, "S2A_INFO_SRC", info>> \in Messages
    BY <1>1, MessageFacts DEF ReplyOps, TypeOK
  <2> QED BY <1>2, <2>1 DEF AnswerInfo
<1>3. CASE AnswerPlayer
  <2> DEFINE p == IF players = <<>> THEN <<"MaxPlayers">> ELSE players
  <2>1. <<"MaxPlayers">> \in PlayerLists
    <3>1. "MaxPlayers" \in Cells
      BY <1>1
    <3>2. <<"MaxPlayers">> \in [1..1 -> Cells]
      BY <3>1
    <3>3. 1 \in 0..2
      OBVIOUS
    <3> QED BY <3>2, <3>3 DEF PlayerLists
  <2>2. p \in PlayerLists
    BY <2>1 DEF TypeOK
  <2> DEFINE q == <<CONN, "S2A_PLAYER">> \o p
  <2>3. q \in Messages /\ Len(q) >= 1 /\ q[1] = CONN
    BY <2>2, PlayerReplyType
  <2>4. Reply(q)
    BY <1>3 DEF AnswerPlayer
  <2> HIDE DEF q
  <2> QED BY <2>3, <2>4
<1>4. CASE AnswerGetChallenge
  <2>1. \A x \in {"S2C_CONNECTION", "S2C_CONNREJECT"} : <<CONN, x>> \in Messages
    BY <1>1, MessageFacts DEF ReplyOps
  <2>2. /\ <<CONN, "S2C_CONNREJECT", "ConnectRedirectAddress">> \in Messages
        /\ <<CONN, "S2C_CHALLENGE", "SERVER_CHALLENGE">> \in Messages
    BY <1>1, MessageFacts DEF ReplyOps
  <2> QED BY <1>4, <2>1, <2>2 DEF AnswerGetChallenge
<1>5. CASE AnswerConnect
  <2>1. \A x \in Cells : <<CONN, "S2C_CONNREJECT", x>> \in Messages
    BY <1>1, MessageFacts DEF ReplyOps
  <2> QED BY <1>1, <1>5, <2>1 DEF AnswerConnect
<1> QED BY <1>2, <1>3, <1>4, <1>5

\* The state the server starts in is well typed.
LEMMA TypeInit == Init => TypeOK
<1> SUFFICES ASSUME Init PROVE TypeOK
  OBVIOUS
<1>1. buf \in [1..4 -> Cells] /\ latch \in Cells
  BY DataAssumption DEF Init, Fetched
<1>2. challenge \in Cells /\ info \in Cells
  BY CellFacts DEF Init
<1>3. players \in PlayerLists
  <2>1. <<>> \in [1..0 -> Cells]
    OBVIOUS
  <2> QED BY <2>1, 0 \in 0..2 DEF Init, PlayerLists
<1>4. inbox \in Seq(Datagrams) /\ sendq \in Seq(Sends)
  BY EmptySeq DEF Init
<1>5. 0 \in 0..MaxArrivals /\ 0 \in 0..MaxPolls /\ 0 \in 0..MaxOutgoing
  BY BoundAssumption
<1> QED BY <1>1, <1>2, <1>3, <1>4, <1>5 DEF Init, TypeOK

\* No step of a coroutine, the socket or Steam leaves the types.
LEMMA TypeNext == TypeOK /\ [Next]_vars => TypeOK'
<1> SUFFICES ASSUME TypeOK, [Next]_vars PROVE TypeOK'
  OBVIOUS
<1>q. ASSUME MirrorQuery
      PROVE  /\ mpc' = "sending"
             /\ polls' \in 0..MaxPolls
             /\ buf' \in [1..4 -> Cells] /\ sendq' \in Seq(Sends)
             /\ failed' \subseteq {"listener", "mirror"}
             /\ out' \subseteq Outputs
  <2>1. PollMessage \in Messages
    BY CellFacts, MessageFacts DEF PollMessage, RequestOps
  <2>2. polls' \in 0..MaxPolls
    BY <1>q, BoundAssumption DEF MirrorQuery, TypeOK
  <2> QED BY <1>q, <2>1, <2>2, SendType DEF MirrorQuery
<1>1. CASE Start
  <2>1. CASE ~Mirror /\ Park /\ UNCHANGED <<mpc, buf, ioVars, polls>>
    BY <1>1, <2>1 DEF Start, Park, Fetched, TypeOK, ioVars, dataVars
  <2>2. CASE Mirror /\ Park /\ mpc' = "ready" /\ UNCHANGED <<buf, ioVars, polls>>
    BY <1>1, <2>2 DEF Start, Park, Fetched, TypeOK, ioVars, dataVars
  <2>3. CASE Mirror /\ MirrorQuery /\ lpc' = "wait" /\ latch' = Fetched(buf')
    BY <1>1, <2>3, <1>q DEF Start, TypeOK, Fetched, dataVars
  <2>4. CASE Stop /\ UNCHANGED <<mpc, buf, latch, out, polls>>
    BY <1>1, <2>4, StopType DEF Start, TypeOK, dataVars
  <2> QED BY <1>1, <2>1, <2>2, <2>3, <2>4 DEF Start
<1>2. CASE Receive
  <2>1. Head(inbox) \in Datagrams /\ Tail(inbox) \in Seq(Datagrams)
    BY <1>2, HeadTailProperties DEF Receive, TypeOK
  <2>2. buf' \in [1..4 -> Cells]
    BY <1>2, <2>1, OverlayType DEF Receive, TypeOK, Datagrams
  <2> QED BY <1>2, <2>1, <2>2 DEF Receive, TypeOK, ioVars, dataVars
<1>3. CASE HandleRedirect
  <2> USE DEF dataVars
  <2>a. /\ CONN \in Cells /\ "A2S_INFO" \in Cells /\ KEY \in Cells
        /\ ZERO \in Cells /\ MISREAD \in Cells
    BY CellFacts DEF RequestOps
  <2>1. /\ CONN \in Cells /\ "A2S_INFO" \in Cells /\ KEY \in Cells
        /\ buf[3] \in Cells /\ cur \in Datagrams /\ ReadChallenge \in Cells
    BY <1>3, <2>a DEF HandleRedirect, TypeOK, ReadChallenge
  <2>2. CASE /\ challenge' = ReadChallenge
             /\ Send("listener", cur, Redirect,
                     <<CONN, "A2S_INFO", KEY, ReadChallenge>>)
             /\ lpc' = "query" /\ UNCHANGED <<latch, overflow, dataVars>>
    <3>1. <<CONN, "A2S_INFO", KEY, ReadChallenge>> \in Messages
      BY <2>1, MessageFacts
    <3>2. /\ buf' \in [1..4 -> Cells] /\ sendq' \in Seq(Sends)
          /\ failed' \subseteq {"listener", "mirror"} /\ out' \subseteq Outputs
      BY <2>1, <2>2, <3>1, SendType
    <3> QED BY <1>3, <2>1, <2>2, <3>2 DEF HandleRedirect, TypeOK
  <2>3. CASE /\ overflow' = (overflow \/ RunsOff)
             /\ info' \in {buf[3]} \cup (IF overflow' THEN {MISREAD} ELSE {})
             /\ Park /\ UNCHANGED <<buf, challenge, ioVars, players>>
    <3>1. info' \in Cells
      BY <2>a, <2>1, <2>3
    <3>2. overflow' \in BOOLEAN
      BY <2>3
    <3> QED
      BY <1>3, <2>1, <2>3, <3>1, <3>2 DEF HandleRedirect, TypeOK, Park, Fetched, ioVars
  <2>4. CASE /\ players' = SavedPlayers
             /\ Park /\ UNCHANGED <<buf, overflow, challenge, ioVars, info>>
    BY <1>3, <2>1, <2>4, SavedType DEF HandleRedirect, TypeOK, Park, Fetched, ioVars
  <2>5. CASE Park /\ UNCHANGED <<buf, overflow, challenge, ioVars, dataVars>>
    BY <1>3, <2>1, <2>5 DEF HandleRedirect, TypeOK, Park, Fetched, ioVars
  <2> QED BY <1>3, <2>2, <2>3, <2>4, <2>5 DEF HandleRedirect
<1>4. CASE HandleClient
  <2> USE DEF dataVars
  <2>f. overflow' \in BOOLEAN
    BY <1>4 DEF HandleClient
  <2>1. CASE /\ AnswerInfo \/ AnswerPlayer \/ AnswerGetChallenge \/ AnswerConnect
             /\ UNCHANGED <<steamIn, outgoing>>
    <3>1. PICK m \in Messages : Reply(m)
      BY <2>1, AnswerIsReply
    <3>2. /\ lpc' = "reply" /\ latch' \in Cells
          /\ buf' \in [1..4 -> Cells] /\ sendq' \in Seq(Sends)
          /\ failed' \subseteq {"listener", "mirror"} /\ out' \subseteq Outputs
      BY <1>4, <3>1, ReplyType DEF HandleClient
    <3> QED BY <1>4, <2>f, <2>1, <3>2 DEF HandleClient, TypeOK
  <2>2. CASE Park /\ UNCHANGED <<buf, ioVars, steamIn, outgoing>>
    BY <1>4, <2>f, <2>2 DEF HandleClient, TypeOK, Park, Fetched, ioVars
  <2>3. CASE PassToSteam
    BY <1>4, <2>f, <2>3, PassType DEF HandleClient, TypeOK
  <2> QED BY <1>4, <2>1, <2>2, <2>3 DEF HandleClient
<1>5. CASE ResumeReply
  BY <1>5 DEF ResumeReply, Park, Fetched, TypeOK, listenerKeeps, dataVars, ioVars
<1>6. CASE ResumeQuery
  <2>1. <<CONN, "A2S_PLAYER", challenge>> \in Messages
    BY CellFacts, MessageFacts DEF RequestOps, TypeOK
  <2>2. /\ buf' \in [1..4 -> Cells] /\ sendq' \in Seq(Sends)
        /\ failed' \subseteq {"listener", "mirror"} /\ out' \subseteq Outputs
    BY <1>6, <2>1, SendType DEF ResumeQuery, TypeOK
  <2> QED BY <1>6, <2>2 DEF ResumeQuery, TypeOK, listenerKeeps, dataVars
<1>7. CASE ResumeRelay
  BY <1>7, RelayType DEF ResumeRelay, TypeOK, listenerKeeps, dataVars
<1>8. CASE ListenerFails
  BY <1>8, StopType DEF ListenerFails, TypeOK, listenerKeeps, dataVars
<1>9. CASE MirrorPoll
  BY <1>9, <1>q DEF MirrorPoll, TypeOK, mirrorKeeps, dataVars
<1>10. CASE MirrorResumes
  BY <1>10 DEF MirrorResumes, TypeOK, mirrorKeeps, dataVars, ioVars
<1>11. CASE Transmit
  <2>1. Head(sendq) \in Sends /\ Tail(sendq) \in Seq(Sends)
    BY <1>11, HeadTailProperties DEF Transmit, TypeOK
  <2>2. [send |-> Head(sendq), wire |-> Cut(buf, Head(sendq).want)] \in Outputs
    BY <2>1, OverlayType DEF Sends, Outputs, TypeOK
  <2>3. failed' \subseteq {"listener", "mirror"} /\ out' \subseteq Outputs
    BY <1>11, <2>1, <2>2 DEF Transmit, Sends, TypeOK
  <2> QED BY <1>11, <2>1, <2>3 DEF Transmit, TypeOK, mirrorKeeps, dataVars
<1>12. CASE Arrive
  <2>1. PICK s \in Clients \cup {Redirect}, m \in Messages :
           inbox' = Append(inbox, [id |-> arrivals + 1, from |-> s, data |-> m])
    BY <1>12, DataAssumption DEF Arrive
  <2>2. arrivals' \in 0..MaxArrivals /\ arrivals + 1 \in 1..MaxArrivals
    BY <1>12, BoundAssumption DEF Arrive, TypeOK
  <2>3. inbox' \in Seq(Datagrams)
    BY <2>1, <2>2, AppendProperties DEF Datagrams, TypeOK
  <2> QED BY <1>12, <2>2, <2>3 DEF Arrive, TypeOK, ioVars, dataVars
<1>13. CASE LogonResult
  BY <1>13 DEF LogonResult, TypeOK, ioVars, dataVars
<1>14. CASE UNCHANGED vars
  BY <1>14 DEF vars, TypeOK
<1> QED
  BY <1>1, <1>2, <1>3, <1>4, <1>5, <1>6, <1>7, <1>8, <1>9, <1>10, <1>11, <1>12,
     <1>13, <1>14 DEF Next, ListenerStep, MirrorStep

(***************************************************************************)
(* Every reachable state is well typed, whatever the clients, the datagrams*)
(* and the bounds (server.hpp, class Server).                              *)
(***************************************************************************)
THEOREM TypeCorrect == Spec => []TypeOK
  BY TypeInit, TypeNext, PTL DEF Spec
-----------------------------------------------------------------------------
(* What the listener sends is what it composed.  The invariant is WireInv:  *)
(* the only listener send in the queue is the one the listener waits for,  *)
(* so nobody but a poll writes to m_Buf before it leaves.                  *)

Unsent == \A i \in 1..Len(sendq) : sendq[i].by # "listener"
QueueHolds ==
    \A i \in 1..Len(sendq) :
        sendq[i].by = "listener" =>
            /\ lpc \in {"reply", "query", "relay"}
            /\ Holds(buf, sendq[i].want)

\* A poll leaves of a composed message what Polled says.
LEMMA PollHolds ==
    ASSUME Mirror, NEW b \in [1..4 -> Cells], NEW m \in Messages, Holds(b, m)
    PROVE  Holds(Overlay(b, PollMessage), m)
<1>1. Len(m) \in 0..4 /\ m \in [1..Len(m) -> Cells]
  BY MessageFacts
<1>2. Len(PollMessage) = 3
  BY DEF PollMessage
<1>3. \A i \in 1..Len(m) : i > 3 => b[i] = m[i]
  <2>1. CASE Cut(b, m) = m
    BY <1>1, <2>1 DEF Cut
  <2>2. CASE Cut(b, m) = Polled(m)
    BY <1>1, <1>2, <2>2 DEF Cut, Polled
  <2> QED BY <2>1, <2>2 DEF Holds
<1> DEFINE o == Overlay(b, PollMessage)
<1>4. \A i \in 1..4 : o[i] = IF i <= 3 THEN PollMessage[i] ELSE b[i]
  BY <1>2 DEF Overlay
<1> HIDE DEF o
<1>5. \A i \in 1..Len(m) : o[i] = IF i <= 3 THEN PollMessage[i] ELSE m[i]
  BY <1>1, <1>3, <1>4
<1>6. Cut(o, m) = Polled(m)
  BY <1>2, <1>5 DEF Cut, Polled
<1> QED BY <1>6 DEF Holds, o

\* A send by the listener is intact at once or is queued with m_Buf still holding it.
LEMMA ListenerSend ==
    ASSUME WireInv, Unsent, lpc' \in {"reply", "query", "relay"},
           NEW req \in Datagrams \cup {NoDatagram},
           NEW to \in Clients \cup {Redirect}, NEW m \in Messages,
           Send("listener", req, to, m)
    PROVE  WireIntact' /\ QueueHolds'
<1> DEFINE s == [by |-> "listener", req |-> req, to |-> to, want |-> m]
<1>1. buf' = Overlay(buf, m) /\ Cut(buf', m) = m
  BY OverlayType DEF Send, WireInv, TypeOK
<1>2. CASE sendq = <<>> /\ UNCHANGED sendq /\ out' = out \cup {[send |-> s, wire |-> m]}
  BY <1>2 DEF WireInv, WireIntact, QueueHolds
<1>3. CASE sendq' = Append(sendq, s) /\ UNCHANGED out
  <2>1. s \in Sends /\ sendq \in Seq(Sends)
    BY DEF Sends, WireInv, TypeOK
  <2>2. /\ Len(sendq') = Len(sendq) + 1 /\ Len(sendq) \in Nat
        /\ \A i \in 1..Len(sendq) : sendq'[i] = sendq[i]
        /\ sendq'[Len(sendq) + 1] = s
    BY <1>3, <2>1, AppendProperties, LenProperties
  <2>3. \A i \in 1..Len(sendq') : sendq'[i].by = "listener" => sendq'[i] = s
    BY <2>2 DEF Unsent
  <2>4. Holds(buf', s.want)
    BY <1>1 DEF Holds
  <2>5. s.want = m
    OBVIOUS
  <2> HIDE DEF s
  <2> QED BY <1>3, <2>3, <2>4 DEF QueueHolds, WireInv, WireIntact
<1>4. CASE UNCHANGED <<sendq, out>>
  BY <1>4 DEF WireInv, WireIntact, QueueHolds, Unsent
<1> QED BY <1>1, <1>2, <1>3, <1>4 DEF Send

\* A poll leaves the listener's queued send as Holds allows (ProcessA2sRequest).
LEMMA MirrorSend ==
    ASSUME WireInv, Mirror, lpc' = lpc \/ lpc = "start", MirrorQuery
    PROVE  WireIntact' /\ QueueHolds'
<1> DEFINE s == [by |-> "mirror", req |-> NoDatagram, to |-> Redirect,
                 want |-> PollMessage]
<1>1. PollMessage \in Messages
  BY CellFacts, MessageFacts DEF PollMessage, RequestOps
<1>2. /\ Send("mirror", NoDatagram, Redirect, PollMessage)
      /\ buf' = Overlay(buf, PollMessage)
  BY DEF MirrorQuery, Send
<1>3. sendq \in Seq(Sends) /\ buf \in [1..4 -> Cells]
  BY DEF WireInv, TypeOK
<1>4. ASSUME NEW i \in 1..Len(sendq), sendq[i].by = "listener"
      PROVE  /\ lpc' \in {"reply", "query", "relay"}
             /\ Holds(buf', sendq[i].want)
  <2>a. sendq[i] \in Sends
    BY <1>3, <1>4, ElementOfSeq
  <2>1. sendq[i].want \in Messages
    BY <2>a DEF Sends
  <2>2. lpc \in {"reply", "query", "relay"} /\ Holds(buf, sendq[i].want)
    BY <1>4 DEF WireInv
  <2> QED BY <1>2, <1>3, <2>1, <2>2, PollHolds
<1>5. CASE UNCHANGED sendq
           /\ out' = out \cup {[send |-> s, wire |-> Cut(buf', PollMessage)]}
  BY <1>4, <1>5 DEF WireInv, WireIntact, QueueHolds
<1>6. CASE sendq' = Append(sendq, s) /\ UNCHANGED out
  <2>1. s \in Sends
    BY <1>1 DEF Sends
  <2>2. /\ Len(sendq') = Len(sendq) + 1 /\ Len(sendq) \in Nat
        /\ \A i \in 1..Len(sendq) : sendq'[i] = sendq[i]
        /\ sendq'[Len(sendq) + 1] = s
    BY <1>3, <1>6, <2>1, AppendProperties, LenProperties
  <2>3. s.by # "listener"
    OBVIOUS
  <2> HIDE DEF s
  <2> QED BY <1>4, <1>6, <2>2, <2>3 DEF QueueHolds, WireInv, WireIntact
<1>7. CASE UNCHANGED <<sendq, out>>
  BY <1>4, <1>7 DEF WireInv, WireIntact, QueueHolds
<1> QED BY <1>2, <1>5, <1>6, <1>7 DEF Send

\* Relaying a packet of Steam's is a send, or a return to the wait, like any other.
LEMMA RelayHolds ==
    ASSUME WireInv, Unsent, RelayNext
    PROVE  WireIntact' /\ QueueHolds'
<1>1. CASE Park /\ UNCHANGED <<buf, ioVars, outgoing>>
  BY <1>1 DEF WireInv, WireIntact, QueueHolds, Unsent, ioVars
<1>2. CASE lpc' = "relay" /\ \E p \in SteamPackets, to \in Clients :
                                Send("listener", NoDatagram, to, p)
  BY <1>2, ListenerSend, DataAssumption
<1> QED BY <1>1, <1>2 DEF RelayNext

\* No send is queued when the server starts.
LEMMA WireInit == Init => WireInv
<1> SUFFICES ASSUME Init PROVE WireInv
  OBVIOUS
<1>1. TypeOK
  BY TypeInit
<1>2. Len(sendq) = 0 /\ WireIntact /\ mpc = "off"
  BY DEF Init, WireIntact
<1> QED BY <1>1, <1>2 DEF WireInv

\* No step lets a queued send of the listener lose its message.
LEMMA WireNext == WireInv /\ [Next]_vars => WireInv'
<1> SUFFICES ASSUME WireInv, [Next]_vars PROVE WireInv'
  OBVIOUS
<1>t. TypeOK /\ TypeOK'
  BY TypeNext DEF WireInv
<1>u. lpc \notin {"reply", "query", "relay"} => Unsent
  BY DEF WireInv, Unsent
<1>r. Ready("listener") => Unsent
  BY DEF Ready, Unsent
<1>m. ~Mirror => mpc = "off"
  BY DEF WireInv
<1>s. ASSUME UNCHANGED out, sendq' = <<>> PROVE WireIntact' /\ QueueHolds'
  BY <1>s DEF WireInv, WireIntact, QueueHolds
<1>k. ASSUME UNCHANGED <<out, sendq>>, Unsent PROVE WireIntact' /\ QueueHolds'
  BY <1>k DEF WireInv, WireIntact, QueueHolds, Unsent
<1> SUFFICES WireIntact' /\ QueueHolds' /\ (~Mirror => mpc' = "off")
  BY <1>t DEF WireInv, QueueHolds
<1>1. CASE Start
  <2>1. lpc = "start" /\ Unsent
    BY <1>1, <1>u DEF Start
  <2>2. CASE UNCHANGED ioVars /\ (~Mirror => UNCHANGED mpc)
    BY <2>1, <2>2, <1>k, <1>m DEF ioVars
  <2>3. CASE Mirror /\ MirrorQuery
    BY <2>1, <2>3, MirrorSend
  <2>4. CASE Stop /\ UNCHANGED <<mpc, out>>
    BY <2>4, <1>s, <1>m DEF Stop
  <2> QED BY <1>1, <2>2, <2>3, <2>4 DEF Start
<1>2. CASE Receive
  BY <1>2, <1>u, <1>k, <1>m DEF Receive, ioVars
<1>3. CASE HandleRedirect
  <2>1. Unsent /\ UNCHANGED mpc /\ cur \in Datagrams
    BY <1>3, <1>u, <1>t DEF HandleRedirect, TypeOK
  <2>2. CASE UNCHANGED ioVars
    BY <2>1, <2>2, <1>k, <1>m DEF ioVars
  <2>3. CASE /\ lpc' = "query"
             /\ Send("listener", cur, Redirect,
                     <<CONN, "A2S_INFO", KEY, ReadChallenge>>)
    <3>1. /\ CONN \in Cells /\ "A2S_INFO" \in Cells /\ KEY \in Cells
          /\ ZERO \in Cells
      BY CellFacts DEF RequestOps
    <3>2. ReadChallenge \in Cells
      BY <1>t, <3>1 DEF TypeOK, ReadChallenge
    <3>3. <<CONN, "A2S_INFO", KEY, ReadChallenge>> \in Messages
      BY <3>1, <3>2, MessageFacts
    <3> QED BY <2>1, <2>3, <3>3, <1>m, ListenerSend
  <2> QED BY <1>3, <2>2, <2>3 DEF HandleRedirect
<1>4. CASE HandleClient
  <2>1. Unsent /\ UNCHANGED mpc /\ cur \in Datagrams /\ cur.from \in Clients \cup {Redirect}
    BY <1>4, <1>u, <1>t DEF HandleClient, TypeOK, Datagrams
  <2>2. CASE AnswerInfo \/ AnswerPlayer \/ AnswerGetChallenge \/ AnswerConnect
    <3>1. PICK m \in Messages : Reply(m)
      BY <2>2, <1>t, AnswerIsReply
    <3> QED BY <2>1, <3>1, <1>m, ListenerSend DEF Reply
  <2>3. CASE UNCHANGED ioVars
    BY <2>1, <2>3, <1>k, <1>m DEF ioVars
  <2>4. CASE PassToSteam
    <3>1. CASE RelayNext
      BY <2>1, <3>1, <1>m, RelayHolds
    <3>2. CASE Stop /\ UNCHANGED out
      BY <2>1, <3>2, <1>m, <1>s DEF Stop
    <3> QED BY <2>4, <3>1, <3>2 DEF PassToSteam
  <2> QED BY <1>4, <2>2, <2>3, <2>4 DEF HandleClient
<1>5. CASE ResumeReply
  BY <1>5, <1>r, <1>k, <1>m DEF ResumeReply, listenerKeeps, ioVars
<1>6. CASE ResumeQuery
  <2>1. Unsent /\ lpc' = "reply" /\ UNCHANGED mpc
    BY <1>6, <1>r DEF ResumeQuery, listenerKeeps
  <2>2. <<CONN, "A2S_PLAYER", challenge>> \in Messages
    BY <1>t, CellFacts, MessageFacts DEF RequestOps, TypeOK
  <2> QED BY <1>6, <2>1, <2>2, <1>t, <1>m, ListenerSend DEF ResumeQuery, TypeOK
<1>7. CASE ResumeRelay
  BY <1>7, <1>r, <1>m, RelayHolds DEF ResumeRelay, listenerKeeps
<1>8. CASE ListenerFails
  BY <1>8, <1>s, <1>m DEF ListenerFails, Stop, listenerKeeps
<1>9. CASE MirrorPoll
  <2>1. Mirror /\ MirrorQuery /\ lpc' = lpc
    BY <1>9, <1>m DEF MirrorPoll, mirrorKeeps
  <2> QED BY <2>1, MirrorSend
<1>10. CASE MirrorResumes
  BY <1>10, <1>m DEF MirrorResumes, mirrorKeeps, ioVars, WireInv, WireIntact, QueueHolds
<1>11. CASE Transmit
  <2>1. /\ sendq \in Seq(Sends) /\ sendq # <<>> /\ sendq' = Tail(sendq)
        /\ UNCHANGED <<lpc, mpc, buf>>
    BY <1>11, <1>t DEF Transmit, mirrorKeeps, TypeOK
  <2>2. /\ Len(sendq') = Len(sendq) - 1 /\ Len(sendq) \in Nat \ {0}
        /\ \A i \in 1..Len(sendq') : sendq'[i] = sendq[i + 1]
        /\ Head(sendq) = sendq[1]
    BY <2>1, HeadTailProperties, EmptySeq
  <2>3. QueueHolds'
    BY <2>1, <2>2 DEF WireInv, QueueHolds
  <2>4. Head(sendq).by = "listener" => Holds(buf, Head(sendq).want)
    BY <2>1, <2>2 DEF WireInv
  <2>5. WireIntact'
    BY <1>11, <2>4 DEF Transmit, WireInv, WireIntact, Holds
  <2> QED BY <2>1, <2>3, <2>5, <1>m
<1>12. CASE Arrive
  BY <1>12, <1>m DEF Arrive, ioVars, WireInv, WireIntact, QueueHolds
<1>13. CASE LogonResult
  BY <1>13, <1>m DEF LogonResult, ioVars, WireInv, WireIntact, QueueHolds
<1>14. CASE UNCHANGED vars
  BY <1>14, <1>m DEF vars, WireInv, WireIntact, QueueHolds
<1> QED
  BY <1>1, <1>2, <1>3, <1>4, <1>5, <1>6, <1>7, <1>8, <1>9, <1>10, <1>11, <1>12,
     <1>13, <1>14 DEF Next, ListenerStep, MirrorStep

(***************************************************************************)
(* Every listener send leaves with the message composed for it, or, only   *)
(* with -mirror, with what a poll left of it (server.hpp, the co_awaits of *)
(* HandleIncommingPacket's callees).                                       *)
(***************************************************************************)
THEOREM SendsIntact == Spec => []WireIntact
<1>1. WireInv => WireIntact
  BY DEF WireInv
<1> QED BY <1>1, WireInit, WireNext, PTL DEF Spec
-----------------------------------------------------------------------------
(* Without -mirror: the packet Steam is handed, and the rejection of       *)
(* connection requests when every packet is connectionless.                *)

\* Nobody writes to m_Buf between the receipt of a datagram and its handling.
SteamInv ==
    /\ WireInv
    /\ ~Mirror => /\ SteamIntact
                  /\ lpc = "received" => Cut(buf, cur.data) = cur.data

RejectQueued ==
    \E i \in 1..Len(sendq) :
        /\ sendq[i].by = "listener"
        /\ sendq[i].req = cur /\ sendq[i].to = cur.from
        /\ Len(sendq[i].want) >= 2 /\ sendq[i].want[2] = "S2C_CONNREJECT"
Connectionless(m) == m # <<>> /\ m[1] = CONN
\* Datagrams are numbered as they arrive and handled in that order; from the
\* first one on, m_Buf begins with the connectionless header whenever the
\* listener reaches Seek(0); so from the second on, latch holds that header.
HeaderInv ==
    /\ \A i \in 1..Len(inbox) : Connectionless(inbox[i].data)
    /\ \A i \in 1..Len(inbox) : inbox[i].id = cur.id + i
    /\ arrivals = cur.id + Len(inbox)
    /\ cur.id >= 1 => buf[1] = CONN
    /\ cur.id >= 1 /\ lpc = "wait" => latch = CONN
    /\ cur.id >= 2 /\ lpc = "received" => latch = CONN
    /\ lpc = "start" => cur.id = 0
ConnectInv ==
    cur.id >= 2 /\ IsConnect(cur) =>
        /\ lpc \in {"wait", "received", "reply", "done"}
        /\ lpc = "wait" => Rejected(cur)
        /\ lpc = "reply" => \/ Rejected(cur) \/ RejectQueued
                            \/ "listener" \in failed
RejectInv == SteamInv /\ (~Mirror /\ AllConnectionless => HeaderInv /\ ConnectInv)

\* Without -mirror no step writes to m_Buf between receipt and handling.
LEMMA SteamNext == SteamInv /\ [Next]_vars => SteamInv'
<1> SUFFICES ASSUME SteamInv, [Next]_vars PROVE SteamInv'
  OBVIOUS
<1>1. WireInv /\ WireInv' /\ TypeOK
  BY WireNext DEF SteamInv, WireInv
<1> SUFFICES ASSUME ~Mirror
             PROVE  /\ SteamIntact'
                    /\ lpc' = "received" => Cut(buf', cur'.data) = cur'.data
  BY <1>1 DEF SteamInv
<1>2. /\ \A s \in steamIn : s.wire = s.req.data
      /\ lpc = "received" => Cut(buf, cur.data) = cur.data
  BY DEF SteamInv, SteamIntact
<1>3. mpc = "off"
  BY <1>1 DEF WireInv
<1>4. CASE Receive
  <2>1. inbox \in Seq(Datagrams) /\ inbox # <<>> /\ Head(inbox) \in Datagrams
    BY <1>1, <1>4, HeadTailProperties DEF Receive, TypeOK
  <2>2. Head(inbox).data \in Messages /\ buf \in [1..4 -> Cells]
    BY <1>1, <2>1 DEF Datagrams, TypeOK
  <2>3. Cut(buf', cur'.data) = cur'.data
    BY <1>4, <2>2, OverlayType DEF Receive
  <2> QED BY <1>2, <1>4, <2>3 DEF Receive, SteamIntact
<1>5. CASE HandleClient
  <2>1. CASE /\ AnswerInfo \/ AnswerPlayer \/ AnswerGetChallenge \/ AnswerConnect
             /\ UNCHANGED <<steamIn, outgoing>>
    <3>1. PICK m \in Messages : Reply(m)
      BY <1>1, <2>1, AnswerIsReply
    <3>2. lpc' = "reply"
      BY <3>1 DEF Reply
    <3> QED BY <1>2, <2>1, <3>2 DEF SteamIntact
  <2>2. CASE Park /\ UNCHANGED steamIn
    BY <1>2, <2>2 DEF Park, SteamIntact
  <2>3. CASE PassToSteam
    <3>1. lpc' # "received"
      BY <2>3 DEF PassToSteam, RelayNext, Park, Stop
    <3>2. Cut(buf, cur.data) = cur.data
      BY <1>2, <1>5 DEF HandleClient
    <3> QED BY <1>2, <2>3, <3>1, <3>2 DEF PassToSteam, SteamIntact
  <2> QED BY <1>5, <2>1, <2>2, <2>3 DEF HandleClient
<1>6. CASE Start \/ ResumeReply \/ ResumeQuery \/ ResumeRelay \/ ListenerFails
  <2>1. lpc' # "received" /\ UNCHANGED steamIn
    BY <1>6 DEF Start, ResumeReply, ResumeQuery, ResumeRelay, ListenerFails,
                RelayNext, Park, Stop, listenerKeeps
  <2> QED BY <1>2, <2>1 DEF SteamIntact
<1>7. CASE UNCHANGED <<lpc, buf, cur, steamIn>>
  BY <1>2, <1>7 DEF SteamIntact
<1>8. ~HandleRedirect /\ ~MirrorPoll /\ ~MirrorResumes
  BY <1>3 DEF HandleRedirect, FromRedirect, MirrorPoll, MirrorResumes
<1>9. Transmit \/ Arrive \/ LogonResult \/ UNCHANGED vars
        => UNCHANGED <<lpc, buf, cur, steamIn>>
  BY DEF Transmit, Arrive, LogonResult, vars, mirrorKeeps
<1> QED BY <1>4, <1>5, <1>6, <1>7, <1>8, <1>9 DEF Next, ListenerStep, MirrorStep
(***************************************************************************)
(* Without -mirror Steam is handed every packet as it arrived (server.hpp, *)
(* HandleIncommingPacket).                                                 *)
(***************************************************************************)
THEOREM PacketsIntact == Spec => []SteamIntact
<1>1. Init => SteamInv
  BY WireInit DEF Init, SteamInv, SteamIntact
<1>2. SteamInv => SteamIntact
  BY DEF SteamInv, SteamIntact
<1> QED BY <1>1, <1>2, SteamNext, PTL DEF Spec

\* Composing a message in m_Buf leaves its first cell there.
LEMMA FirstCell ==
    ASSUME NEW b, NEW m \in Messages, Len(m) >= 1
    PROVE  Overlay(b, m)[1] = m[1]
  BY DEF Overlay

\* A connectionless message has a first cell, and that is the header.
LEMMA ConnectionlessMessage ==
    ASSUME NEW m \in Messages, Connectionless(m)
    PROVE  Len(m) >= 1 /\ m[1] = CONN
<1>1. Len(m) \in 0..4 /\ m \in [1..Len(m) -> Cells]
  BY MessageFacts
<1>2. Len(m) # 0
  BY <1>1 DEF Connectionless
<1> QED BY <1>1, <1>2 DEF Connectionless

\* A rejection, once composed, has left, waits in the queue or has failed.
LEMMA RejectSent ==
    ASSUME WireInv, NEW t \in Cells, UNCHANGED cur,
           Reply(<<CONN, "S2C_CONNREJECT", t>>)
    PROVE  Rejected(cur)' \/ RejectQueued' \/ ("listener" \in failed)'
<1> DEFINE m == <<CONN, "S2C_CONNREJECT", t>>
           s == [by |-> "listener", req |-> cur, to |-> cur.from, want |-> m]
<1>1. m \in Messages /\ Len(m) = 3 /\ m[2] = "S2C_CONNREJECT"
  BY CellFacts, MessageFacts DEF ReplyOps
<1>2. /\ Send("listener", cur, cur.from, m)
      /\ buf' = Overlay(buf, m) /\ Cut(buf', m) = m
  BY <1>1, OverlayType DEF Reply, Send, WireInv, TypeOK
<1>3. CASE out' = out \cup {[send |-> s, wire |-> Cut(buf', m)]}
  <2>1. [send |-> s, wire |-> m] \in out'
    BY <1>2, <1>3
  <2> HIDE DEF m
  <2> QED BY <1>1, <2>1 DEF Rejected
<1>4. CASE sendq' = Append(sendq, s)
  <2>1. sendq \in Seq(Sends)
    BY DEF WireInv, TypeOK
  <2>2. Len(sendq) \in Nat /\ Len(sendq') = Len(sendq) + 1
        /\ sendq'[Len(sendq) + 1] = s
    BY <1>4, <2>1, LenProperties
  <2>3. s.by = "listener" /\ s.req = cur /\ s.to = cur.from /\ s.want = m
    OBVIOUS
  <2> HIDE DEF s, m
  <2>4. Len(sendq) + 1 \in 1..Len(sendq')
    BY <2>2
  <2>5. /\ sendq'[Len(sendq) + 1].by = "listener" /\ cur' = cur
        /\ sendq'[Len(sendq) + 1].req = cur /\ sendq'[Len(sendq) + 1].to = cur.from
        /\ sendq'[Len(sendq) + 1].want = m
    BY <2>2, <2>3
  <2>6. Len(m) >= 2
    BY <1>1
  <2> QED BY <1>1, <2>4, <2>5, <2>6 DEF RejectQueued
<1>5. CASE failed' = failed \cup {"listener"}
  BY <1>5
<1> QED BY <1>2, <1>3, <1>4, <1>5 DEF Send

\* Whatever is sent to answer or to relay begins with the header.
LEMMA SendHeader ==
    ASSUME NEW by, NEW req, NEW to, NEW m \in Messages, Connectionless(m),
           Send(by, req, to, m)
    PROVE  buf'[1] = CONN
  BY ConnectionlessMessage, FirstCell DEF Send

\* Relaying connectionless packets leaves the header in m_Buf for Seek(0) to fetch.
LEMMA RelayHeader ==
    ASSUME AllConnectionless, buf[1] = CONN, RelayNext
    PROVE  buf'[1] = CONN /\ (lpc' = "wait" => latch' = CONN)
<1>1. CASE Park /\ UNCHANGED <<buf, ioVars, outgoing>>
  BY <1>1 DEF Park, Fetched
<1>2. CASE lpc' = "relay" /\ \E p \in SteamPackets, to \in Clients :
                                Send("listener", NoDatagram, to, p)
  <2>1. PICK p \in SteamPackets, to \in Clients :
               Send("listener", NoDatagram, to, p)
    BY <1>2
  <2>2. p \in Messages /\ Connectionless(p)
    BY DataAssumption DEF AllConnectionless, Connectionless
  <2> QED BY <1>2, <2>1, <2>2, SendHeader
<1> QED BY <1>1, <1>2 DEF RelayNext

\* From the first datagram on, every step keeps the header where Seek(0) reads it.
LEMMA HeaderNext ==
    ASSUME ~Mirror, AllConnectionless, SteamInv, HeaderInv, [Next]_vars
    PROVE  HeaderInv'
<1>1. /\ WireInv /\ TypeOK /\ mpc = "off"
      /\ inbox \in Seq(Datagrams) /\ cur.id \in 0..MaxArrivals
      /\ cur \in Datagrams \cup {NoDatagram}
  <2>1. WireInv /\ TypeOK /\ mpc = "off"
    BY DEF SteamInv, WireInv
  <2>2. inbox \in Seq(Datagrams) /\ cur \in Datagrams \cup {NoDatagram}
    BY <2>1 DEF TypeOK
  <2>3. cur.id \in 0..MaxArrivals
    BY <2>2, BoundAssumption DEF Datagrams, NoDatagram
  <2> QED BY <2>1, <2>2, <2>3
<1>k. ASSUME UNCHANGED <<inbox, cur, arrivals>>,
             cur.id >= 1 => buf'[1] = CONN,
             cur.id >= 1 /\ lpc' = "wait" => latch' = CONN,
             cur.id >= 2 /\ lpc' = "received" => latch' = CONN,
             lpc' # "start"
      PROVE  HeaderInv'
  BY <1>k DEF HeaderInv
<1>2. CASE Start
  <2>1. cur.id = 0 /\ lpc' # "start" /\ UNCHANGED <<inbox, cur, arrivals>>
    BY <1>2 DEF Start, HeaderInv, Park, Stop
  <2> QED BY <2>1, <1>k
<1>3. CASE Receive
  <2>1. /\ inbox # <<>> /\ cur' = Head(inbox) /\ inbox' = Tail(inbox)
        /\ lpc = "wait" /\ lpc' = "received" /\ UNCHANGED <<latch, arrivals>>
        /\ buf' = Overlay(buf, Head(inbox).data)
    BY <1>3 DEF Receive
  <2>2. /\ Len(inbox) \in Nat \ {0} /\ Head(inbox) = inbox[1]
        /\ Len(Tail(inbox)) = Len(inbox) - 1
        /\ \A i \in 1..Len(Tail(inbox)) : Tail(inbox)[i] = inbox[i + 1]
        /\ Head(inbox) \in Datagrams
    BY <1>1, <2>1, HeadTailProperties, EmptySeq
  <2>3. cur'.id = cur.id + 1 /\ Connectionless(cur'.data)
    BY <2>1, <2>2 DEF HeaderInv
  <2>4. cur'.data \in Messages
    BY <2>1, <2>2 DEF Datagrams
  <2>5. buf'[1] = CONN
    BY <2>1, <2>3, <2>4, ConnectionlessMessage, FirstCell
  <2>6. cur'.id >= 2 => latch' = CONN
    BY <1>1, <2>1, <2>3 DEF HeaderInv
  <2>7. ASSUME NEW i \in 1..Len(inbox')
        PROVE  Connectionless(inbox'[i].data) /\ inbox'[i].id = cur'.id + i
    <3>1. i + 1 \in 1..Len(inbox) /\ inbox'[i] = inbox[i + 1]
      BY <2>1, <2>2
    <3>2. Connectionless(inbox[i + 1].data) /\ inbox[i + 1].id = cur.id + (i + 1)
      BY <3>1 DEF HeaderInv
    <3> QED BY <1>1, <2>3, <3>1, <3>2
  <2>8. arrivals' = cur'.id + Len(inbox')
    BY <1>1, <2>1, <2>2, <2>3 DEF HeaderInv
  <2> QED BY <2>1, <2>5, <2>6, <2>7, <2>8 DEF HeaderInv
<1>4. CASE HandleClient
  <2>1. /\ lpc = "received" /\ UNCHANGED <<inbox, cur, arrivals>>
        /\ cur.id >= 1 /\ buf[1] = CONN
    BY <1>1, <1>4 DEF HandleClient, HeaderInv, TypeOK, Datagrams
  <2>2. CASE AnswerInfo \/ AnswerPlayer \/ AnswerGetChallenge \/ AnswerConnect
    <3>1. PICK m \in Messages : Reply(m) /\ Len(m) >= 1 /\ m[1] = CONN
      BY <1>1, <2>2, AnswerIsReply
    <3>2. lpc' = "reply" /\ buf'[1] = CONN
      BY <3>1, FirstCell DEF Reply, Send
    <3> QED BY <2>1, <3>2, <1>k
  <2>3. CASE Park /\ UNCHANGED <<buf, ioVars>>
    BY <2>1, <2>3, <1>k DEF Park, Fetched
  <2>4. CASE PassToSteam
    <3>1. CASE RelayNext
      <4>1. buf'[1] = CONN /\ (lpc' = "wait" => latch' = CONN)
        BY <2>1, <3>1, RelayHeader
      <4>2. lpc' \in {"wait", "relay"}
        BY <3>1 DEF RelayNext, Park
      <4> QED BY <2>1, <4>1, <4>2, <1>k
    <3>2. CASE Stop /\ UNCHANGED buf
      BY <2>1, <3>2, <1>k DEF Stop
    <3> QED BY <2>4, <3>1, <3>2 DEF PassToSteam
  <2> QED BY <1>4, <2>2, <2>3, <2>4 DEF HandleClient
<1>5. CASE ResumeReply
  BY <1>5, <1>k DEF ResumeReply, Park, Fetched, listenerKeeps, HeaderInv
<1>6. CASE ResumeQuery
  <2>1. <<CONN, "A2S_PLAYER", challenge>> \in Messages
    BY <1>1, CellFacts, MessageFacts DEF RequestOps, TypeOK
  <2>2. Connectionless(<<CONN, "A2S_PLAYER", challenge>>)
    BY DEF Connectionless
  <2>3. buf'[1] = CONN /\ lpc' = "reply" /\ UNCHANGED <<inbox, cur, arrivals>>
    BY <1>6, <2>1, <2>2, SendHeader DEF ResumeQuery, listenerKeeps
  <2> QED BY <2>3, <1>k
<1>7. CASE ResumeRelay
  <2>1. UNCHANGED <<inbox, cur, arrivals>> /\ lpc' \in {"wait", "relay"}
    BY <1>7 DEF ResumeRelay, RelayNext, Park, listenerKeeps
  <2>2. CASE cur.id >= 1
    BY <1>7, <2>1, <2>2, RelayHeader, <1>k DEF HeaderInv, ResumeRelay
  <2>3. CASE ~(cur.id >= 1)
    BY <1>1, <2>1, <2>3, <1>k
  <2> QED BY <2>2, <2>3
<1>8. CASE ListenerFails
  BY <1>8, <1>k DEF ListenerFails, Stop, listenerKeeps, HeaderInv
<1>9. CASE Arrive
  <2>1. PICK p \in Clients \cup {Redirect},
             m \in ClientDatagrams \cup RedirectDatagrams :
           inbox' = Append(inbox, [id |-> arrivals + 1, from |-> p, data |-> m])
    BY <1>9 DEF Arrive
  <2> DEFINE d == [id |-> arrivals + 1, from |-> p, data |-> m]
  <2>2. d.id = arrivals + 1 /\ Connectionless(d.data)
    BY <1>1, <2>1 DEF AllConnectionless, Connectionless
  <2>3. d \in Datagrams
    BY <1>1, <1>9, DataAssumption, BoundAssumption DEF Arrive, TypeOK, Datagrams
  <2>4. inbox' = Append(inbox, d)
    BY <2>1
  <2> HIDE DEF d
  <2>5. /\ Len(inbox') = Len(inbox) + 1 /\ Len(inbox) \in Nat
        /\ \A i \in 1..Len(inbox) : inbox'[i] = inbox[i]
        /\ inbox'[Len(inbox) + 1] = d
    BY <1>1, <2>3, <2>4, AppendProperties, LenProperties
  <2>6. UNCHANGED <<lpc, buf, latch, cur>> /\ arrivals' = arrivals + 1
    BY <1>9 DEF Arrive
  <2>a. cur.id \in Int /\ arrivals \in Int
    BY <1>1, BoundAssumption DEF TypeOK, Datagrams, NoDatagram
  <2>b. /\ arrivals = cur.id + Len(inbox)
        /\ \A i \in 1..Len(inbox) : /\ Connectionless(inbox[i].data)
                                    /\ inbox[i].id = cur.id + i
    BY DEF HeaderInv
  <2>c. \A i \in 1..Len(inbox') : i \in 1..Len(inbox) \/ i = Len(inbox) + 1
    BY <2>5
  <2>7. \A i \in 1..Len(inbox') : /\ Connectionless(inbox'[i].data)
                                  /\ inbox'[i].id = cur'.id + i
    <3>1. d.id = cur.id + (Len(inbox) + 1)
      BY <2>2, <2>5, <2>a, <2>b
    <3> QED BY <3>1, <2>2, <2>5, <2>6, <2>b, <2>c
  <2>8. arrivals' = cur'.id + Len(inbox')
    BY <2>5, <2>6, <2>a, <2>b
  <2> QED BY <2>6, <2>7, <2>8 DEF HeaderInv
<1>10. CASE UNCHANGED <<lpc, inbox, buf, latch, cur, arrivals>>
  BY <1>10 DEF HeaderInv
<1>11. ~HandleRedirect /\ ~MirrorPoll /\ ~MirrorResumes
  BY <1>1 DEF HandleRedirect, FromRedirect, MirrorPoll, MirrorResumes
<1>12. Transmit \/ LogonResult \/ UNCHANGED vars
         => UNCHANGED <<lpc, inbox, buf, latch, cur, arrivals>>
  BY DEF Transmit, LogonResult, vars, mirrorKeeps
<1> QED BY <1>2, <1>3, <1>4, <1>5, <1>6, <1>7, <1>8, <1>9, <1>10, <1>11, <1>12
        DEF Next, ListenerStep, MirrorStep

\* From the second datagram on, a connection request is rejected before it is left.
LEMMA ConnectNext ==
    ASSUME ~Mirror, AllConnectionless, SteamInv, HeaderInv, ConnectInv, [Next]_vars
    PROVE  ConnectInv'
<1>1. WireInv /\ WireInv' /\ TypeOK /\ TypeOK' /\ mpc = "off"
  BY WireNext DEF SteamInv, WireInv
<1> SUFFICES ASSUME cur'.id >= 2, IsConnect(cur')
             PROVE  /\ lpc' \in {"wait", "received", "reply", "done"}
                    /\ lpc' = "wait" => Rejected(cur)'
                    /\ lpc' = "reply" => \/ Rejected(cur)' \/ RejectQueued'
                                         \/ ("listener" \in failed)'
  BY DEF ConnectInv
<1>k. ASSUME UNCHANGED cur
      PROVE  /\ lpc \in {"wait", "received", "reply", "done"}
             /\ lpc = "wait" => Rejected(cur)
             /\ lpc = "reply" => Rejected(cur) \/ RejectQueued \/ "listener" \in failed
  BY <1>k DEF ConnectInv
<1>o. ASSUME UNCHANGED cur, out \subseteq out', Rejected(cur)
      PROVE  Rejected(cur)'
  BY <1>o DEF Rejected
<1>2. CASE Start
  BY <1>2 DEF Start, HeaderInv
<1>3. CASE Receive
  BY <1>3 DEF Receive
<1>4. CASE HandleClient
  <2>1. /\ lpc = "received" /\ UNCHANGED cur /\ latch = CONN
        /\ Cut(buf, cur.data) = cur.data
    BY <1>4 DEF HandleClient, HeaderInv, SteamInv
  <2>2. buf[2] = "C2S_CONNECT"
    <3>1. Len(cur.data) >= 2 /\ cur.data[2] = "C2S_CONNECT"
      BY <2>1 DEF IsConnect
    <3>2. cur.data \in Messages
      BY <1>1, <2>1 DEF TypeOK, Datagrams
    <3>3. Len(cur.data) \in 0..4
      BY <3>2, MessageFacts
    <3>4. Cut(buf, cur.data)[2] = buf[2]
      BY <3>1, <3>3 DEF Cut
    <3> QED BY <2>1, <3>1, <3>4
  <2>3. AnswerConnect
    BY <1>4, <2>1, <2>2 DEF HandleClient, AnswerInfo, AnswerPlayer,
       AnswerGetChallenge, NoLogonResult, RequestOps
  <2>4. PICK t \in Cells : Reply(<<CONN, "S2C_CONNREJECT", t>>)
    BY <2>3, CellFacts DEF AnswerConnect
  <2>5. lpc' = "reply"
    BY <2>4 DEF Reply
  <2> QED BY <1>1, <2>1, <2>4, <2>5, RejectSent
<1>5. CASE ResumeReply
  <2>1. /\ lpc = "reply" /\ lpc' = "wait" /\ UNCHANGED <<cur, out>>
        /\ Ready("listener")
    BY <1>5 DEF ResumeReply, Park, listenerKeeps, ioVars
  <2>2. Rejected(cur)
    BY <1>k, <2>1 DEF Ready, RejectQueued
  <2> QED BY <1>o, <2>1, <2>2
<1>6. ~ResumeQuery /\ ~ResumeRelay
  BY <1>k DEF ResumeQuery, ResumeRelay, listenerKeeps
<1>7. CASE ListenerFails
  BY <1>7 DEF ListenerFails, Stop
<1>8. CASE Transmit
  <2>1. /\ sendq \in Seq(Sends) /\ sendq # <<>> /\ sendq' = Tail(sendq)
        /\ UNCHANGED <<lpc, cur>> /\ out \subseteq out' /\ failed \subseteq failed'
    BY <1>1, <1>8 DEF Transmit, mirrorKeeps, TypeOK
  <2>2. /\ Len(sendq') = Len(sendq) - 1 /\ Len(sendq) \in Nat \ {0}
        /\ \A i \in 1..Len(sendq') : sendq'[i] = sendq[i + 1]
        /\ Head(sendq) = sendq[1]
    BY <2>1, HeadTailProperties, EmptySeq
  <2>3. ASSUME RejectQueued
        PROVE  Rejected(cur)' \/ RejectQueued' \/ ("listener" \in failed)'
    <3>1. PICK i \in 1..Len(sendq) :
                 /\ sendq[i].by = "listener"
                 /\ sendq[i].req = cur /\ sendq[i].to = cur.from
                 /\ Len(sendq[i].want) >= 2 /\ sendq[i].want[2] = "S2C_CONNREJECT"
      BY <2>3 DEF RejectQueued
    <3>2. CASE i = 1
      <4>1. Cut(buf, Head(sendq).want) = Head(sendq).want
        BY <1>1, <2>2, <3>1, <3>2 DEF WireInv, Holds
      <4>2. CASE [send |-> Head(sendq), wire |-> Head(sendq).want] \in out'
        <5> DEFINE o == [send |-> Head(sendq), wire |-> Head(sendq).want]
        <5>1. /\ o.send = Head(sendq) /\ o.wire = Head(sendq).want /\ o \in out'
          BY <4>2
        <5> HIDE DEF o
        <5>2. /\ o.send.req = cur /\ o.send.to = cur.from
              /\ Len(o.wire) >= 2 /\ o.wire[2] = "S2C_CONNREJECT"
          BY <2>2, <3>1, <3>2, <5>1
        <5> QED BY <2>1, <5>1, <5>2 DEF Rejected
      <4>3. CASE Head(sendq).by \in failed'
        BY <2>2, <3>1, <3>2, <4>3
      <4> QED BY <1>8, <4>1, <4>2, <4>3 DEF Transmit
    <3>3. CASE i # 1
      <4>1. i - 1 \in 1..Len(sendq') /\ sendq'[i - 1] = sendq[i]
        BY <2>2, <3>3
      <4> QED BY <2>1, <3>1, <4>1 DEF RejectQueued
    <3> QED BY <3>2, <3>3
  <2> QED BY <1>k, <1>o, <2>1, <2>3
<1>9. CASE UNCHANGED <<lpc, cur, sendq, failed, out>>
  BY <1>9, <1>k, <1>o DEF RejectQueued
<1>10. ~HandleRedirect /\ ~MirrorPoll /\ ~MirrorResumes
  BY <1>1 DEF HandleRedirect, FromRedirect, MirrorPoll, MirrorResumes
<1>11. Arrive \/ LogonResult \/ UNCHANGED vars
         => UNCHANGED <<lpc, cur, sendq, failed, out>>
  BY DEF Arrive, LogonResult, vars, ioVars
<1> QED BY <1>2, <1>3, <1>4, <1>5, <1>6, <1>7, <1>8, <1>9, <1>10, <1>11
        DEF Next, ListenerStep, MirrorStep

(***************************************************************************)
(* Without -mirror, if every packet is connectionless, every connection    *)
(* request but one that is the very first datagram is rejected before the  *)
(* next datagram is taken (server.hpp, ProcessConnectionlessPacket).       *)
(***************************************************************************)
THEOREM ConnectsRejected == Spec => []LaterConnectRejected
<1>1. Init => RejectInv
  <2> SUFFICES ASSUME Init PROVE RejectInv
    OBVIOUS
  <2>1. SteamInv
    BY WireInit DEF Init, SteamInv, SteamIntact
  <2>2. cur.id = 0 /\ arrivals = 0 /\ Len(inbox) = 0
    BY DEF Init, NoDatagram
  <2> QED BY <2>1, <2>2 DEF RejectInv, HeaderInv, ConnectInv
<1>2. RejectInv /\ [Next]_vars => RejectInv'
  BY SteamNext, HeaderNext, ConnectNext DEF RejectInv, AllConnectionless
<1>3. RejectInv => LaterConnectRejected
  BY DEF RejectInv, ConnectInv, LaterConnectRejected
<1> QED BY <1>1, <1>2, <1>3, PTL DEF Spec
-----------------------------------------------------------------------------
(* With -mirror: what is taken from the redirect server's datagrams.  One  *)
(* of them is still in m_Buf when it is handled, or a poll has written over*)
(* its operation; and challenge is a local of the coroutine.               *)

\* The challenge of datagram d, or what may be read for it if the flag, f, is up.
EchoOf(c, d, f) == c = d.data[3] \/ (f /\ c = ZERO)
EchoRequests(c) == {<<CONN, "A2S_INFO", KEY, c>>, <<CONN, "A2S_PLAYER", c>>}
Echoes(s, f) ==
    (s.req # NoDatagram /\ FromRedirect(s.req)) =>
        /\ s.by = "listener"
        /\ s.req.data[2] = "S2C_CHALLENGE"
        /\ \E c \in Cells : EchoOf(c, s.req, f) /\ s.want \in EchoRequests(c)
AllEcho == /\ \A o \in out : Echoes(o.send, overflow)
           /\ \A i \in 1..Len(sendq) : Echoes(sendq[i], overflow)
\* A message that holds its operation, and the field that is read from it: the
\* challenge or the server information.  A player list may be empty.
WholeMessage(m) ==
    /\ Len(m) >= 2
    /\ m[2] \in {"S2C_CHALLENGE", "S2A_INFO_SRC"} => Len(m) >= 3
Whole(d) == FromRedirect(d) => WholeMessage(d.data)
EchoInv ==
    /\ TypeOK
    /\ AllEcho
    /\ \A i \in 1..Len(inbox) : Whole(inbox[i])
    /\ lpc = "received" /\ FromRedirect(cur) =>
          /\ WholeMessage(cur.data)
          /\ buf[2] = "A2S_INFO" \/ Cut(buf, cur.data) = cur.data
    /\ lpc = "query" => cur.data[2] = "S2C_CHALLENGE" /\ EchoOf(challenge, cur, overflow)

\* Nothing lowers m_ReadBuf's overflow flag (CBitRead::Seek, HandleIncommingPacket).
LEMMA OverflowStays ==
    ASSUME [Next]_vars, overflow
    PROVE  overflow'
<1>1. CASE HandleRedirect
  BY <1>1 DEF HandleRedirect
<1>2. CASE HandleClient
  BY <1>2 DEF HandleClient
<1>3. CASE ~HandleRedirect /\ ~HandleClient
  <2>1. UNCHANGED overflow
    BY <1>3 DEF Next, ListenerStep, MirrorStep, Start, Receive, ResumeReply,
       ResumeQuery, ResumeRelay, ListenerFails, MirrorPoll, MirrorResumes, Transmit,
       Arrive, LogonResult, listenerKeeps, mirrorKeeps, vars
  <2> QED BY <2>1
<1> QED BY <1>1, <1>2, <1>3

\* So what echoes a challenge goes on doing so.
LEMMA StillEchoes ==
    ASSUME NEW f, NEW g, f => g
    PROVE  /\ \A s : Echoes(s, f) => Echoes(s, g)
           /\ \A c, d : EchoOf(c, d, f) => EchoOf(c, d, g)
<1>1. \A c, d : EchoOf(c, d, f) => EchoOf(c, d, g)
  BY DEF EchoOf
<1> QED BY <1>1 DEF Echoes

\* A send that echoes, whether it leaves, waits or fails.
LEMMA EchoSend ==
    ASSUME TypeOK, AllEcho, overflow => overflow', NEW by \in {"listener", "mirror"},
           NEW req \in Datagrams \cup {NoDatagram},
           NEW to \in Clients \cup {Redirect}, NEW m \in Messages,
           Send(by, req, to, m),
           Echoes([by |-> by, req |-> req, to |-> to, want |-> m], overflow)
    PROVE  AllEcho'
<1> DEFINE s == [by |-> by, req |-> req, to |-> to, want |-> m]
<1>e. /\ Echoes(s, overflow')
      /\ \A o \in out : Echoes(o.send, overflow')
      /\ \A i \in 1..Len(sendq) : Echoes(sendq[i], overflow')
  BY StillEchoes DEF AllEcho
<1>0. s \in Sends /\ sendq \in Seq(Sends)
  BY DEF Sends, TypeOK
<1>s. \/ out' = out \cup {[send |-> s, wire |-> Cut(buf', m)]} /\ UNCHANGED sendq
      \/ sendq' = Append(sendq, s) /\ UNCHANGED out
      \/ UNCHANGED <<sendq, out>>
  BY DEF Send
<1> HIDE DEF s
<1>1. CASE out' = out \cup {[send |-> s, wire |-> Cut(buf', m)]} /\ UNCHANGED sendq
  BY <1>e, <1>1 DEF AllEcho
<1>2. CASE sendq' = Append(sendq, s) /\ UNCHANGED out
  <2>1. /\ Len(sendq') = Len(sendq) + 1 /\ Len(sendq) \in Nat
        /\ \A i \in 1..Len(sendq) : sendq'[i] = sendq[i]
        /\ sendq'[Len(sendq) + 1] = s
    BY <1>0, <1>2, AppendProperties, LenProperties
  <2>2. \A i \in 1..Len(sendq') : i \in 1..Len(sendq) \/ i = Len(sendq) + 1
    BY <2>1
  <2>3. \A i \in 1..Len(sendq') : Echoes(sendq'[i], overflow')
    BY <1>e, <2>1, <2>2
  <2> QED BY <1>e, <1>2, <2>3 DEF AllEcho
<1>3. CASE UNCHANGED <<sendq, out>>
  BY <1>e, <1>3 DEF AllEcho
<1> QED BY <1>s, <1>1, <1>2, <1>3

\* Sends that answer no datagram, or none of the redirect server's, echo.
LEMMA OtherSend ==
    ASSUME TypeOK, AllEcho, overflow => overflow', NEW by \in {"listener", "mirror"},
           NEW req \in Datagrams \cup {NoDatagram},
           NEW to \in Clients \cup {Redirect}, NEW m \in Messages,
           Send(by, req, to, m), req = NoDatagram \/ ~FromRedirect(req)
    PROVE  AllEcho'
<1> DEFINE s == [by |-> by, req |-> req, to |-> to, want |-> m]
<1>1. Echoes(s, overflow)
  BY DEF Echoes
<1> QED BY <1>1, EchoSend

\* Nothing that is sent stops echoing, and a queue that shrinks holds nothing new.
LEMMA NoSend ==
    ASSUME AllEcho, overflow => overflow', out' = out,
           sendq' = sendq \/ sendq' = <<>>
    PROVE  AllEcho'
<1>1. /\ \A o \in out : Echoes(o.send, overflow')
      /\ \A i \in 1..Len(sendq) : Echoes(sendq[i], overflow')
  BY StillEchoes DEF AllEcho
<1> QED BY <1>1 DEF AllEcho

\* A poll is a send like another, and writes over the operation in m_Buf.
LEMMA QueryEchoes ==
    ASSUME TypeOK, AllEcho, overflow => overflow', MirrorQuery
    PROVE  AllEcho' /\ buf'[2] = "A2S_INFO"
<1>1. PollMessage \in Messages
  BY CellFacts, MessageFacts DEF PollMessage, RequestOps
<1>2. Send("mirror", NoDatagram, Redirect, PollMessage)
  BY DEF MirrorQuery
<1>3. Len(PollMessage) = 3 /\ PollMessage[2] = "A2S_INFO"
  BY DEF PollMessage
<1>4. buf' = Overlay(buf, PollMessage)
  BY <1>2 DEF Send
<1>5. buf'[2] = "A2S_INFO"
  BY <1>3, <1>4 DEF Overlay
<1> QED BY <1>1, <1>2, <1>5, OtherSend

\* Relaying sends nothing of the redirect server's.
LEMMA RelayEchoes ==
    ASSUME TypeOK, AllEcho, overflow => overflow', RelayNext
    PROVE  AllEcho' /\ lpc' \in {"wait", "relay"}
<1>1. CASE Park /\ UNCHANGED <<buf, ioVars, outgoing>>
  BY <1>1, NoSend DEF Park, ioVars
<1>2. CASE /\ lpc' = "relay"
           /\ \E p \in SteamPackets, to \in Clients :
                 Send("listener", NoDatagram, to, p)
  BY <1>2, OtherSend, DataAssumption
<1> QED BY <1>1, <1>2 DEF RelayNext

\* A datagram of the redirect server whose operation the handler knows is, in
\* m_Buf, as it arrived: a poll would have left its own operation there.
LEMMA StillReceived ==
    ASSUME EchoInv, lpc = "received", FromRedirect(cur),
           buf[2] \in {"S2C_CHALLENGE", "S2A_INFO_SRC", "S2A_PLAYER"}
    PROVE  /\ cur.data \in Messages /\ Len(cur.data) \in 2..4
           /\ \A i \in 1..Len(cur.data) : cur.data[i] = buf[i]
           /\ buf[2] # "S2A_PLAYER" => Len(cur.data) >= 3
<1>1. /\ cur \in Datagrams /\ WholeMessage(cur.data)
      /\ Cut(buf, cur.data) = cur.data
  BY DEF EchoInv, TypeOK
<1>2. cur.data \in Messages
  BY <1>1 DEF Datagrams
<1>3. Len(cur.data) \in 0..4
  BY <1>2, MessageFacts
<1>4. \A i \in 1..Len(cur.data) : Cut(buf, cur.data)[i] = buf[i]
  BY <1>3 DEF Cut
<1>5. \A i \in 1..Len(cur.data) : cur.data[i] = buf[i]
  BY <1>1, <1>4
<1>6. Len(cur.data) >= 2 /\ cur.data[2] = buf[2]
  BY <1>1, <1>3, <1>5 DEF WholeMessage
<1> QED BY <1>1, <1>2, <1>3, <1>5, <1>6 DEF WholeMessage

\* If the redirect server sends whole messages, no step breaks EchoInv.
WholeMessages == \A m \in RedirectDatagrams : WholeMessage(m)
LEMMA EchoNext == WholeMessages /\ EchoInv /\ [Next]_vars => EchoInv'
<1> SUFFICES ASSUME WholeMessages, EchoInv, [Next]_vars PROVE EchoInv'
  OBVIOUS
<1>t. TypeOK /\ TypeOK' /\ AllEcho /\ \A i \in 1..Len(inbox) : Whole(inbox[i])
  BY TypeNext DEF EchoInv
<1>v. overflow => overflow'
  BY OverflowStays
<1> DEFINE Handling ==
             /\ lpc = "received" /\ FromRedirect(cur) =>
                   /\ WholeMessage(cur.data)
                   /\ buf[2] = "A2S_INFO" \/ Cut(buf, cur.data) = cur.data
             /\ lpc = "query" =>
                   cur.data[2] = "S2C_CHALLENGE" /\ EchoOf(challenge, cur, overflow)
<1>h. Handling
  BY DEF EchoInv
<1> SUFFICES /\ AllEcho' /\ Handling'
             /\ \A i \in 1..Len(inbox') : Whole(inbox'[i])
  BY <1>t DEF EchoInv, Whole, FromRedirect
<1>i. UNCHANGED inbox => \A i \in 1..Len(inbox') : Whole(inbox'[i])
  BY <1>t
<1>o. lpc' \notin {"received", "query"} => Handling'
  OBVIOUS
<1>1. CASE Start
  <2>1. CASE MirrorQuery /\ lpc' = "wait"
    BY <1>1, <2>1, <1>t, <1>i, <1>o, <1>v, QueryEchoes DEF Start
  <2>2. CASE Park /\ UNCHANGED ioVars
    BY <1>1, <2>2, <1>t, <1>i, <1>o, <1>v, NoSend DEF Start, Park, ioVars
  <2>3. CASE Stop /\ UNCHANGED out
    BY <1>1, <2>3, <1>t, <1>i, <1>o, <1>v, NoSend DEF Start, Stop
  <2> QED BY <1>1, <2>1, <2>2, <2>3 DEF Start
<1>2. CASE Receive
  <2>1. inbox \in Seq(Datagrams) /\ inbox # <<>> /\ cur' = Head(inbox)
        /\ inbox' = Tail(inbox) /\ buf' = Overlay(buf, cur'.data)
    BY <1>2, <1>t DEF Receive, TypeOK
  <2>2. /\ Len(inbox') = Len(inbox) - 1 /\ Len(inbox) \in Nat \ {0}
        /\ \A i \in 1..Len(inbox') : inbox'[i] = inbox[i + 1]
        /\ Head(inbox) = inbox[1]
    BY <2>1, HeadTailProperties, EmptySeq
  <2>3. Whole(cur') /\ \A i \in 1..Len(inbox') : Whole(inbox'[i])
    BY <2>1, <2>2, <1>t
  <2>4. Cut(buf', cur'.data) = cur'.data
    <3>1. cur' \in Datagrams
      BY <2>1, HeadTailProperties
    <3>2. cur'.data \in Messages
      BY <3>1 DEF Datagrams
    <3> QED BY <2>1, <3>2, <1>t, OverlayType DEF TypeOK
  <2>5. AllEcho' /\ lpc' = "received"
    BY <1>2, <1>t, <1>v, NoSend DEF Receive, ioVars
  <2> QED BY <2>3, <2>4, <2>5 DEF FromRedirect, Whole
<1>3. CASE HandleRedirect
  <2>0. lpc = "received" /\ FromRedirect(cur) /\ cur \in Datagrams /\ UNCHANGED <<inbox, cur>>
    BY <1>3, <1>t DEF HandleRedirect, TypeOK
  <2>1. CASE /\ buf[2] = "S2C_CHALLENGE" /\ challenge' = ReadChallenge
             /\ lpc' = "query" /\ UNCHANGED overflow
             /\ Send("listener", cur, Redirect,
                     <<CONN, "A2S_INFO", KEY, ReadChallenge>>)
    <3> DEFINE q == <<CONN, "A2S_INFO", KEY, ReadChallenge>>
    <3>1. q \in Messages /\ ReadChallenge \in Cells
      <4>1. CONN \in Cells /\ "A2S_INFO" \in Cells /\ KEY \in Cells /\ ZERO \in Cells
        BY CellFacts DEF RequestOps
      <4>2. ReadChallenge \in Cells
        BY <1>t, <4>1 DEF TypeOK, ReadChallenge
      <4> QED BY <4>1, <4>2, MessageFacts
    <3>2. q \in EchoRequests(ReadChallenge)
      BY DEF EchoRequests
    <3>3. cur.data[2] = "S2C_CHALLENGE" /\ cur.data[3] = buf[3]
      BY <2>0, <2>1, StillReceived
    <3>8. EchoOf(ReadChallenge, cur, overflow)
      BY <3>3 DEF EchoOf, ReadChallenge
    <3> HIDE DEF q
    <3>4. Echoes([by |-> "listener", req |-> cur, to |-> Redirect, want |-> q], overflow)
      BY <3>1, <3>2, <3>3, <3>8 DEF Echoes
    <3>5. Send("listener", cur, Redirect, q)
      BY <2>1 DEF q
    <3>6. AllEcho'
      BY <3>1, <3>4, <3>5, <2>0, <1>t, <1>v, EchoSend
    <3>7. Handling'
      BY <2>0, <2>1, <3>3, <3>8 DEF EchoOf
    <3> QED BY <3>6, <3>7, <2>0, <1>i
  <2>2. CASE Park /\ UNCHANGED ioVars
    BY <2>0, <2>2, <1>t, <1>i, <1>o, <1>v, NoSend DEF Park, ioVars
  <2> QED BY <1>3, <2>1, <2>2 DEF HandleRedirect
<1>4. CASE HandleClient
  <2>0. /\ ~FromRedirect(cur) /\ cur \in Datagrams /\ UNCHANGED inbox
        /\ cur.from \in Clients \cup {Redirect}
    BY <1>4, <1>t DEF HandleClient, TypeOK, Datagrams
  <2>1. CASE AnswerInfo \/ AnswerPlayer \/ AnswerGetChallenge \/ AnswerConnect
    <3>1. PICK m \in Messages : Reply(m)
      BY <2>1, <1>t, AnswerIsReply
    <3> QED BY <2>0, <3>1, <1>t, <1>i, <1>o, <1>v, OtherSend DEF Reply
  <2>2. CASE Park /\ UNCHANGED ioVars
    BY <2>0, <2>2, <1>t, <1>i, <1>o, <1>v, NoSend DEF Park, ioVars
  <2>3. CASE PassToSteam
    <3>1. CASE RelayNext
      BY <2>0, <3>1, <1>t, <1>i, <1>o, <1>v, RelayEchoes
    <3>2. CASE Stop /\ UNCHANGED out
      BY <2>0, <3>2, <1>t, <1>i, <1>o, <1>v, NoSend DEF Stop
    <3> QED BY <2>3, <3>1, <3>2 DEF PassToSteam
  <2> QED BY <1>4, <2>1, <2>2, <2>3 DEF HandleClient
<1>5. CASE ResumeReply
  BY <1>5, <1>t, <1>i, <1>o, <1>v, NoSend DEF ResumeReply, Park, listenerKeeps, ioVars
<1>6. CASE ResumeQuery
  <2> DEFINE q == <<CONN, "A2S_PLAYER", challenge>>
  <2>0. /\ lpc = "query" /\ lpc' = "reply" /\ UNCHANGED inbox
        /\ Send("listener", cur, Redirect, q)
    BY <1>6 DEF ResumeQuery, listenerKeeps
  <2>1. q \in Messages
    BY CellFacts, MessageFacts, <1>t DEF RequestOps, TypeOK
  <2>2. q \in EchoRequests(challenge) /\ challenge \in Cells
    BY <1>t DEF EchoRequests, TypeOK
  <2> HIDE DEF q
  <2>3. cur.data[2] = "S2C_CHALLENGE" /\ EchoOf(challenge, cur, overflow)
    BY <2>0, <1>h
  <2>4. Echoes([by |-> "listener", req |-> cur, to |-> Redirect, want |-> q], overflow)
    BY <2>2, <2>3 DEF Echoes
  <2>5. cur \in Datagrams \cup {NoDatagram}
    BY <1>t DEF TypeOK
  <2>6. AllEcho'
    BY <2>0, <2>1, <2>4, <2>5, <1>t, <1>v, EchoSend
  <2> QED BY <2>0, <2>6, <1>i, <1>o
<1>7. CASE ResumeRelay
  BY <1>7, <1>t, <1>i, <1>o, <1>v, RelayEchoes DEF ResumeRelay, listenerKeeps
<1>8. CASE ListenerFails
  BY <1>8, <1>t, <1>i, <1>o, <1>v, NoSend DEF ListenerFails, Stop, listenerKeeps
<1>9. CASE MirrorPoll
  <2>1. MirrorQuery /\ UNCHANGED <<lpc, inbox, cur, challenge>>
    BY <1>9 DEF MirrorPoll, mirrorKeeps
  <2>2. AllEcho' /\ buf'[2] = "A2S_INFO"
    BY <2>1, <1>t, <1>v, QueryEchoes
  <2>3. Handling'
    BY <2>1, <2>2, <1>h, <1>v, StillEchoes
  <2> QED BY <2>1, <2>2, <2>3, <1>i
<1>10. CASE MirrorResumes
  <2>1. UNCHANGED <<lpc, inbox, cur, challenge, buf, out, sendq>>
    BY <1>10 DEF MirrorResumes, mirrorKeeps, ioVars
  <2> QED BY <2>1, <1>t, <1>h, <1>i, <1>v, NoSend, StillEchoes DEF FromRedirect
<1>11. CASE Transmit
  <2>1. /\ sendq \in Seq(Sends) /\ sendq # <<>> /\ sendq' = Tail(sendq)
        /\ UNCHANGED <<lpc, inbox, overflow, cur, challenge, buf>>
    BY <1>11, <1>t DEF Transmit, mirrorKeeps, TypeOK
  <2>2. /\ Len(sendq') = Len(sendq) - 1 /\ Len(sendq) \in Nat \ {0}
        /\ \A i \in 1..Len(sendq') : sendq'[i] = sendq[i + 1]
        /\ Head(sendq) = sendq[1]
    BY <2>1, HeadTailProperties, EmptySeq
  <2>3. \A i \in 1..Len(sendq') : Echoes(sendq'[i], overflow)
    BY <2>2, <1>t DEF AllEcho
  <2>4. Echoes(Head(sendq), overflow)
    BY <2>2, <1>t DEF AllEcho
  <2>5. \A o \in out' : Echoes(o.send, overflow)
    BY <1>11, <2>4, <1>t DEF Transmit, AllEcho
  <2>6. AllEcho'
    BY <2>1, <2>3, <2>5 DEF AllEcho
  <2> QED BY <2>1, <2>6, <1>h, <1>i DEF FromRedirect
<1>12. CASE Arrive
  <2>1. PICK s \in Clients \cup {Redirect}, m \in Messages :
           /\ inbox' = Append(inbox, [id |-> arrivals + 1, from |-> s, data |-> m])
           /\ s = Redirect => m \in RedirectDatagrams
    BY <1>12, DataAssumption DEF Arrive
  <2> DEFINE d == [id |-> arrivals + 1, from |-> s, data |-> m]
  <2>2. Whole(d)
    BY <2>1 DEF Whole, FromRedirect, WholeMessages
  <2>3. inbox \in Seq(Datagrams) /\ d \in Datagrams
    BY <1>12, <1>t, BoundAssumption DEF Arrive, Datagrams, TypeOK
  <2>i. inbox' = Append(inbox, d)
    BY <2>1
  <2> HIDE DEF d
  <2>4. /\ Len(inbox') = Len(inbox) + 1 /\ Len(inbox) \in Nat
        /\ \A i \in 1..Len(inbox) : inbox'[i] = inbox[i]
        /\ inbox'[Len(inbox) + 1] = d
    BY <2>3, <2>i, AppendProperties, LenProperties
  <2>5. \A i \in 1..Len(inbox') : i \in 1..Len(inbox) \/ i = Len(inbox) + 1
    BY <2>4
  <2>6. \A i \in 1..Len(inbox') : Whole(inbox'[i])
    BY <2>2, <2>4, <2>5, <1>t
  <2>7. UNCHANGED <<lpc, cur, challenge, buf, out, sendq>>
    BY <1>12 DEF Arrive, ioVars
  <2> QED BY <2>6, <2>7, <1>t, <1>h, <1>v, NoSend, StillEchoes DEF FromRedirect
<1>13. CASE LogonResult \/ UNCHANGED vars
  <2>1. UNCHANGED <<lpc, inbox, cur, challenge, buf, out, sendq>>
    BY <1>13 DEF LogonResult, vars, ioVars
  <2> QED BY <2>1, <1>t, <1>h, <1>i, <1>v, NoSend, StillEchoes DEF FromRedirect
<1> HIDE DEF Handling
<1> QED
  BY <1>1, <1>2, <1>3, <1>4, <1>5, <1>6, <1>7, <1>8, <1>9, <1>10, <1>11, <1>12,
     <1>13 DEF Next, ListenerStep, MirrorStep

\* Before anything has arrived or been sent, EchoInv holds.
LEMMA EchoInit == Init => EchoInv
<1> SUFFICES ASSUME Init PROVE EchoInv
  OBVIOUS
<1>1. TypeOK
  BY TypeInit
<1>2. Len(sendq) = 0 /\ Len(inbox) = 0 /\ out = {} /\ lpc = "start"
  BY DEF Init
<1> QED BY <1>1, <1>2 DEF EchoInv, AllEcho

\* A poll that writes over a request leaves it as it was, or its own query.
LEMMA PolledRequest ==
    ASSUME NEW c, NEW m \in EchoRequests(c)
    PROVE  /\ Carries(m, c)
           /\ Carries(Polled(m), c) \/ Polled(m) = PollMessage
<1>1. CASE m = <<CONN, "A2S_INFO", KEY, c>>
  <2>1. Len(m) = 4 /\ m[4] = c
    BY <1>1
  <2>2. Len(PollMessage) = 3
    BY DEF PollMessage
  <2>3. /\ Polled(m) = [i \in 1..4 |-> IF i <= 3 THEN PollMessage[i] ELSE m[i]]
        /\ Len(Polled(m)) = 4
    BY <2>1, <2>2 DEF Polled
  <2>4. Polled(m)[4] = c
    BY <2>1, <2>3
  <2> QED BY <2>1, <2>3, <2>4 DEF Carries
<1>2. CASE m = <<CONN, "A2S_PLAYER", c>>
  <2>1. Len(m) = 3 /\ m[3] = c
    BY <1>2
  <2>2. Len(PollMessage) = 3
    BY DEF PollMessage
  <2>3. Polled(m) = [i \in 1..3 |-> PollMessage[i]]
    BY <2>1, <2>2 DEF Polled
  <2>4. Polled(m) = PollMessage
    BY <2>3 DEF PollMessage
  <2> QED BY <2>1, <2>4 DEF Carries
<1> QED BY <1>1, <1>2 DEF EchoRequests

(***************************************************************************)
(* Whatever polls and other datagrams come between, the bytes that leave   *)
(* for a challenge of a redirect server that sends whole messages carry    *)
(* that challenge, or are a poll's query, or, only once a text without an  *)
(* end has put the reader's flag up, carry 0 (ChallengeEchoed; server.hpp, *)
(* HandleA2sMessage).                                                      *)
(***************************************************************************)
THEOREM ChallengesEchoed ==
    ASSUME WholeMessages PROVE Spec => []ChallengeEchoed
<1>1. EchoInv /\ [Next]_vars => EchoInv'
  BY EchoNext
<1>2. EchoInv /\ WireIntact => ChallengeEchoed
  <2> SUFFICES ASSUME EchoInv, WireIntact, NEW o \in out,
                      o.send.req # NoDatagram, FromRedirect(o.send.req)
               PROVE  /\ o.send.req.data[2] = "S2C_CHALLENGE"
                      /\ \/ Carries(o.wire, o.send.req.data[3])
                         \/ o.wire = PollMessage
                         \/ overflow /\ Carries(o.wire, ZERO)
    BY DEF ChallengeEchoed
  <2>1. o.send.by = "listener" /\ o.send.req.data[2] = "S2C_CHALLENGE"
    BY DEF EchoInv, AllEcho, Echoes
  <2>2. PICK c \in Cells : /\ EchoOf(c, o.send.req, overflow)
                           /\ o.send.want \in EchoRequests(c)
    BY DEF EchoInv, AllEcho, Echoes
  <2>3. o.wire = o.send.want \/ o.wire = Polled(o.send.want)
    BY <2>1 DEF WireIntact
  <2>4. Carries(o.wire, c) \/ o.wire = PollMessage
    BY <2>2, <2>3, PolledRequest
  <2> QED BY <2>1, <2>2, <2>4 DEF EchoOf
<1> QED BY EchoInit, SendsIntact, <1>1, <1>2, PTL DEF Spec

\* The list that is saved is what follows the operation in the datagram.
LEMMA ListSaved ==
    ASSUME EchoInv, lpc = "received", FromRedirect(cur), buf[2] = "S2A_PLAYER"
    PROVE  /\ cur.data[2] = "S2A_PLAYER"
           /\ SavedPlayers = SubSeq(cur.data, 3, Len(cur.data))
<1> DEFINE d == cur.data
           n == Len(cur.data)
           q == SubSeq(cur.data, 3, n)
<1>1. d \in Messages /\ n \in 2..4 /\ \A i \in 1..n : d[i] = buf[i]
  BY StillReceived
<1>2. d \in [1..n -> Cells]
  BY <1>1, MessageFacts
<1>3. d \in Seq(Cells) /\ n = Len(cur.data)
  BY <1>1, <1>2
<1>4. q = SubSeq(d, 3, n)
  OBVIOUS
<1> HIDE DEF d, n, q
<1>5. q = [i \in 1..(n - 2) |-> d[i + 2]]
  BY <1>1, <1>3, <1>4
<1>6. \A i \in 1..(n - 2) : d[i + 2] = buf[i + 2]
  BY <1>1
<1>7. SavedPlayers = [i \in 1..(n - 2) |-> buf[i + 2]]
  <2>1. ~(Len(cur.data) < 2)
    <3>1. Len(cur.data) \in 2..4
      BY StillReceived
    <3>2. \A k \in 2..4 : ~(k < 2)
      OBVIOUS
    <3> QED BY <3>1, <3>2
  <2>2. SavedPlayers = [i \in 1..(Len(cur.data) - 2) |-> buf[i + 2]]
    BY <2>1 DEF SavedPlayers
  <2> QED BY <1>3, <2>2
<1>8. d[2] = buf[2]
  BY <1>1
<1>9. SavedPlayers = q
  BY <1>5, <1>6, <1>7
<1> QED BY <1>8, <1>9 DEF d, n, q

(***************************************************************************)
(* A redirect server that sends whole messages is mirrored truly, whatever *)
(* the polls that share m_Buf have written: the player list changes only to*)
(* what its datagram being handled carries, and so does the information    *)
(* until a text without an end has put the reader's flag up; from then on  *)
(* it may be misread (MirrorGenuine; server.hpp, HandleA2sMessage).        *)
(***************************************************************************)
THEOREM MirroredTruly ==
    ASSUME WholeMessages PROVE Spec => MirrorGenuine
<1> DEFINE Genuine ==
             /\ info' # info => /\ FromRedirect(cur)
                                /\ cur.data[2] = "S2A_INFO_SRC"
                                /\ \/ info' = cur.data[3]
                                   \/ overflow' /\ info' = MISREAD
             /\ players' # players =>
                    /\ FromRedirect(cur)
                    /\ cur.data[2] = "S2A_PLAYER"
                    /\ players' = SubSeq(cur.data, 3, Len(cur.data))
<1>1. EchoInv /\ [Next]_vars => EchoInv'
  BY EchoNext
<1>2. EchoInv /\ [Next]_vars => [Genuine]_vars
  <2> SUFFICES ASSUME EchoInv, Next PROVE Genuine
    OBVIOUS
  <2>1. CASE HandleRedirect
    <3>1. lpc = "received" /\ FromRedirect(cur)
      BY <2>1 DEF HandleRedirect
    <3>2. CASE UNCHANGED dataVars
      BY <3>2 DEF dataVars
    <3>3. CASE /\ buf[2] = "S2A_INFO_SRC" /\ UNCHANGED players
               /\ info' \in {buf[3]} \cup (IF overflow' THEN {MISREAD} ELSE {})
      <4>1. cur.data[2] = "S2A_INFO_SRC" /\ cur.data[3] = buf[3]
        BY <3>1, <3>3, StillReceived
      <4>2. info' = buf[3] \/ (overflow' /\ info' = MISREAD)
        BY <3>3
      <4> QED BY <3>1, <3>3, <4>1, <4>2
    <3>4. CASE buf[2] = "S2A_PLAYER" /\ players' = SavedPlayers /\ UNCHANGED info
      BY <3>1, <3>4, ListSaved
    <3> QED BY <2>1, <3>2, <3>3, <3>4 DEF HandleRedirect
  <2>2. CASE ~HandleRedirect
    <3>1. UNCHANGED dataVars
      BY <2>2 DEF Next, ListenerStep, MirrorStep, Start, Receive, HandleClient,
         ResumeReply, ResumeQuery, ResumeRelay, ListenerFails, MirrorPoll,
         MirrorResumes, Transmit, Arrive, LogonResult, listenerKeeps, mirrorKeeps
    <3> QED BY <3>1 DEF dataVars
  <2> QED BY <2>1, <2>2
<1> QED BY EchoInit, <1>1, <1>2, PTL DEF Spec, MirrorGenuine
=============================================================================
