------------------------------ MODULE Listener ------------------------------
(***************************************************************************)
(* The UDP front end of the server, Server in src/src/server.hpp: the      *)
(* listener coroutine (PrepareListenServer, HandleIncommingPacket,         *)
(* ProcessConnectionlessPacket, HandleA2sMessage) and, with -mirror, the   *)
(* polling coroutine (ProcessA2sRequest).  Both run on one thread, which   *)
(* they give up at every co_await, and both read and write one buffer,     *)
(* m_Buf, through which every datagram enters and every reply leaves.      *)
(*                                                                         *)
(* A datagram is a sequence of at most four cells: the four bytes of the   *)
(* header, the byte of the operation, the first field and the rest.  m_Buf *)
(* is always four cells: a datagram or a reply shorter than that leaves    *)
(* the last cells as they were.                                            *)
(***************************************************************************)
EXTENDS Integers, Sequences, FiniteSets

CONSTANTS
    Clients,            \* senders other than the redirect server
    Redirect,           \* m_RedirectEdp, the server named by -rdip
    Cells,              \* every value a cell can hold
    ClientDatagrams,    \* what the clients may send
    RedirectDatagrams,  \* what the redirect server may send
    SteamPackets,       \* what GetNextOutgoingPacket may return
    UninitBufs,         \* what m_Buf may hold before anything is written
    FirstInfo,          \* the server information of info_const.hpp
    HasRdip,            \* the command line has -rdip
    Mirror,             \* the command line has -mirror
    IoErrors,           \* binding and sending may fail
    SteamMayRefuse,     \* ISteamGameServer::HandleIncomingPacket may fail
    MaxArrivals,        \* bound: datagrams that ever arrive
    MaxPolls,           \* bound: polls of the mirror coroutine
    MaxOutgoing         \* bound: packets Steam hands out in all

CONN == "CONNECTIONLESS_HEADER"
KEY  == "Source Engine Query"       \* A2S_INFO_REQUEST_BODY, A2S_KEY_STRING
TINY == "tiny-csgo-client"
ENDLESS == "text without a NUL"         \* as the rest: up to the end of m_Buf
ZERO == "0"
MISREAD == "fields read out of place"
Steam == "steam"

ReplyOps == {"S2A_INFO_SRC", "S2A_PLAYER", "S2C_CHALLENGE", "S2C_CONNECTION",
             "S2C_CONNREJECT"}
RequestOps == {"A2S_INFO", "A2S_PLAYER", "A2S_GETCHALLENGE", "C2S_CONNECT"}
ReplyTexts == {"ConnectRedirectAddress", "RejectText", "MaxPlayers",
               "SERVER_CHALLENGE"}

Messages == UNION {[1..n -> Cells] : n \in 0..4}
PlayerLists == UNION {[1..n -> Cells] : n \in 0..2}

ASSUME CellsAssumption ==
    {CONN, KEY, TINY, ENDLESS, ZERO, MISREAD, FirstInfo} \cup ReplyOps
        \cup RequestOps \cup ReplyTexts \subseteq Cells
ASSUME DataAssumption ==
    /\ ClientDatagrams \subseteq Messages
    /\ RedirectDatagrams \subseteq Messages
    /\ SteamPackets \subseteq Messages \ {<<>>}    \* a length of 0 means none
    /\ UninitBufs \subseteq [1..4 -> Cells]
ASSUME OptionAssumption ==
    /\ {HasRdip, Mirror, IoErrors, SteamMayRefuse} \subseteq BOOLEAN
    /\ Mirror => HasRdip            \* sv-main.cpp refuses -mirror alone
    /\ Redirect \notin Clients
ASSUME BoundAssumption == {MaxArrivals, MaxPolls, MaxOutgoing} \subseteq Nat

VARIABLES
    lpc,        \* where the listener coroutine is suspended
    mpc,        \* where the mirror coroutine is suspended
    inbox,      \* datagrams waiting in the socket
    buf,        \* m_Buf
    latch,      \* the header word m_ReadBuf fetched at its last Seek(0)
    overflow,   \* m_ReadBuf's m_bOverflow, which Seek(0) does not clear
    cur,        \* the datagram handled: edp and m_LastReceivedPacketLength
    challenge,  \* the local of HandleA2sMessage, kept across its co_await
    sendq,      \* sends the socket would not take yet; read m_Buf when it does
    failed,     \* coroutines whose send ended in an error
    out,        \* what the server has put on the wire
    steamIn,    \* what it has handed to Steam
    info,       \* ServerInfoHolder's fields
    players,    \* its saved A2S_PLAYER response
    logOnResult,\* Steam3Server().BHasLogonResult()
    arrivals, polls, outgoing

\* A definition named X_Y is X with the slip Y in it; the specification uses none
\* of them, and the properties must tell each from the real X.

vars == <<lpc, mpc, inbox, buf, latch, overflow, cur, challenge, sendq, failed,
          out, steamIn, info, players, logOnResult, arrivals, polls, outgoing>>
ioVars == <<sendq, failed, out>>
dataVars == <<info, players>>
\* What the listener, resuming, and the mirror, leave alone.
listenerKeeps == <<mpc, inbox, overflow, cur, challenge, steamIn, dataVars,
                   logOnResult, arrivals, polls>>
mirrorKeeps == <<lpc, inbox, latch, overflow, cur, challenge, steamIn, dataVars,
                 logOnResult, arrivals, outgoing>>

Datagrams == [id : 1..MaxArrivals, from : Clients \cup {Redirect},
              data : Messages]
NoDatagram == [id |-> 0, from |-> Steam, data |-> <<>>]

\* One send: the coroutine, the datagram it answers, the destination and the
\* message composed in m_Buf.
Sends == [by : {"listener", "mirror"}, req : Datagrams \cup {NoDatagram},
          to : Clients \cup {Redirect}, want : Messages]
\* What left the process for one send.
Outputs == [send : Sends, wire : Messages]

Overlay(b, m) == [i \in 1..4 |-> IF i <= Len(m) THEN m[i] ELSE b[i]]
Cut(b, m) == [i \in 1..Len(m) |-> b[i]]
\* CBitRead::Seek(0) fetches the first word of the buffer there and then.
Fetched(b) == b[1]
FromRedirect(d) == Mirror /\ d.from = Redirect
Ready(c) == c \notin failed /\ \A i \in 1..Len(sendq) : sendq[i].by # c

Init ==
    /\ lpc = "start" /\ mpc = "off"
    /\ inbox = <<>> /\ sendq = <<>> /\ failed = {} /\ out = {}
    /\ steamIn = {}
    /\ buf \in UninitBufs /\ latch = Fetched(buf) /\ overflow = FALSE
    /\ cur = NoDatagram /\ challenge = CONN
    /\ info = FirstInfo /\ players = <<>>
    /\ logOnResult \in BOOLEAN
    /\ arrivals = 0 /\ polls = 0 /\ outgoing = 0

-----------------------------------------------------------------------------
(* Steps shared by the handlers.                                           *)

\* async_send_to of message m: the socket takes the bytes at once, or, when it
\* is full or a send is queued already, later, from what m_Buf holds then; or
\* the send ends in an error.
Send(by, req, to, m) ==
    LET s == [by |-> by, req |-> req, to |-> to, want |-> m] IN
    /\ buf' = Overlay(buf, m)
    /\ \/ /\ sendq = <<>>
          /\ out' = out \cup {[send |-> s, wire |-> Cut(buf', m)]}
          /\ UNCHANGED <<sendq, failed>>
       \/ /\ sendq' = Append(sendq, s)
          /\ UNCHANGED <<failed, out>>
       \/ /\ IoErrors
          /\ failed' = failed \cup {by}
          /\ UNCHANGED <<sendq, out>>

\* The top of HandleIncommingPacket's loop: m_ReadBuf.Seek(0), and only then the
\* wait for the next datagram.
Park ==
    /\ lpc' = "wait"
    /\ latch' = Fetched(buf)

\* The listener coroutine ends: its socket is destroyed, which aborts the sends
\* still queued on it.
Stop ==
    /\ lpc' = "done"
    /\ sendq' = <<>>
    /\ failed' = failed \cup {sendq[i].by : i \in 1..Len(sendq)}

\* A reply of ProcessConnectionlessPacket to the datagram being handled.
Reply(m) ==
    /\ Send("listener", cur, cur.from, m)
    /\ lpc' = "reply"
    /\ UNCHANGED latch

\* GetNextOutgoingPacket until it has none, each packet sent from m_Buf.
RelayNext ==
    \/ /\ Park
       /\ UNCHANGED <<buf, ioVars, outgoing>>
    \/ /\ outgoing < MaxOutgoing
       /\ \E p \in SteamPackets, to \in Clients :
             Send("listener", NoDatagram, to, p)
       /\ outgoing' = outgoing + 1
       /\ lpc' = "relay"
       /\ UNCHANGED latch

\* ProcessConnectionlessPacket returned false: Steam gets the packet, and its
\* refusal ends the listener.
PassToSteam_AfterRelay ==
    /\ RelayNext
    /\ steamIn' = steamIn \cup {[req |-> cur, wire |-> Cut(buf', cur.data)]}
PassToSteam ==
    /\ steamIn' = steamIn \cup {[req |-> cur, wire |-> Cut(buf, cur.data)]}
    /\ \/ RelayNext
       \/ /\ SteamMayRefuse
          /\ Stop
          /\ UNCHANGED <<buf, latch, out, outgoing>>

-----------------------------------------------------------------------------
(* The listener coroutine.                                                 *)

\* ProcessA2sRequest's loop body up to its co_await: the A2S_INFO query.
PollMessage == <<CONN, "A2S_INFO", KEY>>
MirrorQuery ==
    /\ polls < MaxPolls
    /\ Send("mirror", NoDatagram, Redirect, PollMessage)
    /\ mpc' = "sending"
    /\ polls' = polls + 1

\* PrepareListenServer.  co_spawn either posts the mirror coroutine, which then
\* runs once the listener waits, or runs it at once up to its first co_await.
Start ==
    /\ lpc = "start"
    /\ \/ /\ ~Mirror
          /\ Park
          /\ UNCHANGED <<mpc, buf, ioVars, polls>>
       \/ /\ Mirror
          /\ Park
          /\ mpc' = "ready"
          /\ UNCHANGED <<buf, ioVars, polls>>
       \/ /\ Mirror
          /\ MirrorQuery
          /\ lpc' = "wait"
          /\ latch' = Fetched(buf')
       \/ /\ IoErrors
          /\ Stop
          /\ UNCHANGED <<mpc, buf, latch, out, polls>>
    /\ UNCHANGED <<inbox, overflow, cur, challenge, steamIn, dataVars,
                   logOnResult, arrivals, outgoing>>

\* async_wait has reported a datagram and async_receive_from copies it into
\* m_Buf; the coroutine is resumed later, after whatever was queued before it.
Receive ==
    /\ lpc = "wait" /\ mpc # "ready" /\ inbox # <<>>
    /\ lpc' = "received"
    /\ cur' = Head(inbox)
    /\ inbox' = Tail(inbox)
    /\ buf' = Overlay(buf, Head(inbox).data)
    /\ UNCHANGED <<mpc, latch, overflow, challenge, ioVars, steamIn, dataVars,
                   logOnResult, arrivals, polls, outgoing>>

\* ReadString of the first field does not find its end in m_Buf.
RunsOff == buf[3] = ENDLESS /\ buf[4] = ENDLESS

\* ReadLong behind the operation takes its bits from two words; once the flag is
\* up, such a read gives 0.
ReadChallenge == IF overflow THEN ZERO ELSE buf[3]

\* SaveA2sPlayerResponse of what follows the operation.  A datagram that ends
\* before the operation gives a length below zero, which is taken for one that
\* is too large.
SavedPlayers_WithHeader == buf
SavedPlayers_OffByOne == [i \in 1..(Len(cur.data) - 1) |-> buf[i + 1]]
SavedPlayers ==
    IF Len(cur.data) < 2 THEN players
    ELSE [i \in 1..(Len(cur.data) - 2) |-> buf[i + 2]]

\* HandleA2sMessage up to its first co_await.  With the flag up, a number of the
\* server information that lies in two words is read as 0 and loses the place of
\* what follows; which numbers do depends on the lengths of the names.
HandleRedirect ==
    /\ lpc = "received" /\ FromRedirect(cur)
    /\ \/ /\ latch = CONN /\ buf[2] = "S2C_CHALLENGE"
          /\ challenge' = ReadChallenge
          /\ Send("listener", cur, Redirect,
                  <<CONN, "A2S_INFO", KEY, ReadChallenge>>)
          /\ lpc' = "query"
          /\ UNCHANGED <<latch, overflow, dataVars>>
       \/ /\ latch = CONN /\ buf[2] = "S2A_INFO_SRC"
          /\ overflow' = (overflow \/ RunsOff)
          /\ info' \in {buf[3]} \cup (IF overflow' THEN {MISREAD} ELSE {})
          /\ Park
          /\ UNCHANGED <<buf, challenge, ioVars, players>>
       \/ /\ latch = CONN /\ buf[2] = "S2A_PLAYER"
          /\ players' = SavedPlayers
          /\ Park
          /\ UNCHANGED <<buf, overflow, challenge, ioVars, info>>
       \/ /\ \/ latch # CONN
             \/ buf[2] \notin {"S2C_CHALLENGE", "S2A_INFO_SRC", "S2A_PLAYER"}
          /\ Park
          /\ UNCHANGED <<buf, overflow, challenge, ioVars, dataVars>>
    /\ UNCHANGED <<mpc, inbox, cur, steamIn, logOnResult, arrivals, polls,
                   outgoing>>

\* ProcessConnectionlessPacket up to its co_await.
AnswerInfo ==
    /\ buf[2] = "A2S_INFO" /\ buf[3] = KEY
    /\ Reply(<<CONN, "S2A_INFO_SRC", info>>)

AnswerPlayer_FallThrough ==
    /\ buf[2] = "A2S_PLAYER" \/ buf[2] = "A2S_INFO"
    /\ Reply(<<CONN, "S2A_PLAYER", "MaxPlayers">>)
AnswerPlayer ==
    /\ buf[2] = "A2S_PLAYER"
    /\ Reply(<<CONN, "S2A_PLAYER">> \o
             IF players = <<>> THEN <<"MaxPlayers">> ELSE players)

AnswerGetChallenge ==
    /\ buf[2] = "A2S_GETCHALLENGE" /\ logOnResult
    /\ IF buf[3] = TINY
       THEN \E result \in {"S2C_CONNECTION", "S2C_CONNREJECT"} :
               Reply(<<CONN, result>>)          \* BeginAuthSession's result
       ELSE IF HasRdip
       THEN Reply(<<CONN, "S2C_CONNREJECT", "ConnectRedirectAddress">>)
       ELSE Reply(<<CONN, "S2C_CHALLENGE", "SERVER_CHALLENGE">>)

AnswerConnect ==
    /\ buf[2] = "C2S_CONNECT"
    /\ Reply(<<CONN, "S2C_CONNREJECT",
               IF HasRdip THEN "ConnectRedirectAddress" ELSE "RejectText">>)

\* A2S_GETCHALLENGE before Steam has answered the logon: the switch is left by
\* break and the coroutine ends without co_return; the bool its caller reads was
\* never written.  False goes on to Steam, true to the next datagram.
NoLogonResult == buf[2] = "A2S_GETCHALLENGE" /\ ~logOnResult

\* The operations with a string that ProcessConnectionlessPacket reads.
ReadsString ==
    \/ buf[2] = "A2S_INFO"
    \/ buf[2] = "A2S_GETCHALLENGE" /\ logOnResult

HandleClient ==
    /\ lpc = "received" /\ ~FromRedirect(cur)
    /\ overflow' = (overflow \/ (latch = CONN /\ ReadsString /\ RunsOff))
    /\ \/ /\ latch = CONN
          /\ AnswerInfo \/ AnswerPlayer \/ AnswerGetChallenge \/ AnswerConnect
          /\ UNCHANGED <<steamIn, outgoing>>
       \/ /\ latch = CONN /\ NoLogonResult
          /\ Park
          /\ UNCHANGED <<buf, ioVars, steamIn, outgoing>>
       \/ /\ \/ latch # CONN
             \/ NoLogonResult
             \/ buf[2] \notin RequestOps
             \/ buf[2] = "A2S_INFO" /\ buf[3] # KEY
          /\ PassToSteam
    /\ UNCHANGED <<mpc, inbox, cur, challenge, dataVars, logOnResult,
                   arrivals, polls>>

\* The handler's last send is over: the next datagram.
ResumeReply_NotAwaited ==
    /\ lpc = "reply"
    /\ Park
    /\ UNCHANGED <<listenerKeeps, buf, ioVars, outgoing>>
ResumeReply ==
    /\ lpc = "reply" /\ Ready("listener")
    /\ Park
    /\ UNCHANGED <<listenerKeeps, buf, ioVars, outgoing>>

\* HandleA2sMessage between its two co_awaits: the A2S_PLAYER request.
ResumeQuery_NotAwaited ==
    /\ lpc = "query"
    /\ Send("listener", cur, Redirect, <<CONN, "A2S_PLAYER", challenge>>)
    /\ lpc' = "reply"
    /\ UNCHANGED <<listenerKeeps, latch, outgoing>>
ResumeQuery_Reread ==
    /\ lpc = "query" /\ Ready("listener")
    /\ Send("listener", cur, Redirect, <<CONN, "A2S_PLAYER", buf[3]>>)
    /\ lpc' = "reply"
    /\ UNCHANGED <<listenerKeeps, latch, outgoing>>
ResumeQuery ==
    /\ lpc = "query" /\ Ready("listener")
    /\ Send("listener", cur, Redirect, <<CONN, "A2S_PLAYER", challenge>>)
    /\ lpc' = "reply"
    /\ UNCHANGED <<listenerKeeps, latch, outgoing>>

\* The send of one of Steam's packets is over: the next of them.
ResumeRelay ==
    /\ lpc = "relay" /\ Ready("listener")
    /\ RelayNext
    /\ UNCHANGED listenerKeeps

\* A send of the listener failed: the exception ends the coroutine, which was
\* spawned detached.
ListenerFails_Ignored == FALSE
ListenerFails ==
    /\ "listener" \in failed /\ lpc # "done"
    /\ Stop
    /\ UNCHANGED <<listenerKeeps, buf, latch, out, outgoing>>

-----------------------------------------------------------------------------
(* The mirror coroutine.                                                   *)

\* The first poll, and one every ten seconds.
MirrorPoll ==
    /\ \/ mpc = "ready"
       \/ mpc = "sleep" /\ lpc # "done"
    /\ MirrorQuery
    /\ UNCHANGED mirrorKeeps

\* The poll has been sent; or its send failed, which ends the coroutine; or the
\* timer fires when the listener has ended, and with it the socket the coroutine
\* refers to.
MirrorResumes_OneShot ==
    /\ mpc = "sending" /\ mpc' = "done"
    /\ Ready("mirror") \/ "mirror" \in failed
    /\ UNCHANGED <<mirrorKeeps, buf, ioVars, polls>>
MirrorResumes ==
    /\ \/ mpc = "sending" /\ Ready("mirror") /\ mpc' = "sleep"
       \/ mpc = "sending" /\ "mirror" \in failed /\ mpc' = "done"
       \/ mpc = "sleep" /\ lpc = "done" /\ mpc' = "orphaned"
    /\ UNCHANGED <<mirrorKeeps, buf, ioVars, polls>>

-----------------------------------------------------------------------------
(* The socket, the network and Steam.                                      *)

\* The socket takes the oldest queued send, from m_Buf as it is by now, or
\* reports an error for it.
Transmit ==
    /\ sendq # <<>>
    /\ sendq' = Tail(sendq)
    /\ \/ /\ out' = out \cup {[send |-> Head(sendq),
                               wire |-> Cut(buf, Head(sendq).want)]}
          /\ UNCHANGED failed
       \/ /\ IoErrors
          /\ failed' = failed \cup {Head(sendq).by}
          /\ UNCHANGED out
    /\ UNCHANGED <<mirrorKeeps, mpc, buf, polls>>

\* A datagram reaches the socket once it is bound.
Arrive ==
    /\ lpc \notin {"start", "done"} /\ arrivals < MaxArrivals
    /\ \E s \in Clients \cup {Redirect} :
         \E m \in IF s = Redirect THEN RedirectDatagrams ELSE ClientDatagrams :
            inbox' = Append(inbox, [id |-> arrivals + 1, from |-> s,
                                    data |-> m])
    /\ arrivals' = arrivals + 1
    /\ UNCHANGED <<lpc, mpc, buf, latch, overflow, cur, challenge, ioVars,
                   steamIn, dataVars, logOnResult, polls, outgoing>>

\* RunFrame runs Steam's logon callback.
LogonResult ==
    /\ ~logOnResult
    /\ logOnResult' = TRUE
    /\ UNCHANGED <<lpc, mpc, inbox, buf, latch, overflow, cur, challenge, ioVars,
                   steamIn, dataVars, arrivals, polls, outgoing>>

-----------------------------------------------------------------------------
ListenerStep ==
    \/ Start \/ Receive \/ HandleRedirect \/ HandleClient
    \/ ResumeReply \/ ResumeQuery \/ ResumeRelay \/ ListenerFails
MirrorStep == MirrorPoll \/ MirrorResumes

Next ==
    \/ ListenerStep \/ MirrorStep
    \/ Transmit \/ Arrive \/ LogonResult

Spec == Init /\ [][Next]_vars

\* The event loop runs every handler that is ready, timers fire, and a socket
\* whose send buffer is full drains.  Nothing makes a datagram arrive.
Fairness ==
    /\ WF_vars(ListenerStep)
    /\ WF_vars(MirrorStep)
    /\ WF_vars(Transmit)
FairSpec == Spec /\ Fairness

-----------------------------------------------------------------------------
(* Properties.                                                             *)

TypeOK ==
    /\ lpc \in {"start", "wait", "received", "reply", "query", "relay", "done"}
    /\ mpc \in {"off", "ready", "sending", "sleep", "done", "orphaned"}
    /\ inbox \in Seq(Datagrams)
    /\ buf \in [1..4 -> Cells] /\ latch \in Cells /\ overflow \in BOOLEAN
    /\ cur \in Datagrams \cup {NoDatagram} /\ challenge \in Cells
    /\ lpc = "received" => cur \in Datagrams
    /\ sendq \in Seq(Sends) /\ failed \subseteq {"listener", "mirror"}
    /\ out \subseteq Outputs
    /\ steamIn \subseteq [req : Datagrams \cup {NoDatagram}, wire : Messages]
    /\ info \in Cells /\ players \in PlayerLists
    /\ logOnResult \in BOOLEAN
    /\ arrivals \in 0..MaxArrivals /\ polls \in 0..MaxPolls
    /\ outgoing \in 0..MaxOutgoing

\* What is left of message m in m_Buf after a poll.
Polled(m) == [i \in 1..Len(m) |->
                IF i <= Len(PollMessage) THEN PollMessage[i] ELSE m[i]]

(***************************************************************************)
(* What the listener puts on the wire is the message it composed for that  *)
(* send, even when the socket took it late and m_Buf was to be used again; *)
(* only the mirror coroutine can come between, and then the bytes are those*)
(* of its own query.  server.hpp: every co_await async_send_to.            *)
(***************************************************************************)
WireIntact ==
    \A o \in out :
        o.send.by = "listener" =>
            \/ o.wire = o.send.want
            \/ Mirror /\ o.wire = Polled(o.send.want)

\* Its inductive form: the listener has at most the one send it waits for in the
\* queue, and m_Buf still holds that message, or what a poll left of it.
Holds(b, m) == Cut(b, m) = m \/ (Mirror /\ Cut(b, m) = Polled(m))
WireInv ==
    /\ TypeOK
    /\ WireIntact
    /\ \A i \in 1..Len(sendq) :
          sendq[i].by = "listener" =>
              /\ lpc \in {"reply", "query", "relay"}
              /\ Holds(buf, sendq[i].want)
    /\ ~Mirror => mpc = "off"

(***************************************************************************)
(* Without -mirror Steam is handed each packet exactly as it arrived: no   *)
(* path that ends in HandleIncomingPacket has written to m_Buf since.      *)
(***************************************************************************)
SteamIntact == ~Mirror => \A s \in steamIn : s.wire = s.req.data

(***************************************************************************)
(* Without -mirror, once one datagram has been handled and if every sender *)
(* keeps to connectionless packets, each connection request is rejected:   *)
(* when the listener waits again, its C2S_CONNREJECT has left for the      *)
(* client (README: the server rejects or redirects every request).         *)
(***************************************************************************)
AllConnectionless ==
    \A m \in ClientDatagrams \cup RedirectDatagrams \cup SteamPackets :
        m # <<>> /\ m[1] = CONN
Rejected(d) ==
    \E o \in out : /\ o.send.req = d /\ o.send.to = d.from
                   /\ Len(o.wire) >= 2 /\ o.wire[2] = "S2C_CONNREJECT"
IsConnect(d) == Len(d.data) >= 2 /\ d.data[2] = "C2S_CONNECT"
LaterConnectRejected ==
    (~Mirror /\ AllConnectionless) =>
        (lpc = "wait" /\ cur.id >= 2 /\ IsConnect(cur) => Rejected(cur))

(***************************************************************************)
(* Every connection request is rejected: what README promises, with no     *)
(* condition.  README "-rdip".                                             *)
(***************************************************************************)
ConnectRejected ==
    lpc = "wait" /\ IsConnect(cur) /\ cur.data[1] = CONN => Rejected(cur)

(***************************************************************************)
(* The mirrored server information and player list change only to what the *)
(* redirect server sent in the datagram being handled, although the mirror *)
(* coroutine writes to the buffer that datagram was received into before   *)
(* the listener reads it.  The information, not the list, may be misread   *)
(* once a text without an end, of a client's or of its own, has put the    *)
(* reader's overflow flag up.  It holds as long as the redirect server     *)
(* sends whole messages.  server.hpp, HandleA2sMessage.                    *)
(***************************************************************************)
MirrorGenuine ==
    [][/\ info' # info => /\ FromRedirect(cur)
                          /\ cur.data[2] = "S2A_INFO_SRC"
                          /\ \/ info' = cur.data[3]
                             \/ overflow' /\ info' = MISREAD
       /\ players' # players =>
              /\ FromRedirect(cur)
              /\ cur.data[2] = "S2A_PLAYER"
              /\ players' = SubSeq(cur.data, 3, Len(cur.data))]_vars

(***************************************************************************)
(* What leaves the socket for a challenge of the redirect server carries   *)
(* that challenge, although polls write to the buffer, and reset the       *)
(* writer, around the two sends of HandleA2sMessage; or it is, after all,  *)
(* a poll's query; or it carries 0, and the reader's overflow flag is up:  *)
(* nothing lowers it again.  server.hpp, HandleA2sMessage.                 *)
(***************************************************************************)
Carries(wire, c) == wire[Len(wire)] = c
ChallengeEchoed ==
    \A o \in out :
        (o.send.req # NoDatagram /\ FromRedirect(o.send.req)) =>
            /\ o.send.req.data[2] = "S2C_CHALLENGE"
            /\ \/ Carries(o.wire, o.send.req.data[3])
               \/ o.wire = PollMessage
               \/ overflow /\ Carries(o.wire, ZERO)

(***************************************************************************)
(* Every datagram that reaches the socket is handled to the end, or the    *)
(* listener has stopped: no wait for a send, and no poll, keeps it from    *)
(* coming back to the socket.  server.hpp, HandleIncommingPacket.          *)
(***************************************************************************)
HandledToTheEnd(n) == cur.id > n \/ (cur.id = n /\ lpc = "wait")
EachHandled ==
    \A n \in 1..MaxArrivals :
        (arrivals >= n) ~> (lpc = "done" \/ HandledToTheEnd(n))

(***************************************************************************)
(* Polls go on ("updated every 10 seconds", README) until one of their own *)
(* sends has failed or the listener has stopped: neither what is received  *)
(* meanwhile nor a queue of sends in front of them ends or holds them up.  *)
(* server.hpp, ProcessA2sRequest.                                          *)
(***************************************************************************)
PollsGoOn ==
    \A n \in 1..(MaxPolls - 1) :
        (polls = n) ~> (polls > n \/ "mirror" \in failed \/ lpc = "done")

-----------------------------------------------------------------------------
(* Without -mirror the listener implements QueryService.                   *)

\* A datagram too short to hold an operation is answered for whatever m_Buf held
\* in that place.
Kind(d) == IF Len(d.data) >= 2 THEN d.data[2] ELSE "partial"
AnswersTo == [k \in Cells \cup {"partial"} |->
                CASE k = "A2S_INFO"         -> {"S2A_INFO_SRC"}
                  [] k = "A2S_PLAYER"       -> {"S2A_PLAYER"}
                  [] k = "A2S_GETCHALLENGE" -> {"S2C_CHALLENGE", "S2C_CONNECTION",
                                                "S2C_CONNREJECT"}
                  [] k = "C2S_CONNECT"      -> {"S2C_CONNREJECT"}
                  [] k = "partial"          -> ReplyOps
                  [] OTHER                  -> {}]

Request(d) == [id |-> d.id, from |-> d.from, kind |-> Kind(d)]
\* The datagram handled is pending until its answer has left the socket.
Unanswered ==
    \/ lpc = "received"
    \/ lpc = "reply" /\ ~Ready("listener")
Waiting == (IF Unanswered THEN <<cur>> ELSE <<>>) \o inbox
Requests(w) == [i \in 1..Len(w) |-> Request(w[i])]
AnswerOf(o) == [id |-> o.send.req.id, to |-> o.send.to, kind |-> o.wire[2]]

Phase == CASE lpc = "start" -> "new"
           [] lpc = "done"  -> "closed"
           [] OTHER         -> "open"
Pending == IF lpc = "done" THEN <<>> ELSE Requests(Waiting)
Answered == {AnswerOf(o) : o \in {o \in out : o.send.req # NoDatagram}}

Service == INSTANCE QueryService WITH
    Sources <- Clients \cup {Redirect},
    Kinds <- Cells \cup {"partial"},
    Answers <- AnswersTo,
    phase <- Phase,
    asked <- arrivals,
    pending <- Pending,
    answered <- Answered

(***************************************************************************)
(* Every request is answered at most once, in the order of arrival, to its *)
(* sender, with an answer of the kind asked for and composed after it was  *)
(* received, or is passed over (server.hpp, HandleIncommingPacket).        *)
(***************************************************************************)
ServesQueries == Service!Spec

(***************************************************************************)
(* No request stays in the socket, or half handled, for ever.              *)
(***************************************************************************)
ServesEventually == Service!FairSpec
=============================================================================
