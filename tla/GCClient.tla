------------------------------ MODULE GCClient ------------------------------
(***************************************************************************)
(* The connection with the game coordinator (GC), src/src/GCClient.hpp.    *)
(* The main thread first shakes hands, sending hellos and taking messages  *)
(* off Steam's queue itself until it gets a welcome; then it starts a      *)
(* thread that takes them from there on and answers each connection status *)
(* with a hello.  The thread runs the same SendHello as the main thread:   *)
(* m_AsyncReceive alone keeps it from starting a handshake of its own.     *)
(***************************************************************************)
EXTENDS Integers, Sequences

CONSTANTS
    MaxRetry,       \* hellos of a handshake: 120 in the code
    MaxStatuses,    \* bound: connection statuses the GC sends
    MaxOthers       \* bound: other messages

ASSUME BoundAssumption == {MaxRetry, MaxStatuses, MaxOthers} \subseteq Nat

\* What may go wrong: SendMessage and RetrieveMessage of ISteamGameCoordinator may
\* fail, and the GC may leave a hello unanswered.
Faults == {"send", "retrieve", "ignore"}

\* The threads Init(true) and StartAsyncReceiving start.
Threads == {"init", "async"}
Receivers == {"main"} \cup Threads

VARIABLES
    pc,             \* where each thread is
    hand,           \* the welcome each has retrieved, its cookie not yet stored
    retry,          \* the local of each thread's SendHello
    reservationCookie, asyncReceive, asyncRecvRunning,  \* GCClient's members
    toServer,       \* messages from the GC, queued in Steam
    hellos,         \* hellos on their way to the GC
    up,             \* the GC has a session with this server
    issued,         \* welcomes the GC has sent, numbered as they are sent
    statuses, others,
    faults,         \* those of Faults that this run of the program meets
    statusesTaken,  \* connection statuses the threads have taken
    threadHellos    \* hellos they have tried to send

\* A definition named X_Y is X with the slip Y in it; the specification uses none
\* of them, and the properties must tell each from the real X.

clientVars == <<reservationCookie, asyncReceive, asyncRecvRunning>>
gcVars == <<up, issued, statuses, others, faults>>
counts == <<statusesTaken, threadHellos>>
vars == <<pc, hand, retry, clientVars, toServer, hellos, gcVars, counts>>

Welcomes == [kind : {"Welcome"}, cookie : Nat \ {0}]
Status == [kind |-> "ConnectionStatus"]
Other == [kind |-> "other"]         \* another type, or no protobuf message
Messages == Welcomes \cup {Status, Other}

Init ==
    /\ pc = [r \in Receivers |-> IF r = "main" THEN "init" ELSE "off"]
    /\ hand = [r \in Receivers |-> 0] /\ retry = [r \in Receivers |-> 0]
    /\ reservationCookie = 0
    /\ asyncReceive = FALSE /\ asyncRecvRunning = FALSE
    /\ toServer = <<>> /\ hellos = 0
    /\ up = FALSE /\ issued = 0 /\ statuses = 0 /\ others = 0
    /\ faults \in SUBSET Faults
    /\ statusesTaken = 0 /\ threadHellos = 0

-----------------------------------------------------------------------------
(* GCClient.                                                               *)

Goto(r, l) == pc' = [pc EXCEPT ![r] = l]
\* Where SendHello and OnGCMessageAvailable return to.
Caller(r) == IF r = "main" THEN "switch" ELSE "poll"

\* SendMessageToGC of a hello; a failure is printed and forgotten.
Hello(r) ==
    /\ hellos' = hellos + 1 \/ ("send" \in faults /\ hellos' = hellos)
    /\ threadHellos' = IF r = "main" THEN threadHellos ELSE threadHellos + 1
    /\ UNCHANGED statusesTaken

GCInit(async) ==
    /\ pc["main"] = "init"
    /\ pc' = [pc EXCEPT !["main"] = "hello",
                        !["init"] = IF async THEN "poll" ELSE @]
    /\ asyncReceive' = async
    /\ UNCHANGED <<hand, retry, reservationCookie, asyncRecvRunning, toServer,
                   hellos, gcVars, counts>>
InitializeServer_Async == GCInit(TRUE)
InitializeServer == GCInit(FALSE)

\* SendHello up to its loop.
SendHello(r) ==
    /\ pc[r] = "hello"
    /\ Hello(r)
    /\ retry' = [retry EXCEPT ![r] = 0]
    /\ Goto(r, IF asyncReceive THEN Caller(r) ELSE "receive")
    /\ UNCHANGED <<hand, clientVars, toServer, gcVars>>

\* SendHello's inner loop takes a message; an error ends the handshake.
Take_AnyEnds(r) ==
    /\ pc[r] = "receive" /\ toServer # <<>>
    /\ toServer' = Tail(toServer)
    /\ IF Head(toServer).kind = "Welcome"
       THEN hand' = [hand EXCEPT ![r] = Head(toServer).cookie] /\ Goto(r, "store")
       ELSE UNCHANGED hand /\ Goto(r, Caller(r))
    /\ UNCHANGED <<retry, clientVars, hellos, gcVars, counts>>
Take(r) ==
    /\ pc[r] = "receive" /\ toServer # <<>>
    /\ \/ /\ toServer' = Tail(toServer)
          /\ IF Head(toServer).kind = "Welcome"
             THEN hand' = [hand EXCEPT ![r] = Head(toServer).cookie] /\ Goto(r, "store")
             ELSE UNCHANGED <<hand, pc>>
       \/ /\ "retrieve" \in faults
          /\ toServer' \in {toServer, Tail(toServer)}
          /\ Goto(r, Caller(r))
          /\ UNCHANGED hand
    /\ UNCHANGED <<retry, clientVars, hellos, gcVars, counts>>

\* Its outer loop, when no message is left: another hello and half a second.
Resend_Uncounted(r) ==
    /\ pc[r] = "receive" /\ toServer = <<>>
    /\ Hello(r)
    /\ UNCHANGED <<pc, hand, retry, clientVars, toServer, gcVars>>
Resend_OffByOne(r) ==
    /\ pc[r] = "receive" /\ toServer = <<>>
    /\ Hello(r)
    /\ retry' = [retry EXCEPT ![r] = @ + 1]
    /\ Goto(r, IF retry[r] > MaxRetry THEN Caller(r) ELSE "receive")
    /\ UNCHANGED <<hand, clientVars, toServer, gcVars>>
Resend(r) ==
    /\ pc[r] = "receive" /\ toServer = <<>>
    /\ Hello(r)
    /\ retry' = [retry EXCEPT ![r] = @ + 1]
    /\ Goto(r, IF retry[r] + 1 > MaxRetry THEN Caller(r) ELSE "receive")
    /\ UNCHANGED <<hand, clientVars, toServer, gcVars>>

\* The welcome's cookie is stored; in SendHello this also ends the handshake.
Store_NoBreak(r) ==
    /\ pc[r] = "store"
    /\ reservationCookie' = hand[r]
    /\ Goto(r, Caller(r))
    /\ toServer' = IF r = "main" THEN <<>> ELSE toServer
    /\ UNCHANGED <<hand, retry, asyncReceive, asyncRecvRunning, hellos, gcVars, counts>>
Store(r) ==
    /\ pc[r] = "store"
    /\ reservationCookie' = hand[r]
    /\ Goto(r, Caller(r))
    /\ UNCHANGED <<hand, retry, asyncReceive, asyncRecvRunning, toServer, hellos,
                   gcVars, counts>>

\* The flag is set, then the thread is started, unless one has been already.
SwitchToAsync_ThreadFirst ==
    \/ /\ pc["main"] = "switch"
       /\ pc' = [pc EXCEPT !["main"] = "start", !["async"] = "poll"]
       /\ asyncRecvRunning' = TRUE
       /\ UNCHANGED <<hand, retry, reservationCookie, asyncReceive, toServer,
                      hellos, gcVars, counts>>
    \/ /\ pc["main"] = "start" /\ Goto("main", "run")
       /\ asyncReceive' = TRUE
       /\ UNCHANGED <<hand, retry, reservationCookie, asyncRecvRunning, toServer,
                      hellos, gcVars, counts>>
SwitchToAsync ==
    \/ /\ pc["main"] = "switch" /\ Goto("main", "start")
       /\ asyncReceive' = TRUE
       /\ UNCHANGED <<hand, retry, reservationCookie, asyncRecvRunning, toServer,
                      hellos, gcVars, counts>>
    \/ /\ pc["main"] = "start"
       /\ pc' = [pc EXCEPT !["main"] = "run",
                           !["async"] = IF asyncRecvRunning THEN @ ELSE "poll"]
       /\ asyncRecvRunning' = TRUE
       /\ UNCHANGED <<hand, retry, reservationCookie, asyncReceive, toServer,
                      hellos, gcVars, counts>>

\* A thread's loop: OnGCMessageAvailable.
OnGCMessageAvailable(t) ==
    /\ pc[t] = "poll" /\ toServer # <<>>
    /\ \/ /\ toServer' = Tail(toServer)
          /\ \/ /\ Head(toServer).kind = "Welcome"
                /\ hand' = [hand EXCEPT ![t] = Head(toServer).cookie]
                /\ Goto(t, "store")
                /\ UNCHANGED statusesTaken
             \/ /\ Head(toServer).kind = "ConnectionStatus"
                /\ statusesTaken' = statusesTaken + 1
                /\ Goto(t, "hello")
                /\ UNCHANGED hand
             \/ /\ Head(toServer).kind = "other"
                /\ UNCHANGED <<hand, pc, statusesTaken>>
       \/ /\ "retrieve" \in faults
          /\ toServer' \in {toServer, Tail(toServer)}
          /\ UNCHANGED <<hand, pc, statusesTaken>>
    /\ UNCHANGED <<retry, clientVars, hellos, gcVars, threadHellos>>

-----------------------------------------------------------------------------
(* The GC.                                                                 *)

GCAnswers ==
    /\ hellos > 0 /\ hellos' = hellos - 1
    /\ \/ /\ up' = TRUE
          /\ issued' = issued + 1
          /\ toServer' = Append(toServer, [kind |-> "Welcome", cookie |-> issued + 1])
       \/ /\ "ignore" \in faults
          /\ UNCHANGED <<up, issued, toServer>>
    /\ UNCHANGED <<pc, hand, retry, clientVars, statuses, others, faults, counts>>
\* It reports the status of the session, which it may have lost.
GCReports ==
    /\ up /\ statuses < MaxStatuses
    /\ statuses' = statuses + 1
    /\ up' \in BOOLEAN
    /\ toServer' = Append(toServer, Status)
    /\ UNCHANGED <<pc, hand, retry, clientVars, hellos, issued, others, faults, counts>>
GCSendsOther ==
    /\ others < MaxOthers
    /\ others' = others + 1
    /\ toServer' = Append(toServer, Other)
    /\ UNCHANGED <<pc, hand, retry, clientVars, hellos, up, issued, statuses, faults,
                   counts>>

-----------------------------------------------------------------------------
Step(r) == SendHello(r) \/ Take(r) \/ Resend(r) \/ Store(r)
MainStep == InitializeServer \/ Step("main") \/ SwitchToAsync
ThreadStep(t) == Step(t) \/ OnGCMessageAvailable(t)
GCStep == GCAnswers \/ GCReports \/ GCSendsOther

Next == MainStep \/ (\E t \in Threads : ThreadStep(t)) \/ GCStep

Spec == Init /\ [][Next]_vars

\* Both threads run on, and their sleeps end; the GC gets round to every hello.
FairSpec ==
    /\ Spec
    /\ WF_vars(MainStep) /\ WF_vars(\E t \in Threads : ThreadStep(t))
    /\ WF_vars(GCAnswers)

-----------------------------------------------------------------------------
(* Properties.                                                             *)

TypeOK ==
    /\ pc \in [Receivers -> {"init", "off", "hello", "receive", "store", "switch",
                             "start", "run", "poll"}]
    /\ hand \in [Receivers -> Nat]
    /\ retry \in [Receivers -> 0..(MaxRetry + 1)]
    /\ reservationCookie \in Nat
    /\ asyncReceive \in BOOLEAN /\ asyncRecvRunning \in BOOLEAN
    /\ toServer \in Seq(Messages)
    /\ hellos \in Nat /\ issued \in Nat /\ up \in BOOLEAN
    /\ statuses \in 0..MaxStatuses /\ others \in 0..MaxOthers
    /\ faults \subseteq Faults
    /\ statusesTaken \in Nat /\ threadHellos \in Nat

(***************************************************************************)
(* The reservation cookie is never replaced by that of an older welcome,   *)
(* although a handshake may be answered by several welcomes, which the two *)
(* threads take.  GCClient.hpp, SendHello and OnGCMessageAvailable.        *)
(***************************************************************************)
NeverOlder == [][reservationCookie' >= reservationCookie]_vars

(***************************************************************************)
(* The receiving thread says hello once for each connection status, and at *)
(* no other time: it never starts a handshake of its own, in which it would*)
(* pass over statuses and hold up the messages behind them.  GCClient.hpp, *)
(* SwitchToAsync and OnGCMessageAvailable.                                 *)
(***************************************************************************)
HelloPerStatus ==
    /\ threadHellos <= statusesTaken
    /\ (\A t \in Threads : pc[t] # "hello") => threadHellos = statusesTaken

(***************************************************************************)
(* Whenever the GC has lost the session, the server gets it back: every    *)
(* message that asks for a hello is taken by someone who sends one.  This  *)
(* is so if nothing goes wrong, as no hello but those of the handshake is  *)
(* sent again.  GCClient.hpp, SendHello, OnGCMessageAvailable.             *)
(***************************************************************************)
Reconnects == faults = {} => []<>up

(***************************************************************************)
(* The handshake ends, whatever the GC does and even if every call fails,  *)
(* and the server comes to listen.  GCClient.hpp, SendHello.               *)
(***************************************************************************)
HandshakeEnds == <>(pc["main"] = "run")

(***************************************************************************)
(* The server goes on without the reservation id only when it has used up  *)
(* every hello of the handshake, or a retrieval has failed: messages of    *)
(* other kinds, which come before the welcome, do not end the handshake    *)
(* ("Resend hello to GC until we receive welcome message", GCClient.hpp).  *)
(***************************************************************************)
Listens == pc["main"] \in {"switch", "start", "run"}
ListensWelcomed ==
    Listens /\ "retrieve" \notin faults =>
        reservationCookie # 0 \/ retry["main"] = MaxRetry + 1
=============================================================================
