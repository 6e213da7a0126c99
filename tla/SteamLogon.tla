----------------------------- MODULE SteamLogon -----------------------------
(***************************************************************************)
(* The life of the server with Steam: CSteam3Server and AuthHolder         *)
(* (src/src/steamauth.hpp), driven by InitializeServer and RunFrame        *)
(* (src/src/server.hpp).  Steam's client library works on its own thread   *)
(* and only queues what happens; the main thread learns of it when it runs *)
(* the queued callbacks, once a second while it waits for the logon, not   *)
(* at all while it shakes hands with the GC, and in every frame after that.*)
(* But whether the server starts at all depends on what Steam says at that *)
(* moment (BLoggedOn), not on what the callbacks said.                     *)
(***************************************************************************)
EXTENDS Integers, Sequences, FiniteSets

CONSTANTS
    Users,          \* players whose tickets are validated
    Codes,          \* EAuthSessionResponse
    Ids,            \* Steam identities the server may be assigned
    MaxRetry,       \* waits for the logon: 60 in the code
    MaxSessions,    \* bound: changes of the session with Steam
    MaxTickets      \* bound: ticket validations

OK == "OK"          \* k_EAuthSessionResponseOK, k_EBeginAuthSessionResultOK
NoId == "no id"     \* a CSteamID that is not valid

ASSUME CodeAssumption == OK \in Codes
ASSUME IdAssumption == NoId \notin Ids
ASSUME BoundAssumption == {MaxRetry, MaxSessions, MaxTickets} \subseteq Nat

VARIABLES
    pc,             \* where the main thread is
    retry,          \* LogOn's retry
    logOnResult,    \* m_bLogOnResult
    gsid,           \* m_SteamIDGS
    authList,       \* AuthHolder's m_AuthList
    session,        \* Steam's side: the session with its servers
    steamId,        \* Steam's side: the identity of that session
    callbacks,      \* what Steam has queued for the main thread
    answers,        \* the last answer about each user that was delivered
    changes, tickets

\* A definition named X_Y is X with the slip Y in it; the specification uses none
\* of them, and the properties must tell each from the real X.

vars == <<pc, retry, logOnResult, gsid, authList, session, steamId, callbacks,
          answers, changes, tickets>>
serverVars == <<logOnResult, gsid, authList, answers>>
steamVars == <<session, steamId, callbacks, changes, tickets>>

Connected == [kind |-> "Connected"]
Failure == [kind |-> "Failure"]
Disconnected == [kind |-> "Disconnected"]
Tickets == [kind : {"Ticket"}, user : Users, code : Codes]
Callbacks == {Connected, Failure, Disconnected} \cup Tickets

Init ==
    /\ pc = "init" /\ retry = 0
    /\ logOnResult = FALSE /\ gsid = NoId /\ authList = <<>>
    /\ session = "off" /\ steamId = NoId /\ callbacks = <<>>
    /\ answers = <<>>
    /\ changes = 0 /\ tickets = 0

-----------------------------------------------------------------------------
(* AuthHolder.                                                             *)

SetAuth_Append(list, u, c) == Append(list, [user |-> u, code |-> c])
SetAuth(list, u, c) ==
    IF \E i \in 1..Len(list) : list[i].user = u
    THEN [i \in 1..Len(list) |->
             IF list[i].user = u THEN [user |-> u, code |-> c] ELSE list[i]]
    ELSE Append(list, [user |-> u, code |-> c])

GetAuthedPlayersCount ==
    Cardinality({i \in 1..Len(authList) : authList[i].code = OK})

-----------------------------------------------------------------------------
(* The callbacks.                                                          *)

\* The identity is the one Steam has by now, not the one it had when it queued
\* the callback.
OnLogonSuccess_Once ==
    /\ logOnResult' = TRUE
    /\ gsid' = IF logOnResult THEN gsid ELSE steamId
    /\ UNCHANGED <<authList, answers>>
OnLogonSuccess_Silent ==
    /\ gsid' = steamId
    /\ UNCHANGED <<logOnResult, authList, answers>>
OnLogonSuccess ==
    /\ logOnResult' = TRUE
    /\ gsid' = steamId
    /\ UNCHANGED <<authList, answers>>

OnLogonFailure ==
    /\ logOnResult' = TRUE
    /\ UNCHANGED <<gsid, authList, answers>>

\* It announces that this instance shuts down, if the account is used elsewhere,
\* but only prints it.
OnLoggedOff == UNCHANGED serverVars

OnValidateAuthTicketResponse(cb) ==
    /\ authList' = SetAuth(authList, cb.user, cb.code)
    /\ answers' = [u \in DOMAIN answers \cup {cb.user} |->
                     IF u = cb.user THEN cb.code ELSE answers[u]]
    /\ UNCHANGED <<logOnResult, gsid>>

\* One turn of SteamGameServer_RunCallbacks.
RunCallback ==
    /\ pc \in {"poll", "frame"} /\ callbacks # <<>>
    /\ LET cb == Head(callbacks) IN
          CASE cb.kind = "Connected"    -> OnLogonSuccess
            [] cb.kind = "Failure"      -> OnLogonFailure
            [] cb.kind = "Disconnected" -> OnLoggedOff
            [] cb.kind = "Ticket"       -> OnValidateAuthTicketResponse(cb)
    /\ callbacks' = Tail(callbacks)
    /\ UNCHANGED <<pc, retry, session, steamId, changes, tickets>>

-----------------------------------------------------------------------------
(* The main thread.                                                        *)

\* Without a Steam interface InitServer goes on to use the null pointer.
InitServer ==
    /\ pc = "init"
    /\ pc' \in {"logon", "dead"}
    /\ UNCHANGED <<retry, serverVars, steamVars>>

LogOn ==
    /\ pc = "logon" /\ pc' = "wait"
    /\ session' = "trying"
    /\ UNCHANGED <<retry, serverVars, steamId, callbacks, changes, tickets>>

\* The loop of LogOn: sleep a second and run the callbacks.
WaitMore_Forever ==
    /\ pc = "wait" /\ ~logOnResult
    /\ retry' = IF retry > MaxRetry THEN 0 ELSE retry + 1
    /\ pc' = "poll"
    /\ UNCHANGED <<serverVars, steamVars>>
WaitMore_OffByOne ==
    /\ pc = "wait" /\ ~logOnResult /\ retry <= MaxRetry + 1
    /\ retry' = retry + 1
    /\ pc' = "poll"
    /\ UNCHANGED <<serverVars, steamVars>>
WaitMore ==
    /\ pc = "wait" /\ ~logOnResult /\ ~(retry > MaxRetry)
    /\ retry' = retry + 1
    /\ pc' = "poll"
    /\ UNCHANGED <<serverVars, steamVars>>

\* RunCallbacks has run out of callbacks.
Polled ==
    /\ pc = "poll" /\ callbacks = <<>>
    /\ pc' = "wait"
    /\ UNCHANGED <<retry, serverVars, steamVars>>

\* LogOn returns, with a result or without; what counts is BLoggedOn.  Without a
\* session nothing is spawned, run() has nothing to do and the process ends.
CheckLoggedOn ==
    /\ pc = "wait" /\ (logOnResult \/ retry > MaxRetry)
    /\ pc' = IF session = "on" THEN "handshake" ELSE "exit"
    /\ UNCHANGED <<retry, serverVars, steamVars>>

\* g_GCClient's handshake is over, and RunFrame is spawned.
Spawn ==
    /\ pc = "handshake" /\ pc' = "frame"
    /\ UNCHANGED <<retry, serverVars, steamVars>>

\* The rest of a frame, which reports the server's details to Steam and the GC,
\* and the half second before the next.
FrameEnds ==
    /\ pc = "frame" /\ callbacks = <<>>
    /\ pc' = "idle"
    /\ UNCHANGED <<retry, serverVars, steamVars>>
NextFrame ==
    /\ pc = "idle" /\ pc' = "frame"
    /\ UNCHANGED <<retry, serverVars, steamVars>>

-----------------------------------------------------------------------------
(* Steam.                                                                  *)

Change(s, cb) ==
    /\ changes < MaxSessions /\ changes' = changes + 1
    /\ session' = s
    /\ callbacks' = Append(callbacks, cb)
    /\ UNCHANGED <<pc, retry, serverVars, tickets>>

SteamConnects ==
    /\ session = "trying"
    /\ Change("on", Connected)
    /\ steamId' \in Ids
\* Steam goes on trying, or not.
SteamFails ==
    /\ session = "trying"
    /\ \E s \in {"trying", "off"} : Change(s, Failure)
    /\ UNCHANGED steamId
SteamDisconnects ==
    /\ session = "on"
    /\ \E s \in {"trying", "off"} : Change(s, Disconnected)
    /\ UNCHANGED steamId
\* The answer to a BeginAuthSession of the listener, or a later change of mind.
SteamValidates ==
    /\ pc \in {"frame", "idle"} /\ tickets < MaxTickets
    /\ \E cb \in Tickets : callbacks' = Append(callbacks, cb)
    /\ tickets' = tickets + 1
    /\ UNCHANGED <<pc, retry, serverVars, session, steamId, changes>>

-----------------------------------------------------------------------------
MainStep ==
    \/ InitServer \/ LogOn \/ WaitMore \/ Polled \/ CheckLoggedOn \/ Spawn
    \/ RunCallback \/ FrameEnds \/ NextFrame
SteamStep == SteamConnects \/ SteamFails \/ SteamDisconnects \/ SteamValidates

Next == MainStep \/ SteamStep

Spec == Init /\ [][Next]_vars

\* The main thread is never blocked for good: its sleeps and timers end, and so
\* does the handshake with the GC.  Steam owes nothing.
FairSpec == Spec /\ WF_vars(MainStep)

-----------------------------------------------------------------------------
(* Properties.                                                             *)

Running == pc \in {"handshake", "frame", "idle"}
Results == {i \in 1..Len(callbacks) : callbacks[i].kind = "Connected"}

TypeOK ==
    /\ pc \in {"init", "logon", "wait", "poll", "handshake", "frame", "idle",
               "exit", "dead"}
    /\ retry \in 0..(MaxRetry + 1)
    /\ logOnResult \in BOOLEAN
    /\ gsid \in Ids \cup {NoId} /\ steamId \in Ids \cup {NoId}
    /\ authList \in Seq([user : Users, code : Codes])
    /\ session \in {"off", "trying", "on"}
    /\ callbacks \in Seq(Callbacks)
    /\ DOMAIN answers \subseteq Users
    /\ answers \in [DOMAIN answers -> Codes]
    /\ changes \in 0..MaxSessions /\ tickets \in 0..MaxTickets

(***************************************************************************)
(* A server that runs without a logon result, having given up waiting just *)
(* before Steam logged on, has that result queued: A2S_GETCHALLENGE, which *)
(* is not answered until then, is not refused for good.  steamauth.hpp,    *)
(* LogOn and OnLogonSuccess; server.hpp, InitializeServer.                 *)
(***************************************************************************)
ResultOnItsWay == Running /\ ~logOnResult => Results # {}

(***************************************************************************)
(* Whenever the server has run all callbacks and is logged on, the identity*)
(* it goes by when it reports to the GC is the one Steam knows it by: also *)
(* after failures before the logon, disconnections and new identities.     *)
(* steamauth.hpp, OnLogonSuccess.                                          *)
(***************************************************************************)
IdentityCurrent ==
    Running /\ session = "on" /\ callbacks = <<>> => gsid = steamId

(***************************************************************************)
(* The number of authenticated players that is reported counts each player *)
(* once, and exactly those for whom the last answer was OK, whatever       *)
(* answers came before.  steamauth.hpp, AuthHolder.                        *)
(***************************************************************************)
AuthedCount ==
    GetAuthedPlayersCount = Cardinality({u \in DOMAIN answers : answers[u] = OK})

(***************************************************************************)
(* Whatever Steam does or fails to do, the wait for the logon ends: the    *)
(* server runs or the process is over.  steamauth.hpp, LogOn.              *)
(***************************************************************************)
StartupEnds == <>(Running \/ pc \in {"exit", "dead"})
=============================================================================
