-------------------------- MODULE SteamLogonProofs --------------------------
(* Theorems about SteamLogon.                                              *)
EXTENDS SteamLogon, SequenceTheorems, FiniteSetTheorems, TLAPS

-----------------------------------------------------------------------------
(* Type correctness.                                                       *)

Entries == [user : Users, code : Codes]

\* SetAuth keeps the list a list of users and codes (AuthHolder::SetAuth).
LEMMA SetAuthType ==
    ASSUME NEW list \in Seq(Entries), NEW u \in Users, NEW c \in Codes
    PROVE  SetAuth(list, u, c) \in Seq(Entries)
<1> DEFINE e == [user |-> u, code |-> c]
<1>1. e \in Entries
  BY DEF Entries
<1> HIDE DEF e
<1>2. Append(list, e) \in Seq(Entries)
  BY <1>1, AppendProperties
<1>3. Len(list) \in Nat
  BY LenProperties
<1>4. \A i \in 1..Len(list) : list[i] \in Entries
  BY ElementOfSeq
<1> DEFINE r == [i \in 1..Len(list) |-> IF list[i].user = u THEN e ELSE list[i]]
<1>5. r \in [1..Len(list) -> Entries]
  BY <1>1, <1>4
<1> HIDE DEF r
<1>6. r \in Seq(Entries)
  BY <1>3, <1>5, SeqDef
<1> QED BY <1>2, <1>6 DEF SetAuth, e, r

\* The state the server starts in is well typed.
LEMMA TypeInit == Init => TypeOK
<1> SUFFICES ASSUME Init PROVE TypeOK
  OBVIOUS
<1>1. authList \in Seq([user : Users, code : Codes]) /\ callbacks \in Seq(Callbacks)
  BY EmptySeq DEF Init
<1>2. DOMAIN answers = {} /\ answers \in [DOMAIN answers -> Codes]
  BY DEF Init
<1>3. 0 \in 0..(MaxRetry + 1) /\ 0 \in 0..MaxSessions /\ 0 \in 0..MaxTickets
  BY BoundAssumption
<1>4. /\ pc = "init" /\ retry = 0 /\ logOnResult \in BOOLEAN /\ gsid = NoId
      /\ session = "off" /\ steamId = NoId
      /\ changes = 0 /\ tickets = 0 /\ DOMAIN answers \subseteq Users
  BY <1>2 DEF Init
<1> QED BY <1>1, <1>2, <1>3, <1>4 DEF TypeOK

\* RunCallback calls the handler of the callback at the head of the queue.
LEMMA CallbackCases ==
    ASSUME TypeOK, RunCallback
    PROVE  LET cb == Head(callbacks) IN
           /\ cb \in Callbacks
           /\ \/ cb.kind = "Connected" /\ OnLogonSuccess
              \/ cb.kind = "Failure" /\ OnLogonFailure
              \/ cb.kind = "Disconnected" /\ OnLoggedOff
              \/ /\ cb.kind = "Ticket" /\ cb.user \in Users /\ cb.code \in Codes
                 /\ OnValidateAuthTicketResponse(cb)
<1> DEFINE cb == Head(callbacks)
<1>1. callbacks \in Seq(Callbacks) /\ callbacks # <<>>
  BY DEF TypeOK, RunCallback
<1>2. cb \in Callbacks
  BY <1>1, HeadTailProperties
<1>3. CASE cb \in Tickets
  <2>1. cb.kind = "Ticket" /\ cb.user \in Users /\ cb.code \in Codes
    BY <1>3 DEF Tickets
  <2> QED BY <1>2, <2>1 DEF RunCallback
<1>4. CASE cb = Disconnected
  <2>1. cb.kind = "Disconnected"
    BY <1>4 DEF Disconnected
  <2> QED BY <1>2, <2>1 DEF RunCallback
<1>5. CASE cb = Connected
  <2>1. cb.kind = "Connected"
    BY <1>5 DEF Connected
  <2> QED BY <1>2, <2>1 DEF RunCallback
<1>6. CASE cb = Failure
  <2>1. cb.kind = "Failure"
    BY <1>6 DEF Failure
  <2> QED BY <1>2, <2>1 DEF RunCallback
<1> QED BY <1>2, <1>3, <1>4, <1>5, <1>6 DEF Callbacks

\* What a callback does keeps the server's variables well typed.
LEMMA CallbackType ==
    ASSUME TypeOK, RunCallback
    PROVE  TypeOK'
<1>1. callbacks \in Seq(Callbacks) /\ callbacks # <<>>
  BY DEF TypeOK, RunCallback
<1>2. Head(callbacks) \in Callbacks /\ callbacks' \in Seq(Callbacks)
  BY <1>1, HeadTailProperties DEF RunCallback
<1>3. UNCHANGED <<pc, retry, session, steamId, changes, tickets>>
  BY DEF RunCallback
<1>s. ASSUME logOnResult' \in BOOLEAN, gsid' \in Ids \cup {NoId},
             UNCHANGED <<authList, answers>>
      PROVE  TypeOK'
  BY <1>2, <1>3, <1>s DEF TypeOK
<1>4. CASE OnLogonSuccess
  BY <1>4, <1>s DEF OnLogonSuccess, TypeOK
<1>5. CASE OnLogonFailure
  BY <1>5, <1>s DEF OnLogonFailure, TypeOK
<1>6. CASE OnLoggedOff
  BY <1>6, <1>s DEF OnLoggedOff, serverVars, TypeOK
<1>7. CASE /\ Head(callbacks).user \in Users /\ Head(callbacks).code \in Codes
           /\ OnValidateAuthTicketResponse(Head(callbacks))
  <2> DEFINE cb == Head(callbacks)
  <2>1. cb.user \in Users /\ cb.code \in Codes
    BY <1>7
  <2>2. authList' \in Seq(Entries)
    BY <1>7, <2>1, SetAuthType DEF OnValidateAuthTicketResponse, TypeOK, Entries
  <2>3. /\ DOMAIN answers' = DOMAIN answers \cup {cb.user}
        /\ answers' \in [DOMAIN answers' -> Codes]
    BY <1>7, <2>1 DEF OnValidateAuthTicketResponse, TypeOK
  <2>4. DOMAIN answers' \subseteq Users
    BY <2>1, <2>3 DEF TypeOK
  <2> QED BY <1>2, <1>3, <1>7, <2>2, <2>3, <2>4
          DEF OnValidateAuthTicketResponse, TypeOK, Entries
<1> QED BY CallbackCases, <1>4, <1>5, <1>6, <1>7

\* No step of the main thread or of Steam leaves the types.
LEMMA TypeNext == TypeOK /\ [Next]_vars => TypeOK'
<1> SUFFICES ASSUME TypeOK, [Next]_vars PROVE TypeOK'
  OBVIOUS
<1> USE DEF serverVars, steamVars
<1>1. CASE InitServer
  BY <1>1 DEF InitServer, TypeOK
<1>2. CASE LogOn
  BY <1>2 DEF LogOn, TypeOK
<1>3. CASE WaitMore
  <2>1. retry' \in 0..(MaxRetry + 1)
    BY <1>3, BoundAssumption DEF WaitMore, TypeOK
  <2> QED BY <1>3, <2>1 DEF WaitMore, TypeOK
<1>4. CASE Polled \/ CheckLoggedOn \/ Spawn \/ FrameEnds \/ NextFrame
  BY <1>4 DEF Polled, CheckLoggedOn, Spawn, FrameEnds, NextFrame, TypeOK
<1>5. CASE RunCallback
  BY <1>5, CallbackType
<1>c. ASSUME NEW s \in {"trying", "on", "off"}, NEW cb \in Callbacks, Change(s, cb),
             steamId' \in Ids \cup {NoId}
      PROVE  TypeOK'
  <2>1. callbacks' \in Seq(Callbacks)
    BY <1>c, AppendProperties DEF Change, TypeOK
  <2>2. changes' \in 0..MaxSessions
    BY <1>c, BoundAssumption DEF Change, TypeOK
  <2> QED BY <1>c, <2>1, <2>2 DEF Change, TypeOK
<1>6. CASE SteamConnects
  BY <1>6, <1>c DEF SteamConnects, Callbacks
<1>7. CASE SteamFails
  BY <1>7, <1>c DEF SteamFails, Callbacks, TypeOK
<1>8. CASE SteamDisconnects
  BY <1>8, <1>c DEF SteamDisconnects, Callbacks, TypeOK
<1>9. CASE SteamValidates
  <2>1. PICK cb \in Callbacks : callbacks' = Append(callbacks, cb)
    BY <1>9 DEF SteamValidates, Callbacks
  <2>2. callbacks' \in Seq(Callbacks)
    BY <2>1, AppendProperties DEF TypeOK
  <2>3. tickets' \in 0..MaxTickets
    BY <1>9, BoundAssumption DEF SteamValidates, TypeOK
  <2> QED BY <1>9, <2>2, <2>3 DEF SteamValidates, TypeOK
<1>10. CASE UNCHANGED vars
  BY <1>10 DEF vars, TypeOK
<1> QED BY <1>1, <1>2, <1>3, <1>4, <1>5, <1>6, <1>7, <1>8, <1>9, <1>10
        DEF Next, MainStep, SteamStep

(***************************************************************************)
(* Every reachable state is well typed; in particular LogOn never waits    *)
(* more than MaxRetry + 1 times (steamauth.hpp, LogOn).                    *)
(***************************************************************************)
THEOREM TypeCorrect == Spec => []TypeOK
  BY TypeInit, TypeNext, PTL DEF Spec
-----------------------------------------------------------------------------
(* The logon result and the identity.  Both hold because Steam queues the  *)
(* callback in the step in which it logs on, and only the callback's own   *)
(* handler takes it off the queue.                                         *)

LogonInv ==
    /\ TypeOK
    /\ (session = "on" \/ Running) /\ ~logOnResult => Results # {}
    /\ session = "on" /\ gsid # steamId => Results # {}

\* What Steam queues does not hide a result that is queued already.
LEMMA ResultsAppend ==
    ASSUME callbacks \in Seq(Callbacks), NEW cb \in Callbacks,
           callbacks' = Append(callbacks, cb)
    PROVE  /\ Results # {} => Results' # {}
           /\ cb.kind = "Connected" => Results' # {}
<1>1. /\ Len(callbacks') = Len(callbacks) + 1 /\ Len(callbacks) \in Nat
      /\ \A i \in 1..Len(callbacks) : callbacks'[i] = callbacks[i]
      /\ callbacks'[Len(callbacks) + 1] = cb
  BY AppendProperties, LenProperties
<1> QED BY <1>1 DEF Results

\* A result stays queued until it is itself at the head of the queue.
LEMMA ResultsTail ==
    ASSUME callbacks \in Seq(Callbacks), callbacks # <<>>,
           callbacks' = Tail(callbacks), Head(callbacks).kind # "Connected",
           Results # {}
    PROVE  Results' # {}
<1>1. /\ Len(callbacks') = Len(callbacks) - 1 /\ Len(callbacks) \in Nat \ {0}
      /\ \A i \in 1..Len(callbacks') : callbacks'[i] = callbacks[i + 1]
      /\ Head(callbacks) = callbacks[1]
  BY HeadTailProperties, EmptySeq
<1>2. PICK i \in 1..Len(callbacks) : callbacks[i].kind = "Connected"
  BY DEF Results
<1>3. i - 1 \in 1..Len(callbacks') /\ callbacks'[i - 1] = callbacks[i]
  BY <1>1, <1>2
<1> QED BY <1>2, <1>3 DEF Results

\* No step lets a session begin, or the server run, without result or callback.
LEMMA LogonNext == LogonInv /\ [Next]_vars => LogonInv'
<1> SUFFICES ASSUME LogonInv, [Next]_vars PROVE LogonInv'
  OBVIOUS
<1>t. TypeOK /\ TypeOK' /\ callbacks \in Seq(Callbacks)
  BY TypeNext DEF LogonInv, TypeOK
<1>k. ASSUME UNCHANGED <<logOnResult, gsid, steamId, callbacks>>,
             session' = "on" => session = "on",
             Running' => Running \/ session = "on"
      PROVE  LogonInv'
  BY <1>k, <1>t DEF LogonInv, Results
<1> USE DEF serverVars, steamVars
<1>1. CASE InitServer \/ LogOn \/ WaitMore \/ Polled \/ CheckLoggedOn \/ Spawn
           \/ FrameEnds \/ NextFrame
  BY <1>1, <1>k DEF InitServer, LogOn, WaitMore, Polled, CheckLoggedOn, Spawn,
                    FrameEnds, NextFrame, Running
<1>2. CASE RunCallback
  <2>1. /\ UNCHANGED <<pc, session, steamId>> /\ callbacks # <<>>
        /\ callbacks' = Tail(callbacks)
    BY <1>2 DEF RunCallback
  <2>2. CASE OnLogonSuccess
    BY <1>t, <2>1, <2>2 DEF OnLogonSuccess, LogonInv
  <2>3. CASE /\ Head(callbacks).kind # "Connected"
             /\ logOnResult => logOnResult'
             /\ UNCHANGED gsid
    <3>1. Results # {} => Results' # {}
      BY <1>t, <2>1, <2>3, ResultsTail
    <3> QED BY <1>t, <2>1, <2>3, <3>1 DEF LogonInv, Running, TypeOK
  <2> QED BY <1>2, <1>t, <2>2, <2>3, CallbackCases
          DEF OnLogonFailure, OnLoggedOff, OnValidateAuthTicketResponse
<1>3. CASE SteamConnects
  <2>1. /\ callbacks' = Append(callbacks, Connected) /\ Connected \in Callbacks
        /\ Connected.kind = "Connected"
    BY <1>3 DEF SteamConnects, Change, Callbacks, Connected
  <2> QED BY <1>t, <2>1, ResultsAppend DEF LogonInv
<1>4. CASE SteamFails \/ SteamDisconnects \/ SteamValidates
  <2>1. PICK cb \in Callbacks : callbacks' = Append(callbacks, cb)
    BY <1>4 DEF SteamFails, SteamDisconnects, SteamValidates, Change, Callbacks
  <2>2. Results # {} => Results' # {}
    BY <1>t, <2>1, ResultsAppend
  <2>3. /\ UNCHANGED <<pc, logOnResult, gsid, steamId>>
        /\ session' = "on" => session = "on"
    BY <1>4 DEF SteamFails, SteamDisconnects, SteamValidates, Change
  <2> QED BY <1>t, <2>2, <2>3 DEF LogonInv, Running
<1>5. CASE UNCHANGED vars
  BY <1>5, <1>k DEF vars, Running
<1> QED BY <1>1, <1>2, <1>3, <1>4, <1>5 DEF Next, MainStep, SteamStep

\* LogonInv holds in every reachable state.
LEMMA LogonAlways == Spec => []LogonInv
<1>1. Init => LogonInv
  BY TypeInit DEF Init, LogonInv, Running
<1> QED BY <1>1, LogonNext, PTL DEF Spec

(***************************************************************************)
(* A server that runs without a logon result has one queued, however long  *)
(* it waited and whatever Steam did meanwhile (steamauth.hpp, LogOn).      *)
(***************************************************************************)
THEOREM ResultsArrive == Spec => []ResultOnItsWay
<1>1. LogonInv => ResultOnItsWay
  BY DEF LogonInv, ResultOnItsWay
<1> QED BY <1>1, LogonAlways, PTL

(***************************************************************************)
(* Once it has run all callbacks a server that is logged on goes by the    *)
(* identity of its session (steamauth.hpp, OnLogonSuccess).                *)
(***************************************************************************)
THEOREM IdentityKept == Spec => []IdentityCurrent
<1>1. LogonInv => IdentityCurrent
  <2> SUFFICES ASSUME LogonInv, callbacks = <<>> PROVE Results = {}
    BY DEF LogonInv, IdentityCurrent
  <2> QED BY DEF Results
<1> QED BY <1>1, LogonAlways, PTL

-----------------------------------------------------------------------------
(* The count of authenticated players.  The list holds each user answered  *)
(* about once, with the last answer, so its entries and those users        *)
(* correspond one to one.                                                  *)

AuthInv ==
    /\ TypeOK
    /\ \A i, j \in 1..Len(authList) :
          authList[i].user = authList[j].user => i = j
    /\ DOMAIN answers = {authList[i].user : i \in 1..Len(authList)}
    /\ \A i \in 1..Len(authList) : answers[authList[i].user] = authList[i].code

\* SetAuth, whether it finds the user or not, keeps list and answers together.
LEMMA SetAuthKeeps ==
    ASSUME AuthInv, TypeOK', NEW cb \in Tickets,
           OnValidateAuthTicketResponse(cb)
    PROVE  AuthInv'
<1> DEFINE u == cb.user
           c == cb.code
           n == Len(authList)
<1>1. authList \in Seq(Entries) /\ n \in Nat /\ u \in Users /\ c \in Codes
  BY LenProperties DEF AuthInv, TypeOK, Entries, Tickets
<1>2. /\ DOMAIN answers' = DOMAIN answers \cup {u} /\ answers'[u] = c
      /\ \A v \in DOMAIN answers : v # u => answers'[v] = answers[v]
  BY DEF OnValidateAuthTicketResponse
<1>3. authList' = SetAuth(authList, u, c)
  BY DEF OnValidateAuthTicketResponse
<1> DEFINE e == [user |-> u, code |-> c]
<1>4. e.user = u /\ e.code = c /\ e \in Entries
  BY <1>1 DEF Entries
<1>5. CASE \E i \in 1..n : authList[i].user = u
  <2>1. authList' = [i \in 1..n |-> IF authList[i].user = u THEN e ELSE authList[i]]
    BY <1>3, <1>5 DEF SetAuth
  <2>2. Len(authList') = n
    BY <1>1, <2>1
  <2> HIDE DEF e
  <2>3. \A i \in 1..n : /\ authList'[i].user = authList[i].user
                        /\ authList[i].user = u => authList'[i].code = c
                        /\ authList[i].user # u => authList'[i] = authList[i]
    BY <1>4, <2>1
  <2>4. DOMAIN answers' = DOMAIN answers
    BY <1>2, <1>5 DEF AuthInv
  <2> HIDE DEF u, c, n
  <2>5. /\ \A i, j \in 1..n : authList[i].user = authList[j].user => i = j
        /\ DOMAIN answers = {authList[i].user : i \in 1..n}
        /\ \A i \in 1..n : answers[authList[i].user] = authList[i].code
    BY DEF AuthInv, n
  <2>6. DOMAIN answers' = {authList'[i].user : i \in 1..n}
    BY <2>3, <2>4, <2>5
  <2>7. \A i \in 1..n : answers'[authList'[i].user] = authList'[i].code
    BY <1>2, <2>3, <2>5
  <2>8. \A i, j \in 1..n : authList'[i].user = authList'[j].user => i = j
    BY <2>3, <2>5
  <2> QED BY <2>2, <2>6, <2>7, <2>8 DEF AuthInv
<1>6. CASE ~\E i \in 1..n : authList[i].user = u
  <2>1. authList' = Append(authList, e)
    BY <1>3, <1>6 DEF SetAuth
  <2> HIDE DEF e
  <2>2. /\ Len(authList') = n + 1 /\ authList'[n + 1] = e
        /\ \A i \in 1..n : authList'[i] = authList[i]
    BY <1>1, <1>4, <2>1, AppendProperties
  <2>3. u \notin DOMAIN answers
    BY <1>6 DEF AuthInv
  <2> HIDE DEF u, c, n
  <2>4. \A i \in 1..(n + 1) : i \in 1..n \/ i = n + 1
    BY <1>1
  <2>5. n + 1 \in 1..(n + 1) /\ 1..n \subseteq 1..(n + 1)
    BY <1>1
  <2>6. DOMAIN answers' = {authList'[i].user : i \in 1..(n + 1)}
    BY <1>2, <1>4, <2>2, <2>4, <2>5 DEF AuthInv, n
  <2>7. \A i \in 1..(n + 1) : answers'[authList'[i].user] = authList'[i].code
    BY <1>2, <1>4, <1>6, <2>2, <2>4 DEF AuthInv, n
  <2>8. \A i, j \in 1..(n + 1) : authList'[i].user = authList'[j].user => i = j
    BY <1>4, <1>6, <2>2, <2>4 DEF AuthInv, n
  <2> QED BY <2>2, <2>6, <2>7, <2>8 DEF AuthInv
<1> QED BY <1>5, <1>6

\* Only a ticket's answer touches the list.
LEMMA AuthNext == AuthInv /\ [Next]_vars => AuthInv'
<1> SUFFICES ASSUME AuthInv, [Next]_vars PROVE AuthInv'
  OBVIOUS
<1>1. TypeOK /\ TypeOK'
  BY TypeNext DEF AuthInv
<1>k. ASSUME UNCHANGED <<authList, answers>> PROVE AuthInv'
  BY <1>k, <1>1 DEF AuthInv
<1>2. CASE RunCallback
  <2>1. CASE /\ Head(callbacks).kind = "Ticket" /\ Head(callbacks) \in Callbacks
             /\ OnValidateAuthTicketResponse(Head(callbacks))
    <3>1. Head(callbacks) \in Tickets
      BY <2>1 DEF Callbacks, Connected, Failure, Disconnected
    <3> QED BY <1>1, <2>1, <3>1, SetAuthKeeps
  <2>2. CASE UNCHANGED <<authList, answers>>
    BY <2>2, <1>k
  <2> QED BY <1>1, <1>2, <2>1, <2>2, CallbackCases
          DEF OnLogonSuccess, OnLogonFailure, OnLoggedOff, serverVars
<1>3. CASE ~RunCallback
  BY <1>3, <1>k DEF Next, MainStep, SteamStep, InitServer, LogOn, WaitMore, Polled,
     CheckLoggedOn, Spawn, FrameEnds, NextFrame, SteamConnects, SteamFails,
     SteamDisconnects, SteamValidates, Change, vars, serverVars
<1> QED BY <1>2, <1>3

(***************************************************************************)
(* The count reported is the number of users whose last answer was OK      *)
(* (steamauth.hpp, AuthHolder).                                            *)
(***************************************************************************)
THEOREM CountCorrect == Spec => []AuthedCount
<1>1. Init => AuthInv
  <2> SUFFICES ASSUME Init PROVE AuthInv
    OBVIOUS
  <2>1. Len(authList) = 0 /\ DOMAIN answers = {}
    BY DEF Init
  <2> QED BY <2>1, TypeInit DEF AuthInv
<1>2. AuthInv => AuthedCount
  <2> SUFFICES ASSUME AuthInv PROVE AuthedCount
    OBVIOUS
  <2> DEFINE S == {i \in 1..Len(authList) : authList[i].code = OK}
             T == {u \in DOMAIN answers : answers[u] = OK}
             f == [i \in S |-> authList[i].user]
  <2>1. Len(authList) \in Nat
    BY LenProperties DEF AuthInv, TypeOK
  <2>a. IsFiniteSet(1..Len(authList))
    BY <2>1, FS_Interval
  <2>b. S \subseteq 1..Len(authList)
    OBVIOUS
  <2>2. IsFiniteSet(S)
    BY <2>a, <2>b, FS_Subset
  <2>3. f \in Bijection(S, T)
    <3>1. f \in [S -> T]
      BY DEF AuthInv
    <3>2. \A i, j \in S : f[i] = f[j] => i = j
      BY DEF AuthInv
    <3>3. \A u \in T : \E i \in S : f[i] = u
      BY DEF AuthInv
    <3> QED BY <3>1, <3>2, <3>3 DEF Bijection, Injection, Surjection, IsInjective
  <2>4. Cardinality(S) = Cardinality(T)
    BY <2>2, <2>3, FS_Bijection DEF ExistsBijection
  <2> QED BY <2>4 DEF AuthedCount, GetAuthedPlayersCount
<1> QED BY <1>1, <1>2, AuthNext, PTL DEF Spec
=============================================================================
