--------------------------- MODULE GCClientProofs ---------------------------
(* Theorems about GCClient.                                                *)
EXTENDS GCClient, SequenceTheorems, TLAPS

-----------------------------------------------------------------------------
(* Type correctness.                                                       *)

\* The state the client starts in is well typed.
LEMMA TypeInit == Init => TypeOK
<1> SUFFICES ASSUME Init PROVE TypeOK
  OBVIOUS
<1>1. 0 \in 0..(MaxRetry + 1) /\ 0 \in 0..MaxStatuses /\ 0 \in 0..MaxOthers
  BY BoundAssumption
<1>2. toServer \in Seq(Messages)
  BY EmptySeq DEF Init
<1> QED BY <1>1, <1>2 DEF Init, TypeOK

\* What is taken off Steam's queue is a message, and a queue remains.
LEMMA QueueType ==
    ASSUME TypeOK, toServer # <<>>
    PROVE  /\ Tail(toServer) \in Seq(Messages)
           /\ Head(toServer).kind = "Welcome" => Head(toServer).cookie \in Nat \ {0}
<1>1. Head(toServer) \in Messages /\ Tail(toServer) \in Seq(Messages)
  BY HeadTailProperties DEF TypeOK
<1> QED BY <1>1 DEF Messages, Welcomes, Status, Other

\* Who runs when: the receiving thread only once the main thread has switched to
\* it, the flag being set by then; so only the main thread ever shakes hands.
ThreadInv ==
    /\ pc["init"] = "off"
    /\ pc["main"] \in {"init", "hello", "receive", "store", "switch", "start", "run"}
    /\ pc["async"] \in {"off", "poll", "hello", "store"}
    /\ pc["async"] # "off" => pc["main"] = "run"
    /\ pc["main"] \in {"start", "run"} => asyncReceive
    /\ \A r \in Receivers : pc[r] = "receive" => retry[r] <= MaxRetry
ClientInv == TypeOK /\ ThreadInv

\* No step of a thread or of the GC breaks ClientInv.
LEMMA ClientNext == ClientInv /\ [Next]_vars => ClientInv'
<1> SUFFICES ASSUME ClientInv, [Next]_vars PROVE ClientInv'
  OBVIOUS
<1> USE DEF clientVars, gcVars, counts, Goto, Receivers, Threads
<1>t. TypeOK /\ ThreadInv
  BY DEF ClientInv
<1>q. toServer # <<>> => /\ Tail(toServer) \in Seq(Messages)
                         /\ Head(toServer).kind = "Welcome" => Head(toServer).cookie \in Nat
  BY <1>t, QueueType
<1>0. 0 \in 0..(MaxRetry + 1) /\ 0 <= MaxRetry
  BY BoundAssumption
<1>1. CASE InitializeServer
  BY <1>1, <1>t DEF InitializeServer, GCInit, TypeOK, ThreadInv, ClientInv
<1>2. ASSUME NEW r \in Receivers, SendHello(r) PROVE ClientInv'
  <2>1. TypeOK'
    BY <1>0, <1>2, <1>t DEF SendHello, Hello, Caller, TypeOK
  <2>2. ThreadInv'
    BY <1>0, <1>2, <1>t DEF SendHello, Caller, TypeOK, ThreadInv
  <2> QED BY <2>1, <2>2 DEF ClientInv
<1>3. ASSUME NEW r \in Receivers, Take(r) PROVE ClientInv'
  <2>1. TypeOK'
    BY <1>3, <1>t, <1>q DEF Take, Caller, TypeOK
  <2>2. ThreadInv'
    BY <1>3, <1>t DEF Take, Caller, TypeOK, ThreadInv
  <2> QED BY <2>1, <2>2 DEF ClientInv
<1>4. ASSUME NEW r \in Receivers, Resend(r) PROVE ClientInv'
  <2>1. retry[r] + 1 \in 0..(MaxRetry + 1)
    BY <1>4, <1>t, BoundAssumption DEF Resend, TypeOK, ThreadInv
  <2>2. TypeOK'
    BY <1>4, <1>t, <2>1 DEF Resend, Hello, Caller, TypeOK
  <2>3. ~(retry[r] + 1 > MaxRetry) => retry[r] + 1 <= MaxRetry
    BY <2>1, BoundAssumption
  <2>4. ThreadInv'
    BY <1>4, <1>t, <2>3 DEF Resend, Caller, TypeOK, ThreadInv
  <2> QED BY <2>2, <2>4 DEF ClientInv
<1>5. ASSUME NEW r \in Receivers, Store(r) PROVE ClientInv'
  BY <1>5, <1>t DEF Store, Caller, TypeOK, ThreadInv, ClientInv
<1>6. CASE SwitchToAsync
  BY <1>6, <1>t DEF SwitchToAsync, TypeOK, ThreadInv, ClientInv
<1>7. ASSUME NEW t \in Threads, OnGCMessageAvailable(t) PROVE ClientInv'
  <2>a. UNCHANGED <<retry, clientVars, hellos, gcVars, threadHellos>>
    BY <1>7 DEF OnGCMessageAvailable
  <2>b. toServer' \in Seq(Messages)
    BY <1>7, <1>t, <1>q DEF OnGCMessageAvailable, TypeOK
  <2>c. hand' \in [Receivers -> Nat]
    BY <1>7, <1>t, <1>q DEF OnGCMessageAvailable, TypeOK
  <2>d. statusesTaken' \in Nat
    BY <1>7, <1>t DEF OnGCMessageAvailable, TypeOK
  <2>e. \/ UNCHANGED pc
        \/ pc' = [pc EXCEPT ![t] = "store"] \/ pc' = [pc EXCEPT ![t] = "hello"]
    BY <1>7 DEF OnGCMessageAvailable
  <2>2. pc[t] = "poll"
    BY <1>7 DEF OnGCMessageAvailable
  <2> QED BY <1>t, <2>a, <2>b, <2>c, <2>d, <2>e, <2>2 DEF TypeOK, ThreadInv, ClientInv
<1>8. CASE GCAnswers
  <2> DEFINE w == [kind |-> "Welcome", cookie |-> issued + 1]
  <2>n. issued + 1 \in Nat \ {0}
    BY <1>t DEF TypeOK
  <2>1. w \in Messages
    BY <2>n DEF Messages, Welcomes
  <2>a. toServer' = Append(toServer, w) \/ toServer' = toServer
    BY <1>8 DEF GCAnswers
  <2> HIDE DEF w
  <2>b. toServer \in Seq(Messages)
    BY <1>t DEF TypeOK
  <2>c. Append(toServer, w) \in Seq(Messages)
    BY <2>1, <2>b, AppendProperties
  <2>2. toServer' \in Seq(Messages)
    BY <2>a, <2>b, <2>c
  <2>3. hellos' \in Nat /\ issued' \in Nat /\ up' \in BOOLEAN
    <3>1. /\ hellos > 0 /\ hellos' = hellos - 1
          /\ issued' = issued + 1 \/ issued' = issued
          /\ up' = TRUE \/ up' = up
      BY <1>8 DEF GCAnswers
    <3>2. hellos' \in Nat /\ issued' \in Nat
      BY <1>t, <3>1 DEF TypeOK
    <3>3. up' \in BOOLEAN
      BY <1>t, <3>1, Zenon DEF TypeOK
    <3> QED BY <3>2, <3>3
  <2>4. UNCHANGED <<pc, hand, retry, clientVars, statuses, others, faults, counts>>
    BY <1>8 DEF GCAnswers
  <2> QED BY <1>t, <2>2, <2>3, <2>4 DEF TypeOK, ThreadInv, ClientInv
<1>9. CASE GCReports
  <2>1. toServer' \in Seq(Messages)
    BY <1>9, <1>t, AppendProperties DEF GCReports, Messages, TypeOK
  <2>2. statuses' \in 0..MaxStatuses
    BY <1>9, <1>t, BoundAssumption DEF GCReports, TypeOK
  <2> QED BY <1>9, <1>t, <2>1, <2>2 DEF GCReports, TypeOK, ThreadInv, ClientInv
<1>10. CASE GCSendsOther
  <2>1. toServer' \in Seq(Messages)
    BY <1>10, <1>t, AppendProperties DEF GCSendsOther, Messages, TypeOK
  <2>2. others' \in 0..MaxOthers
    BY <1>10, <1>t, BoundAssumption DEF GCSendsOther, TypeOK
  <2> QED BY <1>10, <1>t, <2>1, <2>2 DEF GCSendsOther, TypeOK, ThreadInv, ClientInv
<1>11. CASE UNCHANGED vars
  BY <1>11, <1>t DEF vars, TypeOK, ThreadInv, ClientInv
<1> QED BY <1>1, <1>2, <1>3, <1>4, <1>5, <1>6, <1>7, <1>8, <1>9, <1>10, <1>11
        DEF Next, MainStep, ThreadStep, Step, GCStep

\* ClientInv holds in every reachable state.
LEMMA ClientAlways == Spec => []ClientInv
<1>1. Init => ClientInv
  BY TypeInit DEF Init, ClientInv, ThreadInv, Receivers, Threads
<1> QED BY <1>1, ClientNext, PTL DEF Spec

(***************************************************************************)
(* Every reachable state is well typed; in particular a handshake sends at *)
(* most MaxRetry + 1 further hellos (GCClient.hpp, SendHello).             *)
(***************************************************************************)
THEOREM TypeCorrect == Spec => []TypeOK
<1>1. ClientInv => TypeOK
  BY DEF ClientInv
<1> QED BY <1>1, ClientAlways, PTL

-----------------------------------------------------------------------------
(* Hellos of the thread, and the order of cookies.                         *)

\* Between taking a status and saying hello the thread owes one hello.
HelloInv ==
    /\ ClientInv
    /\ statusesTaken = threadHellos + (IF pc["async"] = "hello" THEN 1 ELSE 0)

\* No step but the thread's own changes what it owes.
LEMMA HelloNext == HelloInv /\ [Next]_vars => HelloInv'
<1> SUFFICES ASSUME HelloInv, [Next]_vars PROVE HelloInv'
  OBVIOUS
<1> USE DEF clientVars, gcVars, counts, Goto, Receivers, Threads
<1>t. ClientInv /\ ClientInv' /\ TypeOK /\ ThreadInv
  BY ClientNext DEF HelloInv, ClientInv
<1>p. pc \in [Receivers -> {"init", "off", "hello", "receive", "store", "switch",
                           "start", "run", "poll"}]
      /\ statusesTaken \in Nat /\ threadHellos \in Nat
  BY <1>t DEF TypeOK
<1>k. ASSUME UNCHANGED counts, pc'["async"] = "hello" <=> pc["async"] = "hello"
      PROVE  HelloInv'
  BY <1>k, <1>t DEF HelloInv
<1>1. CASE InitializeServer
  BY <1>1, <1>k, <1>p DEF InitializeServer, GCInit
<1>2. ASSUME NEW r \in Receivers, SendHello(r) PROVE HelloInv'
  <2>1. CASE r = "main"
    BY <1>2, <1>k, <1>p, <2>1 DEF SendHello, Hello
  <2>2. CASE r = "async"
    <3>1. pc["async"] = "hello" /\ pc'["async"] = "poll"
      BY <1>2, <1>p, <1>t, <2>2 DEF SendHello, Caller, ThreadInv
    <3>2. threadHellos' = threadHellos + 1 /\ UNCHANGED statusesTaken
      BY <1>2, <2>2 DEF SendHello, Hello
    <3> QED BY <1>p, <1>t, <3>1, <3>2 DEF HelloInv
  <2> QED BY <1>2, <1>t, <2>1, <2>2 DEF SendHello, ThreadInv
<1>3. ASSUME NEW r \in Receivers, Take(r) PROVE HelloInv'
  BY <1>3, <1>k, <1>p, <1>t DEF Take, Caller, ThreadInv
<1>4. ASSUME NEW r \in Receivers, Resend(r) PROVE HelloInv'
  <2>1. r = "main"
    BY <1>4, <1>t DEF Resend, ThreadInv
  <2> QED BY <1>4, <1>k, <1>p, <2>1 DEF Resend, Hello
<1>5. ASSUME NEW r \in Receivers, Store(r) PROVE HelloInv'
  BY <1>5, <1>k, <1>p DEF Store, Caller
<1>6. CASE SwitchToAsync
  BY <1>6, <1>k, <1>p, <1>t DEF SwitchToAsync, ThreadInv
<1>7. ASSUME NEW t \in Threads, OnGCMessageAvailable(t) PROVE HelloInv'
  <2>1. t = "async" /\ pc["async"] = "poll"
    BY <1>7, <1>t DEF OnGCMessageAvailable, ThreadInv
  <2>2. CASE UNCHANGED counts /\ (UNCHANGED pc \/ Goto(t, "store"))
    BY <1>k, <1>p, <2>1, <2>2
  <2>3. CASE statusesTaken' = statusesTaken + 1 /\ Goto(t, "hello") /\ UNCHANGED threadHellos
    BY <1>p, <1>t, <2>1, <2>3 DEF HelloInv
  <2> QED BY <1>7, <2>2, <2>3 DEF OnGCMessageAvailable
<1>8. CASE GCStep \/ UNCHANGED vars
  BY <1>8, <1>k DEF GCStep, GCAnswers, GCReports, GCSendsOther, vars
<1> QED BY <1>1, <1>2, <1>3, <1>4, <1>5, <1>6, <1>7, <1>8
        DEF Next, MainStep, ThreadStep, Step

(***************************************************************************)
(* The receiving thread says hello once for each connection status, and at *)
(* no other time (GCClient.hpp, OnGCMessageAvailable).                     *)
(***************************************************************************)
THEOREM HellosOwed == Spec => []HelloPerStatus
<1>1. Init => HelloInv
  BY TypeInit DEF Init, HelloInv, ClientInv, ThreadInv, Receivers, Threads
<1>2. HelloInv => HelloPerStatus
  <2> SUFFICES ASSUME HelloInv PROVE HelloPerStatus
    OBVIOUS
  <2>1. statusesTaken \in Nat /\ threadHellos \in Nat
    BY DEF HelloInv, ClientInv, TypeOK
  <2> QED BY <2>1 DEF HelloInv, HelloPerStatus, Threads
<1> QED BY <1>1, <1>2, HelloNext, PTL DEF Spec

\* The welcomes in a queue are in the order in which they were issued, and lie
\* between low and high.
Ordered(q, low, high) ==
    /\ low <= high
    /\ \A i \in 1..Len(q) :
          q[i].kind = "Welcome" => low <= q[i].cookie /\ q[i].cookie <= high
    /\ \A i, j \in 1..Len(q) :
          i < j /\ q[i].kind = "Welcome" /\ q[j].kind = "Welcome" =>
             q[i].cookie <= q[j].cookie
\* A cookie about to be stored is not older than the one stored, nor newer than
\* one still queued.
OrderInv ==
    /\ ClientInv
    /\ Ordered(toServer, reservationCookie, issued)
    /\ \A r \in Receivers :
          pc[r] = "store" => /\ reservationCookie <= hand[r]
                             /\ Ordered(toServer, hand[r], issued)

\* A queue stays ordered when its head is taken, also above a welcome just taken.
LEMMA OrderedTail ==
    ASSUME NEW q \in Seq(Messages), q # <<>>, NEW low \in Nat, NEW high \in Nat,
           Ordered(q, low, high)
    PROVE  /\ Ordered(Tail(q), low, high)
           /\ Head(q).kind = "Welcome" => /\ low <= Head(q).cookie
                                          /\ Ordered(Tail(q), Head(q).cookie, high)
<1>1. /\ Len(Tail(q)) = Len(q) - 1 /\ Len(q) \in Nat \ {0}
      /\ \A i \in 1..Len(Tail(q)) : Tail(q)[i] = q[i + 1]
      /\ Head(q) = q[1]
  BY HeadTailProperties, EmptySeq
<1>2. \A i \in 1..Len(Tail(q)) : i + 1 \in 1..Len(q) /\ 1 < i + 1
  BY <1>1
<1>3. 1 \in 1..Len(q)
  BY <1>1
<1>4. \A i, j \in 1..Len(Tail(q)) : i < j => i + 1 < j + 1
  BY <1>1
<1>5. Ordered(Tail(q), low, high)
  BY <1>1, <1>2, <1>4 DEF Ordered
<1>6. ASSUME Head(q).kind = "Welcome"
      PROVE  low <= Head(q).cookie /\ Ordered(Tail(q), Head(q).cookie, high)
  <2>1. low <= Head(q).cookie /\ Head(q).cookie <= high
    BY <1>1, <1>3, <1>6 DEF Ordered
  <2>2. \A i \in 1..Len(Tail(q)) :
           Tail(q)[i].kind = "Welcome" => Head(q).cookie <= Tail(q)[i].cookie
    BY <1>1, <1>2, <1>3, <1>6 DEF Ordered
  <2> QED BY <1>5, <2>1, <2>2 DEF Ordered
<1> QED BY <1>5, <1>6

\* A queue stays ordered when the GC sends the next welcome or another message.
LEMMA OrderedAppend ==
    ASSUME NEW q \in Seq(Messages), NEW m \in Messages, NEW low \in Nat,
           NEW high \in Nat, Ordered(q, low, high)
    PROVE  /\ m.kind # "Welcome" => Ordered(Append(q, m), low, high)
           /\ m.kind = "Welcome" /\ m.cookie = high + 1 =>
                 Ordered(Append(q, m), low, high + 1)
<1> DEFINE p == Append(q, m)
<1>1. /\ Len(p) = Len(q) + 1 /\ Len(q) \in Nat
      /\ \A i \in 1..Len(q) : p[i] = q[i]
      /\ p[Len(q) + 1] = m
  BY AppendProperties, LenProperties
<1>2. \A i \in 1..Len(p) : i \in 1..Len(q) \/ i = Len(q) + 1
  BY <1>1
<1>3. \A i \in 1..Len(q) : q[i].kind = "Welcome" => q[i].cookie \in Nat
  <2> SUFFICES ASSUME NEW i \in 1..Len(q), q[i].kind = "Welcome"
               PROVE  q[i].cookie \in Nat
    OBVIOUS
  <2>1. q[i] \in Messages
    BY ElementOfSeq
  <2> QED BY <2>1 DEF Messages, Welcomes, Status, Other
<1> HIDE DEF p
<1>4. ASSUME m.kind # "Welcome" PROVE Ordered(p, low, high)
  BY <1>1, <1>2, <1>4 DEF Ordered
<1>5. ASSUME m.kind = "Welcome", m.cookie = high + 1
      PROVE  Ordered(p, low, high + 1)
  <2>1. low <= high + 1
    BY DEF Ordered
  <2>2. \A i \in 1..Len(q) : q[i].kind = "Welcome" =>
           low <= q[i].cookie /\ q[i].cookie <= high /\ q[i].cookie <= high + 1
    BY <1>3 DEF Ordered
  <2>3. \A i \in 1..Len(p) : p[i].kind = "Welcome" =>
           low <= p[i].cookie /\ p[i].cookie <= high + 1
    BY <1>1, <1>2, <1>5, <2>1, <2>2
  <2>4. ASSUME NEW i \in 1..Len(p), NEW j \in 1..Len(p), i < j,
               p[i].kind = "Welcome", p[j].kind = "Welcome"
        PROVE  p[i].cookie <= p[j].cookie
    <3>1. i \in 1..Len(q)
      BY <1>1, <1>2, <2>4
    <3>2. CASE j \in 1..Len(q)
      BY <1>1, <2>4, <3>1, <3>2 DEF Ordered
    <3>3. CASE j = Len(q) + 1
      BY <1>1, <1>5, <2>2, <2>4, <3>1, <3>3
    <3> QED BY <1>2, <3>2, <3>3
  <2> QED BY <2>1, <2>3, <2>4 DEF Ordered
<1> QED BY <1>4, <1>5 DEF p

\* What OrderInv says of every step that stores no cookie and takes no message.
LEMMA OrderKept ==
    ASSUME OrderInv, ClientInv', UNCHANGED <<reservationCookie, hand, toServer, issued>>,
           \A r \in Receivers : pc'[r] = "store" => pc[r] = "store"
    PROVE  OrderInv'
BY DEF OrderInv, Ordered

\* What it says when a receiver takes the head of the queue: the cookie of a
\* welcome, and only that, is kept to be stored.
LEMMA OrderTaken ==
    ASSUME OrderInv, ClientInv', NEW r \in Receivers, toServer # <<>>,
           toServer' = Tail(toServer), UNCHANGED <<reservationCookie, issued>>,
           \A s \in Receivers : pc[s] # "store",
           \/ /\ UNCHANGED hand /\ \A s \in Receivers : pc'[s] # "store"
           \/ /\ Head(toServer).kind = "Welcome"
              /\ hand' = [hand EXCEPT ![r] = Head(toServer).cookie]
              /\ \A s \in Receivers : pc'[s] = "store" => s = r
    PROVE  OrderInv'
<1>1. /\ toServer \in Seq(Messages) /\ reservationCookie \in Nat /\ issued \in Nat
      /\ hand \in [Receivers -> Nat]
  BY DEF OrderInv, ClientInv, TypeOK
<1>2. Ordered(toServer, reservationCookie, issued)
  BY DEF OrderInv
<1>3. /\ Ordered(Tail(toServer), reservationCookie, issued)
      /\ Head(toServer).kind = "Welcome" =>
            /\ reservationCookie <= Head(toServer).cookie
            /\ Ordered(Tail(toServer), Head(toServer).cookie, issued)
  BY <1>1, <1>2, OrderedTail
<1>4. Ordered(toServer, reservationCookie, issued)'
  BY <1>3 DEF Ordered
<1>5. ASSUME NEW s \in Receivers, pc'[s] = "store"
      PROVE  reservationCookie' <= hand'[s] /\ Ordered(toServer, hand[s], issued)'
  <2>1. hand'[s] = Head(toServer).cookie /\ Head(toServer).kind = "Welcome"
    BY <1>1, <1>5
  <2>2. reservationCookie' <= hand'[s]
    BY <1>3, <2>1
  <2>3. Ordered(Tail(toServer), hand'[s], issued)
    BY <1>3, <2>1
  <2>4. Ordered(toServer', hand'[s], issued')
    BY <2>3
  <2>5. Ordered(toServer, hand[s], issued)'
    BY <2>4 DEF Ordered
  <2> QED BY <2>2, <2>5
<1> QED BY <1>4, <1>5 DEF OrderInv

\* What it says when the GC sends a message.
LEMMA OrderSent ==
    ASSUME OrderInv, ClientInv', NEW m \in Messages, toServer' = Append(toServer, m),
           UNCHANGED <<pc, hand, reservationCookie>>,
           \/ m.kind # "Welcome" /\ issued' = issued
           \/ m.kind = "Welcome" /\ m.cookie = issued + 1 /\ issued' = issued + 1
    PROVE  OrderInv'
<1>1. /\ toServer \in Seq(Messages) /\ reservationCookie \in Nat /\ issued \in Nat
      /\ hand \in [Receivers -> Nat]
  BY DEF OrderInv, ClientInv, TypeOK
<1>2. ASSUME NEW low \in Nat, Ordered(toServer, low, issued)
      PROVE  Ordered(toServer', low, issued')
  BY <1>1, <1>2, OrderedAppend
<1>3. Ordered(toServer, reservationCookie, issued)'
  <2>1. Ordered(toServer', reservationCookie, issued')
    BY <1>1, <1>2 DEF OrderInv
  <2> QED BY <2>1 DEF Ordered
<1>4. ASSUME NEW r \in Receivers, pc'[r] = "store"
      PROVE  reservationCookie' <= hand'[r] /\ Ordered(toServer, hand[r], issued)'
  <2>1. reservationCookie <= hand[r] /\ Ordered(toServer, hand[r], issued)
    BY <1>4 DEF OrderInv
  <2>2. Ordered(toServer', hand[r], issued')
    BY <1>1, <1>2, <2>1
  <2> QED BY <2>1, <2>2 DEF Ordered
<1> QED BY <1>3, <1>4 DEF OrderInv

\* Every step keeps OrderInv, and stores no older cookie.
LEMMA OrderNext ==
    OrderInv /\ [Next]_vars => OrderInv' /\ reservationCookie' >= reservationCookie
<1> SUFFICES ASSUME OrderInv, [Next]_vars
             PROVE  OrderInv' /\ reservationCookie' >= reservationCookie
  OBVIOUS
<1> USE DEF clientVars, gcVars, counts, Goto, Receivers, Threads
<1>t. ClientInv /\ ClientInv' /\ TypeOK /\ ThreadInv
  BY ClientNext DEF OrderInv, ClientInv
<1>p. /\ pc \in [Receivers -> {"init", "off", "hello", "receive", "store", "switch",
                              "start", "run", "poll"}]
      /\ reservationCookie \in Nat /\ hand \in [Receivers -> Nat]
  BY <1>t DEF TypeOK
<1>k. UNCHANGED reservationCookie => reservationCookie' >= reservationCookie
  BY <1>p
<1>1. CASE InitializeServer \/ SwitchToAsync \/ UNCHANGED vars
  BY <1>1, <1>t, <1>p, <1>k, OrderKept
     DEF InitializeServer, GCInit, SwitchToAsync, vars
<1>2. ASSUME NEW r \in Receivers, SendHello(r) \/ Resend(r)
      PROVE  OrderInv' /\ reservationCookie' >= reservationCookie
  BY <1>2, <1>t, <1>p, <1>k, OrderKept DEF SendHello, Resend, Caller
<1>3. ASSUME NEW r \in Receivers, Take(r)
      PROVE  OrderInv' /\ reservationCookie' >= reservationCookie
  <2>1. r = "main" /\ pc["main"] = "receive" /\ toServer # <<>>
    BY <1>3, <1>t DEF Take, ThreadInv
  <2>2. \A s \in Receivers : pc[s] # "store"
    BY <2>1, <1>t DEF ThreadInv
  <2>3. UNCHANGED <<reservationCookie, issued>>
    BY <1>3 DEF Take
  <2>4. CASE toServer' = toServer
    <3>1. CASE UNCHANGED hand /\ (Goto(r, Caller(r)) \/ UNCHANGED pc)
      BY <1>t, <1>p, <1>k, <2>2, <2>3, <2>4, <3>1, OrderKept DEF Caller
    <3>2. toServer \in Seq(Messages) /\ Tail(toServer) # toServer
      <4>1. Len(Tail(toServer)) = Len(toServer) - 1 /\ Len(toServer) \in Nat
        BY <1>t, <2>1, HeadTailProperties, LenProperties DEF TypeOK
      <4>2. Len(Tail(toServer)) # Len(toServer)
        BY <4>1
      <4>3. Tail(toServer) # toServer
        BY <4>2, Zenon
      <4> QED BY <1>t, <4>3 DEF TypeOK
    <3> QED BY <1>3, <2>4, <3>1, <3>2 DEF Take
  <2>5. CASE toServer' = Tail(toServer)
    <3>1. \/ UNCHANGED hand /\ (Goto(r, Caller(r)) \/ UNCHANGED pc)
          \/ /\ Head(toServer).kind = "Welcome" /\ Goto(r, "store")
             /\ hand' = [hand EXCEPT ![r] = Head(toServer).cookie]
      BY <1>3 DEF Take
    <3>2. CASE UNCHANGED hand /\ (Goto(r, Caller(r)) \/ UNCHANGED pc)
      <4>1. \A s \in Receivers : pc'[s] # "store"
        BY <1>p, <2>2, <3>2 DEF Caller
      <4> QED BY <1>t, <1>k, <2>1, <2>2, <2>3, <2>5, <3>2, <4>1, OrderTaken
    <3>3. CASE /\ Head(toServer).kind = "Welcome" /\ Goto(r, "store")
               /\ hand' = [hand EXCEPT ![r] = Head(toServer).cookie]
      <4>1. \A s \in Receivers : pc'[s] = "store" => s = r
        BY <1>p, <2>2, <3>3
      <4> QED BY <1>t, <1>k, <2>1, <2>2, <2>3, <2>5, <3>3, <4>1, OrderTaken
    <3> QED BY <3>1, <3>2, <3>3
  <2> QED BY <1>3, <2>4, <2>5 DEF Take
<1>4. ASSUME NEW r \in Receivers, Store(r)
      PROVE  OrderInv' /\ reservationCookie' >= reservationCookie
  <2>1. \A s \in Receivers : pc[s] = "store" => s = r
    BY <1>4, <1>t DEF Store, ThreadInv
  <2>2. pc[r] = "store" /\ reservationCookie' = hand[r]
        /\ UNCHANGED <<hand, toServer, issued>> /\ Goto(r, Caller(r))
    BY <1>4 DEF Store
  <2>3. reservationCookie <= hand[r] /\ Ordered(toServer, hand[r], issued)
    BY <2>2 DEF OrderInv
  <2>4. \A s \in Receivers : pc'[s] # "store"
    BY <1>p, <2>1, <2>2 DEF Caller
  <2>5. Ordered(toServer, reservationCookie, issued)'
    BY <2>2, <2>3 DEF Ordered
  <2>6. OrderInv'
    BY <1>t, <2>4, <2>5 DEF OrderInv
  <2> QED BY <1>p, <2>2, <2>3, <2>6
<1>5. ASSUME NEW t \in Threads, OnGCMessageAvailable(t)
      PROVE  OrderInv' /\ reservationCookie' >= reservationCookie
  <2>1. t = "async" /\ pc["async"] = "poll" /\ toServer # <<>>
    BY <1>5, <1>t DEF OnGCMessageAvailable, ThreadInv
  <2>2. \A s \in Receivers : pc[s] # "store"
    BY <2>1, <1>t DEF ThreadInv
  <2>3. UNCHANGED <<reservationCookie, issued>>
    BY <1>5 DEF OnGCMessageAvailable
  <2>4. CASE /\ toServer' \in {toServer, Tail(toServer)} /\ UNCHANGED hand
             /\ UNCHANGED pc \/ Goto(t, "hello")
    <3>1. \A s \in Receivers : pc'[s] # "store"
      BY <1>p, <2>2, <2>4
    <3>2. CASE toServer' = toServer
      BY <1>t, <1>k, <2>3, <2>4, <3>1, <3>2, OrderKept
    <3>3. CASE toServer' = Tail(toServer)
      BY <1>t, <1>k, <2>1, <2>2, <2>3, <2>4, <3>1, <3>3, OrderTaken
    <3> QED BY <2>4, <3>2, <3>3
  <2>5. CASE /\ Head(toServer).kind = "Welcome" /\ toServer' = Tail(toServer)
             /\ hand' = [hand EXCEPT ![t] = Head(toServer).cookie] /\ Goto(t, "store")
    <3>1. \A s \in Receivers : pc'[s] = "store" => s = t
      BY <1>p, <2>2, <2>5
    <3> QED BY <1>t, <1>k, <2>1, <2>2, <2>3, <2>5, <3>1, OrderTaken
  <2> QED BY <1>5, <2>4, <2>5 DEF OnGCMessageAvailable
<1>6. CASE GCAnswers
  <2>1. UNCHANGED <<pc, hand, reservationCookie>>
    BY <1>6 DEF GCAnswers
  <2>2. CASE UNCHANGED <<toServer, issued>>
    BY <1>t, <1>k, <2>1, <2>2, OrderKept
  <2>3. CASE issued' = issued + 1
    <3> DEFINE w == [kind |-> "Welcome", cookie |-> issued + 1]
    <3>1. w \in Messages /\ w.kind = "Welcome" /\ w.cookie = issued + 1
      BY <1>t DEF Messages, Welcomes, TypeOK
    <3>2. toServer' = Append(toServer, w)
      BY <1>6, <1>t, <2>3 DEF GCAnswers, TypeOK
    <3> HIDE DEF w
    <3> QED BY <1>t, <1>k, <2>1, <2>3, <3>1, <3>2, OrderSent
  <2> QED BY <1>6, <2>2, <2>3 DEF GCAnswers
<1>7. CASE GCReports \/ GCSendsOther
  <2>1. UNCHANGED <<pc, hand, reservationCookie, issued>>
    BY <1>7 DEF GCReports, GCSendsOther
  <2>2. PICK m \in {Status, Other} : toServer' = Append(toServer, m)
    BY <1>7 DEF GCReports, GCSendsOther
  <2>3. m \in Messages /\ m.kind # "Welcome"
    BY DEF Messages, Status, Other
  <2> QED BY <1>t, <1>k, <2>1, <2>2, <2>3, OrderSent
<1> QED BY <1>1, <1>2, <1>3, <1>4, <1>5, <1>6, <1>7
        DEF Next, MainStep, ThreadStep, Step, GCStep

(***************************************************************************)
(* The reservation cookie is never replaced by that of an older welcome:   *)
(* the two receivers take welcomes in the order of issue, and neither is   *)
(* between taking one and storing it while the other takes (GCClient.hpp). *)
(***************************************************************************)
THEOREM CookiesInOrder == Spec => NeverOlder
<1>1. Init => OrderInv
  <2> SUFFICES ASSUME Init PROVE OrderInv
    OBVIOUS
  <2>1. ClientInv
    BY TypeInit DEF Init, ClientInv, ThreadInv, Receivers, Threads
  <2>2. Ordered(toServer, reservationCookie, issued)
    BY DEF Init, Ordered
  <2> QED BY <2>1, <2>2 DEF Init, OrderInv, Receivers, Threads
<1>2. OrderInv /\ [Next]_vars => [reservationCookie' >= reservationCookie]_vars
  BY OrderNext
<1>3. OrderInv /\ [Next]_vars => OrderInv'
  BY OrderNext
<1> QED BY <1>1, <1>2, <1>3, PTL DEF Spec, NeverOlder

-----------------------------------------------------------------------------
(* What the server listens with.                                           *)

\* A cookie about to be stored is a real one; the main thread gets past the
\* handshake with a cookie, without retries or after a failed retrieval.
WelcomeInv ==
    /\ ClientInv
    /\ pc["main"] \in {"init", "hello"} => ~asyncReceive
    /\ \A r \in {"main", "async"} : pc[r] = "store" => hand[r] # 0
    /\ ListensWelcomed

\* No step but one of the main thread brings it past the handshake.
LEMMA WelcomeNext == WelcomeInv /\ [Next]_vars => WelcomeInv'
<1> SUFFICES ASSUME WelcomeInv, [Next]_vars PROVE WelcomeInv'
  OBVIOUS
<1> USE DEF clientVars, gcVars, counts, Goto, Receivers, Threads
<1>t. ClientInv /\ ClientInv' /\ TypeOK /\ ThreadInv
  BY ClientNext DEF WelcomeInv, ClientInv
<1>p. pc \in [Receivers -> {"init", "off", "hello", "receive", "store", "switch",
                           "start", "run", "poll"}]
      /\ hand \in [Receivers -> Nat] /\ retry \in [Receivers -> 0..(MaxRetry + 1)]
  BY <1>t DEF TypeOK
<1>q. toServer # <<>> /\ Head(toServer).kind = "Welcome" => Head(toServer).cookie # 0
  BY <1>t, QueueType
<1>i. /\ pc["main"] \in {"init", "hello"} => ~asyncReceive
      /\ \A r \in {"main", "async"} : pc[r] = "store" => hand[r] # 0
      /\ Listens /\ "retrieve" \notin faults =>
            reservationCookie # 0 \/ retry["main"] = MaxRetry + 1
  BY DEF WelcomeInv, ListensWelcomed
<1>s. ASSUME pc'["main"] \in {"init", "hello"} => ~asyncReceive',
             \A r \in {"main", "async"} : pc'[r] = "store" => hand'[r] # 0,
             Listens' /\ "retrieve" \notin faults' =>
                reservationCookie' # 0 \/ retry'["main"] = MaxRetry + 1
      PROVE  WelcomeInv'
  BY <1>s, <1>t DEF WelcomeInv, ListensWelcomed
<1>1. CASE InitializeServer
  BY <1>1, <1>i, <1>p, <1>s DEF InitializeServer, GCInit, Listens
<1>2. ASSUME NEW r \in Receivers, SendHello(r) PROVE WelcomeInv'
  <2>1. CASE r = "main"
    BY <1>2, <1>i, <1>p, <1>s, <2>1 DEF SendHello, Caller, Listens
  <2>2. CASE r = "async"
    BY <1>2, <1>i, <1>p, <1>s, <1>t, <2>2 DEF SendHello, Caller, Listens, ThreadInv
  <2> QED BY <1>2, <1>t, <2>1, <2>2 DEF SendHello, ThreadInv
<1>3. ASSUME NEW r \in Receivers, Take(r) PROVE WelcomeInv'
  <2>1. r = "main" /\ pc["async"] = "off"
    BY <1>3, <1>t DEF Take, ThreadInv
  <2> QED BY <1>3, <1>i, <1>p, <1>q, <1>s, <2>1 DEF Take, Caller, Listens
<1>4. ASSUME NEW r \in Receivers, Resend(r) PROVE WelcomeInv'
  <2>1. r = "main" /\ pc["async"] = "off" /\ retry[r] <= MaxRetry
    BY <1>4, <1>t DEF Resend, ThreadInv
  <2>2. retry[r] + 1 > MaxRetry => retry[r] + 1 = MaxRetry + 1
    BY <1>p, <2>1, BoundAssumption
  <2> QED BY <1>4, <1>i, <1>p, <1>s, <2>1, <2>2 DEF Resend, Caller, Listens
<1>5. ASSUME NEW r \in Receivers, Store(r) PROVE WelcomeInv'
  <2>1. r \in {"main", "async"}
    BY <1>5, <1>t DEF Store, ThreadInv
  <2>2. reservationCookie' # 0 /\ UNCHANGED <<hand, asyncReceive>>
    BY <1>5, <1>i, <2>1 DEF Store
  <2>3. pc' = [pc EXCEPT ![r] = Caller(r)]
    BY <1>5 DEF Store
  <2> QED BY <1>i, <1>p, <1>s, <2>1, <2>2, <2>3 DEF Caller
<1>6. CASE SwitchToAsync
  BY <1>6, <1>i, <1>p, <1>s, <1>t DEF SwitchToAsync, Listens, ThreadInv
<1>7. ASSUME NEW t \in Threads, OnGCMessageAvailable(t) PROVE WelcomeInv'
  <2>1. t = "async" /\ pc["main"] = "run"
    BY <1>7, <1>t DEF OnGCMessageAvailable, ThreadInv
  <2> QED BY <1>7, <1>i, <1>p, <1>q, <1>s, <2>1 DEF OnGCMessageAvailable, Listens
<1>8. CASE GCStep \/ UNCHANGED vars
  <2>1. UNCHANGED <<pc, hand, retry, clientVars, faults>>
    BY <1>8 DEF GCStep, GCAnswers, GCReports, GCSendsOther, vars
  <2> QED BY <1>i, <1>s, <2>1 DEF Listens
<1> QED BY <1>1, <1>2, <1>3, <1>4, <1>5, <1>6, <1>7, <1>8
        DEF Next, MainStep, ThreadStep, Step

(***************************************************************************)
(* The server goes on without the reservation id only when it has used up  *)
(* every hello of the handshake, or a retrieval has failed (GCClient.hpp,  *)
(* SendHello).                                                             *)
(***************************************************************************)
THEOREM WelcomeAwaited == Spec => []ListensWelcomed
<1>1. Init => WelcomeInv
  BY TypeInit DEF Init, WelcomeInv, ListensWelcomed, Listens, ClientInv, ThreadInv,
                  Receivers, Threads
<1>2. WelcomeInv => ListensWelcomed
  BY DEF WelcomeInv
<1> QED BY <1>1, <1>2, WelcomeNext, PTL DEF Spec
=============================================================================
