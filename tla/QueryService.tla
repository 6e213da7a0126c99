---------------------------- MODULE QueryService ----------------------------
(***************************************************************************)
(* What the listener promises its clients when it does not mirror: the     *)
(* datagrams that reach it are taken in the order of arrival; each is      *)
(* answered at most once, to its sender and with an answer of the kind it  *)
(* asked for, or is passed over without one; and the service may close.    *)
(* Nothing is said of headers, buffers or coroutines.                      *)
(***************************************************************************)
EXTENDS Naturals, Sequences

CONSTANTS
    Sources,        \* who may ask
    Kinds,          \* the kinds of requests
    Answers         \* Answers[k]: the kinds of answers to a request of kind k

VARIABLES
    phase,          \* "new", "open" or "closed"
    asked,          \* how many requests there have been
    pending,        \* those not yet dealt with, oldest first
    answered        \* the answers given

vars == <<phase, asked, pending, answered>>

Init == phase = "new" /\ asked = 0 /\ pending = <<>> /\ answered = {}

Open ==
    /\ phase = "new" /\ phase' = "open"
    /\ UNCHANGED <<asked, pending, answered>>

Ask ==
    /\ phase = "open"
    /\ asked' = asked + 1
    /\ \E s \in Sources, k \in Kinds :
          pending' = Append(pending, [id |-> asked + 1, from |-> s, kind |-> k])
    /\ UNCHANGED <<phase, answered>>

Answer ==
    /\ phase = "open" /\ pending # <<>>
    /\ \E a \in Answers[Head(pending).kind] :
          answered' = answered \cup
             {[id |-> Head(pending).id, to |-> Head(pending).from, kind |-> a]}
    /\ pending' = Tail(pending)
    /\ UNCHANGED <<phase, asked>>

PassOver ==
    /\ phase = "open" /\ pending # <<>>
    /\ pending' = Tail(pending)
    /\ UNCHANGED <<phase, asked, answered>>

Close ==
    /\ phase # "closed" /\ phase' = "closed"
    /\ pending' = <<>>
    /\ UNCHANGED <<asked, answered>>

Next == Open \/ Ask \/ Answer \/ PassOver \/ Close

Spec == Init /\ [][Next]_vars

\* A request is not kept waiting for ever.
Deal == pending # <<>> /\ (Answer \/ PassOver \/ Close)
FairSpec == Spec /\ WF_vars(Deal)
=============================================================================
