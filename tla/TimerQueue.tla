----------------------------- MODULE TimerQueue -----------------------------
(***************************************************************************)
(* What a timer queue promises: it holds ids with the time each is due,    *)
(* and expires all that are due, in the order of their times.  HeapTimer   *)
(* implements it with a 4-ary heap; NativeTimer is built on it.            *)
(***************************************************************************)
EXTENDS Integers, FiniteSets

VARIABLES
    pending,   \* the timers that wait: a function from ids to the times they are due
    now,       \* the clock
    expired    \* what the last step returned, if it was Expire

Due == {id \in DOMAIN pending : pending[id] <= now}

\* The orders in which the timers of S may expire.
Orders(S) ==
    {f \in [1..Cardinality(S) -> S] :
        \A i, j \in 1..Cardinality(S) : i < j => f[i] # f[j] /\ pending[f[i]] <= pending[f[j]]}

Init ==
    /\ pending = [id \in {} |-> 0]
    /\ now = 0
    /\ expired = <<>>

Add(id, when) ==
    /\ id \notin DOMAIN pending
    /\ pending' = [x \in DOMAIN pending \cup {id} |-> IF x = id THEN when ELSE pending[x]]
    /\ expired' = <<>>
    /\ UNCHANGED now

Del(id) ==
    /\ pending' = [x \in DOMAIN pending \ {id} |-> pending[x]]
    /\ expired' = <<>>
    /\ UNCHANGED now

Expire ==
    /\ expired' \in Orders(Due)
    /\ pending' = [x \in DOMAIN pending \ Due |-> pending[x]]
    /\ UNCHANGED now

Advance ==
    /\ now' = now + 1
    /\ expired' = <<>>
    /\ UNCHANGED pending

Next ==
    \/ \E id \in DOMAIN pending' : Add(id, pending'[id])
    \/ \E id \in DOMAIN pending : Del(id)
    \/ Expire
    \/ Advance

Spec == Init /\ [][Next]_<<pending, now, expired>>
=============================================================================
