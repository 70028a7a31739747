----------------------------- MODULE HeapTimer -----------------------------
(***************************************************************************)
(* HeapTimer (native/timer/heap_timer.h): timers in a 4-ary min-heap whose *)
(* nodes know their place, and a map from ids to nodes.                    *)
(*                                                                         *)
(* A queue q is a record: q.heap is heap_[0..heap_size_-1], with ids for   *)
(* the pointers, and q.node is timer_map_, with the fields when and i of   *)
(* each node.  An operation is a function from queues to queues.           *)
(***************************************************************************)
EXTENDS Integers, Sequences, FiniteSets, FiniteSetsExt, TLC

CONSTANTS
    Delays,     \* delays that callers request
    Capacity,   \* INT32_MAX in the code: AddAt refuses beyond it
    MaxId,      \* bound: timers ever added
    MaxOps,     \* bound: calls of Del and Update; the last of them ends a behaviour
    MaxTime     \* bound: how far the clock runs

VARIABLES
    q,         \* heap_ and timer_map_
    timerId,   \* timer_id_
    ops,       \* history: how many calls of Del and Update there were
    now,       \* Clock::now()
    expired    \* history: the ids that the last step returned, if it was an Update

vars == <<q, timerId, ops, now, expired>>

Size(h) == Cardinality(DOMAIN h.heap)
When(h, k) == h.node[h.heap[k]].when
Parent(k) == (k - 1) \div 4

Ancestors(k) ==
    LET up[j \in 0..k] == IF j = 0 THEN {0} ELSE {j} \cup up[Parent(j)] IN up[k]

\* The ids f[k] are stored in heap_[k], and their nodes are told.
Store(h, f) ==
    [heap |-> f @@ h.heap,
     node |-> [id \in DOMAIN h.node |->
                 IF \E k \in DOMAIN f : f[k] = id
                 THEN [h.node[id] EXCEPT !.i = CHOOSE k \in DOMAIN f : f[k] = id]
                 ELSE h.node[id]]]

\* The node at k moves up past every ancestor that is due later.
SiftUp(h, k) ==
    LET stop[j \in 0..k] == IF j > 0 /\ When(h, k) < When(h, Parent(j)) THEN stop[Parent(j)] ELSE j
        path == IF stop[k] = k THEN {} ELSE {a \in Ancestors(k) : a >= stop[k]}
    IN Store(h, [a \in path |-> IF a = stop[k] THEN h.heap[k] ELSE h.heap[Parent(a)]])

Children(h, k) == {c \in (4 * k + 1)..(4 * k + 4) : c < Size(h)}

\* The child that is due first, the leftmost of them.
MinChild(h, k) ==
    CHOOSE c \in Children(h, k) : \A d \in Children(h, k) :
        When(h, c) < When(h, d) \/ (When(h, c) = When(h, d) /\ c <= d)

\* The node at k moves down past its first child as long as that is due earlier.
SiftDown(h, k) ==
    LET stop[j \in DOMAIN h.heap] ==
            IF Children(h, j) # {} /\ When(h, MinChild(h, j)) < When(h, k)
            THEN stop[MinChild(h, j)] ELSE j
        path == IF stop[k] = k THEN {} ELSE {a \in Ancestors(stop[k]) : a >= k}
    IN Store(h, [a \in path |-> IF a = stop[k] THEN h.heap[k] ELSE h.heap[MinChild(h, a)]])

Without(f, x) == [y \in DOMAIN f \ {x} |-> f[y]]

\* The last node takes the place k.
MoveLastTo(h, k) ==
    LET n == Size(h) - 1
    IN [heap |-> Without([h.heap EXCEPT ![k] = h.heap[n]], n),
        node |-> [h.node EXCEPT ![h.heap[n]].i = k]]

DropLast(h) == [h EXCEPT !.heap = Without(@, Size(h) - 1)]

Forget(h, id) == [h EXCEPT !.node = Without(@, id)]

AddedTo(h, id, when) ==
    LET n == Size(h)
    IN SiftUp([heap |-> (n :> id) @@ h.heap, node |-> (id :> [when |-> when, i |-> n]) @@ h.node], n)

\* A node in the middle of the heap may have to move either way.
Resift(h, k) == SiftDown(SiftUp(h, k), k)

Deleted(h, id) ==
    LET k == h.node[id].i
    IN IF k = Size(h) - 1
       THEN Forget(DropLast(h), id)
       ELSE Resift(Forget(MoveLastTo(h, k), id), k)

WithoutFirst(h) ==
    LET id == h.heap[0]
    IN IF Size(h) = 1
       THEN Forget(DropLast(h), id)
       ELSE Forget(SiftDown(MoveLastTo(h, 0), 0), id)

\* Mutant: a timer waits one tick more.
NotDueLate(when, t) == when >= t

NotDue(when, t) == when > t

\* The loop of Update: one round per timer that is due.
Drained(h, t) ==
    LET loop[k \in 0..Size(h)] ==
            IF k = 0 THEN [q |-> h, ret |-> <<>>]
            ELSE LET d == loop[k - 1]
                 IN IF Size(d.q) = 0 \/ NotDue(When(d.q, 0), t) THEN d
                    ELSE [q |-> WithoutFirst(d.q), ret |-> Append(d.ret, d.q.heap[0])]
    IN loop[Size(h)]

-----------------------------------------------------------------------------

Init ==
    /\ q = [heap |-> <<>>, node |-> <<>>]
    /\ timerId = 0
    /\ ops = 0
    /\ now = 0
    /\ expired = <<>>

Add(delay) ==
    /\ timerId < MaxId
    /\ ops < MaxOps
    /\ now + delay <= MaxTime
    /\ Size(q) < Capacity
    /\ q' = AddedTo(q, timerId + 1, now + delay)
    /\ timerId' = timerId + 1
    /\ expired' = <<>>
    /\ UNCHANGED <<ops, now>>

\* Del(id), when it finds the node where the node says that it is.
Del(id) ==
    /\ ops < MaxOps
    /\ id \in DOMAIN q.node
    /\ q.node[id].i \in DOMAIN q.heap
    /\ q.heap[q.node[id].i] = id
    /\ q' = Deleted(q, id)
    /\ ops' = ops + 1
    /\ expired' = <<>>
    /\ UNCHANGED <<timerId, now>>

Update ==
    LET d == Drained(q, now)
    IN /\ ops < MaxOps
       /\ q' = d.q
       /\ expired' = d.ret
       /\ ops' = ops + 1
       /\ UNCHANGED <<timerId, now>>

\* Time passes (external).
Advance ==
    /\ now < MaxTime
    /\ ops < MaxOps
    /\ now' = now + 1
    /\ expired' = <<>>
    /\ UNCHANGED <<q, timerId, ops>>

Next ==
    \/ \E delay \in Delays : Add(delay)
    \/ \E id \in 1..MaxId : Del(id)
    \/ Update
    \/ Advance

Spec == Init /\ [][Next]_vars

-----------------------------------------------------------------------------

\* The heap implements a timer queue: Update expires exactly what is due, in the order of
\* the times, and Add and Del change one timer.
Pending == [id \in DOMAIN q.node |-> q.node[id].when]
TQ == INSTANCE TimerQueue WITH pending <- Pending
ImplementsQueue == TQ!Spec
=============================================================================
