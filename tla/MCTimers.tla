------------------------------ MODULE MCTimers ------------------------------
(***************************************************************************)
(* The timer library and the heap it is built on.  A behaviour is one of   *)
(* the two.  In the library, two timers make a batch in which one callback *)
(* may delete the other, two heartbeats make one that replaces another     *)
(* from inside a callback, and three units of time make a tick that is     *)
(* late by two beats.  In the heap, ten timers make the smallest one in    *)
(* which a node that takes a deleted node's place may have to move up:     *)
(* node 9 is below node 2, and takes the place of one of 5..8, which are   *)
(* below node 1.                                                           *)
(***************************************************************************)
EXTENDS NativeTimer

VARIABLES part, heap, timerId, ops, heapNow, heapExpired

HeapOps == 2
Heap == INSTANCE HeapTimer WITH
            Delays <- {0, 1}, Capacity <- 10, MaxId <- 10, MaxOps <- HeapOps, MaxTime <- 1,
            q <- heap, now <- heapNow, expired <- heapExpired

heapVars == <<heap, timerId, ops, heapNow, heapExpired>>
allVars == <<part, vars, heapVars>>

MCInit == part \in {"library", "heap"} /\ Init /\ Heap!Init

\* Bounds of the heap: time passes between its two operations, and more than five timers are added before them.
Manageable ==
    /\ heapNow' # heapNow => ops = HeapOps - 1
    /\ timerId' # timerId => ops = 0 \/ timerId < 5

MCNext ==
    \/ part = "library" /\ Next /\ UNCHANGED <<part, heapVars>>
    \/ part = "heap" /\ Heap!Next /\ Manageable /\ UNCHANGED <<part, vars>>
    \/ part = "heap" /\ ops = HeapOps /\ UNCHANGED allVars

Library(A) == part = "library" /\ A /\ UNCHANGED <<part, heapVars>>

\* The fairness of NativeTimer.
MCSpec ==
    /\ MCInit /\ [][MCNext]_allVars
    /\ WF_allVars(Library(Tick)) /\ WF_allVars(Library(CallbackReturns)) /\ WF_allVars(Library(Advance))

\* The heap implements a TimerQueue; the module states and explains it.
ImplementsQueue == Heap!ImplementsQueue
=============================================================================
