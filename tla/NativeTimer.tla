---------------------------- MODULE NativeTimer ----------------------------
(***************************************************************************)
(* The timer library of one State (native/timer/native_timer.cpp): one-    *)
(* shot timers and a heartbeat, driven by runtime.tick, whose callbacks    *)
(* are scripts that may set and delete timers themselves, or throw.        *)
(*                                                                         *)
(* Its queue is a TimerQueue, which HeapTimer implements.  A tick is taken *)
(* apart where the clock is read again and where scripts run.  A nested    *)
(* runtime.tick returns at once (in_tick), so it is not an action.         *)
(***************************************************************************)
EXTENDS Integers, Sequences, FiniteSets

CONSTANTS
    Delays,      \* delays that scripts request
    Intervals,   \* heartbeat intervals that scripts request
    Callbacks,   \* function names that scripts give
    Callable,    \* those of them that have C code or are native functions
    NoName,      \* no function name
    Capacity,    \* INT32_MAX in the code: AddAt refuses beyond it
    MaxId,       \* bound: timers ever set
    MaxBeats,    \* bound: calls of set_heartbeat
    MaxTime      \* bound: how far the clock runs

ASSUME TimerAssumption ==
    /\ Delays \subseteq Nat
    /\ Intervals \subseteq Nat \ {0}
    /\ Callable \subseteq Callbacks
    /\ NoName \notin Callbacks
    /\ {Capacity, MaxId, MaxBeats, MaxTime} \subseteq Nat

VARIABLES
    pending, now, expired,   \* heap: a TimerQueue
    lastId,      \* heap.timer_id_
    callbacks,   \* callbacks: the function name of every id
    hb,          \* heartbeat_active, _next and _interval_ms; cb tells whether _cb is callable
    inTick,      \* in_tick
    cancelled,   \* cancelled_this_tick
    tickNow,     \* now of TickAll
    toFire,      \* the part of to_fire that the loop has not reached: ids with function names
    pc,          \* where TickAll is; "out": not running
    ran,         \* history: how often the callback of each id ran
    deleted,     \* history: the ids that timer.del was called with
    lost,        \* history: the ids that an exception of another callback dropped
    beat         \* history of the heartbeat: when and how often it was set, its beats since,
                 \* and the time of the last of them with how many had that time

timerVars == <<pending, now, expired, lastId, callbacks>>
tickVars == <<inTick, cancelled, tickNow, toFire, pc>>
history == <<ran, deleted, lost, beat>>
vars == <<timerVars, tickVars, hb, history>>

Q == INSTANCE TimerQueue

Init ==
    /\ Q!Init
    /\ lastId = 0
    /\ callbacks = [id \in {} |-> 0]
    /\ hb = [active |-> FALSE, next |-> 0, interval |-> 0, cb |-> FALSE]
    /\ inTick = FALSE
    /\ cancelled = {}
    /\ tickNow = 0
    /\ toFire = <<>>
    /\ pc = "out"
    /\ ran = [id \in 1..MaxId |-> 0]
    /\ deleted = {}
    /\ lost = {}
    /\ beat = [setAt |-> 0, sets |-> 0, beats |-> 0, at |-> 0, burst |-> 0]

\* Scripts run between ticks and inside the callbacks.
InCallback == pc \in {"timer_cb", "heartbeat_cb"}
ScriptRuns == pc = "out" \/ InCallback

-----------------------------------------------------------------------------
(* The functions scripts call.                                             *)

TimerSet(delay, cb) ==
    /\ ScriptRuns
    /\ lastId < MaxId
    /\ now + delay <= MaxTime
    /\ Cardinality(DOMAIN pending) < Capacity
    /\ Q!Add(lastId + 1, now + delay)
    /\ lastId' = lastId + 1
    /\ callbacks' = [id \in DOMAIN callbacks \cup {lastId + 1} |->
                       IF id = lastId + 1 THEN cb ELSE callbacks[id]]
    /\ UNCHANGED <<tickVars, hb, history>>

\* Mutant: a timer is deleted from the heap only.
CallbacksWithoutNone(id) == callbacks

CallbacksWithout(id) == [x \in DOMAIN callbacks \ {id} |-> callbacks[x]]

\* Mutant: timer.del knows the heap and the map only.
CancelledWithOld(id) == cancelled

\* An expired timer is in neither the heap nor the map, so a tick is told by its own set.
CancelledWith(id) == IF inTick THEN cancelled \cup {id} ELSE cancelled

TimerDel(id) ==
    /\ ScriptRuns
    /\ Q!Del(id)
    /\ callbacks' = CallbacksWithout(id)
    /\ cancelled' = CancelledWith(id)
    /\ deleted' = deleted \cup {id}
    /\ UNCHANGED <<lastId, inTick, tickNow, toFire, pc, hb, ran, lost, beat>>

\* Mutant: the first beat comes at once.
FirstBeatNow(interval) == now

FirstBeat(interval) == now + interval

TimerSetHeartbeat(interval, cb) ==
    /\ ScriptRuns
    /\ beat.sets < MaxBeats
    /\ hb' = [active |-> TRUE, next |-> FirstBeat(interval), interval |-> interval, cb |-> cb \in Callable]
    /\ beat' = [setAt |-> now, sets |-> beat.sets + 1, beats |-> 0, at |-> now, burst |-> 0]
    /\ UNCHANGED <<timerVars, tickVars, ran, deleted, lost>>

-----------------------------------------------------------------------------
(* TickAll.                                                                *)

TickBegin ==
    /\ pc = "out"
    /\ ~inTick
    /\ tickNow' = now
    /\ inTick' = TRUE
    /\ cancelled' = {}
    /\ pc' = "update"
    /\ UNCHANGED <<timerVars, toFire, hb, history>>

\* An expired id that the map does not know is not fired; here it is, with no name to call.
NameOf(id) == IF id \in DOMAIN callbacks THEN callbacks[id] ELSE NoName

\* heap.Update() reads the clock again; the expired timers leave the map.
TickUpdate ==
    /\ pc = "update"
    /\ Q!Expire
    /\ toFire' = [i \in DOMAIN expired' |-> [id |-> expired'[i], cb |-> NameOf(expired'[i])]]
    /\ callbacks' = [id \in DOMAIN callbacks \ Q!Due |-> callbacks[id]]
    /\ pc' = "fire"
    /\ UNCHANGED <<lastId, inTick, cancelled, tickNow, hb, history>>

\* CallLuaTimerEvent: a name without C code and that is no native function calls nothing.
FireNext ==
    /\ pc = "fire"
    /\ toFire # <<>>
    /\ toFire' = Tail(toFire)
    /\ LET t == Head(toFire)
           runs == t.id \notin cancelled /\ t.cb \in Callable
       IN /\ pc' = IF runs THEN "timer_cb" ELSE "fire"
          /\ ran' = IF runs THEN [ran EXCEPT ![t.id] = @ + 1] ELSE ran
    /\ UNCHANGED <<timerVars, inTick, cancelled, tickNow, hb, deleted, lost, beat>>

\* Mutant: a late tick makes up for every beat it missed.
NextBeatBacklog == hb.next + hb.interval

\* The next beat, never in the past however late the tick is.
NextBeat ==
    LET next == hb.next + hb.interval
    IN IF next < tickNow THEN tickNow + hb.interval ELSE next

BeatDue == hb.active /\ tickNow >= hb.next

TickHeartbeat ==
    /\ pc = "fire"
    /\ toFire = <<>>
    /\ BeatDue
    /\ hb' = [hb EXCEPT !.next = NextBeat]
    /\ beat' = [beat EXCEPT !.beats = @ + 1, !.at = tickNow,
                         !.burst = IF beat.at = tickNow THEN @ + 1 ELSE 1]
    /\ pc' = IF hb.cb THEN "heartbeat_cb" ELSE "end"
    /\ UNCHANGED <<timerVars, inTick, cancelled, tickNow, toFire, ran, deleted, lost>>

TickEnd ==
    /\ pc = "end" \/ (pc = "fire" /\ toFire = <<>> /\ ~BeatDue)
    /\ inTick' = FALSE
    /\ cancelled' = {}
    /\ pc' = "out"
    /\ UNCHANGED <<timerVars, tickNow, toFire, hb, history>>

CallbackReturns ==
    /\ InCallback
    /\ pc' = IF pc = "timer_cb" THEN "fire" ELSE "end"
    /\ UNCHANGED <<timerVars, inTick, cancelled, tickNow, toFire, hb, history>>

\* Mutant: an exception leaves the tick marked as running.
InTickAfterThrowKept == inTick

InTickAfterThrow == FALSE

\* The exception leaves TickAll, and the rest of the batch with it.
CallbackThrows ==
    /\ InCallback
    /\ inTick' = InTickAfterThrow
    /\ cancelled' = {}
    /\ toFire' = <<>>
    /\ lost' = lost \cup {toFire[i].id : i \in DOMAIN toFire}
    /\ pc' = "out"
    /\ UNCHANGED <<timerVars, tickNow, hb, ran, deleted, beat>>

\* Time passes (external).
Advance ==
    /\ now < MaxTime
    /\ Q!Advance
    /\ UNCHANGED <<lastId, callbacks, tickVars, hb, history>>

Script ==
    \/ \E delay \in Delays, cb \in Callbacks : TimerSet(delay, cb)
    \/ \E id \in 1..lastId : TimerDel(id)
    \/ \E interval \in Intervals, cb \in Callbacks : TimerSetHeartbeat(interval, cb)

Tick ==
    \/ TickBegin
    \/ TickUpdate
    \/ FireNext
    \/ TickHeartbeat
    \/ TickEnd

Next == Script \/ Tick \/ CallbackReturns \/ CallbackThrows \/ Advance

\* The host calls runtime.tick from its main loop, callbacks end, and time passes.
Fairness == WF_vars(Tick) /\ WF_vars(CallbackReturns) /\ WF_vars(Advance)

Spec == Init /\ [][Next]_vars /\ Fairness

-----------------------------------------------------------------------------

TypeOK ==
    /\ pending \in [DOMAIN pending -> Nat]
    /\ DOMAIN pending \subseteq 1..lastId
    /\ now \in Nat
    /\ lastId \in 0..MaxId
    /\ callbacks \in [DOMAIN callbacks -> Callbacks]
    /\ hb \in [active : BOOLEAN, next : Nat, interval : Nat, cb : BOOLEAN]
    /\ tickNow \in Nat
    /\ toFire \in Seq([id : 1..MaxId, cb : Callbacks \cup {NoName}])
    /\ pc \in {"out", "update", "fire", "timer_cb", "heartbeat_cb", "end"}
    /\ ran \in [1..MaxId -> Nat]
    /\ deleted \subseteq 1..lastId
    /\ beat \in [setAt : Nat, sets : Nat, beats : Nat, at : Nat, burst : Nat]

\* A function name is kept exactly as long as its timer waits: none leaks, and no timer
\* expires without one (native_timer.cpp:191, 216).
CallbacksMatch == DOMAIN callbacks = DOMAIN pending

\* The callback of a timer starts at most once, and never after timer.del was called for it,
\* not even when the timer has already expired in the tick that is running
\* (native_timer.cpp:211, 223).
RunsOnceUnlessDeleted ==
    [][\A id \in 1..MaxId : ran'[id] # ran[id] => ran[id] = 0 /\ id \notin deleted]_vars

\* However irregularly the host ticks, a heartbeat of interval i beats at most t/i times in the
\* t milliseconds since it was set, by whichever callback it was set (native_timer.cpp:231).
HeartbeatRate == beat.beats * hb.interval <= now - beat.setAt

\* A host that stalls for many intervals makes up for at most one beat: no more than two come
\* at one time (native_timer.cpp:232).
NoBurst == beat.burst <= 2

\* Every timer that is set runs, unless a script deletes it, it names no function that can be
\* called, or another callback of its batch throws (native_timer.cpp:237).
EveryTimerRuns ==
    \A id \in 1..MaxId :
        (id \in DOMAIN pending /\ callbacks[id] \in Callable) ~> (ran[id] = 1 \/ id \in deleted \cup lost)

-----------------------------------------------------------------------------

\* A batch exists only while TickAll fires it; its ids differ, and have left the queue.
BatchOK ==
    /\ inTick <=> pc # "out"
    /\ pc \notin {"fire", "timer_cb"} => toFire = <<>>
    /\ \A i \in DOMAIN toFire :
          /\ toFire[i].id \in 1..lastId
          /\ toFire[i].id \notin DOMAIN pending
          /\ ran[toFire[i].id] = 0
          /\ toFire[i].id \in deleted => toFire[i].id \in cancelled
          /\ \A j \in DOMAIN toFire : i # j => toFire[i].id # toFire[j].id

\* A timer that waits has not run and was not deleted; an id not given out has not run.
WaitingOK ==
    /\ \A id \in DOMAIN pending : ran[id] = 0 /\ id \notin deleted
    /\ \A id \in (lastId + 1)..MaxId : ran[id] = 0

\* The next beat is at least one interval per beat after set_heartbeat, and behind the
\* tick by less than the two beats that NoBurst allows.
HeartbeatOK ==
    /\ tickNow <= now
    /\ beat.setAt <= now
    /\ ~hb.active => hb.interval = 0 /\ beat.beats = 0 /\ beat.burst = 0
    /\ hb.active =>
          /\ hb.interval > 0
          /\ beat.setAt + beat.beats * hb.interval + hb.interval <= hb.next
          /\ \/ beat.burst = 0
             \/ beat.burst = 1 /\ hb.next >= beat.at
             \/ beat.burst = 2 /\ hb.next > beat.at

\* The inductive invariant of the timer library: what the map, the batch, the queue and the
\* heartbeat of TickAll have to do with each other.
IInv ==
    /\ TypeOK
    /\ CallbacksMatch
    /\ BatchOK
    /\ WaitingOK
    /\ HeartbeatOK
    /\ HeartbeatRate
=============================================================================
