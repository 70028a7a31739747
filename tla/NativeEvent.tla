---------------------------- MODULE NativeEvent ----------------------------
(***************************************************************************)
(* The event library (native/event/native_event.cpp): listeners and        *)
(* one-time listeners of each event, by function name.  A listener runs    *)
(* inside emit and may use the library itself, emit included, or throw.    *)
(*                                                                         *)
(* A subscription is [func, id]; the id is history and tells two           *)
(* subscriptions of one function apart.                                    *)
(***************************************************************************)
EXTENDS Integers, SequencesExt

CONSTANTS Events, Funcs,
          Callable,   \* the functions that have TCC or GCC code; the others are skipped
          MaxSubs,    \* bound: subscriptions ever made
          MaxDepth    \* bound: emits inside emits

VARIABLES listeners, once,    \* EventState
          emits,              \* the emits in progress, the innermost last
          subs,               \* history: the kind of each subscription made so far
          ran,                \* history: the ones that ran
          gone                \* history: one-time subscriptions that off, clear or a throwing listener removed

eventVars == <<listeners, once, emits, subs, ran, gone>>

None == [e \in Events |-> <<>>]
IdsIn(s) == {s[i].id : i \in DOMAIN s}

EventInit ==
    /\ listeners = None /\ once = None /\ emits = <<>>
    /\ subs = <<>> /\ ran = {} /\ gone = {}

\* Listeners run only at the top of the stack; outside every emit the host calls.
HostOrListener == emits # <<>> => Last(emits).at = "listener"

EventOn(e, f) ==
    /\ HostOrListener /\ Len(subs) < MaxSubs
    /\ listeners' = [listeners EXCEPT ![e] = Append(@, [func |-> f, id |-> Len(subs) + 1])]
    /\ subs' = Append(subs, "on")
    /\ UNCHANGED <<once, emits, ran, gone>>

EventOnce(e, f) ==
    /\ HostOrListener /\ Len(subs) < MaxSubs
    /\ once' = [once EXCEPT ![e] = Append(@, [func |-> f, id |-> Len(subs) + 1])]
    /\ subs' = Append(subs, "once")
    /\ UNCHANGED <<listeners, emits, ran, gone>>

\* The first subscription of f.
WithoutFirst(s, f) ==
    IF \E i \in DOMAIN s : s[i].func = f
    THEN RemoveAt(s, CHOOSE i \in DOMAIN s : s[i].func = f /\ \A j \in 1..(i - 1) : s[j].func # f) ELSE s

EventOff(e, f) ==
    /\ HostOrListener
    /\ listeners' = [listeners EXCEPT ![e] = WithoutFirst(@, f)]
    /\ once' = [once EXCEPT ![e] = WithoutFirst(@, f)]
    /\ gone' = gone \cup (IdsIn(once[e]) \ IdsIn(once'[e]))
    /\ UNCHANGED <<emits, subs, ran>>

EventClear(es) ==
    /\ HostOrListener
    /\ listeners' = [e \in Events |-> IF e \in es THEN <<>> ELSE listeners[e]]
    /\ once' = [e \in Events |-> IF e \in es THEN <<>> ELSE once[e]]
    /\ gone' = gone \cup UNION {IdsIn(once[e]) : e \in es}
    /\ UNCHANGED <<emits, subs, ran>>

\* emit takes a snapshot of the listeners.
EventEmit(e) ==
    /\ HostOrListener /\ Len(emits) < MaxDepth
    /\ emits' = Append(emits, [event |-> e, list |-> "on", left |-> listeners[e], at |-> "loop", since |-> Len(subs)])
    /\ UNCHANGED <<listeners, once, subs, ran, gone>>

Top == Last(emits)
WithTop(f) == Append(Front(emits), f)

\* The next function of the snapshot is called; one that has no code is skipped.
DispatchEvent ==
    /\ emits # <<>> /\ Top.at = "loop" /\ Top.left # <<>>
    /\ LET s == Head(Top.left)
       IN  IF s.func \in Callable
           THEN /\ emits' = WithTop([Top EXCEPT !.left = Tail(@), !.at = "listener"])
                /\ ran' = ran \cup {s.id} /\ UNCHANGED gone
           ELSE /\ emits' = WithTop([Top EXCEPT !.left = Tail(@)])
                /\ gone' = IF Top.list = "once" THEN gone \cup {s.id} ELSE gone
                /\ UNCHANGED ran
    /\ UNCHANGED <<listeners, once, subs>>

ListenerReturns ==
    /\ emits # <<>> /\ Top.at = "listener"
    /\ emits' = WithTop([Top EXCEPT !.at = "loop"])
    /\ UNCHANGED <<listeners, once, subs, ran, gone>>

\* Mutant: the one-time listeners are forgotten when they have run.
TakeOnceLate ==
    /\ emits # <<>> /\ Top.at = "loop" /\ Top.list = "on" /\ Top.left = <<>>
    /\ emits' = WithTop([Top EXCEPT !.list = "once", !.left = once[Top.event]])
    /\ UNCHANGED <<listeners, once, subs, ran, gone>>

\* After the listeners, the one-time listeners are taken out, and then called.
TakeOnce ==
    /\ emits # <<>> /\ Top.at = "loop" /\ Top.list = "on" /\ Top.left = <<>>
    /\ emits' = WithTop([Top EXCEPT !.list = "once", !.left = once[Top.event]])
    /\ once' = [once EXCEPT ![Top.event] = <<>>]
    /\ UNCHANGED <<listeners, subs, ran, gone>>

EmitReturns ==
    /\ emits # <<>> /\ Top.at = "loop" /\ Top.list = "once" /\ Top.left = <<>>
    /\ emits' = Front(emits)
    /\ UNCHANGED <<listeners, once, subs, ran, gone>>

\* An error leaves emit, and the emits around it unless a pcall of a listener stops it there.
ListenerThrows ==
    /\ emits # <<>> /\ Top.at = "listener"
    /\ \E depth \in 0..(Len(emits) - 1) :
          LET lost == SubSeq(emits, depth + 1, Len(emits))
          IN  /\ emits' = SubSeq(emits, 1, depth)
              /\ gone' = gone \cup UNION {IF f.list = "once" THEN IdsIn(f.left) ELSE {} : f \in Range(lost)}
    /\ UNCHANGED <<listeners, once, subs, ran>>

EventNext ==
    \/ \E e \in Events, f \in Funcs : EventOn(e, f) \/ EventOnce(e, f) \/ EventOff(e, f)
    \/ \E es \in {{e} : e \in Events} \cup {Events} : EventClear(es)
    \/ \E e \in Events : EventEmit(e)
    \/ DispatchEvent \/ ListenerReturns \/ TakeOnce \/ EmitReturns \/ ListenerThrows

-----------------------------------------------------------------------------

\* A one-time subscription runs once: while it waits it is in one place, the list of its event or the snapshot
\* of one emit, and it has not run; once it is in neither it has run or was removed. Nested emits of the same
\* event and listeners that subscribe again make no difference.
OnceRunsOnce ==
    LET waiting(i) ==
            Cardinality({e \in Events : i \in IdsIn(once[e])})
          + Cardinality({d \in DOMAIN emits : emits[d].list = "once" /\ i \in IdsIn(emits[d].left)})
        snapshots == UNION {IF f.list = "on" THEN IdsIn(f.left) ELSE {} : f \in Range(emits)}
    IN  \A i \in DOMAIN subs : subs[i] = "once" =>
            /\ waiting(i) <= 1 /\ i \notin snapshots
            /\ waiting(i) = 1 <=> i \notin ran \cup gone

=============================================================================
