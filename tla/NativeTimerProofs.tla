------------------------- MODULE NativeTimerProofs -------------------------
(***************************************************************************)
(* The inductive invariant of NativeTimer, and what follows from it, for   *)
(* every set of delays, intervals and function names.                      *)
(***************************************************************************)
EXTENDS NativeTimer, FiniteSetTheorems, SequenceTheorems, TLAPS

\* A function on 1..n is a sequence.
LEMMA FunctionIsSeq ==
    ASSUME NEW S, NEW n \in Nat, NEW f \in [1..n -> S]
    PROVE  f \in Seq(S)
OBVIOUS

\* What is left of a sequence when its head is taken.
LEMMA TailOf ==
    ASSUME NEW S, NEW s \in Seq(S), s # <<>>
    PROVE  /\ Len(s) \in Nat \ {0}
           /\ DOMAIN s = 1..Len(s)
           /\ Head(s) = s[1] /\ Head(s) \in S
           /\ Tail(s) \in Seq(S)
           /\ DOMAIN Tail(s) = 1..(Len(s) - 1)
           /\ \A i \in DOMAIN Tail(s) : i + 1 \in DOMAIN s /\ Tail(s)[i] = s[i + 1]
<1>1. Len(s) \in Nat /\ DOMAIN s = 1..Len(s) /\ Len(s) # 0
  BY EmptySeq, LenProperties
<1>2. Head(s) \in S /\ Tail(s) \in Seq(S) /\ Len(Tail(s)) = Len(s) - 1
  BY HeadTailProperties
<1>3. Head(s) = s[1]
  BY <1>1
<1>4. \A i \in 1..Len(Tail(s)) : Tail(s)[i] = s[i + 1]
  BY HeadTailProperties
<1>5. DOMAIN Tail(s) = 1..Len(Tail(s))
  BY <1>2, LenProperties
<1>6. \A i \in 1..(Len(s) - 1) : i + 1 \in 1..Len(s)
  BY <1>1
<1>7. QED
  BY <1>1, <1>2, <1>3, <1>4, <1>5, <1>6

\* Ids are numbers, and the ids given out are ids.
LEMMA Ids ==
    ASSUME TypeOK
    PROVE  /\ MaxId \in Nat /\ lastId \in Nat /\ lastId <= MaxId
           /\ 1..lastId \subseteq 1..MaxId
           /\ (lastId + 1)..MaxId \subseteq (1..MaxId) \ (1..lastId)
<1>1. MaxId \in Nat /\ lastId \in 0..MaxId
  BY TimerAssumption DEF TypeOK
<1>2. QED
  BY <1>1

\* The initial state of the timer library has the invariant.
LEMMA InitKeeps == Init => IInv
<1> SUFFICES ASSUME Init PROVE IInv
  OBVIOUS
<1>1. TypeOK
  BY TimerAssumption DEF Init, Q!Init, TypeOK
<1>2. CallbacksMatch /\ BatchOK /\ WaitingOK
  BY DEF Init, Q!Init, CallbacksMatch, BatchOK, WaitingOK
<1>3. HeartbeatOK /\ HeartbeatRate
  BY DEF Init, Q!Init, HeartbeatOK, HeartbeatRate
<1>4. QED
  BY <1>1, <1>2, <1>3 DEF IInv

\* A step that leaves the heartbeat and both clocks alone keeps what is known of them.
LEMMA HeartbeatFrame ==
    ASSUME IInv, UNCHANGED <<now, tickNow, hb, beat>>
    PROVE  HeartbeatOK' /\ HeartbeatRate'
<1>1. HeartbeatOK'
  BY DEF IInv, HeartbeatOK
<1>2. HeartbeatRate'
  BY DEF IInv, HeartbeatRate
<1>3. QED
  BY <1>1, <1>2

\* A step that leaves the timers alone keeps what is known of them.
LEMMA TimersFrame ==
    ASSUME IInv, UNCHANGED <<pending, lastId, callbacks, ran, deleted>>
    PROVE  CallbacksMatch' /\ WaitingOK'
BY DEF IInv, CallbacksMatch, WaitingOK

\* timer.set keeps the invariant: its id is one that was never given out.
LEMMA TimerSetKeeps ==
    ASSUME IInv, NEW delay \in Delays, NEW cb \in Callbacks, TimerSet(delay, cb)
    PROVE  IInv'
<1> DEFINE id == lastId + 1
<1>1. id \in 1..MaxId /\ id \notin DOMAIN pending /\ now + delay \in Nat
  <2>1. delay \in Nat
    BY TimerAssumption
  <2>2. TypeOK /\ now \in Nat /\ DOMAIN pending \subseteq 1..lastId
    BY DEF IInv, TypeOK
  <2>3. lastId < MaxId
    BY DEF TimerSet
  <2>4. id \in 1..MaxId /\ id \notin 1..lastId
    BY <2>2, <2>3, Ids
  <2>5. QED
    BY <2>1, <2>2, <2>4
<1>2. UNCHANGED <<now, inTick, cancelled, tickNow, toFire, pc, hb, ran, deleted, lost, beat>>
  BY DEF TimerSet, Q!Add, tickVars, history
<1>3. /\ DOMAIN pending' = DOMAIN pending \cup {id}
      /\ DOMAIN callbacks' = DOMAIN callbacks \cup {id}
      /\ lastId' = id
  BY DEF TimerSet, Q!Add
<1>4. TypeOK'
  <2>1. pending' \in [DOMAIN pending' -> Nat]
    BY <1>1 DEF TimerSet, Q!Add, IInv, TypeOK
  <2>2. callbacks' \in [DOMAIN callbacks' -> Callbacks]
    BY <1>1 DEF TimerSet, IInv, TypeOK
  <2>3. QED
    BY <1>1, <1>2, <1>3, <2>1, <2>2 DEF IInv, TypeOK
<1>5. CallbacksMatch'
  BY <1>3 DEF IInv, CallbacksMatch
<1>6. BatchOK'
  <2>1. \A i \in DOMAIN toFire : toFire[i].id \in 1..id /\ toFire[i].id \notin DOMAIN pending'
    <3>1. \A i \in DOMAIN toFire : toFire[i].id \in 1..lastId /\ toFire[i].id \notin DOMAIN pending
      BY DEF IInv, BatchOK
    <3>2. 1..lastId \subseteq 1..id /\ id \notin 1..lastId
      BY Ids DEF IInv
    <3>3. QED
      BY <1>3, <3>1, <3>2
  <2>2. QED
    BY <1>2, <1>3, <2>1 DEF IInv, BatchOK
<1>7. WaitingOK'
  BY <1>1, <1>2, <1>3 DEF IInv, TypeOK, WaitingOK
<1>8. QED
  BY <1>2, <1>4, <1>5, <1>6, <1>7, HeartbeatFrame DEF IInv

\* timer.del keeps the invariant: whatever it takes from the queue and the map is gone, and
\* whatever is in the batch is cancelled.
LEMMA TimerDelKeeps ==
    ASSUME IInv, NEW id \in 1..lastId, TimerDel(id)
    PROVE  IInv'
<1>1. UNCHANGED <<now, lastId, inTick, tickNow, toFire, pc, hb, ran, lost, beat>>
  BY DEF TimerDel, Q!Del
<1>2. /\ DOMAIN pending' = DOMAIN pending \ {id}
      /\ DOMAIN callbacks' = DOMAIN callbacks \ {id}
      /\ deleted' = deleted \cup {id}
  BY DEF TimerDel, Q!Del, CallbacksWithout
<1>3. TypeOK'
  <2>1. pending' \in [DOMAIN pending' -> Nat]
    BY DEF TimerDel, Q!Del, IInv, TypeOK
  <2>2. callbacks' \in [DOMAIN callbacks' -> Callbacks]
    BY DEF TimerDel, CallbacksWithout, IInv, TypeOK
  <2>3. QED
    BY <1>1, <1>2, <2>1, <2>2 DEF IInv, TypeOK
<1>4. CallbacksMatch'
  BY <1>2 DEF IInv, CallbacksMatch
<1>5. BatchOK'
  <2>1. inTick \/ toFire = <<>>
    BY DEF IInv, BatchOK
  <2>2. inTick => cancelled' = cancelled \cup {id}
    BY DEF TimerDel, CancelledWith
  <2>3. \A i \in DOMAIN toFire : toFire[i].id \in deleted' => toFire[i].id \in cancelled'
    BY <1>2, <2>1, <2>2 DEF IInv, BatchOK
  <2>4. QED
    BY <1>1, <1>2, <2>3 DEF IInv, BatchOK
<1>6. WaitingOK'
  BY <1>1, <1>2 DEF IInv, WaitingOK
<1>7. QED
  BY <1>1, <1>3, <1>4, <1>5, <1>6, HeartbeatFrame DEF IInv

\* timer.set_heartbeat keeps the invariant: a new heartbeat owes nothing to the old one.
LEMMA TimerSetHeartbeatKeeps ==
    ASSUME IInv, NEW interval \in Intervals, NEW cb \in Callbacks, TimerSetHeartbeat(interval, cb)
    PROVE  IInv'
<1>1. interval \in Nat /\ interval > 0
  BY TimerAssumption
<1>2. UNCHANGED <<pending, now, lastId, callbacks, inTick, cancelled, tickNow, toFire, pc, ran, deleted>>
  BY DEF TimerSetHeartbeat, timerVars, tickVars
<1>3. /\ hb' = [active |-> TRUE, next |-> now + interval, interval |-> interval, cb |-> cb \in Callable]
      /\ beat' = [setAt |-> now, sets |-> beat.sets + 1, beats |-> 0, at |-> now, burst |-> 0]
  BY DEF TimerSetHeartbeat, FirstBeat
<1>4. TypeOK'
  <2>1. now \in Nat /\ now + interval \in Nat /\ beat.sets + 1 \in Nat
    BY <1>1 DEF IInv, TypeOK
  <2>2. hb' \in [active : BOOLEAN, next : Nat, interval : Nat, cb : BOOLEAN]
    BY <1>1, <1>3, <2>1
  <2>3. beat' \in [setAt : Nat, sets : Nat, beats : Nat, at : Nat, burst : Nat]
    BY <1>3, <2>1
  <2>4. QED
    BY <1>2, <2>2, <2>3 DEF IInv, TypeOK
<1>5. BatchOK'
  BY <1>2 DEF IInv, BatchOK
<1>6. HeartbeatOK' /\ HeartbeatRate'
  <2>1. /\ hb'.active /\ hb'.next = now + interval /\ hb'.interval = interval
        /\ beat'.setAt = now /\ beat'.beats = 0 /\ beat'.burst = 0
    BY <1>3
  <2>2. 0 * interval = 0 /\ now \in Nat
    BY <1>1 DEF IInv, TypeOK
  <2>3. HeartbeatOK'
    BY <1>1, <1>2, <2>1, <2>2 DEF IInv, HeartbeatOK
  <2>4. HeartbeatRate'
    BY <1>1, <1>2, <2>1, <2>2 DEF HeartbeatRate
  <2>5. QED
    BY <2>3, <2>4
<1>7. QED
  BY <1>2, <1>4, <1>5, <1>6, TimersFrame DEF IInv

\* The batch that TickUpdate takes from the queue: different ids, all of them due.
LEMMA Batch ==
    ASSUME IInv, Q!Expire
    PROVE  \E n \in Nat :
              /\ expired' \in [1..n -> Q!Due]
              /\ \A i, j \in 1..n : i # j => expired'[i] # expired'[j]
<1>1. lastId \in Int /\ 1 \in Int
  BY Ids DEF IInv
<1>2. IsFiniteSet(Q!Due)
  <2>1. IsFiniteSet(1..lastId)
    BY <1>1, FS_Interval
  <2>2. Q!Due \subseteq 1..lastId
    BY DEF IInv, TypeOK, Q!Due
  <2>3. QED
    BY <2>1, <2>2, FS_Subset
<1>3. Cardinality(Q!Due) \in Nat
  BY <1>2, FS_CardinalityType
<1>4. /\ expired' \in [1..Cardinality(Q!Due) -> Q!Due]
      /\ \A i, j \in 1..Cardinality(Q!Due) : i < j => expired'[i] # expired'[j]
  <2>1. expired' \in Q!Orders(Q!Due)
    BY DEF Q!Expire
  <2>2. Q!Cardinality(Q!Due) = Cardinality(Q!Due)
    BY DEF Q!Cardinality, Cardinality
  <2>3. QED
    BY <2>1, <2>2 DEF Q!Orders
<1>5. \A i, j \in 1..Cardinality(Q!Due) : i # j => i < j \/ j < i
  BY <1>3
<1>6. QED
  BY <1>3, <1>4, <1>5

\* TickUpdate keeps the invariant: what leaves the queue leaves the map, and is in the batch.
LEMMA TickUpdateKeeps ==
    ASSUME IInv, TickUpdate
    PROVE  IInv'
<1> USE TimerAssumption DEF IInv
<1>0. PICK n \in Nat :
          /\ expired' \in [1..n -> Q!Due]
          /\ \A i, j \in 1..n : i # j => expired'[i] # expired'[j]
  BY Batch DEF TickUpdate
<1>1. DOMAIN expired' = 1..n /\ \A i \in 1..n : expired'[i] \in DOMAIN pending
  BY <1>0 DEF Q!Due
<1>2. \A id \in DOMAIN pending : id \in 1..MaxId /\ NameOf(id) \in Callbacks \cup {NoName}
  BY DEF TypeOK, NameOf
<1>3. /\ DOMAIN toFire' = 1..n
      /\ \A i \in 1..n : toFire'[i] = [id |-> expired'[i], cb |-> NameOf(expired'[i])]
  BY <1>1 DEF TickUpdate
<1>4. toFire' \in Seq([id : 1..MaxId, cb : Callbacks \cup {NoName}])
  <2>1. toFire' \in [1..n -> [id : 1..MaxId, cb : Callbacks \cup {NoName}]]
    BY <1>1, <1>2, <1>3 DEF TickUpdate
  <2>2. QED
    BY <1>0, <2>1, FunctionIsSeq
<1>5. TypeOK'
  BY <1>4 DEF TypeOK, TickUpdate, Q!Expire, history
<1>6. CallbacksMatch'
  BY DEF CallbacksMatch, TypeOK, TickUpdate, Q!Expire
<1>7. BatchOK'
  <2>1. (inTick' <=> pc' # "out") /\ pc' = "fire"
    BY DEF BatchOK, TickUpdate
  <2>2. ASSUME NEW i \in DOMAIN toFire'
        PROVE  /\ toFire'[i].id \in 1..lastId'
               /\ toFire'[i].id \notin DOMAIN pending'
               /\ ran'[toFire'[i].id] = 0
               /\ toFire'[i].id \notin deleted'
               /\ \A j \in DOMAIN toFire' : i # j => toFire'[i].id # toFire'[j].id
    BY <1>0, <1>1, <1>3 DEF WaitingOK, TypeOK, TickUpdate, Q!Expire, history
  <2>3. QED
    BY <2>1, <2>2 DEF BatchOK
<1>8. WaitingOK'
  BY DEF WaitingOK, TypeOK, TickUpdate, Q!Expire, history
<1>9. HeartbeatOK' /\ HeartbeatRate'
  BY DEF HeartbeatOK, HeartbeatRate, TickUpdate, Q!Expire, history
<1>10. QED
  BY <1>5, <1>6, <1>7, <1>8, <1>9

\* FireNext keeps the invariant, and starts only callbacks that have not run and whose timer
\* was not deleted.
LEMMA FireNextKeeps ==
    ASSUME IInv, FireNext
    PROVE  /\ IInv'
           /\ \A id \in 1..MaxId : ran'[id] # ran[id] => ran[id] = 0 /\ id \notin deleted
<1> USE TimerAssumption DEF IInv
<1> DEFINE t == Head(toFire)
           Entry == [id : 1..MaxId, cb : Callbacks \cup {NoName}]
<1>0. /\ Len(toFire) \in Nat \ {0}
      /\ DOMAIN toFire = 1..Len(toFire)
      /\ t = toFire[1]
      /\ t \in Entry
      /\ toFire' \in Seq(Entry)
      /\ DOMAIN toFire' = 1..(Len(toFire) - 1)
      /\ \A i \in DOMAIN toFire' : i + 1 \in DOMAIN toFire /\ toFire'[i] = toFire[i + 1]
  <2>1. toFire \in Seq(Entry) /\ toFire # <<>> /\ toFire' = Tail(toFire)
    BY DEF TypeOK, FireNext
  <2> HIDE TimerAssumption DEF IInv, Entry
  <2>2. QED
    BY <2>1, TailOf
<1>1. /\ ran[t.id] = 0
      /\ t.id \in 1..lastId
      /\ t.id \notin DOMAIN pending
      /\ t.id \in deleted => t.id \in cancelled
      /\ \A i \in DOMAIN toFire' : toFire'[i].id # t.id
  BY <1>0 DEF BatchOK
<1>2. /\ ran' \in [1..MaxId -> Nat]
      /\ \A id \in 1..MaxId : id # t.id => ran'[id] = ran[id]
      /\ ran'[t.id] # ran[t.id] => t.id \notin cancelled
      /\ pc' \in {"fire", "timer_cb"}
  <2>1. ran \in [1..MaxId -> Nat] /\ t.id \in 1..MaxId
    BY <1>0 DEF TypeOK
  <2>2. \/ ran' = ran /\ pc' = "fire"
        \/ ran' = [ran EXCEPT ![t.id] = @ + 1] /\ pc' = "timer_cb" /\ t.id \notin cancelled
    BY DEF FireNext
  <2>3. QED
    BY <2>1, <2>2
<1>3. TypeOK'
  BY <1>0, <1>2 DEF TypeOK, FireNext, timerVars
<1>4. CallbacksMatch'
  BY DEF CallbacksMatch, FireNext, timerVars
<1>5. BatchOK'
  <2>1. (inTick' <=> pc' # "out") /\ pc' \in {"fire", "timer_cb"}
    BY <1>2 DEF BatchOK, FireNext
  <2>2. ASSUME NEW i \in DOMAIN toFire'
        PROVE  /\ toFire'[i].id \in 1..lastId'
               /\ toFire'[i].id \notin DOMAIN pending'
               /\ ran'[toFire'[i].id] = 0
               /\ toFire'[i].id \in deleted' => toFire'[i].id \in cancelled'
               /\ \A j \in DOMAIN toFire' : i # j => toFire'[i].id # toFire'[j].id
    <3>1. i + 1 \in DOMAIN toFire /\ toFire'[i] = toFire[i + 1]
      BY <1>0
    <3>2. /\ toFire[i + 1].id \in 1..lastId
          /\ toFire[i + 1].id \notin DOMAIN pending
          /\ ran[toFire[i + 1].id] = 0
          /\ toFire[i + 1].id \in deleted => toFire[i + 1].id \in cancelled
      BY <3>1 DEF BatchOK
    <3>3. \A j \in DOMAIN toFire' : i # j => toFire'[i].id # toFire'[j].id
      <4>1. SUFFICES ASSUME NEW j \in DOMAIN toFire', i # j
                     PROVE  toFire'[i].id # toFire'[j].id
        OBVIOUS
      <4>2. i \in Nat /\ j \in Nat
        BY <1>0
      <4>3. i + 1 # j + 1
        BY <4>1, <4>2
      <4>4. j + 1 \in DOMAIN toFire /\ toFire'[j] = toFire[j + 1]
        BY <1>0
      <4>5. QED
        BY <3>1, <4>3, <4>4 DEF BatchOK
    <3>4. ran'[toFire'[i].id] = 0
      <4>1. toFire'[i].id \in 1..MaxId /\ toFire'[i].id # t.id
        BY <1>1, <3>1, <3>2, Ids
      <4>2. QED
        BY <1>2, <3>1, <3>2, <4>1
    <3>5. QED
      BY <3>1, <3>2, <3>3, <3>4 DEF FireNext, timerVars
  <2>3. QED
    BY <2>1, <2>2 DEF BatchOK
<1>6. WaitingOK'
  <2>1. pending' = pending /\ lastId' = lastId /\ deleted' = deleted
    BY DEF FireNext, timerVars
  <2>2. \A id \in DOMAIN pending : id # t.id /\ id \in 1..MaxId
    BY <1>1, Ids DEF TypeOK
  <2>3. \A id \in (lastId + 1)..MaxId : id # t.id /\ id \in 1..MaxId
    BY <1>1, Ids DEF TypeOK
  <2>4. QED
    BY <1>2, <2>1, <2>2, <2>3 DEF WaitingOK
<1>7. HeartbeatOK' /\ HeartbeatRate'
  BY DEF HeartbeatOK, HeartbeatRate, FireNext, timerVars
<1>8. \A id \in 1..MaxId : ran'[id] # ran[id] => ran[id] = 0 /\ id \notin deleted
  BY <1>1, <1>2
<1>9. QED
  BY <1>3, <1>4, <1>5, <1>6, <1>7, <1>8

\* A beat keeps the invariant: the next one is at least one interval later, and after a late
\* tick in the future.
LEMMA TickHeartbeatKeeps ==
    ASSUME IInv, TickHeartbeat
    PROVE  IInv'
<1> USE TimerAssumption DEF IInv
<1>0. /\ hb.active /\ hb.next <= tickNow
      /\ hb.next \in Nat /\ hb.interval \in Nat /\ hb.interval > 0 /\ tickNow \in Nat /\ now \in Nat
      /\ beat.setAt \in Nat /\ beat.beats \in Nat /\ beat.burst \in Nat /\ beat.at \in Nat
  BY DEF TypeOK, HeartbeatOK, TickHeartbeat, BeatDue
<1>1. /\ NextBeat \in Nat
      /\ NextBeat >= hb.next + hb.interval
      /\ NextBeat >= tickNow
      /\ hb.next = tickNow => NextBeat > tickNow
  BY <1>0 DEF NextBeat
<1>2. TypeOK'
  <2>1. UNCHANGED <<pending, now, lastId, callbacks, tickNow, toFire, ran, deleted>>
    BY DEF TickHeartbeat, timerVars
  <2>2. hb' \in [active : BOOLEAN, next : Nat, interval : Nat, cb : BOOLEAN]
    BY <1>1 DEF TypeOK, TickHeartbeat
  <2>3. beat' \in [setAt : Nat, sets : Nat, beats : Nat, at : Nat, burst : Nat]
    <3>1. beat' = [setAt |-> beat.setAt, sets |-> beat.sets, beats |-> beat.beats + 1,
                   at |-> tickNow, burst |-> IF beat.at = tickNow THEN beat.burst + 1 ELSE 1]
      BY DEF TypeOK, TickHeartbeat
    <3>2. beat.sets \in Nat /\ (IF beat.at = tickNow THEN beat.burst + 1 ELSE 1) \in Nat
      BY <1>0 DEF TypeOK
    <3>3. QED
      BY <1>0, <3>1, <3>2
  <2>4. pc' \in {"heartbeat_cb", "end"}
    BY DEF TickHeartbeat
  <2>5. QED
    BY <2>1, <2>2, <2>3, <2>4 DEF TypeOK
<1>3. CallbacksMatch' /\ BatchOK' /\ WaitingOK'
  BY DEF CallbacksMatch, BatchOK, WaitingOK, TickHeartbeat, timerVars
<1>4. /\ hb'.active /\ hb'.next = NextBeat /\ hb'.interval = hb.interval
      /\ beat'.setAt = beat.setAt /\ beat'.beats = beat.beats + 1 /\ beat'.at = tickNow
      /\ beat'.burst = IF beat.at = tickNow THEN beat.burst + 1 ELSE 1
      /\ tickNow' = tickNow /\ now' = now
  BY <1>0 DEF TypeOK, TickHeartbeat, timerVars
<1>5. beat'.beats * hb'.interval = beat.beats * hb.interval + hb.interval
  BY <1>0, <1>4
<1>6. /\ beat.beats * hb.interval \in Nat
      /\ beat.setAt + beat.beats * hb.interval + hb.interval <= hb.next
  BY <1>0 DEF HeartbeatOK
<1>7. beat'.setAt + beat'.beats * hb'.interval + hb'.interval <= hb'.next
  BY <1>0, <1>1, <1>4, <1>5, <1>6
<1>8. \/ beat'.burst = 1 /\ hb'.next >= beat'.at
      \/ beat'.burst = 2 /\ hb'.next > beat'.at
  <2>1. \/ beat.burst = 0
        \/ beat.burst = 1 /\ hb.next >= beat.at
        \/ beat.burst = 2 /\ hb.next > beat.at
    BY <1>0 DEF HeartbeatOK
  <2>2. QED
    BY <2>1, <1>0, <1>1, <1>4
<1>9. HeartbeatOK'
  BY <1>0, <1>4, <1>7, <1>8 DEF HeartbeatOK
<1>10. HeartbeatRate'
  <2>1. tickNow <= now
    BY DEF HeartbeatOK
  <2>2. QED
    BY <2>1, <1>0, <1>4, <1>5, <1>6 DEF HeartbeatRate
<1>11. QED
  BY <1>2, <1>3, <1>9, <1>10

\* A step that only moves TickAll on, or ends it, keeps what is known of all else.
LEMMA OnlyTickMoves ==
    ASSUME IInv,
           UNCHANGED <<pending, now, lastId, callbacks, hb, ran, deleted, beat>>,
           tickNow' = tickNow \/ tickNow' = now,
           toFire' = toFire \/ toFire' = <<>>,
           pc' \in {"out", "update", "fire", "timer_cb", "heartbeat_cb", "end"},
           BatchOK'
    PROVE  IInv'
<1> DEFINE Batches == Seq([id : 1..MaxId, cb : Callbacks \cup {NoName}])
<1>1. now \in Nat /\ tickNow \in Nat /\ toFire \in Batches
  BY DEF IInv, TypeOK
<1>2. tickNow' \in Nat /\ toFire' \in Batches
  <2>1. <<>> \in Batches
    OBVIOUS
  <2> HIDE DEF Batches
  <2>2. QED
    BY <1>1, <2>1
<1>3. TypeOK'
  BY <1>2 DEF IInv, TypeOK
<1>4. tickNow' <= now'
  BY <1>1 DEF IInv, HeartbeatOK
<1>5. HeartbeatOK' /\ HeartbeatRate'
  BY <1>4 DEF IInv, HeartbeatOK, HeartbeatRate
<1>6. QED
  BY <1>3, <1>5, TimersFrame DEF IInv

\* The other steps of a tick and the ends of callbacks keep the invariant.
LEMMA OthersKeep ==
    ASSUME IInv,
           TickBegin \/ TickEnd \/ CallbackReturns \/ CallbackThrows
    PROVE  IInv'
<1>1. BatchOK
  BY DEF IInv
<1>2. CASE TickBegin
  <2>1. /\ UNCHANGED <<pending, now, lastId, callbacks, hb, ran, deleted, beat, toFire>>
        /\ tickNow' = now /\ pc = "out" /\ pc' = "update" /\ inTick' = TRUE
    BY <1>2 DEF TickBegin, timerVars, history
  <2>2. BatchOK'
    BY <1>1, <2>1 DEF BatchOK
  <2>3. QED
    BY <2>1, <2>2, OnlyTickMoves
<1>3. CASE TickEnd
  <2>1. /\ UNCHANGED <<pending, now, lastId, callbacks, hb, ran, deleted, beat, toFire, tickNow>>
        /\ pc = "end" \/ toFire = <<>>
        /\ pc' = "out" /\ inTick' = FALSE
    BY <1>3 DEF TickEnd, timerVars, history
  <2>2. BatchOK'
    BY <1>1, <2>1 DEF BatchOK
  <2>3. QED
    BY <2>1, <2>2, OnlyTickMoves
<1>4. CASE CallbackReturns
  <2>1. /\ UNCHANGED <<pending, now, lastId, callbacks, hb, ran, deleted, beat>>
        /\ UNCHANGED <<toFire, tickNow, inTick, cancelled>>
        /\ \/ pc = "timer_cb" /\ pc' = "fire"
           \/ pc = "heartbeat_cb" /\ pc' = "end"
    BY <1>4 DEF CallbackReturns, InCallback, timerVars, history
  <2>2. BatchOK'
    BY <1>1, <2>1 DEF BatchOK
  <2>3. QED
    BY <2>1, <2>2, OnlyTickMoves
<1>5. CASE CallbackThrows
  <2>1. /\ UNCHANGED <<pending, now, lastId, callbacks, hb, ran, deleted, beat, tickNow>>
        /\ toFire' = <<>> /\ pc' = "out" /\ inTick' = FALSE
    BY <1>5 DEF CallbackThrows, InTickAfterThrow, timerVars
  <2>2. BatchOK'
    BY <2>1 DEF BatchOK
  <2>3. QED
    BY <2>1, <2>2, OnlyTickMoves
<1>6. QED
  BY <1>2, <1>3, <1>4, <1>5

\* The clock keeps the invariant: time only makes a heartbeat slower.
LEMMA AdvanceKeeps ==
    ASSUME IInv, Advance
    PROVE  IInv'
<1>1. /\ UNCHANGED <<pending, lastId, callbacks, inTick, cancelled, tickNow, toFire, pc>>
      /\ UNCHANGED <<hb, ran, deleted, beat>>
      /\ now' = now + 1
  BY DEF Advance, Q!Advance, tickVars, history
<1>2. /\ now \in Nat /\ tickNow \in Nat
      /\ beat.setAt \in Nat /\ beat.beats \in Nat /\ hb.interval \in Nat
  BY DEF IInv, TypeOK
<1>3. now' \in Nat
  BY <1>1, <1>2
<1>4. TypeOK'
  BY <1>1, <1>3 DEF IInv, TypeOK
<1>5. BatchOK'
  BY <1>1 DEF IInv, BatchOK
<1>6. HeartbeatOK'
  <2>1. tickNow' <= now' /\ beat'.setAt <= now'
    BY <1>1, <1>2 DEF IInv, HeartbeatOK
  <2>2. QED
    BY <1>1, <2>1 DEF IInv, HeartbeatOK
<1>7. HeartbeatRate'
  <2>1. beat.beats * hb.interval \in Nat
    BY <1>2
  <2>2. QED
    BY <1>1, <1>2, <2>1 DEF IInv, HeartbeatRate
<1>8. QED
  BY <1>1, <1>4, <1>5, <1>6, <1>7, TimersFrame DEF IInv

\* Every step of the timer library keeps the invariant.
LEMMA StepKeeps == IInv /\ [Next]_vars => IInv'
<1> SUFFICES ASSUME IInv, [Next]_vars PROVE IInv'
  OBVIOUS
<1>1. CASE Script
  BY <1>1, TimerSetKeeps, TimerDelKeeps, TimerSetHeartbeatKeeps DEF Script
<1>2. CASE Tick
  BY <1>2, TickUpdateKeeps, FireNextKeeps, TickHeartbeatKeeps, OthersKeep DEF Tick
<1>3. CASE CallbackReturns \/ CallbackThrows \/ Advance
  BY <1>3, OthersKeep, AdvanceKeeps
<1>4. CASE UNCHANGED vars
  BY <1>4 DEF vars, timerVars, tickVars, history, IInv, TypeOK, CallbacksMatch, BatchOK,
              WaitingOK, HeartbeatOK, HeartbeatRate
<1>5. QED
  BY <1>1, <1>2, <1>3, <1>4 DEF Next

\* The invariant of the timer library holds in every state of every behaviour of TickAll and
\* of the scripts that its callbacks run.
THEOREM TimerInvariant == Spec => []IInv
BY InitKeeps, StepKeeps, PTL DEF Spec

\* A function name is in the map exactly as long as its timer is in the heap.
THEOREM NamesMatchTimers == Spec => []CallbacksMatch
<1>1. IInv => CallbacksMatch
  BY DEF IInv
<1>2. QED
  BY <1>1, TimerInvariant, PTL

\* A heartbeat never beats faster than its interval.
THEOREM HeartbeatBounded == Spec => []HeartbeatRate
<1>1. IInv => HeartbeatRate
  BY DEF IInv
<1>2. QED
  BY <1>1, TimerInvariant, PTL

\* A host that stalls makes up for at most one beat.
THEOREM HeartbeatNeverBursts == Spec => []NoBurst
<1>1. IInv => NoBurst
  BY DEF IInv, TypeOK, HeartbeatOK, NoBurst
<1>2. QED
  BY <1>1, TimerInvariant, PTL

\* No callback starts twice, or after timer.del was called for its timer.
THEOREM NoRunAfterDelete == Spec => RunsOnceUnlessDeleted
<1> DEFINE Fair == \A id \in 1..MaxId : ran'[id] # ran[id] => ran[id] = 0 /\ id \notin deleted
<1>1. IInv /\ [Next]_vars => [Fair]_vars
  <2> SUFFICES ASSUME IInv, Next PROVE Fair
    OBVIOUS
  <2>1. CASE FireNext
    BY <2>1, FireNextKeeps
  <2>2. CASE ~FireNext
    <3>1. ran' = ran
      BY <2>2 DEF Next, Script, Tick, TimerSet, TimerDel, TimerSetHeartbeat, TickBegin, TickUpdate,
                  TickHeartbeat, TickEnd, CallbackReturns, CallbackThrows, Advance, history
    <3>2. QED
      BY <3>1
  <2>3. QED
    BY <2>1, <2>2
<1>2. QED
  BY <1>1, TimerInvariant, PTL DEF Spec, RunsOnceUnlessDeleted
=============================================================================
