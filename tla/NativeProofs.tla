---------------------------- MODULE NativeProofs ----------------------------
(***************************************************************************)
(* Proofs for three native libraries: events (NativeEvent), objects and    *)
(* their shells (NativeObjects), and network objects (NetObject).  None    *)
(* uses a definition of another.                                           *)
(*                                                                         *)
(* Events: a one-time listener runs once, whatever listeners do to the     *)
(* listeners in the middle of an emit, for all events and functions and    *)
(* emits inside emits to any depth.  Waits says that a subscription is in  *)
(* the list of an event or in what is left of an emit's one-time snapshot. *)
(* EventInv says that these places have no subscription in common and no   *)
(* two of one, which is what each operation has to keep: it moves a        *)
(* subscription, or takes it out.                                          *)
(*                                                                         *)
(* Objects: what the manager's indices lead to is alive, nothing is        *)
(* finalized or deleted twice, and pairs() over an object is right while   *)
(* its shell saw every write.  The hardest step is BuildSpecView: the      *)
(* capacity that doubles until it suffices, and the snapshot it fills.     *)
(*                                                                         *)
(* Network objects: what a callback is told of a connection, and where its *)
(* answer goes, for all numbers of slots, connections, messages and calls. *)
(* Lies says that of the whole story of a connection a part was told and   *)
(* the rest waits in events_ and in the tick's batch, in order; At says    *)
(* that a connection that is open is in the slot by which it is known.     *)
(***************************************************************************)
EXTENDS NativeEvent, NativeObjects, NetObject, FiniteSetTheorems, FunctionTheorems, SequenceTheorems, WellFoundedInduction,
        TLAPS

LEMMA LeastExists ==
    ASSUME NEW S \in SUBSET Nat, S # {}
    PROVE  \E m \in S : \A n \in S : ~(n < m)
<1>1. \E m \in S : \A n \in S : ~(<<n, m>> \in OpToRel(<, Nat))
  BY NatLessThanWellFounded, WFMin
<1>2. QED
  BY <1>1 DEF OpToRel

EventSpec == EventInit /\ [][EventNext]_eventVars

Kind == {"on", "once"}
Sub == [func : Funcs, id : Nat]
Emit == [event : Events, list : Kind, left : Seq(Sub), at : {"loop", "listener"}, since : Nat]

\* No subscription is in s twice.
Distinct(s) == \A j, k \in DOMAIN s : s[j].id = s[k].id => j = k

\* The subscription i is to be run once, and is in an emit's snapshot.
InSnapshot(d, i) == emits[d].list = "once" /\ i \in IdsIn(emits[d].left)

Waits(i) == (\E e \in Events : i \in IdsIn(once[e])) \/ (\E d \in DOMAIN emits : InSnapshot(d, i))

Done == ran \cup gone

Typed ==
    /\ listeners \in [Events -> Seq(Sub)] /\ once \in [Events -> Seq(Sub)]
    /\ emits \in Seq(Emit) /\ subs \in Seq(Kind)
    /\ Done \subseteq 1..Len(subs)

\* What is in a list was subscribed, and in that way.
Kinds ==
    /\ \A e \in Events : \A i \in IdsIn(listeners[e]) : i \in 1..Len(subs) /\ subs[i] = "on"
    /\ \A e \in Events : \A i \in IdsIn(once[e]) : i \in 1..Len(subs) /\ subs[i] = "once"
    /\ \A d \in DOMAIN emits : \A i \in IdsIn(emits[d].left) : i \in 1..Len(subs) /\ subs[i] = emits[d].list

\* A one-time subscription is in one place.
Apart ==
    /\ \A e \in Events : Distinct(once[e])
    /\ \A d \in DOMAIN emits : emits[d].list = "once" => Distinct(emits[d].left)
    /\ \A e, f \in Events : \A i \in IdsIn(once[e]) : i \in IdsIn(once[f]) => e = f
    /\ \A e \in Events, d \in DOMAIN emits : \A i \in IdsIn(once[e]) : ~InSnapshot(d, i)
    /\ \A c, d \in DOMAIN emits : \A i \in IdsIn(emits[c].left) : InSnapshot(c, i) /\ InSnapshot(d, i) => c = d

\* It waits until it is done.
UntilDone == \A i \in 1..Len(subs) : subs[i] = "once" => (Waits(i) <=> i \notin Done)

EventInv == Typed /\ Kinds /\ Apart /\ UntilDone

-----------------------------------------------------------------------------
(* Events: lists of subscriptions.                                         *)

LEMMA ListAppend ==
    ASSUME NEW s \in Seq(Sub), NEW x \in Sub
    PROVE  /\ Append(s, x) \in Seq(Sub) /\ IdsIn(Append(s, x)) = IdsIn(s) \cup {x.id}
           /\ Distinct(s) /\ x.id \notin IdsIn(s) => Distinct(Append(s, x))
<1> DEFINE n == Len(s)
           t == Append(s, x)
<1>1. n \in Nat /\ DOMAIN s = 1..n
  BY LenProperties
<1>2. t \in Seq(Sub) /\ Len(t) = n + 1 /\ t[n + 1] = x /\ \A i \in 1..n : t[i] = s[i]
  BY AppendProperties
<1>3. DOMAIN t = 1..(n + 1)
  BY <1>2, LenProperties
<1> HIDE DEF n, t
<1>4. (\A i \in 1..(n + 1) : i \in 1..n \/ i = n + 1) /\ n + 1 \in 1..(n + 1) /\ \A i \in 1..n : i \in 1..(n + 1)
  BY <1>1
<1>5. IdsIn(t) = IdsIn(s) \cup {x.id}
  BY <1>1, <1>2, <1>3, <1>4 DEF IdsIn
<1>6. ASSUME Distinct(s), x.id \notin IdsIn(s) PROVE Distinct(t)
  <2>1. \A i \in 1..n : s[i].id # x.id
    BY <1>1, <1>6 DEF IdsIn
  <2>2. \A i \in 1..(n + 1) : t[i] = s[i] \/ i = n + 1
    BY <1>2, <1>4
  <2> SUFFICES ASSUME NEW j \in 1..(n + 1), NEW k \in 1..(n + 1), t[j].id = t[k].id PROVE j = k
    BY <1>3 DEF Distinct
  <2>3. CASE j \in 1..n /\ k \in 1..n
    BY <1>1, <1>2, <1>6, <2>3 DEF Distinct
  <2>4. CASE j = n + 1 \/ k = n + 1
    BY <1>2, <1>4, <2>1, <2>4
  <2>5. QED
    BY <1>4, <2>3, <2>4
<1>7. QED
  BY <1>2, <1>5, <1>6 DEF t

\* t is s with some left out: every member of t is one of s, in a place of its own.
LEMMA ListShorter ==
    ASSUME NEW s \in Seq(Sub), NEW t \in Seq(Sub), NEW f \in [DOMAIN t -> DOMAIN s],
           \A j \in DOMAIN t : t[j] = s[f[j]], \A j, k \in DOMAIN t : f[j] = f[k] => j = k
    PROVE  IdsIn(t) \subseteq IdsIn(s) /\ (Distinct(s) => Distinct(t))
<1>1. IdsIn(t) \subseteq IdsIn(s)
  BY DEF IdsIn
<1>2. Distinct(s) => Distinct(t)
  BY DEF Distinct
<1>3. QED
  BY <1>1, <1>2

LEMMA ListTail ==
    ASSUME NEW s \in Seq(Sub), s # <<>>
    PROVE  /\ Tail(s) \in Seq(Sub) /\ Head(s) \in Sub /\ Head(s).id \in IdsIn(s)
           /\ IdsIn(Tail(s)) \subseteq IdsIn(s) /\ IdsIn(s) \subseteq IdsIn(Tail(s)) \cup {Head(s).id}
           /\ Distinct(s) => Distinct(Tail(s)) /\ Head(s).id \notin IdsIn(Tail(s))
<1> DEFINE t == Tail(s)
           h == Head(s)
<1>1. PICK n \in Nat : Len(s) = n + 1
  <2>1. Len(s) \in Nat /\ Len(s) # 0
    BY EmptySeq, LenProperties
  <2>2. \A k \in Nat : k # 0 => k - 1 \in Nat /\ k = k - 1 + 1
    OBVIOUS
  <2>3. QED
    BY <2>1, <2>2
<1>2. DOMAIN s = 1..(n + 1)
  BY <1>1, LenProperties
<1>3. t \in Seq(Sub) /\ Len(t) = Len(s) - 1 /\ h \in Sub /\ \A i \in 1..Len(t) : t[i] = s[i + 1]
  BY HeadTailProperties
<1>4. Len(t) = n
  BY <1>1, <1>3
<1>5. DOMAIN t = 1..n /\ \A i \in 1..n : t[i] = s[i + 1]
  BY <1>3, <1>4, LenProperties
<1>6. h = s[1]
  BY <1>1
<1> HIDE DEF t, h
<1>7. /\ \A i \in 1..n : i + 1 \in 1..(n + 1) /\ i + 1 # 1
      /\ \A i, j \in 1..n : i + 1 = j + 1 => i = j
      /\ \A i \in 1..(n + 1) : i = 1 \/ \E j \in 1..n : i = j + 1
      /\ 1 \in 1..(n + 1)
  <2>1. \A i \in 1..(n + 1) : i # 1 => i - 1 \in 1..n /\ i = i - 1 + 1
    OBVIOUS
  <2>2. \A i \in 1..(n + 1) : i = 1 \/ \E j \in 1..n : i = j + 1
    BY <2>1
  <2>3. QED
    BY <2>2
<1>8. IdsIn(t) \subseteq IdsIn(s) /\ (Distinct(s) => Distinct(t))
  <2> DEFINE f == [i \in DOMAIN t |-> i + 1]
  <2>1. f \in [DOMAIN t -> DOMAIN s] /\ \A i \in DOMAIN t : t[i] = s[f[i]]
    BY <1>2, <1>5, <1>7
  <2>2. \A i, j \in DOMAIN t : f[i] = f[j] => i = j
    BY <1>5, <1>7
  <2> HIDE DEF f
  <2>3. QED
    BY <1>3, <2>1, <2>2, ListShorter
<1>9. h.id \in IdsIn(s)
  BY <1>2, <1>6, <1>7 DEF IdsIn
<1>10. IdsIn(s) \subseteq IdsIn(t) \cup {h.id}
  <2> SUFFICES ASSUME NEW j \in 1..(n + 1) PROVE s[j].id \in IdsIn(t) \cup {h.id}
    BY <1>2 DEF IdsIn
  <2>1. CASE j = 1
    BY <1>6, <2>1
  <2>2. CASE j # 1
    <3>1. PICK i \in 1..n : j = i + 1
      BY <1>7, <2>2
    <3>2. t[i].id = s[j].id
      BY <1>5, <3>1
    <3>3. QED
      BY <1>5, <3>2 DEF IdsIn
  <2>3. QED
    BY <2>1, <2>2
<1>11. Distinct(s) => h.id \notin IdsIn(t)
  <2> SUFFICES ASSUME Distinct(s), NEW i \in 1..n, t[i].id = h.id PROVE FALSE
    BY <1>5 DEF IdsIn
  <2>1. s[i + 1].id = s[1].id /\ i + 1 \in 1..(n + 1) /\ 1 \in 1..(n + 1) /\ i + 1 # 1
    BY <1>5, <1>6, <1>7
  <2>2. QED
    BY <1>2, <2>1 DEF Distinct
<1>12. QED
  BY <1>3, <1>8, <1>9, <1>10, <1>11 DEF t, h

LEMMA ListRemove ==
    ASSUME NEW s \in Seq(Sub), NEW k \in DOMAIN s
    PROVE  /\ RemoveAt(s, k) \in Seq(Sub) /\ IdsIn(RemoveAt(s, k)) \subseteq IdsIn(s)
           /\ Distinct(s) => Distinct(RemoveAt(s, k))
<1> DEFINE n == Len(s)
           a == SubSeq(s, 1, k - 1)
           b == SubSeq(s, k + 1, n)
           t == RemoveAt(s, k)
<1>1. n \in Nat /\ DOMAIN s = 1..n /\ k \in 1..n /\ \A i \in 1..n : s[i] \in Sub
  BY LenProperties, ElementOfSeq
<1> HIDE DEF n
<1>2. a \in Seq(Sub) /\ Len(a) = k - 1 /\ \A i \in 1..(k - 1) : a[i] = s[i]
  <2>1. \A i \in 1..(k - 1) : s[i] \in Sub
    BY <1>1
  <2>2. /\ a \in Seq(Sub)
        /\ Len(a) = IF 1 <= k - 1 THEN k - 1 - 1 + 1 ELSE 0
        /\ \A i \in 1..(k - 1 - 1 + 1) : a[i] = s[1 + i - 1]
    BY <1>1, <2>1, SubSeqProperties
  <2>3. QED
    BY <1>1, <2>2
<1>3. b \in Seq(Sub) /\ Len(b) = n - k /\ \A i \in 1..(n - k) : b[i] = s[k + i]
  <2>1. \A i \in (k + 1)..n : s[i] \in Sub
    BY <1>1
  <2>2. /\ b \in Seq(Sub)
        /\ Len(b) = IF k + 1 <= n THEN n - (k + 1) + 1 ELSE 0
        /\ \A i \in 1..(n - (k + 1) + 1) : b[i] = s[k + 1 + i - 1]
    BY <1>1, <2>1, SubSeqProperties
  <2>3. QED
    BY <1>1, <2>2
<1>4. t = a \o b
  BY DEF RemoveAt, n
<1> HIDE DEF a, b, t
<1>5. /\ t \in Seq(Sub) /\ Len(t) = Len(a) + Len(b)
      /\ \A i \in 1..(Len(a) + Len(b)) : t[i] = IF i <= Len(a) THEN a[i] ELSE b[i - Len(a)]
  BY <1>2, <1>3, <1>4, ConcatProperties
<1>6. Len(t) = n - 1
  BY <1>1, <1>2, <1>3, <1>5
<1>7. DOMAIN t = 1..(n - 1)
  BY <1>5, <1>6, LenProperties
<1> DEFINE f == [i \in 1..(n - 1) |-> IF i < k THEN i ELSE i + 1]
<1>8. f \in [DOMAIN t -> DOMAIN s] /\ \A i, j \in DOMAIN t : f[i] = f[j] => i = j
  BY <1>1, <1>7
<1>9. \A i \in DOMAIN t : t[i] = s[f[i]]
  <2> SUFFICES ASSUME NEW i \in 1..(n - 1) PROVE t[i] = s[f[i]]
    BY <1>7
  <2>1. t[i] = IF i <= k - 1 THEN a[i] ELSE b[i - (k - 1)]
    BY <1>1, <1>2, <1>3, <1>5
  <2>2. CASE i < k
    <3>1. i \in 1..(k - 1) /\ i <= k - 1
      BY <1>1, <2>2
    <3>2. QED
      BY <1>2, <2>1, <2>2, <3>1
  <2>3. CASE ~(i < k)
    <3>1. i - (k - 1) \in 1..(n - k) /\ k + (i - (k - 1)) = i + 1 /\ ~(i <= k - 1)
      BY <1>1, <2>3
    <3>2. QED
      BY <1>3, <2>1, <2>3, <3>1
  <2>4. QED
    BY <2>2, <2>3
<1> HIDE DEF f
<1>10. QED
  BY <1>5, <1>8, <1>9, ListShorter DEF t

\* off: the first subscription of f goes, or none.
LEMMA ListWithout ==
    ASSUME NEW s \in Seq(Sub), NEW f
    PROVE  /\ WithoutFirst(s, f) \in Seq(Sub) /\ IdsIn(WithoutFirst(s, f)) \subseteq IdsIn(s)
           /\ Distinct(s) => Distinct(WithoutFirst(s, f))
<1>1. CASE ~\E i \in DOMAIN s : s[i].func = f
  BY <1>1 DEF WithoutFirst
<1>2. CASE \E i \in DOMAIN s : s[i].func = f
  <2> DEFINE S == {i \in DOMAIN s : s[i].func = f}
             first(i) == i \in DOMAIN s /\ s[i].func = f /\ \A j \in 1..(i - 1) : s[j].func # f
             k == CHOOSE i \in DOMAIN s : s[i].func = f /\ \A j \in 1..(i - 1) : s[j].func # f
  <2>1. Len(s) \in Nat /\ DOMAIN s = 1..Len(s)
    BY LenProperties
  <2>2. S \in SUBSET Nat /\ S # {}
    BY <1>2, <2>1
  <2>3. PICK m \in S : \A n \in S : ~(n < m)
    BY <2>2, LeastExists
  <2>4. \A j \in 1..(m - 1) : s[j].func # f
    <3>1. \A j \in 1..(m - 1) : j \in DOMAIN s /\ j < m
      BY <2>1
    <3>2. QED
      BY <2>3, <3>1
  <2>5. k \in DOMAIN s
    BY <2>3, <2>4
  <2>6. WithoutFirst(s, f) = RemoveAt(s, k)
    BY <1>2 DEF WithoutFirst
  <2> HIDE DEF k
  <2>7. QED
    BY <2>5, <2>6, ListRemove
<1>3. QED
  BY <1>1, <1>2-----------------------------------------------------------------------------
(* The emits in progress.                                                  *)

\* The innermost emit is replaced.
LEMMA TopReplaced ==
    ASSUME NEW es \in Seq(Emit), es # <<>>, NEW f \in Emit
    PROVE  /\ Len(es) \in DOMAIN es /\ Last(es) = es[Len(es)] /\ Last(es) \in Emit
           /\ Append(Front(es), f) \in Seq(Emit) /\ DOMAIN Append(Front(es), f) = DOMAIN es
           /\ Append(Front(es), f)[Len(es)] = f
           /\ \A d \in DOMAIN es : d # Len(es) => Append(Front(es), f)[d] = es[d]
<1>1. PICK n \in Nat : Len(es) = n + 1
  <2>1. Len(es) \in Nat /\ Len(es) # 0
    BY EmptySeq, LenProperties
  <2>2. \A k \in Nat : k # 0 => k - 1 \in Nat /\ k = k - 1 + 1
    OBVIOUS
  <2>3. QED
    BY <2>1, <2>2
<1>2. DOMAIN es = 1..(n + 1) /\ \A i \in 1..(n + 1) : es[i] \in Emit
  BY <1>1, LenProperties, ElementOfSeq
<1>3. Last(es) = es[n + 1] /\ n + 1 \in 1..(n + 1)
  BY <1>1 DEF Last
<1>4. Front(es) = SubSeq(es, 1, n)
  BY <1>1 DEF Front
<1>5. Front(es) \in Seq(Emit) /\ Len(Front(es)) = n /\ \A i \in 1..n : Front(es)[i] = es[i]
  <2>1. \A i \in 1..n : es[i] \in Emit
    BY <1>2
  <2>2. /\ SubSeq(es, 1, n) \in Seq(Emit)
        /\ Len(SubSeq(es, 1, n)) = IF 1 <= n THEN n - 1 + 1 ELSE 0
        /\ \A i \in 1..(n - 1 + 1) : SubSeq(es, 1, n)[i] = es[1 + i - 1]
    BY <2>1, SubSeqProperties
  <2>3. QED
    BY <1>4, <2>2
<1> DEFINE t == Append(Front(es), f)
<1>6. t \in Seq(Emit) /\ Len(t) = n + 1 /\ t[n + 1] = f /\ \A i \in 1..n : t[i] = Front(es)[i]
  BY <1>5, AppendProperties
<1>7. DOMAIN t = 1..(n + 1)
  BY <1>6, LenProperties
<1> HIDE DEF t
<1>8. \A d \in 1..(n + 1) : d # n + 1 => d \in 1..n
  OBVIOUS
<1>9. \A d \in 1..(n + 1) : d # n + 1 => t[d] = es[d]
  BY <1>5, <1>6, <1>8
<1>10. QED
  BY <1>1, <1>2, <1>3, <1>6, <1>7, <1>9 DEF t

\* The innermost emits are left.
LEMMA EmitsCut ==
    ASSUME NEW es \in Seq(Emit), NEW m \in 0..Len(es)
    PROVE  /\ SubSeq(es, 1, m) \in Seq(Emit) /\ DOMAIN SubSeq(es, 1, m) = 1..m
           /\ \A d \in 1..m : d \in DOMAIN es /\ SubSeq(es, 1, m)[d] = es[d]
<1>1. Len(es) \in Nat /\ DOMAIN es = 1..Len(es) /\ \A i \in 1..Len(es) : es[i] \in Emit
  BY LenProperties, ElementOfSeq
<1>2. m \in Nat /\ \A i \in 1..m : i \in 1..Len(es)
  BY <1>1
<1>3. \A i \in 1..m : es[i] \in Emit
  BY <1>1, <1>2
<1>4. /\ SubSeq(es, 1, m) \in Seq(Emit)
      /\ Len(SubSeq(es, 1, m)) = IF 1 <= m THEN m - 1 + 1 ELSE 0
      /\ \A i \in 1..(m - 1 + 1) : SubSeq(es, 1, m)[i] = es[1 + i - 1]
  BY <1>2, <1>3, SubSeqProperties
<1>5. Len(SubSeq(es, 1, m)) = m /\ \A i \in 1..m : SubSeq(es, 1, m)[i] = es[i]
  BY <1>2, <1>4
<1>6. DOMAIN SubSeq(es, 1, m) = 1..m
  BY <1>4, <1>5, LenProperties
<1>7. QED
  BY <1>1, <1>2, <1>4, <1>5, <1>6

\* The innermost emit, while it runs.
LEMMA TopIs ==
    ASSUME Typed, emits # <<>>
    PROVE  Top = emits[Len(emits)] /\ Top \in Emit /\ Len(emits) \in DOMAIN emits
<1>1. emits \in Seq(Emit)
  BY DEF Typed
<1>2. PICK f \in Emit : TRUE
  <2>1. Len(emits) \in 1..Len(emits)
    BY <1>1, EmptySeq, LenProperties
  <2>2. emits[Len(emits)] \in Emit
    BY <1>1, <2>1, ElementOfSeq
  <2>3. QED
    BY <2>2
<1>3. QED
  BY <1>1, <1>2, TopReplaced DEF Top

-----------------------------------------------------------------------------
(* Events: what the steps have in common.                                  *)

\* Subscriptions leave the lists and snapshots that they are in, and those that do are done.
LEMMA ShrinkKeeps ==
    ASSUME EventInv, Typed', subs' = subs,
           \A e \in Events : IdsIn(listeners'[e]) \subseteq IdsIn(listeners[e]),
           \A e \in Events : IdsIn(once'[e]) \subseteq IdsIn(once[e]) /\ Distinct(once'[e]),
           \A d \in DOMAIN emits' : /\ d \in DOMAIN emits /\ emits'[d].list = emits[d].list
                                    /\ IdsIn(emits'[d].left) \subseteq IdsIn(emits[d].left)
                                    /\ emits[d].list = "once" => Distinct(emits'[d].left),
           Done \subseteq Done',
           \A i : Waits(i)' => i \notin Done',
           \A i : Waits(i) => Waits(i)' \/ i \in Done'
    PROVE  EventInv'
<1>1. Kinds'
  BY DEF EventInv, Kinds
<1>2. \A d \in DOMAIN emits' : \A i : InSnapshot(d, i)' => d \in DOMAIN emits /\ InSnapshot(d, i)
  BY DEF InSnapshot
<1>3. Apart'
  <2>1. \A e, f \in Events : \A i \in IdsIn(once'[e]) : i \in IdsIn(once'[f]) => e = f
    BY DEF EventInv, Apart
  <2>2. \A e \in Events, d \in DOMAIN emits' : \A i \in IdsIn(once'[e]) : ~InSnapshot(d, i)'
    BY <1>2 DEF EventInv, Apart
  <2>3. \A c, d \in DOMAIN emits' : \A i \in IdsIn(emits'[c].left) : InSnapshot(c, i)' /\ InSnapshot(d, i)' => c = d
    BY <1>2 DEF EventInv, Apart
  <2>4. QED
    BY <2>1, <2>2, <2>3 DEF Apart
<1>4. UntilDone'
  <2> SUFFICES ASSUME NEW i \in 1..Len(subs), subs[i] = "once" PROVE Waits(i)' <=> i \notin Done'
    BY DEF UntilDone
  <2>1. Waits(i) <=> i \notin Done
    BY DEF EventInv, UntilDone
  <2>2. QED
    BY <2>1
<1>5. QED
  BY <1>1, <1>3, <1>4 DEF EventInv

\* A subscription that waits is one of those made, to run once.
LEMMA WaitsIs ==
    ASSUME EventInv, NEW i, Waits(i)
    PROVE  i \in 1..Len(subs) /\ subs[i] = "once" /\ i \notin Done
<1>1. i \in 1..Len(subs) /\ subs[i] = "once"
  BY DEF EventInv, Kinds, Waits, InSnapshot
<1>2. QED
  BY <1>1 DEF EventInv, UntilDone

\* Subscribing.
LEMMA SubscribeShape ==
    ASSUME Typed, NEW k \in Kind, subs' = Append(subs, k)
    PROVE  /\ subs' \in Seq(Kind) /\ Len(subs) \in Nat /\ Len(subs') = Len(subs) + 1
           /\ subs'[Len(subs) + 1] = k /\ Len(subs) + 1 \in 1..Len(subs') /\ Len(subs) + 1 \notin 1..Len(subs)
           /\ \A i \in 1..Len(subs) : i \in 1..Len(subs') /\ subs'[i] = subs[i]
           /\ \A i \in 1..Len(subs') : i \in 1..Len(subs) \/ i = Len(subs) + 1
<1> DEFINE n == Len(subs)
<1>1. subs \in Seq(Kind) /\ n \in Nat
  BY LenProperties DEF Typed
<1>2. subs' \in Seq(Kind) /\ Len(subs') = n + 1 /\ subs'[n + 1] = k /\ \A i \in 1..n : subs'[i] = subs[i]
  BY <1>1, AppendProperties
<1> HIDE DEF n
<1>3. /\ n + 1 \in 1..(n + 1) /\ n + 1 \notin 1..n /\ \A i \in 1..n : i \in 1..(n + 1)
      /\ \A i \in 1..(n + 1) : i \in 1..n \/ i = n + 1
  BY <1>1
<1>4. QED
  BY <1>1, <1>2, <1>3 DEF n

LEMMA EventOnKeeps ==
    ASSUME EventInv, NEW e \in Events, NEW f \in Funcs, EventOn(e, f)
    PROVE  EventInv'
<1> DEFINE n == Len(subs)
           x == [func |-> f, id |-> n + 1]
<1>1. /\ listeners' = [listeners EXCEPT ![e] = Append(listeners[e], x)]
      /\ subs' = Append(subs, "on") /\ UNCHANGED <<once, emits, ran, gone>>
  BY DEF EventOn
<1>2. /\ subs' \in Seq(Kind) /\ n \in Nat /\ n + 1 \in 1..Len(subs') /\ n + 1 \notin 1..n /\ subs'[n + 1] = "on"
      /\ \A i \in 1..n : i \in 1..Len(subs') /\ subs'[i] = subs[i]
      /\ \A i \in 1..Len(subs') : i \in 1..n \/ i = n + 1
  <2>1. Typed /\ "on" \in Kind
    BY DEF EventInv, Kind
  <2>2. QED
    BY <1>1, <2>1, SubscribeShape
<1>3. x \in Sub /\ x.id = n + 1
  BY <1>2 DEF Sub
<1> HIDE DEF x, n
<1>4. /\ listeners \in [Events -> Seq(Sub)] /\ listeners' \in [Events -> Seq(Sub)]
      /\ \A d \in Events : IdsIn(listeners'[d]) \subseteq IdsIn(listeners[d]) \cup {n + 1}
  <2>1. listeners \in [Events -> Seq(Sub)]
    BY DEF EventInv, Typed
  <2>2. listeners[e] \in Seq(Sub)
    BY <2>1
  <2>3. Append(listeners[e], x) \in Seq(Sub) /\ IdsIn(Append(listeners[e], x)) = IdsIn(listeners[e]) \cup {n + 1}
    BY <1>3, <2>2, ListAppend
  <2>4. QED
    BY <1>1, <2>1, <2>3
<1>5. Typed'
  <2>1. once' \in [Events -> Seq(Sub)] /\ emits' \in Seq(Emit) /\ Done' \subseteq 1..Len(subs')
    BY <1>1, <1>2 DEF EventInv, Typed, Done, n
  <2>2. QED
    BY <1>2, <1>4, <2>1 DEF Typed
<1>6. Kinds'
  <2>1. \A d \in Events : \A i \in IdsIn(listeners'[d]) : i \in 1..Len(subs') /\ subs'[i] = "on"
    BY <1>2, <1>4 DEF EventInv, Kinds, n
  <2>2. \A d \in Events : \A i \in IdsIn(once'[d]) : i \in 1..Len(subs') /\ subs'[i] = "once"
    BY <1>1, <1>2 DEF EventInv, Kinds, n
  <2>3. \A d \in DOMAIN emits' : \A i \in IdsIn(emits'[d].left) : i \in 1..Len(subs') /\ subs'[i] = emits'[d].list
    BY <1>1, <1>2 DEF EventInv, Kinds, n
  <2>4. QED
    BY <2>1, <2>2, <2>3 DEF Kinds
<1>7. Apart'
  BY <1>1 DEF EventInv, Apart, InSnapshot
<1>8. UntilDone'
  <2> SUFFICES ASSUME NEW i \in 1..Len(subs'), subs'[i] = "once" PROVE Waits(i)' <=> i \notin Done'
    BY DEF UntilDone
  <2>1. i \in 1..n /\ subs[i] = "once"
    BY <1>2
  <2>2. Waits(i) <=> i \notin Done
    BY <2>1 DEF EventInv, UntilDone, n
  <2>3. QED
    BY <1>1, <2>2 DEF Waits, InSnapshot, Done
<1>9. QED
  BY <1>5, <1>6, <1>7, <1>8 DEF EventInv

LEMMA EventOnceKeeps ==
    ASSUME EventInv, NEW e \in Events, NEW f \in Funcs, EventOnce(e, f)
    PROVE  EventInv'
<1> DEFINE n == Len(subs)
           x == [func |-> f, id |-> n + 1]
<1>1. /\ once' = [once EXCEPT ![e] = Append(once[e], x)]
      /\ subs' = Append(subs, "once") /\ UNCHANGED <<listeners, emits, ran, gone>>
  BY DEF EventOnce
<1>2. /\ subs' \in Seq(Kind) /\ n \in Nat /\ n + 1 \in 1..Len(subs') /\ n + 1 \notin 1..n /\ subs'[n + 1] = "once"
      /\ \A i \in 1..n : i \in 1..Len(subs') /\ subs'[i] = subs[i]
      /\ \A i \in 1..Len(subs') : i \in 1..n \/ i = n + 1
  <2>1. Typed /\ "once" \in Kind
    BY DEF EventInv, Kind
  <2>2. QED
    BY <1>1, <2>1, SubscribeShape
<1>3. x \in Sub /\ x.id = n + 1
  BY <1>2 DEF Sub
<1> HIDE DEF x, n
<1>4. /\ \A d \in Events : \A i \in IdsIn(once[d]) : i \in 1..n /\ subs[i] = "once"
      /\ \A d \in DOMAIN emits : \A i : InSnapshot(d, i) => i \in 1..n
      /\ Done \subseteq 1..n /\ Apart
  BY DEF EventInv, Typed, Kinds, InSnapshot, n
<1>5. /\ once' \in [Events -> Seq(Sub)] /\ IdsIn(once'[e]) = IdsIn(once[e]) \cup {n + 1} /\ Distinct(once'[e])
      /\ \A d \in Events : d # e => once'[d] = once[d]
  <2>1. once \in [Events -> Seq(Sub)]
    BY DEF EventInv, Typed
  <2>2. once[e] \in Seq(Sub) /\ Distinct(once[e]) /\ n + 1 \notin IdsIn(once[e])
    BY <1>2, <1>4, <2>1 DEF Apart
  <2>3. /\ Append(once[e], x) \in Seq(Sub) /\ IdsIn(Append(once[e], x)) = IdsIn(once[e]) \cup {n + 1}
        /\ Distinct(Append(once[e], x))
    BY <1>3, <2>2, ListAppend
  <2>4. QED
    BY <1>1, <2>1, <2>3
<1>6. \A d \in Events : \A i : i \in IdsIn(once'[d]) <=> i \in IdsIn(once[d]) \/ (d = e /\ i = n + 1)
  BY <1>5
<1>7. emits' = emits /\ \A d, i : InSnapshot(d, i)' <=> InSnapshot(d, i)
  BY <1>1 DEF InSnapshot
<1>8. Typed'
  <2>1. listeners' \in [Events -> Seq(Sub)] /\ emits' \in Seq(Emit) /\ Done' \subseteq 1..Len(subs')
    BY <1>1, <1>2 DEF EventInv, Typed, Done, n
  <2>2. QED
    BY <1>2, <1>5, <2>1 DEF Typed
<1>9. Kinds'
  <2>1. \A d \in Events : \A i \in IdsIn(listeners'[d]) : i \in 1..Len(subs') /\ subs'[i] = "on"
    BY <1>1, <1>2 DEF EventInv, Kinds, n
  <2>2. \A d \in Events : \A i \in IdsIn(once'[d]) : i \in 1..Len(subs') /\ subs'[i] = "once"
    BY <1>2, <1>4, <1>6
  <2>3. \A d \in DOMAIN emits' : \A i \in IdsIn(emits'[d].left) : i \in 1..Len(subs') /\ subs'[i] = emits'[d].list
    BY <1>1, <1>2 DEF EventInv, Kinds, n
  <2>4. QED
    BY <2>1, <2>2, <2>3 DEF Kinds
<1>10. Apart'
  <2>1. \A d \in Events : Distinct(once'[d])
    BY <1>4, <1>5 DEF Apart
  <2>2. \A c, d \in Events : \A i \in IdsIn(once'[c]) : i \in IdsIn(once'[d]) => c = d
    <3> SUFFICES ASSUME NEW c \in Events, NEW d \in Events, NEW i, i \in IdsIn(once'[c]), i \in IdsIn(once'[d]) PROVE c = d
      OBVIOUS
    <3>1. CASE i = n + 1
      BY <1>2, <1>4, <1>6, <3>1
    <3>2. CASE i # n + 1
      <4>1. i \in IdsIn(once[c]) /\ i \in IdsIn(once[d])
        BY <1>6, <3>2
      <4>2. QED
        BY <1>4, <4>1 DEF Apart
    <3>3. QED
      BY <3>1, <3>2
  <2>3. \A c \in Events, d \in DOMAIN emits' : \A i \in IdsIn(once'[c]) : ~InSnapshot(d, i)'
    BY <1>2, <1>4, <1>6, <1>7 DEF Apart
  <2>4. /\ \A d \in DOMAIN emits' : emits'[d].list = "once" => Distinct(emits'[d].left)
        /\ \A c, d \in DOMAIN emits' : \A i \in IdsIn(emits'[c].left) : InSnapshot(c, i)' /\ InSnapshot(d, i)' => c = d
    BY <1>4, <1>7 DEF Apart
  <2>5. QED
    BY <2>1, <2>2, <2>3, <2>4 DEF Apart
<1>11. UntilDone'
  <2> SUFFICES ASSUME NEW i \in 1..Len(subs'), subs'[i] = "once" PROVE Waits(i)' <=> i \notin Done'
    BY DEF UntilDone
  <2>1. Done' = Done
    BY <1>1 DEF Done
  <2>2. CASE i = n + 1
    <3>1. i \in IdsIn(once'[e])
      BY <1>5, <2>2
    <3>2. i \notin Done
      BY <1>2, <1>4, <2>2
    <3>3. QED
      BY <2>1, <3>1, <3>2 DEF Waits
  <2>3. CASE i # n + 1
    <3>1. i \in 1..n /\ subs[i] = "once"
      BY <1>2, <2>3
    <3>2. Waits(i) <=> i \notin Done
      BY <3>1 DEF EventInv, UntilDone, n
    <3>3. (\E d \in Events : i \in IdsIn(once'[d])) <=> (\E d \in Events : i \in IdsIn(once[d]))
      <4>1. \A d \in Events : i \in IdsIn(once'[d]) <=> i \in IdsIn(once[d])
        BY <1>6, <2>3
      <4>2. QED
        BY <4>1, Zenon
    <3>4. (\E d \in DOMAIN emits' : InSnapshot(d, i)') <=> (\E d \in DOMAIN emits : InSnapshot(d, i))
      BY <1>7
    <3>5. Waits(i)' <=> Waits(i)
      BY <3>3, <3>4 DEF Waits
    <3>6. QED
      BY <2>1, <3>2, <3>5
  <2>4. QED
    BY <2>2, <2>3
<1>12. QED
  BY <1>8, <1>9, <1>10, <1>11 DEF EventInv-----------------------------------------------------------------------------
(* The steps.                                                              *)

\* One-time subscriptions are taken out of the lists, and are done.
LEMMA RemoveKeeps ==
    ASSUME EventInv, listeners' \in [Events -> Seq(Sub)], once' \in [Events -> Seq(Sub)],
           \A e \in Events : IdsIn(listeners'[e]) \subseteq IdsIn(listeners[e]),
           \A e \in Events : IdsIn(once'[e]) \subseteq IdsIn(once[e]) /\ Distinct(once'[e]),
           ran' = ran, \A i : i \in gone' <=> i \in gone \/ \E e \in Events : i \in IdsIn(once[e]) /\ i \notin IdsIn(once'[e]),
           emits' = emits, subs' = subs
    PROVE  EventInv'
<1>1. Typed /\ Apart
  BY DEF EventInv
<1>2. \A i : i \in Done' <=> i \in Done \/ \E e \in Events : i \in IdsIn(once[e]) /\ i \notin IdsIn(once'[e])
  BY DEF Done
<1>3. Typed'
  <2>1. \A e \in Events : \A i \in IdsIn(once[e]) : i \in 1..Len(subs)
    BY DEF EventInv, Kinds
  <2>2. Done' \subseteq 1..Len(subs)
    BY <1>1, <1>2, <2>1 DEF Typed
  <2>3. QED
    BY <1>1, <2>2 DEF Typed
<1>4. \A d, i : InSnapshot(d, i)' <=> InSnapshot(d, i)
  BY DEF InSnapshot
<1>5. ASSUME NEW i, Waits(i)' PROVE i \notin Done'
  <2>1. Waits(i)
    BY <1>4, <1>5 DEF Waits
  <2>2. i \notin Done
    BY <2>1, WaitsIs
  <2> SUFFICES ASSUME NEW e \in Events, i \in IdsIn(once[e]), i \notin IdsIn(once'[e]) PROVE FALSE
    BY <1>2, <2>2
  <2>3. CASE \E d \in Events : i \in IdsIn(once'[d])
    <3>1. PICK d \in Events : i \in IdsIn(once'[d])
      BY <2>3
    <3>2. d = e
      BY <1>1, <3>1 DEF Apart
    <3>3. QED
      BY <3>1, <3>2
  <2>4. CASE \E d \in DOMAIN emits : InSnapshot(d, i)
    BY <1>1, <2>4 DEF Apart
  <2>5. QED
    BY <1>4, <1>5, <2>3, <2>4 DEF Waits
<1>6. ASSUME NEW i, Waits(i) PROVE Waits(i)' \/ i \in Done'
  <2>1. CASE \E e \in Events : i \in IdsIn(once[e])
    BY <1>2, <2>1 DEF Waits
  <2>2. CASE \E d \in DOMAIN emits : InSnapshot(d, i)
    BY <1>4, <2>2 DEF Waits
  <2>3. QED
    BY <1>6, <2>1, <2>2 DEF Waits
<1>7. \A d \in DOMAIN emits' : /\ d \in DOMAIN emits /\ emits'[d].list = emits[d].list
                               /\ IdsIn(emits'[d].left) \subseteq IdsIn(emits[d].left)
                               /\ emits[d].list = "once" => Distinct(emits'[d].left)
  BY <1>1 DEF Apart
<1>8. Done \subseteq Done'
  BY <1>2
<1>9. QED
  BY <1>3, <1>5, <1>6, <1>7, <1>8, ShrinkKeeps

LEMMA EventOffKeeps ==
    ASSUME EventInv, NEW e \in Events, NEW f, EventOff(e, f)
    PROVE  EventInv'
<1>1. /\ listeners' = [listeners EXCEPT ![e] = WithoutFirst(listeners[e], f)]
      /\ once' = [once EXCEPT ![e] = WithoutFirst(once[e], f)]
      /\ gone' = gone \cup (IdsIn(once[e]) \ IdsIn(once'[e])) /\ UNCHANGED <<emits, subs, ran>>
  BY DEF EventOff
<1>2. /\ listeners \in [Events -> Seq(Sub)] /\ once \in [Events -> Seq(Sub)] /\ \A d \in Events : Distinct(once[d])
  BY DEF EventInv, Typed, Apart
<1>3. \A s \in Seq(Sub) : /\ WithoutFirst(s, f) \in Seq(Sub) /\ IdsIn(WithoutFirst(s, f)) \subseteq IdsIn(s)
                          /\ Distinct(s) => Distinct(WithoutFirst(s, f))
  BY ListWithout
<1>4. /\ listeners' \in [Events -> Seq(Sub)] /\ once' \in [Events -> Seq(Sub)]
      /\ \A d \in Events : IdsIn(listeners'[d]) \subseteq IdsIn(listeners[d])
      /\ \A d \in Events : IdsIn(once'[d]) \subseteq IdsIn(once[d]) /\ Distinct(once'[d])
      /\ \A d \in Events : d # e => once'[d] = once[d]
  BY <1>1, <1>2, <1>3
<1>5. \A i : i \in gone' <=> i \in gone \/ \E d \in Events : i \in IdsIn(once[d]) /\ i \notin IdsIn(once'[d])
  BY <1>1, <1>4
<1>6. QED
  BY <1>1, <1>4, <1>5, RemoveKeeps

LEMMA EventClearKeeps ==
    ASSUME EventInv, NEW es \in SUBSET Events, EventClear(es)
    PROVE  EventInv'
<1>1. /\ listeners' = [e \in Events |-> IF e \in es THEN <<>> ELSE listeners[e]]
      /\ once' = [e \in Events |-> IF e \in es THEN <<>> ELSE once[e]]
      /\ gone' = gone \cup UNION {IdsIn(once[e]) : e \in es} /\ UNCHANGED <<emits, subs, ran>>
  BY DEF EventClear
<1>2. /\ listeners \in [Events -> Seq(Sub)] /\ once \in [Events -> Seq(Sub)] /\ \A d \in Events : Distinct(once[d])
  BY DEF EventInv, Typed, Apart
<1>3. <<>> \in Seq(Sub) /\ IdsIn(<<>>) = {} /\ Distinct(<<>>)
  BY DEF IdsIn, Distinct
<1>4. /\ listeners' \in [Events -> Seq(Sub)] /\ once' \in [Events -> Seq(Sub)]
      /\ \A d \in Events : IdsIn(listeners'[d]) \subseteq IdsIn(listeners[d])
      /\ \A d \in Events : IdsIn(once'[d]) \subseteq IdsIn(once[d]) /\ Distinct(once'[d])
      /\ \A d \in Events : /\ d \in es => IdsIn(once'[d]) = {}
                           /\ d \notin es => once'[d] = once[d]
  BY <1>1, <1>2, <1>3
<1>5. \A i : i \in gone' <=> i \in gone \/ \E d \in Events : i \in IdsIn(once[d]) /\ i \notin IdsIn(once'[d])
  BY <1>1, <1>4
<1>6. QED
  BY <1>1, <1>4, <1>5, RemoveKeeps

LEMMA EventEmitKeeps ==
    ASSUME EventInv, NEW e \in Events, EventEmit(e)
    PROVE  EventInv'
<1> DEFINE n == Len(emits)
           f == [event |-> e, list |-> "on", left |-> listeners[e], at |-> "loop", since |-> Len(subs)]
<1>1. emits' = Append(emits, f) /\ UNCHANGED <<listeners, once, subs, ran, gone>>
  BY DEF EventEmit
<1>2. Typed
  BY DEF EventInv
<1>3. f \in Emit /\ f.list = "on" /\ f.left = listeners[e]
  <2>1. listeners[e] \in Seq(Sub) /\ Len(subs) \in Nat
    BY <1>2, LenProperties DEF Typed
  <2>2. QED
    BY <2>1 DEF Emit, Kind
<1> HIDE DEF f
<1>4. emits \in Seq(Emit) /\ n \in Nat /\ DOMAIN emits = 1..n
  BY <1>2, LenProperties DEF Typed
<1>5. emits' \in Seq(Emit) /\ Len(emits') = n + 1 /\ emits'[n + 1] = f /\ \A d \in 1..n : emits'[d] = emits[d]
  BY <1>1, <1>3, <1>4, AppendProperties
<1>6. DOMAIN emits' = 1..(n + 1)
  BY <1>5, LenProperties
<1> HIDE DEF n
<1>7. (\A d \in 1..(n + 1) : d \in 1..n \/ d = n + 1) /\ (\A d \in 1..n : d \in 1..(n + 1))
  BY <1>4
<1>8. PICK k \in Nat : k = n + 1 /\ emits'[k] = f /\ \A d \in DOMAIN emits' : d \in DOMAIN emits \/ d = k
  BY <1>4, <1>5, <1>6, <1>7
<1>9. \A i : ~InSnapshot(k, i)'
  BY <1>3, <1>8 DEF InSnapshot
<1>10. \A d \in DOMAIN emits : d \in DOMAIN emits' /\ emits'[d] = emits[d]
  BY <1>4, <1>5, <1>6, <1>7
<1>11. \A d \in DOMAIN emits : \A i : InSnapshot(d, i)' <=> InSnapshot(d, i)
  BY <1>10 DEF InSnapshot
<1>12. Typed'
  BY <1>1, <1>2, <1>5 DEF Typed, Done
<1>13. Kinds'
  <2>1. \A d \in DOMAIN emits' : \A i \in IdsIn(emits'[d].left) : i \in 1..Len(subs) /\ subs[i] = emits'[d].list
    <3> SUFFICES ASSUME NEW d \in DOMAIN emits', NEW i \in IdsIn(emits'[d].left)
                 PROVE  i \in 1..Len(subs) /\ subs[i] = emits'[d].list
      OBVIOUS
    <3>1. CASE d = k
      BY <1>3, <1>8, <3>1 DEF EventInv, Kinds
    <3>2. CASE d \in DOMAIN emits
      BY <1>10, <3>2 DEF EventInv, Kinds
    <3>3. QED
      BY <1>8, <3>1, <3>2
  <2>2. QED
    BY <1>1, <2>1 DEF EventInv, Kinds
<1>14. Apart'
  <2>1. Apart
    BY DEF EventInv
  <2>2. \A d \in DOMAIN emits' : emits'[d].list = "once" => Distinct(emits'[d].left)
    BY <1>3, <1>8, <1>10, <2>1 DEF Apart
  <2>3. \A d \in DOMAIN emits' : \A i : InSnapshot(d, i)' => d \in DOMAIN emits /\ InSnapshot(d, i)
    BY <1>8, <1>9, <1>11
  <2>4. \A c \in Events, d \in DOMAIN emits' : \A i \in IdsIn(once[c]) : ~InSnapshot(d, i)'
    BY <2>1, <2>3 DEF Apart
  <2>5. \A c, d \in DOMAIN emits' : \A i \in IdsIn(emits'[c].left) : InSnapshot(c, i)' /\ InSnapshot(d, i)' => c = d
    <3>1. \A c, d \in DOMAIN emits : \A i : InSnapshot(c, i) /\ InSnapshot(d, i) => c = d
      BY <2>1 DEF Apart, InSnapshot
    <3>2. QED
      BY <2>3, <3>1
  <2>6. QED
    BY <1>1, <2>1, <2>2, <2>4, <2>5 DEF Apart
<1>15. UntilDone'
  <2>1. \A i : Waits(i)' <=> Waits(i)
    <3> SUFFICES ASSUME NEW i
                 PROVE  (\E d \in DOMAIN emits' : InSnapshot(d, i)') <=> (\E d \in DOMAIN emits : InSnapshot(d, i))
      BY <1>1 DEF Waits
    <3>1. QED
      BY <1>8, <1>9, <1>10, <1>11
  <2>2. Done' = Done
    BY <1>1 DEF Done
  <2>3. QED
    BY <1>1, <2>1, <2>2 DEF EventInv, UntilDone
<1>16. QED
  BY <1>12, <1>13, <1>14, <1>15 DEF EventInv

\* What of the innermost emit is left, and no other.
LEMMA WithTopShape ==
    ASSUME Typed, emits # <<>>, NEW f \in Emit, emits' = WithTop(f)
    PROVE  /\ emits' \in Seq(Emit) /\ DOMAIN emits' = DOMAIN emits /\ emits'[Len(emits)] = f
           /\ \A d \in DOMAIN emits : d # Len(emits) => emits'[d] = emits[d]
<1>1. emits \in Seq(Emit)
  BY DEF Typed
<1>2. QED
  BY <1>1, TopReplaced DEF WithTop

LEMMA DispatchKeeps ==
    ASSUME EventInv, DispatchEvent
    PROVE  EventInv'
<1> DEFINE n == Len(emits)
           s == Head(Top.left)
<1>1. /\ emits # <<>> /\ Top.left # <<>> /\ UNCHANGED <<listeners, once, subs>>
      /\ emits' = WithTop([Top EXCEPT !.left = Tail(Top.left), !.at = "listener"])
           \/ emits' = WithTop([Top EXCEPT !.left = Tail(Top.left)])
      /\ \A i : i \in Done' => i \in Done \/ i = s.id
      /\ Done \subseteq Done'
      /\ Top.list = "once" => s.id \in Done'
  BY DEF DispatchEvent, Done
<1>2. Typed /\ Kinds /\ Apart
  BY DEF EventInv
<1>3. Top = emits[n] /\ Top \in Emit /\ n \in DOMAIN emits
  BY <1>1, <1>2, TopIs
<1>4. /\ Tail(Top.left) \in Seq(Sub) /\ s.id \in IdsIn(Top.left)
      /\ IdsIn(Tail(Top.left)) \subseteq IdsIn(Top.left) /\ IdsIn(Top.left) \subseteq IdsIn(Tail(Top.left)) \cup {s.id}
      /\ Distinct(Top.left) => Distinct(Tail(Top.left)) /\ s.id \notin IdsIn(Tail(Top.left))
  <2>1. Top.left \in Seq(Sub)
    BY <1>3 DEF Emit
  <2>2. QED
    BY <1>1, <2>1, ListTail
<1>5. PICK f \in Emit : emits' = WithTop(f) /\ f.left = Tail(Top.left) /\ f.list = Top.list
  <2>1. /\ [Top EXCEPT !.left = Tail(Top.left), !.at = "listener"] \in Emit
        /\ [Top EXCEPT !.left = Tail(Top.left)] \in Emit
        /\ [Top EXCEPT !.left = Tail(Top.left), !.at = "listener"].left = Tail(Top.left)
        /\ [Top EXCEPT !.left = Tail(Top.left)].left = Tail(Top.left)
        /\ [Top EXCEPT !.left = Tail(Top.left), !.at = "listener"].list = Top.list
        /\ [Top EXCEPT !.left = Tail(Top.left)].list = Top.list
    BY <1>3, <1>4 DEF Emit
  <2>2. QED
    BY <1>1, <2>1
<1>6. /\ emits' \in Seq(Emit) /\ DOMAIN emits' = DOMAIN emits /\ emits'[n] = f
      /\ \A d \in DOMAIN emits : d # n => emits'[d] = emits[d]
  BY <1>1, <1>2, <1>5, WithTopShape
<1>7. s.id \in 1..Len(subs) /\ subs[s.id] = Top.list
  BY <1>2, <1>3, <1>4 DEF Kinds
<1> HIDE DEF n, s
<1>8. Typed'
  BY <1>1, <1>2, <1>6, <1>7 DEF Typed
<1>9. \A d \in DOMAIN emits' : /\ d \in DOMAIN emits /\ emits'[d].list = emits[d].list
                               /\ IdsIn(emits'[d].left) \subseteq IdsIn(emits[d].left)
                               /\ emits[d].list = "once" => Distinct(emits'[d].left)
  <2> SUFFICES ASSUME NEW d \in DOMAIN emits
               PROVE  /\ emits'[d].list = emits[d].list /\ IdsIn(emits'[d].left) \subseteq IdsIn(emits[d].left)
                      /\ emits[d].list = "once" => Distinct(emits'[d].left)
    BY <1>6
  <2>1. CASE d = n
    BY <1>2, <1>3, <1>4, <1>5, <1>6, <2>1 DEF Apart
  <2>2. CASE d # n
    BY <1>2, <1>6, <2>2 DEF Apart
  <2>3. QED
    BY <2>1, <2>2
<1>10. \A d \in DOMAIN emits : \A i : InSnapshot(d, i)' => InSnapshot(d, i)
  BY <1>6, <1>9 DEF InSnapshot
<1>11. ASSUME NEW i, Waits(i)' PROVE i \notin Done'
  <2>1. Waits(i)
    BY <1>1, <1>6, <1>10, <1>11 DEF Waits
  <2>2. i \notin Done /\ subs[i] = "once"
    BY <2>1, WaitsIs
  <2> SUFFICES ASSUME i = s.id, Top.list = "once" PROVE FALSE
    BY <1>1, <1>7, <2>2
  <2>3. InSnapshot(n, i)
    BY <1>3, <1>4 DEF InSnapshot
  <2>4. CASE \E e \in Events : i \in IdsIn(once[e])
    BY <1>2, <1>3, <2>3, <2>4 DEF Apart
  <2>5. CASE \E d \in DOMAIN emits : InSnapshot(d, i)'
    <3>1. PICK d \in DOMAIN emits : InSnapshot(d, i)'
      BY <2>5
    <3>2. d = n
      <4>1. InSnapshot(d, i)
        BY <1>10, <3>1
      <4>2. i \in IdsIn(emits[d].left)
        BY <4>1 DEF InSnapshot
      <4>3. QED
        BY <1>2, <1>3, <2>3, <4>1, <4>2 DEF Apart
    <3>3. i \in IdsIn(Tail(Top.left))
      BY <1>5, <1>6, <3>1, <3>2 DEF InSnapshot
    <3>4. Distinct(Top.left)
      BY <1>2, <1>3 DEF Apart
    <3>5. QED
      BY <1>4, <3>3, <3>4
  <2>6. QED
    BY <1>1, <1>6, <1>11, <2>4, <2>5 DEF Waits
<1>12. ASSUME NEW i, Waits(i) PROVE Waits(i)' \/ i \in Done'
  <2>1. CASE \E e \in Events : i \in IdsIn(once[e])
    BY <1>1, <2>1 DEF Waits
  <2>2. CASE \E d \in DOMAIN emits : InSnapshot(d, i)
    <3>1. PICK d \in DOMAIN emits : InSnapshot(d, i)
      BY <2>2
    <3>2. CASE d # n
      <4>1. InSnapshot(d, i)'
        BY <1>6, <3>1, <3>2 DEF InSnapshot
      <4>2. QED
        BY <1>6, <3>1, <4>1 DEF Waits
    <3>3. CASE d = n
      <4>1. Top.list = "once" /\ i \in IdsIn(Top.left)
        BY <1>3, <3>1, <3>3 DEF InSnapshot
      <4>2. CASE i = s.id
        BY <1>1, <4>1, <4>2
      <4>3. CASE i # s.id
        <5>1. i \in IdsIn(Tail(Top.left))
          BY <1>4, <4>1, <4>3
        <5>2. InSnapshot(d, i)'
          BY <1>5, <1>6, <3>3, <4>1, <5>1 DEF InSnapshot
        <5>3. QED
          BY <1>6, <3>1, <5>2 DEF Waits
      <4>4. QED
        BY <4>2, <4>3
    <3>4. QED
      BY <3>2, <3>3
  <2>3. QED
    BY <1>12, <2>1, <2>2 DEF Waits
<1>13. QED
  BY <1>1, <1>2, <1>8, <1>9, <1>11, <1>12, ShrinkKeeps DEF Apart
LEMMA ListenerReturnsKeeps ==
    ASSUME EventInv, ListenerReturns
    PROVE  EventInv'
<1> DEFINE n == Len(emits)
           f == [Top EXCEPT !.at = "loop"]
<1>1. emits # <<>> /\ emits' = WithTop(f) /\ UNCHANGED <<listeners, once, subs, ran, gone>>
  BY DEF ListenerReturns
<1>2. Typed /\ Apart
  BY DEF EventInv
<1>3. Top = emits[n] /\ Top \in Emit /\ n \in DOMAIN emits
  BY <1>1, <1>2, TopIs
<1>4. f \in Emit /\ f.left = Top.left /\ f.list = Top.list
  BY <1>3 DEF Emit
<1> HIDE DEF f
<1>5. /\ emits' \in Seq(Emit) /\ DOMAIN emits' = DOMAIN emits /\ emits'[n] = f
      /\ \A d \in DOMAIN emits : d # n => emits'[d] = emits[d]
  BY <1>1, <1>2, <1>4, WithTopShape
<1> HIDE DEF n
<1>6. \A d \in DOMAIN emits : emits'[d].list = emits[d].list /\ emits'[d].left = emits[d].left
  BY <1>3, <1>4, <1>5
<1>7. \A d \in DOMAIN emits : \A i : InSnapshot(d, i)' <=> InSnapshot(d, i)
  BY <1>6 DEF InSnapshot
<1>8. \A i : Waits(i)' <=> Waits(i)
  BY <1>1, <1>5, <1>7 DEF Waits
<1>9. Done' = Done
  BY <1>1 DEF Done
<1>10. Typed'
  BY <1>1, <1>2, <1>5, <1>9 DEF Typed
<1>11. \A d \in DOMAIN emits' : /\ d \in DOMAIN emits /\ emits'[d].list = emits[d].list
                                /\ IdsIn(emits'[d].left) \subseteq IdsIn(emits[d].left)
                                /\ emits[d].list = "once" => Distinct(emits'[d].left)
  BY <1>2, <1>5, <1>6 DEF Apart
<1>12. \A i : Waits(i) => i \notin Done
  BY WaitsIs
<1>13. QED
  BY <1>1, <1>2, <1>8, <1>9, <1>10, <1>11, <1>12, ShrinkKeeps DEF Apart

\* The one-time subscriptions of the event move to the emit's snapshot; nothing starts or stops waiting.
LEMMA TakeOnceKeeps ==
    ASSUME EventInv, TakeOnce
    PROVE  EventInv'
<1> DEFINE n == Len(emits)
           e == Top.event
           f == [Top EXCEPT !.list = "once", !.left = once[e]]
<1>1. /\ emits # <<>> /\ Top.list = "on" /\ emits' = WithTop(f) /\ once' = [once EXCEPT ![e] = <<>>]
      /\ UNCHANGED <<listeners, subs, ran, gone>>
  BY DEF TakeOnce
<1>2. Typed /\ Kinds /\ Apart /\ UntilDone
  BY DEF EventInv
<1>3. Top = emits[n] /\ Top \in Emit /\ n \in DOMAIN emits
  BY <1>1, <1>2, TopIs
<1>4. e \in Events
  BY <1>3 DEF Emit
<1>5. f \in Emit /\ f.left = once[e] /\ f.list = "once"
  <2>1. once[e] \in Seq(Sub) /\ "once" \in Kind
    BY <1>2, <1>4 DEF Typed, Kind
  <2>2. QED
    BY <1>3, <2>1 DEF Emit
<1> HIDE DEF f, e
<1>6. /\ emits' \in Seq(Emit) /\ DOMAIN emits' = DOMAIN emits /\ emits'[n] = f
      /\ \A d \in DOMAIN emits : d # n => emits'[d] = emits[d]
  BY <1>1, <1>2, <1>5, WithTopShape
<1>7. PICK k \in DOMAIN emits : k = n /\ emits[k].list = "on" /\ emits'[k] = f /\ \A d \in DOMAIN emits : d # k => emits'[d] = emits[d]
  BY <1>1, <1>3, <1>6
<1> HIDE DEF n
<1>8. \A i : ~InSnapshot(k, i) /\ (InSnapshot(k, i)' <=> i \in IdsIn(once[e]))
  BY <1>5, <1>7 DEF InSnapshot
<1>9. \A d \in DOMAIN emits : \A i : d # k => (InSnapshot(d, i)' <=> InSnapshot(d, i))
  BY <1>7 DEF InSnapshot
<1>10. /\ once' \in [Events -> Seq(Sub)] /\ IdsIn(once'[e]) = {} /\ Distinct(once'[e])
       /\ \A c \in Events : c # e => once'[c] = once[c]
  <2>1. <<>> \in Seq(Sub) /\ IdsIn(<<>>) = {} /\ Distinct(<<>>)
    BY DEF IdsIn, Distinct
  <2>2. once \in [Events -> Seq(Sub)]
    BY <1>2 DEF Typed
  <2>3. QED
    BY <1>1, <1>4, <2>1, <2>2
<1>11. Done' = Done
  BY <1>1 DEF Done
<1>12. Typed'
  BY <1>1, <1>2, <1>6, <1>10, <1>11 DEF Typed
<1>13. Kinds'
  <2>1. \A c \in Events : \A i \in IdsIn(once'[c]) : i \in IdsIn(once[c])
    BY <1>10
  <2>2. \A d \in DOMAIN emits : \A i \in IdsIn(emits'[d].left) : i \in 1..Len(subs) /\ subs[i] = emits'[d].list
    <3> SUFFICES ASSUME NEW d \in DOMAIN emits, NEW i \in IdsIn(emits'[d].left)
                 PROVE  i \in 1..Len(subs) /\ subs[i] = emits'[d].list
      OBVIOUS
    <3>1. CASE d = k
      BY <1>2, <1>4, <1>5, <1>7, <3>1 DEF Kinds
    <3>2. CASE d # k
      BY <1>2, <1>7, <3>2 DEF Kinds
    <3>3. QED
      BY <3>1, <3>2
  <2>3. QED
    BY <1>1, <1>2, <1>6, <2>1, <2>2 DEF Kinds
<1>14. Apart'
  <2>1. \A c \in Events : Distinct(once'[c])
    BY <1>2, <1>10 DEF Apart
  <2>2. \A d \in DOMAIN emits : emits'[d].list = "once" => Distinct(emits'[d].left)
    BY <1>2, <1>4, <1>5, <1>7 DEF Apart
  <2>3. \A c, d \in Events : \A i \in IdsIn(once'[c]) : i \in IdsIn(once'[d]) => c = d
    BY <1>2, <1>10 DEF Apart
  <2>4. \A c \in Events, d \in DOMAIN emits : \A i \in IdsIn(once'[c]) : ~InSnapshot(d, i)'
    <3> SUFFICES ASSUME NEW c \in Events, NEW d \in DOMAIN emits, NEW i \in IdsIn(once'[c]), InSnapshot(d, i)'
                 PROVE  FALSE
      OBVIOUS
    <3>1. c # e /\ i \in IdsIn(once[c])
      BY <1>10
    <3>2. CASE d = k
      BY <1>2, <1>4, <1>8, <3>1, <3>2 DEF Apart
    <3>3. CASE d # k
      BY <1>2, <1>9, <3>1, <3>3 DEF Apart
    <3>4. QED
      BY <3>2, <3>3
  <2>5. \A c, d \in DOMAIN emits : \A i : InSnapshot(c, i)' /\ InSnapshot(d, i)' => c = d
    <3> SUFFICES ASSUME NEW c \in DOMAIN emits, NEW d \in DOMAIN emits, NEW i, InSnapshot(c, i)', InSnapshot(d, i)'
                 PROVE  c = d
      OBVIOUS
    <3>1. \A a \in DOMAIN emits : i \in IdsIn(once[e]) => ~InSnapshot(a, i)
      BY <1>2, <1>4 DEF Apart
    <3>2. \A a, b \in DOMAIN emits : InSnapshot(a, i) /\ InSnapshot(b, i) => a = b
      BY <1>2 DEF Apart, InSnapshot
    <3>3. QED
      BY <1>8, <1>9, <3>1, <3>2
  <2>6. QED
    BY <1>6, <2>1, <2>2, <2>3, <2>4, <2>5 DEF Apart
<1>15. UntilDone'
  <2>1. \A i : Waits(i) => Waits(i)'
    <3> SUFFICES ASSUME NEW i, Waits(i) PROVE Waits(i)'
      OBVIOUS
    <3>1. CASE \E c \in Events : i \in IdsIn(once[c])
      <4>1. PICK c \in Events : i \in IdsIn(once[c])
        BY <3>1
      <4>2. CASE c = e
        BY <1>6, <1>7, <1>8, <4>1, <4>2 DEF Waits
      <4>3. CASE c # e
        BY <1>10, <4>1, <4>3 DEF Waits
      <4>4. QED
        BY <4>2, <4>3
    <3>2. CASE \E d \in DOMAIN emits : InSnapshot(d, i)
      <4>1. PICK d \in DOMAIN emits : InSnapshot(d, i)
        BY <3>2
      <4>2. InSnapshot(d, i)'
        BY <1>8, <1>9, <4>1
      <4>3. QED
        BY <1>6, <4>1, <4>2 DEF Waits
    <3>3. QED
      BY <3>1, <3>2 DEF Waits
  <2>2. \A i : Waits(i)' => Waits(i)
    <3> SUFFICES ASSUME NEW i, Waits(i)' PROVE Waits(i)
      OBVIOUS
    <3>1. (\E c \in Events : i \in IdsIn(once'[c])) \/ \E d \in DOMAIN emits : InSnapshot(d, i)'
      BY <1>6 DEF Waits
    <3>2. CASE \E c \in Events : i \in IdsIn(once'[c])
      BY <1>10, <3>2 DEF Waits
    <3>3. CASE \E d \in DOMAIN emits : InSnapshot(d, i)'
      <4>1. PICK d \in DOMAIN emits : InSnapshot(d, i)'
        BY <3>3
      <4>2. i \in IdsIn(once[e]) \/ InSnapshot(d, i)
        BY <1>8, <1>9, <4>1
      <4>3. QED
        BY <1>4, <4>1, <4>2 DEF Waits
    <3>4. QED
      BY <3>1, <3>2, <3>3
  <2>3. QED
    BY <1>1, <1>2, <1>11, <2>1, <2>2 DEF UntilDone
<1>16. QED
  BY <1>12, <1>13, <1>14, <1>15 DEF EventInv
\* Emits end, the innermost first, and what is left of their one-time snapshots is removed.
LEMMA CutKeeps ==
    ASSUME EventInv, NEW m \in 0..Len(emits), emits' = SubSeq(emits, 1, m), UNCHANGED <<listeners, once, subs, ran>>,
           \A i : i \in gone' <=> i \in gone \/ \E d \in DOMAIN emits : d \notin 1..m /\ InSnapshot(d, i)
    PROVE  EventInv'
<1>1. Typed /\ Kinds /\ Apart
  BY DEF EventInv
<1>2. emits' \in Seq(Emit) /\ DOMAIN emits' = 1..m /\ \A d \in 1..m : d \in DOMAIN emits /\ emits'[d] = emits[d]
  <2>1. emits \in Seq(Emit)
    BY <1>1 DEF Typed
  <2>2. QED
    BY <2>1, EmitsCut
<1>3. \A d \in 1..m : \A i : InSnapshot(d, i)' <=> InSnapshot(d, i)
  BY <1>2 DEF InSnapshot
<1>4. \A i : i \in Done' <=> i \in Done \/ \E d \in DOMAIN emits : d \notin 1..m /\ InSnapshot(d, i)
  BY DEF Done
<1>5. Typed'
  <2>1. \A d \in DOMAIN emits : \A i : InSnapshot(d, i) => i \in 1..Len(subs)
    BY <1>1 DEF Kinds, InSnapshot
  <2>2. Done' \subseteq 1..Len(subs)
    BY <1>1, <1>4, <2>1 DEF Typed
  <2>3. QED
    BY <1>1, <1>2, <2>2 DEF Typed
<1>6. \A d \in DOMAIN emits' : /\ d \in DOMAIN emits /\ emits'[d].list = emits[d].list
                               /\ IdsIn(emits'[d].left) \subseteq IdsIn(emits[d].left)
                               /\ emits[d].list = "once" => Distinct(emits'[d].left)
  BY <1>1, <1>2 DEF Apart
<1>7. ASSUME NEW i, Waits(i)' PROVE i \notin Done'
  <2>1. (\E e \in Events : i \in IdsIn(once[e])) \/ \E d \in 1..m : InSnapshot(d, i)
    BY <1>2, <1>3, <1>7 DEF Waits
  <2>2. Waits(i)
    BY <1>2, <2>1 DEF Waits
  <2>3. i \notin Done
    BY <2>2, WaitsIs
  <2> SUFFICES ASSUME NEW d \in DOMAIN emits, d \notin 1..m, InSnapshot(d, i) PROVE FALSE
    BY <1>4, <2>3
  <2>4. \A c \in DOMAIN emits : InSnapshot(c, i) => c = d
    BY <1>1 DEF Apart, InSnapshot
  <2>5. \A e \in Events : i \notin IdsIn(once[e])
    BY <1>1 DEF Apart
  <2>6. QED
    BY <1>2, <2>1, <2>4, <2>5
<1>8. ASSUME NEW i, Waits(i) PROVE Waits(i)' \/ i \in Done'
  <2>1. CASE \E e \in Events : i \in IdsIn(once[e])
    BY <2>1 DEF Waits
  <2>2. CASE \E d \in DOMAIN emits : InSnapshot(d, i)
    <3>1. PICK d \in DOMAIN emits : InSnapshot(d, i)
      BY <2>2
    <3>2. CASE d \in 1..m
      BY <1>2, <1>3, <3>1, <3>2 DEF Waits
    <3>3. CASE d \notin 1..m
      BY <1>4, <3>1, <3>3
    <3>4. QED
      BY <3>2, <3>3
  <2>3. QED
    BY <1>8, <2>1, <2>2 DEF Waits
<1>9. Done \subseteq Done' /\ \A e \in Events : Distinct(once'[e])
  BY <1>1, <1>4 DEF Apart
<1>10. QED
  BY <1>5, <1>6, <1>7, <1>8, <1>9, ShrinkKeeps

LEMMA EmitReturnsKeeps ==
    ASSUME EventInv, EmitReturns
    PROVE  EventInv'
<1>1. emits # <<>> /\ Top.left = <<>> /\ emits' = Front(emits) /\ UNCHANGED <<listeners, once, subs, ran, gone>>
  BY DEF EmitReturns
<1>2. Typed
  BY DEF EventInv
<1>3. Top = emits[Len(emits)] /\ Len(emits) \in DOMAIN emits
  BY <1>1, <1>2, TopIs
<1>4. PICK n \in Nat : Len(emits) = n + 1 /\ DOMAIN emits = 1..(n + 1)
  <2>1. Len(emits) \in Nat /\ DOMAIN emits = 1..Len(emits)
    BY <1>2, LenProperties DEF Typed
  <2>2. \A k \in Nat : k \in 1..k => k - 1 \in Nat /\ k = k - 1 + 1
    OBVIOUS
  <2>3. QED
    BY <1>3, <2>1, <2>2
<1>5. emits' = SubSeq(emits, 1, n) /\ n \in 0..Len(emits)
  BY <1>1, <1>4 DEF Front
<1>6. ASSUME NEW i, NEW d \in DOMAIN emits, d \notin 1..n, InSnapshot(d, i) PROVE FALSE
  <2>1. d = n + 1
    BY <1>4, <1>6
  <2>2. i \in IdsIn(Top.left)
    BY <1>3, <1>4, <1>6, <2>1 DEF InSnapshot
  <2>3. QED
    BY <1>1, <2>2 DEF IdsIn
<1>7. \A i : i \in gone' <=> i \in gone \/ \E d \in DOMAIN emits : d \notin 1..n /\ InSnapshot(d, i)
  BY <1>1, <1>6
<1>8. QED
  BY <1>1, <1>5, <1>7, CutKeeps

\* The emits that an error leaves are the ones above the emit that stops it.
LEMMA EmitsAbove ==
    ASSUME NEW es \in Seq(Emit), NEW m \in 0..Len(es)
    PROVE  Range(SubSeq(es, m + 1, Len(es))) = {es[d] : d \in {d \in DOMAIN es : d \notin 1..m}}
<1> DEFINE n == Len(es)
           t == SubSeq(es, m + 1, n)
<1>1. n \in Nat /\ m \in 0..n /\ DOMAIN es = 1..n /\ \A i \in 1..n : es[i] \in Emit
  BY LenProperties, ElementOfSeq
<1> HIDE DEF n
<1>2. t \in Seq(Emit) /\ Len(t) = n - m /\ \A i \in 1..(n - m) : t[i] = es[m + i]
  <2>1. \A i \in (m + 1)..n : es[i] \in Emit
    BY <1>1
  <2>2. /\ t \in Seq(Emit)
        /\ Len(t) = IF m + 1 <= n THEN n - (m + 1) + 1 ELSE 0
        /\ \A i \in 1..(n - (m + 1) + 1) : t[i] = es[m + 1 + i - 1]
    BY <1>1, <2>1, SubSeqProperties
  <2>3. QED
    BY <1>1, <2>2
<1>3. DOMAIN t = 1..(n - m)
  BY <1>2, LenProperties
<1> HIDE DEF t
<1>4. /\ \A i \in 1..(n - m) : m + i \in 1..n /\ m + i \notin 1..m
      /\ \A d \in 1..n : d \notin 1..m => d - m \in 1..(n - m) /\ m + (d - m) = d
  BY <1>1
<1>5. \A d \in 1..n : d \notin 1..m => t[d - m] = es[d]
  BY <1>2, <1>4
<1>6. \A x \in Range(t) : \E d \in DOMAIN es : d \notin 1..m /\ x = es[d]
  BY <1>1, <1>2, <1>3, <1>4 DEF Range
<1>7. \A d \in DOMAIN es : d \notin 1..m => es[d] \in Range(t)
  BY <1>1, <1>3, <1>4, <1>5 DEF Range
<1>8. QED
  BY <1>6, <1>7 DEF t, n

LEMMA ListenerThrowsKeeps ==
    ASSUME EventInv, ListenerThrows
    PROVE  EventInv'
<1> DEFINE Above(m) == SubSeq(emits, m + 1, Len(emits))
<1>1. PICK m \in 0..(Len(emits) - 1) :
        /\ emits' = SubSeq(emits, 1, m)
        /\ gone' = gone \cup UNION {IF f.list = "once" THEN IdsIn(f.left) ELSE {} : f \in Range(Above(m))}
  BY DEF ListenerThrows
<1>2. UNCHANGED <<listeners, once, subs, ran>>
  BY DEF ListenerThrows
<1>3. emits \in Seq(Emit)
  BY DEF EventInv, Typed
<1>4. Len(emits) \in Nat /\ m \in 0..Len(emits)
  BY <1>3, LenProperties
<1>5. Range(Above(m)) = {emits[d] : d \in {d \in DOMAIN emits : d \notin 1..m}}
  BY <1>3, <1>4, EmitsAbove
<1> HIDE DEF Above
<1>6. \A i : i \in gone' <=> i \in gone \/ \E f \in Range(Above(m)) : f.list = "once" /\ i \in IdsIn(f.left)
  BY <1>1
<1>7. \A i : i \in gone' <=> i \in gone \/ \E d \in DOMAIN emits : d \notin 1..m /\ InSnapshot(d, i)
  BY <1>5, <1>6 DEF InSnapshot
<1>8. QED
  BY <1>1, <1>2, <1>4, <1>7, CutKeeps

LEMMA EventStart == EventInit => EventInv
<1> SUFFICES ASSUME EventInit PROVE EventInv
  OBVIOUS
<1>1. /\ listeners = None /\ once = None /\ emits = <<>> /\ subs = <<>> /\ Done = {} /\ DOMAIN emits = {}
      /\ Len(subs) = 0
  BY DEF EventInit, Done
<1>2. <<>> \in Seq(Sub) /\ IdsIn(<<>>) = {} /\ Distinct(<<>>) /\ None \in [Events -> Seq(Sub)]
  BY DEF IdsIn, Distinct, None
<1>3. \A e \in Events : None[e] = <<>>
  BY DEF None
<1>4. Typed
  BY <1>1, <1>2 DEF Typed
<1>5. \A e \in Events : IdsIn(once[e]) = {} /\ IdsIn(listeners[e]) = {} /\ Distinct(once[e])
  BY <1>1, <1>2, <1>3
<1>6. Kinds /\ Apart
  BY <1>1, <1>5 DEF Kinds, Apart
<1>7. UntilDone
  BY <1>1 DEF UntilDone
<1>8. QED
  BY <1>4, <1>6, <1>7 DEF EventInv

LEMMA EventStep == EventInv /\ [EventNext]_eventVars => EventInv'
<1> SUFFICES ASSUME EventInv, [EventNext]_eventVars PROVE EventInv'
  OBVIOUS
<1>1. ASSUME NEW e \in Events, NEW f \in Funcs, EventOn(e, f) PROVE EventInv'
  BY <1>1, EventOnKeeps
<1>2. ASSUME NEW e \in Events, NEW f \in Funcs, EventOnce(e, f) PROVE EventInv'
  BY <1>2, EventOnceKeeps
<1>3. ASSUME NEW e \in Events, NEW f \in Funcs, EventOff(e, f) PROVE EventInv'
  BY <1>3, EventOffKeeps
<1>4. ASSUME NEW es \in {{e} : e \in Events} \cup {Events}, EventClear(es) PROVE EventInv'
  <2>1. es \in SUBSET Events
    OBVIOUS
  <2>2. QED
    BY <1>4, <2>1, EventClearKeeps
<1>5. ASSUME NEW e \in Events, EventEmit(e) PROVE EventInv'
  BY <1>5, EventEmitKeeps
<1>6. CASE DispatchEvent
  BY <1>6, DispatchKeeps
<1>7. CASE ListenerReturns
  BY <1>7, ListenerReturnsKeeps
<1>8. CASE TakeOnce
  BY <1>8, TakeOnceKeeps
<1>9. CASE EmitReturns
  BY <1>9, EmitReturnsKeeps
<1>10. CASE ListenerThrows
  BY <1>10, ListenerThrowsKeeps
<1>11. CASE UNCHANGED eventVars
  <2>1. UNCHANGED <<listeners, once, emits, subs, ran, gone>>
    BY <1>11 DEF eventVars
  <2>2. Done' = Done /\ (\A d, i : InSnapshot(d, i)' <=> InSnapshot(d, i)) /\ (\A i : Waits(i)' <=> Waits(i))
    BY <2>1 DEF Done, InSnapshot, Waits
  <2>3. QED
    BY <2>1, <2>2 DEF EventInv, Typed, Kinds, Apart, UntilDone
<1>12. QED
  BY <1>1, <1>2, <1>3, <1>4, <1>5, <1>6, <1>7, <1>8, <1>9, <1>10, <1>11 DEF EventNext

-----------------------------------------------------------------------------
(* Events: the theorems.                                                   *)

\* A one-time subscription is in one place until it has run or was removed, and then in none, whatever
\* listeners do inside emits.
THEOREM EventInvariant == EventSpec => []EventInv
<1>1. QED
  BY EventStart, EventStep, PTL DEF EventSpec

\* The places of one subscription are never more than one.
LEMMA OnePlace ==
    ASSUME NEW S, \A x, y \in S : x = y
    PROVE  Cardinality(S) \in {0, 1} /\ (Cardinality(S) = 0 <=> S = {})
<1>1. CASE S = {}
  BY <1>1, FS_EmptySet
<1>2. CASE S # {}
  <2>1. PICK x : S = {x}
    BY <1>2
  <2>2. QED
    BY <2>1, FS_Singleton
<1>3. QED
  BY <1>1, <1>2

\* No emit runs a one-time listener twice and none loses it: at every moment it is in the list of its event or
\* in the snapshot of one emit, or it has run, or off, clear or an error removed it.
THEOREM OnceAlwaysRunsOnce == EventSpec => []OnceRunsOnce
<1>1. ASSUME EventInv PROVE OnceRunsOnce
  <2> DEFINE lists(i) == {e \in Events : i \in IdsIn(once[e])}
             taken(i) == {d \in DOMAIN emits : emits[d].list = "once" /\ i \in IdsIn(emits[d].left)}
             waiting(i) == Cardinality(lists(i)) + Cardinality(taken(i))
             snapshots == UNION {IF f.list = "on" THEN IdsIn(f.left) ELSE {} : f \in Range(emits)}
  <2>1. Typed /\ Kinds /\ Apart /\ UntilDone
    BY <1>1 DEF EventInv
  <2>2. DOMAIN subs = 1..Len(subs) /\ subs \in Seq(Kind)
    BY <2>1, LenProperties DEF Typed
  <2> SUFFICES ASSUME NEW i \in 1..Len(subs), subs[i] = "once"
               PROVE  /\ waiting(i) <= 1 /\ i \notin snapshots
                      /\ waiting(i) = 1 <=> i \notin ran \cup gone
    BY <2>2 DEF OnceRunsOnce
  <2>3. i \notin snapshots
    BY <2>1 DEF Kinds, Range
  <2>4. \A e, d \in lists(i) : e = d
    BY <2>1 DEF Apart
  <2>5. \A c, d \in taken(i) : c = d
    BY <2>1 DEF Apart, InSnapshot
  <2>6. lists(i) # {} => taken(i) = {}
    BY <2>1 DEF Apart, InSnapshot
  <2>7. lists(i) # {} \/ taken(i) # {} <=> i \notin ran \cup gone
    <3>1. Waits(i) <=> i \notin Done
      BY <2>1 DEF UntilDone
    <3>2. QED
      BY <3>1 DEF Waits, InSnapshot, Done
  <2> HIDE DEF lists, taken, snapshots
  <2>8. /\ Cardinality(lists(i)) \in {0, 1} /\ (Cardinality(lists(i)) = 0 <=> lists(i) = {})
        /\ Cardinality(taken(i)) \in {0, 1} /\ (Cardinality(taken(i)) = 0 <=> taken(i) = {})
    BY <2>4, <2>5, OnePlace
  <2>9. QED
    BY <2>3, <2>6, <2>7, <2>8
<1>2. QED
  BY <1>1, EventInvariant, PTL

\* A dispatch never reaches a one-time listener that is done: one that ran in another emit, or that a listener
\* of this emit took out with off or clear before the one-time listeners had their turn.
THEOREM NoOnceRunsAgain ==
    EventSpec => [][DispatchEvent /\ Top.list = "once" => Head(Top.left).id \notin ran \cup gone]_eventVars
<1>1. ASSUME EventInv, DispatchEvent, Top.list = "once" PROVE Head(Top.left).id \notin ran \cup gone
  <2>1. emits # <<>> /\ Top.left # <<>> /\ Typed
    BY <1>1 DEF DispatchEvent, EventInv
  <2>2. Top = emits[Len(emits)] /\ Top \in Emit /\ Len(emits) \in DOMAIN emits
    BY <2>1, TopIs
  <2>3. Top.left \in Seq(Sub)
    BY <2>2 DEF Emit
  <2>4. Head(Top.left).id \in IdsIn(Top.left)
    BY <2>1, <2>3, ListTail
  <2>5. Waits(Head(Top.left).id)
    BY <1>1, <2>2, <2>4 DEF Waits, InSnapshot
  <2>6. QED
    BY <1>1, <2>5, WaitsIs DEF Done
<1>2. QED
  BY <1>1, EventInvariant, PTL

-----------------------------------------------------------------------------
(* Objects: doubling a capacity.                                           *)

\* What doubling c makes.
Doubled(c) == {d \in Nat : \A X \in SUBSET Nat : c \in X /\ (\A x \in X : 2 * x \in X) => d \in X}

LEMMA DoubledOnce ==
    ASSUME NEW c \in Nat
    PROVE  /\ Doubled(c) = {c} \cup Doubled(2 * c)
           /\ \A d \in Doubled(c) : d >= c
<1>1. c \in Doubled(c) /\ 2 * c \in Doubled(c)
  BY DEF Doubled
<1>2. \A d \in Doubled(c) : 2 * d \in Doubled(c)
  BY DEF Doubled
<1>3. Doubled(2 * c) \subseteq Doubled(c)
  BY <1>1, <1>2 DEF Doubled
<1>4. Doubled(c) \subseteq {c} \cup Doubled(2 * c)
  <2> DEFINE X == {c} \cup Doubled(2 * c)
  <2>1. X \in SUBSET Nat /\ c \in X
    BY DEF Doubled
  <2>2. 2 * c \in Doubled(2 * c) /\ \A d \in Doubled(2 * c) : 2 * d \in Doubled(2 * c)
    BY DEF Doubled
  <2>3. \A x \in X : 2 * x \in X
    BY <2>2
  <2>4. QED
    BY <2>1, <2>3 DEF Doubled
<1>5. \A d \in Doubled(c) : d >= c
  <2> DEFINE X == {d \in Nat : d >= c}
  <2>1. X \in SUBSET Nat /\ c \in X /\ \A x \in X : 2 * x \in X
    OBVIOUS
  <2>2. QED
    BY <2>1 DEF Doubled
<1>6. QED
  BY <1>1, <1>3, <1>4, <1>5

\* The snapshot's capacity is enough, however much is needed.
LEMMA CapacityEnough ==
    ASSUME NEW cap \in Nat, NEW need \in Nat
    PROVE  EnsureSpecCapacity(cap, need) \in Nat /\ EnsureSpecCapacity(cap, need) >= need
<1> DEFINE f[c \in Nat] == IF c >= need THEN c ELSE f[2 * c]
           Big(c) == {d \in Doubled(c) : d >= need}
           w == [c \in Nat |-> CHOOSE m \in Big(c) : \A n \in Big(c) : ~(n < m)]
           h == [c \in Nat |-> IF c >= need THEN c ELSE w[c]]
<1>0. ASSUME NEW c \in Nat, c < need PROVE w[c] = IF 2 * c >= need THEN 2 * c ELSE w[2 * c]
  <2>1. Big(c) = Big(2 * c)
    BY <1>0, DoubledOnce
  <2>2. 2 * c \in Nat
    OBVIOUS
  <2>3. w[c] = w[2 * c]
    BY <2>1, <2>2
  <2>4. CASE 2 * c >= need
    <3>2. 2 * c \in Doubled(2 * c) /\ \A d \in Doubled(2 * c) : d >= 2 * c /\ d \in Nat
      BY <2>2, DoubledOnce DEF Doubled
    <3>3. \A m \in Big(2 * c) : (\A n \in Big(2 * c) : ~(n < m)) => m = 2 * c
      BY <2>2, <2>4, <3>2
    <3>4. 2 * c \in Big(2 * c) /\ \A n \in Big(2 * c) : ~(n < 2 * c)
      BY <2>2, <2>4, <3>2
    <3>5. w[2 * c] = 2 * c
      BY <2>2, <3>3, <3>4
    <3>6. QED
      BY <2>3, <2>4, <3>5
  <2> HIDE DEF w
  <2>5. QED
    BY <2>3, <2>4
<1> HIDE DEF w
<1>1. h = [c \in Nat |-> IF c >= need THEN c ELSE h[2 * c]]
  <2>1. \A c \in Nat : c < need => w[c] = h[2 * c]
    BY <1>0
  <2>2. \A c \in Nat : (IF c >= need THEN c ELSE w[c]) = IF c >= need THEN c ELSE h[2 * c]
    BY <2>1
  <2>3. QED
    BY <2>2
<1> HIDE DEF h
<1>2. f = [c \in Nat |-> IF c >= need THEN c ELSE f[2 * c]]
  BY <1>1
<1> DEFINE Bad == {c \in Nat : c # 0 /\ ~(f[c] \in Nat /\ f[c] >= need)}
           g == f
<1>3. g = [c \in Nat |-> IF c >= need THEN c ELSE g[2 * c]]
  BY <1>2
<1>4. EnsureSpecCapacity(cap, need) = IF need <= cap THEN cap ELSE g[IF cap = 0 THEN 4 ELSE cap]
  BY DEF EnsureSpecCapacity
<1>5. Bad = {c \in Nat : c # 0 /\ ~(g[c] \in Nat /\ g[c] >= need)}
  OBVIOUS
<1> HIDE DEF g, f, Bad
<1>6. \A c \in Bad : c < need /\ 2 * c \in Bad /\ need - c \in Nat /\ need - 2 * c \in Nat /\ need - 2 * c < need - c
  <2> TAKE c \in Bad
  <2>1. c \in Nat /\ c # 0 /\ 2 * c \in Nat /\ 2 * c # 0 /\ c < 2 * c
    BY <1>5
  <2>2. \A b \in Bad : b < need /\ b \in Nat
    BY <1>3, <1>5
  <2>3. g[c] = g[2 * c]
    BY <1>3, <2>1, <2>2
  <2>4. 2 * c \in Bad
    BY <1>5, <2>1, <2>3
  <2>5. QED
    BY <2>1, <2>2, <2>4
<1>7. Bad = {}
  <2> SUFFICES ASSUME Bad # {} PROVE FALSE
    OBVIOUS
  <2> DEFINE S == {need - c : c \in Bad}
  <2>1. S \in SUBSET Nat /\ S # {}
    BY <1>6
  <2>2. PICK m \in S : \A n \in S : ~(n < m)
    BY <2>1, LeastExists
  <2>3. QED
    BY <1>6, <2>2
<1>8. QED
  BY <1>4, <1>5, <1>7

-----------------------------------------------------------------------------
(* Objects: the invariant.                                                 *)

ObjSpec == ObjInit /\ [][ObjNext]_objVars

ObjRec ==
    [id : AllIds, group : Groups \cup {0}, alive : BOOLEAN, kv : [Fields -> FieldValues \cup {0}], finalized : Nat, deleted : Nat]
Entry == [key : Fields, val : FieldValues \cup {0}]
ShellRec == [obj : Nat, ready : BOOLEAN, snap : Seq(Entry), cap : Nat, stale : BOOLEAN]

ObjTyped ==
    /\ object \in Seq(ObjRec)
    /\ objects \in [AllIds -> DOMAIN object \cup {0}]
    /\ groups \in [Groups -> SUBSET DOMAIN object]
    /\ globals \in [GlobalKeys -> DOMAIN object \cup {0}]
    /\ zombies \in Seq(DOMAIN object)
    /\ autoId \in Int /\ autoId <= 0
    /\ cleared \in BOOLEAN

\* An index leads to an object that is alive and belongs there.
Indexed ==
    /\ \A i \in AllIds : objects[i] # 0 => object[objects[i]].alive /\ object[objects[i]].id = i
    /\ \A g \in Groups : \A o \in groups[g] : object[o].alive /\ object[o].group = g
    /\ \A k \in GlobalKeys : globals[k] # 0 => object[globals[k]].alive /\ \A g \in Groups : globals[k] \notin groups[g]
    /\ \A k, l \in GlobalKeys : globals[k] # 0 /\ globals[k] = globals[l] => k = l

\* A zombie is dead and waits once for its deletion.
Buried ==
    /\ \A z \in DOMAIN zombies : ~object[zombies[z]].alive
    /\ \A y, z \in DOMAIN zombies : zombies[y] = zombies[z] => y = z

Counted ==
    /\ \A o \in DOMAIN object :
          /\ object[o].finalized <= 1 /\ (object[o].alive => object[o].finalized = 0)
          /\ object[o].deleted <= 1 /\ (~cleared => object[o].deleted = 0)
    /\ cleared => zombies = <<>> /\ \A o \in DOMAIN object : ~object[o].alive

ManagerInv == ObjTyped /\ Indexed /\ Buried /\ Counted

\* No key is in a snapshot twice; it shows the fields kv, and no others.
Keyed(snap) == \A i, j \in DOMAIN snap : snap[i].key = snap[j].key => i = j
Shows(snap, kv) ==
    /\ \A f \in Fields : kv[f] # 0 => \E i \in DOMAIN snap : snap[i].key = f
    /\ \A i \in DOMAIN snap : kv[snap[i].key] # 0 /\ snap[i].val = kv[snap[i].key]

Snapped(sh, obj) ==
    sh.ready => /\ Keyed(sh.snap) /\ Len(sh.snap) <= sh.cap
                /\ ~sh.stale /\ obj.alive => Shows(sh.snap, obj.kv)

ShellInv ==
    /\ shell \in Seq(ShellRec)
    /\ \A s \in DOMAIN shell : shell[s].obj \in DOMAIN object /\ Snapped(shell[s], object[shell[s].obj])

ObjInv == ManagerInv /\ ShellInv

-----------------------------------------------------------------------------
(* Objects: the manager.                                                   *)

LEMMA SetAsSeq ==
    ASSUME NEW S, IsFiniteSet(S)
    PROVE  /\ SetToSeq(S) \in Seq(S)
           /\ \A i, j \in DOMAIN SetToSeq(S) : SetToSeq(S)[i] = SetToSeq(S)[j] => i = j
<1> DEFINE n == Cardinality(S)
           s == SetToSeq(S)
<1>1. n \in Nat
  BY FS_CardinalityType
<1>2. ExistsBijection(1..n, S)
  BY FS_CardinalityType
<1>3. PICK f \in Bijection(1..n, S) : TRUE
  BY <1>2, Fun_ExistsBij
<1>4. f \in [1..n -> S] /\ \A a, b \in 1..n : f[a] = f[b] => a = b
  BY <1>3, Fun_BijectionProperties
<1>5. IsInjective(f)
  BY <1>4 DEF IsInjective
<1>6. s \in [1..n -> S] /\ IsInjective(s)
  BY <1>4, <1>5 DEF SetToSeq
<1> HIDE DEF n, s
<1>7. s \in Seq(S)
  BY <1>1, <1>6
<1>8. \A i, j \in DOMAIN s : s[i] = s[j] => i = j
  BY <1>6 DEF IsInjective
<1>9. QED
  BY <1>7, <1>8 DEF s

LEMMA FunAsSeq ==
    ASSUME NEW T, NEW n \in Nat, NEW f \in [1..n -> T]
    PROVE  f \in Seq(T) /\ Len(f) = n /\ DOMAIN f = 1..n
<1>1. f \in Seq(T)
  OBVIOUS
<1>2. DOMAIN f = 1..Len(f) /\ Len(f) \in Nat
  BY <1>1, LenProperties
<1>3. QED
  BY <1>1, <1>2

Dead(r) == [r EXCEPT !.alive = FALSE, !.kv = NoFields, !.finalized = @ + 1]

LEMMA DeadFields ==
    ASSUME NEW A, NEW B, NEW C, NEW r \in [id : A, group : B, alive : BOOLEAN, kv : C, finalized : Nat, deleted : Nat]
    PROVE  /\ ~Dead(r).alive /\ Dead(r).id = r.id /\ Dead(r).group = r.group
           /\ Dead(r).finalized = r.finalized + 1 /\ Dead(r).deleted = r.deleted
           /\ NoFields \in C => Dead(r) \in [id : A, group : B, alive : BOOLEAN, kv : C, finalized : Nat, deleted : Nat]
<1> DEFINE n == r.finalized + 1
<1>1. n \in Nat
  OBVIOUS
<1>2. Dead(r) = [r EXCEPT !.alive = FALSE, !.kv = NoFields, !.finalized = n]
  BY DEF Dead
<1>3. Dead(r).finalized = n
  BY <1>2
<1> HIDE DEF n
<1>4. QED
  BY <1>1, <1>2 DEF n

LEMMA DeadRecord ==
    ASSUME NEW r \in ObjRec
    PROVE  /\ Dead(r) \in ObjRec /\ ~Dead(r).alive /\ Dead(r).id = r.id /\ Dead(r).group = r.group
           /\ Dead(r).finalized = r.finalized + 1 /\ Dead(r).deleted = r.deleted
<1>1. NoFields \in [Fields -> FieldValues \cup {0}]
  BY DEF NoFields
<1> DEFINE G == Groups \cup {0}
           K == [Fields -> FieldValues \cup {0}]
<1>2. NoFields \in K /\ r \in [id : AllIds, group : G, alive : BOOLEAN, kv : K, finalized : Nat, deleted : Nat]
  BY <1>1 DEF ObjRec
<1>3. ObjRec = [id : AllIds, group : G, alive : BOOLEAN, kv : K, finalized : Nat, deleted : Nat]
  BY DEF ObjRec
<1> HIDE DEF G, K
<1>4. QED
  BY <1>2, <1>3, DeadFields

\* Objects that no index leads to any more are destroyed.
LEMMA DestroyKeeps ==
    ASSUME ManagerInv, ~cleared, NEW os \in SUBSET DOMAIN object, \A o \in os : object[o].alive, Destroy(os),
           objects' \in [AllIds -> DOMAIN object \cup {0}],
           \A i \in AllIds : objects'[i] \in {objects[i], 0} /\ objects'[i] \notin os,
           groups' \in [Groups -> SUBSET DOMAIN object],
           \A g \in Groups : groups'[g] \subseteq groups[g] /\ \A o \in os : o \notin groups'[g],
           globals' \in [GlobalKeys -> DOMAIN object \cup {0}],
           \A k \in GlobalKeys : globals'[k] \in {globals[k], 0} /\ globals'[k] \notin os,
           autoId' = autoId, cleared' = cleared
    PROVE  /\ ManagerInv' /\ object' \in Seq(ObjRec) /\ DOMAIN object' = DOMAIN object
           /\ \A o \in DOMAIN object : object'[o].alive => object'[o] = object[o]
<1> DEFINE n == Len(object)
           app == SetToSeq(os)
<1>1. n \in Nat /\ DOMAIN object = 1..n /\ 0 \notin 1..n
  BY LenProperties DEF ManagerInv, ObjTyped
<1>2. \A o \in DOMAIN object : object[o] \in ObjRec
  BY DEF ManagerInv, ObjTyped
<1>3. /\ DOMAIN object' = 1..n
      /\ \A o \in 1..n : o \notin os => object'[o] = object[o]
      /\ \A o \in os : object'[o] = Dead(object[o])
  BY <1>1 DEF Destroy, Dead
<1>4. \A o \in os : /\ object'[o] \in ObjRec /\ ~object'[o].alive /\ object'[o].finalized = object[o].finalized + 1
                    /\ object'[o].deleted = object[o].deleted
  <2>1. \A o \in os : object[o] \in ObjRec
    BY <1>2
  <2>2. QED
    <3> SUFFICES ASSUME NEW o \in os
                 PROVE  /\ object'[o] \in ObjRec /\ ~object'[o].alive
                        /\ object'[o].finalized = object[o].finalized + 1 /\ object'[o].deleted = object[o].deleted
      OBVIOUS
    <3>1. object'[o] = Dead(object[o]) /\ object[o] \in ObjRec
      BY <1>3, <2>1
    <3>2. QED
      BY <3>1, DeadRecord
<1>5. \A o \in 1..n : object'[o] \in ObjRec
  BY <1>1, <1>2, <1>3, <1>4
<1>6. object' = [o \in 1..n |-> object'[o]]
  BY <1>1 DEF Destroy
<1>7. object' \in [1..n -> ObjRec]
  BY <1>5, <1>6
<1>8. object' \in Seq(ObjRec) /\ DOMAIN object' = DOMAIN object
  BY <1>1, <1>7, FunAsSeq
<1>9. IsFiniteSet(os)
  <2>1. IsFiniteSet(1..n)
    BY <1>1, FS_Interval
  <2>2. QED
    BY <1>1, <2>1, FS_Subset
<1>10. app \in Seq(os) /\ \A i, j \in DOMAIN app : app[i] = app[j] => i = j
  BY <1>9, SetAsSeq
<1>11. zombies' = zombies \o app
  BY DEF Destroy
<1> HIDE DEF app
<1>12. app \in Seq(DOMAIN object) /\ zombies \in Seq(DOMAIN object)
  BY <1>10, SeqMonotonic DEF ManagerInv, ObjTyped
<1>13. zombies' \in Seq(DOMAIN object) /\ Len(zombies') = Len(zombies) + Len(app)
       /\ \A i \in 1..Len(zombies) + Len(app) : zombies'[i] = IF i <= Len(zombies) THEN zombies[i] ELSE app[i - Len(zombies)]
  BY <1>11, <1>12, ConcatProperties
<1>14. Len(zombies) \in Nat /\ Len(app) \in Nat /\ DOMAIN zombies = 1..Len(zombies) /\ DOMAIN app = 1..Len(app)
       /\ DOMAIN zombies' = 1..(Len(zombies) + Len(app))
  BY <1>12, <1>13, LenProperties
<1>15. \A i \in DOMAIN zombies' : \/ i \in DOMAIN zombies /\ zombies'[i] = zombies[i]
                                  \/ i - Len(zombies) \in DOMAIN app /\ ~(i <= Len(zombies)) /\ zombies'[i] = app[i - Len(zombies)]
  BY <1>13, <1>14
<1>16. \A i \in DOMAIN app : app[i] \in os
  BY <1>10
<1>17. ObjTyped'
  BY <1>1, <1>8, <1>13 DEF ManagerInv, ObjTyped
<1>18. Indexed'
  <2>0. \A i \in AllIds : objects'[i] # 0 => objects'[i] = objects[i] /\ objects'[i] \in 1..n /\ objects'[i] \notin os
    BY <1>1
  <2>1. \A i \in AllIds : objects'[i] # 0 => object'[objects'[i]].alive /\ object'[objects'[i]].id = i
    BY <1>3, <2>0 DEF ManagerInv, Indexed
  <2>2. \A g \in Groups : \A o \in groups'[g] : object'[o].alive /\ object'[o].group = g
    <3> SUFFICES ASSUME NEW g \in Groups, NEW o \in groups'[g] PROVE object'[o].alive /\ object'[o].group = g
      OBVIOUS
    <3>1. o \in groups[g] /\ o \in 1..n /\ o \notin os
      BY <1>1
    <3>2. QED
      BY <1>3, <3>1 DEF ManagerInv, Indexed
  <2>3. \A k \in GlobalKeys : globals'[k] # 0 => object'[globals'[k]].alive /\ \A g \in Groups : globals'[k] \notin groups'[g]
    <3> SUFFICES ASSUME NEW k \in GlobalKeys, globals'[k] # 0
                 PROVE  object'[globals'[k]].alive /\ \A g \in Groups : globals'[k] \notin groups'[g]
      OBVIOUS
    <3>1. globals'[k] = globals[k] /\ globals'[k] \in 1..n /\ globals'[k] \notin os
      BY <1>1
    <3>2. QED
      BY <1>3, <3>1 DEF ManagerInv, Indexed
  <2>4. \A k, l \in GlobalKeys : globals'[k] # 0 /\ globals'[k] = globals'[l] => k = l
    BY DEF ManagerInv, Indexed
  <2>5. QED
    BY <2>1, <2>2, <2>3, <2>4 DEF Indexed
<1>19. Buried'
  <2>1. \A z \in DOMAIN zombies : zombies[z] \in 1..n /\ ~object[zombies[z]].alive
    BY <1>1, <1>12 DEF ManagerInv, Buried
  <2>2. \A z \in DOMAIN zombies : zombies[z] \notin os /\ object'[zombies[z]] = object[zombies[z]]
    BY <1>3, <2>1
  <2>3. \A z \in DOMAIN zombies' : ~object'[zombies'[z]].alive
    BY <1>4, <1>15, <1>16, <2>1, <2>2
  <2>4. ASSUME NEW y \in DOMAIN zombies', NEW z \in DOMAIN zombies', zombies'[y] = zombies'[z] PROVE y = z
    <3>1. CASE y \in DOMAIN zombies /\ zombies'[y] = zombies[y] /\ z \in DOMAIN zombies /\ zombies'[z] = zombies[z]
      BY <2>4, <3>1 DEF ManagerInv, Buried
    <3>2. CASE y - Len(zombies) \in DOMAIN app /\ zombies'[y] = app[y - Len(zombies)]
               /\ z - Len(zombies) \in DOMAIN app /\ zombies'[z] = app[z - Len(zombies)]
      <4>1. y - Len(zombies) = z - Len(zombies)
        BY <1>10, <2>4, <3>2
      <4>2. QED
        BY <1>14, <4>1
    <3>3. QED
      BY <1>15, <1>16, <2>2, <2>4, <3>1, <3>2
  <2>5. QED
    BY <2>3, <2>4 DEF Buried
<1>20. Counted'
  <2>1. \A o \in os : object[o].finalized = 0
    BY DEF ManagerInv, Counted
  <2>2. \A o \in 1..n : /\ object'[o].finalized <= 1 /\ (object'[o].alive => object'[o].finalized = 0)
                        /\ object'[o].deleted <= 1 /\ (~cleared' => object'[o].deleted = 0)
    <3> SUFFICES ASSUME NEW o \in 1..n
                 PROVE  /\ object'[o].finalized <= 1 /\ (object'[o].alive => object'[o].finalized = 0)
                        /\ object'[o].deleted <= 1 /\ (~cleared' => object'[o].deleted = 0)
      OBVIOUS
    <3>1. /\ object[o].finalized <= 1 /\ (object[o].alive => object[o].finalized = 0)
          /\ object[o].deleted <= 1 /\ object[o].deleted = 0
      BY <1>1 DEF ManagerInv, Counted
    <3>2. CASE o \notin os
      BY <1>3, <3>1, <3>2
    <3>3. CASE o \in os
      BY <1>4, <2>1, <3>1, <3>3
    <3>4. QED
      BY <3>2, <3>3
  <2>3. QED
    BY <1>3, <2>2 DEF Counted
<1>21. QED
  BY <1>3, <1>4, <1>1, <1>8, <1>17, <1>18, <1>19, <1>20 DEF ManagerInv

\* An object is made, and is indexed by its id, and in its group or by its key.
LEMMA MakeKeeps ==
    ASSUME ManagerInv, ~cleared, NEW i \in AllIds, NEW g \in Groups \cup {0},
           object' = Append(object, NewObject(i, g)), objects' = [objects EXCEPT ![i] = Len(object) + 1],
           groups' \in [Groups -> SUBSET DOMAIN object'],
           \A h \in Groups : groups'[h] \subseteq groups[h] \cup {Len(object) + 1}
                             /\ (Len(object) + 1 \in groups'[h] => h = g),
           globals' \in [GlobalKeys -> DOMAIN object' \cup {0}],
           \A k \in GlobalKeys : globals'[k] \in {globals[k], Len(object) + 1}
                                 /\ (globals'[k] = Len(object) + 1 => \A h \in Groups : globals'[k] \notin groups'[h]),
           \A k, l \in GlobalKeys : globals'[k] = Len(object) + 1 /\ globals'[l] = Len(object) + 1 => k = l,
           zombies' = zombies, cleared' = cleared, autoId' \in Int, autoId' <= 0
    PROVE  /\ ManagerInv' /\ object' \in Seq(ObjRec) /\ DOMAIN object' = 1..(Len(object) + 1)
           /\ \A o \in DOMAIN object : o \in DOMAIN object' /\ object'[o] = object[o]
<1> DEFINE n == Len(object)
           new == NewObject(i, g)
<1>1. n \in Nat /\ DOMAIN object = 1..n /\ n + 1 \notin 1..n /\ 0 \notin 1..n /\ n + 1 # 0
      /\ 1..n \subseteq 1..(n + 1) /\ \A o \in 1..(n + 1) : o \in 1..n \/ o = n + 1
  BY LenProperties DEF ManagerInv, ObjTyped
<1>2. NoFields \in [Fields -> FieldValues \cup {0}]
  BY DEF NoFields
<1>3. new \in ObjRec
  BY <1>2 DEF NewObject, ObjRec
<1>4. /\ new.alive /\ new.id = i /\ new.group = g /\ new.finalized = 0 /\ new.deleted = 0
  BY DEF NewObject
<1> HIDE DEF new
<1>5. /\ object' \in Seq(ObjRec) /\ DOMAIN object' = 1..(n + 1) /\ object'[n + 1] = new
      /\ \A o \in 1..n : object'[o] = object[o]
  <2>1. object \in Seq(ObjRec) /\ object' = Append(object, new)
    BY DEF ManagerInv, ObjTyped, new
  <2>2. object' \in Seq(ObjRec) /\ Len(object') = n + 1 /\ object'[n + 1] = new /\ \A o \in 1..n : object'[o] = object[o]
    BY <1>3, <2>1, AppendProperties
  <2>3. QED
    BY <2>2, LenProperties
<1>6. zombies \in Seq(1..n) /\ \A z \in DOMAIN zombies : zombies[z] \in 1..n
  BY <1>1 DEF ManagerInv, ObjTyped
<1> HIDE DEF n
<1>7. zombies \in Seq(1..(n + 1))
  BY <1>1, <1>6, SeqMonotonic
<1>8. objects \in [AllIds -> 1..n \cup {0}] /\ groups \in [Groups -> SUBSET (1..n)] /\ globals \in [GlobalKeys -> 1..n \cup {0}]
  BY <1>1 DEF ManagerInv, ObjTyped
<1>9. objects' \in [AllIds -> 1..(n + 1) \cup {0}] /\ objects'[i] = n + 1
      /\ \A j \in AllIds : j # i => objects'[j] = objects[j]
  BY <1>1, <1>8 DEF n
<1>10. ObjTyped'
  BY <1>5, <1>7, <1>9 DEF ManagerInv, ObjTyped
<1>11. Indexed'
  <2>1. \A j \in AllIds : objects'[j] # 0 => object'[objects'[j]].alive /\ object'[objects'[j]].id = j
    <3> SUFFICES ASSUME NEW j \in AllIds, objects'[j] # 0 PROVE object'[objects'[j]].alive /\ object'[objects'[j]].id = j
      OBVIOUS
    <3>1. CASE j = i
      BY <1>4, <1>5, <1>9, <3>1
    <3>2. CASE j # i
      BY <1>5, <1>8, <1>9, <3>2 DEF ManagerInv, Indexed
    <3>3. QED
      BY <3>1, <3>2
  <2>2. \A h \in Groups : \A o \in groups'[h] : object'[o].alive /\ object'[o].group = h
    <3> SUFFICES ASSUME NEW h \in Groups, NEW o \in groups'[h] PROVE object'[o].alive /\ object'[o].group = h
      OBVIOUS
    <3>1. CASE o = n + 1
      BY <1>4, <1>5, <3>1 DEF n
    <3>2. CASE o # n + 1
      <4>1. o \in groups[h] /\ o \in 1..n
        BY <1>8, <3>2 DEF n
      <4>2. object[o].alive /\ object[o].group = h
        BY <4>1 DEF ManagerInv, Indexed
      <4>3. object'[o] = object[o]
        BY <1>5, <4>1
      <4>4. QED
        BY <4>2, <4>3
    <3>3. QED
      BY <3>1, <3>2
  <2>3. \A k \in GlobalKeys : globals'[k] # 0 => object'[globals'[k]].alive /\ \A h \in Groups : globals'[k] \notin groups'[h]
    <3> SUFFICES ASSUME NEW k \in GlobalKeys, globals'[k] # 0
                 PROVE  object'[globals'[k]].alive /\ \A h \in Groups : globals'[k] \notin groups'[h]
      OBVIOUS
    <3>1. CASE globals'[k] = n + 1
      BY <1>4, <1>5, <3>1 DEF n
    <3>2. CASE globals'[k] # n + 1
      <4>1. globals'[k] = globals[k] /\ globals[k] \in 1..n
        BY <1>8, <3>2 DEF n
      <4>2. object[globals[k]].alive /\ \A h \in Groups : globals[k] \notin groups[h]
        BY <1>1, <4>1 DEF ManagerInv, Indexed
      <4>3. QED
        BY <1>5, <3>2, <4>1, <4>2 DEF n
    <3>3. QED
      BY <3>1, <3>2
  <2>4. \A k, l \in GlobalKeys : globals'[k] # 0 /\ globals'[k] = globals'[l] => k = l
    BY <1>1, <1>8 DEF ManagerInv, Indexed, n
  <2>5. QED
    BY <2>1, <2>2, <2>3, <2>4 DEF Indexed
<1>12. Buried'
  BY <1>5, <1>6 DEF ManagerInv, Buried
<1>13. Counted'
  <2>1. \A o \in 1..n : /\ object[o].finalized <= 1 /\ (object[o].alive => object[o].finalized = 0)
                        /\ object[o].deleted = 0
    BY <1>1 DEF ManagerInv, Counted
  <2>2. \A o \in 1..(n + 1) : /\ object'[o].finalized <= 1 /\ (object'[o].alive => object'[o].finalized = 0)
                              /\ object'[o].deleted <= 1 /\ object'[o].deleted = 0
    BY <1>1, <1>4, <1>5, <2>1
  <2>3. QED
    BY <1>5, <2>2 DEF Counted
<1>14. QED
  BY <1>1, <1>5, <1>10, <1>11, <1>12, <1>13 DEF ManagerInv, n

\* A field of a living object is set.
FieldSet(o, f, v) == object' = [object EXCEPT ![o].kv[f] = v]

LEMMA FieldSetRecord ==
    ASSUME NEW r \in ObjRec, NEW f \in Fields, NEW v \in FieldValues \cup {0}
    PROVE  LET d == [r EXCEPT !.kv[f] = v]
           IN  /\ d \in ObjRec /\ (d.alive <=> r.alive) /\ d.id = r.id /\ d.group = r.group
               /\ d.finalized = r.finalized /\ d.deleted = r.deleted /\ d.kv = [r.kv EXCEPT ![f] = v]
<1> DEFINE w == [r.kv EXCEPT ![f] = v]
           d == [r EXCEPT !.kv = w]
<1>1. w \in [Fields -> FieldValues \cup {0}]
  BY DEF ObjRec
<1>2. d = [r EXCEPT !.kv[f] = v]
  OBVIOUS
<1> HIDE DEF w
<1>3. d \in ObjRec
  BY <1>1 DEF ObjRec
<1>4. (d.alive <=> r.alive) /\ d.id = r.id /\ d.group = r.group /\ d.finalized = r.finalized /\ d.deleted = r.deleted
      /\ d.kv = w
  BY DEF ObjRec
<1> HIDE DEF d
<1>5. QED
  BY <1>2, <1>3, <1>4 DEF w

LEMMA FieldSetKeeps ==
    ASSUME ManagerInv, NEW o \in DOMAIN object, object[o].alive, NEW f \in Fields, NEW v \in FieldValues \cup {0}, FieldSet(o, f, v),
           UNCHANGED <<objects, groups, globals, zombies, autoId, cleared>>
    PROVE  /\ ManagerInv' /\ object' \in Seq(ObjRec) /\ DOMAIN object' = DOMAIN object
           /\ \A p \in DOMAIN object : p # o => object'[p] = object[p]
           /\ object'[o].alive /\ object'[o].kv = [object[o].kv EXCEPT ![f] = v]
<1> DEFINE n == Len(object)
           d == [object[o] EXCEPT !.kv[f] = v]
<1>1. n \in Nat /\ DOMAIN object = 1..n /\ object \in Seq(ObjRec) /\ object \in [1..n -> ObjRec]
  BY LenProperties DEF ManagerInv, ObjTyped
<1>2. object[o] \in ObjRec
  BY <1>1
<1>3. /\ d \in ObjRec /\ (d.alive <=> object[o].alive) /\ d.id = object[o].id /\ d.group = object[o].group
      /\ d.finalized = object[o].finalized /\ d.deleted = object[o].deleted /\ d.kv = [object[o].kv EXCEPT ![f] = v]
  BY <1>2, FieldSetRecord
<1>4. object' = [object EXCEPT ![o] = d]
  BY DEF FieldSet
<1> HIDE DEF d
<1>5. object' \in [1..n -> ObjRec] /\ object'[o] = d /\ \A p \in 1..n : p # o => object'[p] = object[p]
  BY <1>1, <1>3, <1>4
<1>6. object' \in Seq(ObjRec) /\ DOMAIN object' = DOMAIN object
  BY <1>1, <1>5, FunAsSeq
<1>7. \A p \in 1..n : /\ (object'[p].alive <=> object[p].alive) /\ object'[p].id = object[p].id /\ object'[p].group = object[p].group
                      /\ object'[p].finalized = object[p].finalized /\ object'[p].deleted = object[p].deleted
  BY <1>3, <1>5
<1> HIDE DEF n
<1>8. ObjTyped'
  BY <1>6 DEF ManagerInv, ObjTyped
<1>9. Indexed'
  <2>1. \A i \in AllIds : objects[i] # 0 => objects[i] \in 1..n
    BY <1>1 DEF ManagerInv, ObjTyped
  <2>2. \A g \in Groups : \A p \in groups[g] : p \in 1..n
    BY <1>1 DEF ManagerInv, ObjTyped
  <2>3. \A k \in GlobalKeys : globals[k] # 0 => globals[k] \in 1..n
    BY <1>1 DEF ManagerInv, ObjTyped
  <2>4. QED
    BY <1>7, <2>1, <2>2, <2>3 DEF ManagerInv, Indexed
<1>10. Buried'
  <2>1. \A z \in DOMAIN zombies : zombies[z] \in 1..n
    BY <1>1 DEF ManagerInv, ObjTyped
  <2>2. QED
    BY <1>7, <2>1 DEF ManagerInv, Buried
<1>11. Counted'
  <2>1. cleared => FALSE
    BY DEF ManagerInv, Counted
  <2>2. QED
    BY <1>1, <1>6, <1>7, <2>1 DEF ManagerInv, Counted
<1>12. QED
  BY <1>1, <1>3, <1>5, <1>6, <1>8, <1>9, <1>10, <1>11 DEF ManagerInv

\* The state is deleted.
LEMMA ClearKeeps ==
    ASSUME ManagerInv, Clear
    PROVE  /\ ManagerInv' /\ object' \in Seq(ObjRec)
<1> DEFINE n == Len(object)
           held == {objects[i] : i \in AllIds} \ {0}
           waits(o) == {z \in DOMAIN zombies : zombies[z] = o}
           fin(o) == IF o \in held /\ object[o].alive THEN object[o].finalized + 1 ELSE object[o].finalized
           del(o) == (IF o \in held THEN 1 ELSE 0) + Cardinality(waits(o))
<1>1. n \in Nat /\ DOMAIN object = 1..n /\ \A o \in 1..n : object[o] \in ObjRec
  BY LenProperties DEF ManagerInv, ObjTyped
<1>2. /\ ~cleared /\ cleared' = TRUE
      /\ object' = [o \in 1..n |-> [object[o] EXCEPT !.alive = FALSE, !.finalized = fin(o), !.deleted = del(o)]]
      /\ objects' = [i \in AllIds |-> 0] /\ groups' = [g \in Groups |-> {}]
      /\ globals' = [k \in GlobalKeys |-> 0] /\ zombies' = <<>> /\ autoId' = autoId
  BY <1>1 DEF Clear
<1>3. \A o \in 1..n : fin(o) \in Nat /\ fin(o) <= 1
  BY <1>1 DEF ManagerInv, Counted, ObjRec
<1>4. ASSUME NEW o \in 1..n PROVE del(o) \in Nat /\ del(o) <= 1
  <2>1. waits(o) = {} \/ \E z : waits(o) = {z}
    <3>1. CASE \E z \in DOMAIN zombies : zombies[z] = o
      <4>1. PICK z \in DOMAIN zombies : zombies[z] = o
        BY <3>1
      <4>2. \A y \in DOMAIN zombies : zombies[y] = o => y = z
        BY <4>1 DEF ManagerInv, Buried
      <4>3. waits(o) = {z}
        BY <4>1, <4>2
      <4>4. QED
        BY <4>3
    <3>2. CASE ~\E z \in DOMAIN zombies : zombies[z] = o
      BY <3>2
    <3>3. QED
      BY <3>1, <3>2
  <2>2. Cardinality(waits(o)) \in {0, 1} /\ (waits(o) = {} => Cardinality(waits(o)) = 0)
    BY <2>1, FS_EmptySet, FS_Singleton
  <2>3. o \in held => waits(o) = {}
    BY DEF ManagerInv, Indexed, Buried
  <2>4. CASE o \in held
    BY <2>2, <2>3, <2>4
  <2>5. CASE o \notin held
    BY <2>2, <2>5
  <2>6. QED
    BY <2>4, <2>5
<1> HIDE DEF fin, del, n
<1>5. ASSUME NEW o \in 1..n
      PROVE  object'[o] \in ObjRec /\ ~object'[o].alive /\ object'[o].finalized <= 1 /\ object'[o].deleted <= 1
  <2> DEFINE r == object[o]
             x == fin(o)
             y == del(o)
  <2>1. r \in ObjRec /\ x \in Nat /\ x <= 1 /\ y \in Nat /\ y <= 1
    BY <1>1, <1>3, <1>4
  <2>2. object'[o] = [r EXCEPT !.alive = FALSE, !.finalized = x, !.deleted = y]
    BY <1>2
  <2> HIDE DEF r, x, y
  <2> DEFINE d == [r EXCEPT !.alive = FALSE, !.finalized = x, !.deleted = y]
             G == Groups \cup {0}
             K == [Fields -> FieldValues \cup {0}]
  <2>3. ObjRec = [id : AllIds, group : G, alive : BOOLEAN, kv : K, finalized : Nat, deleted : Nat]
    BY DEF ObjRec
  <2> HIDE DEF G, K
  <2>4. d \in ObjRec /\ ~d.alive /\ d.finalized = x /\ d.deleted = y
    BY <2>1, <2>3
  <2>5. QED
    BY <2>1, <2>2, <2>4
<1>6. object' \in [1..n -> ObjRec]
  BY <1>2, <1>5
<1>7. object' \in Seq(ObjRec) /\ DOMAIN object' = 1..n
  BY <1>1, <1>6, FunAsSeq DEF n
<1>8. ObjTyped'
  <2>1. zombies' \in Seq(DOMAIN object') /\ cleared' \in BOOLEAN /\ autoId' \in Int /\ autoId' <= 0
    BY <1>2, EmptySeq DEF ManagerInv, ObjTyped
  <2>2. QED
    BY <1>2, <1>7, <2>1 DEF ObjTyped
<1>9. Indexed'
  BY <1>2 DEF Indexed
<1>10. Buried'
  <2>0. zombies' \in Seq({}) /\ Len(zombies') = 0
    BY <1>2, EmptySeq
  <2>1. DOMAIN zombies' = {}
    BY <2>0, LenProperties
  <2>2. QED
    BY <2>1 DEF Buried
<1>11. Counted'
  BY <1>2, <1>5, <1>7 DEF Counted
<1>12. QED
  BY <1>7, <1>8, <1>9, <1>10, <1>11 DEF ManagerInv
-----------------------------------------------------------------------------
(* Objects: the shells.                                                    *)

\* A shell keeps its snapshot, and a new one has none, while objects are made and destroyed.
LEMMA ShellsKept ==
    ASSUME ShellInv, DOMAIN object \subseteq DOMAIN object',
           \A o \in DOMAIN object : object'[o].alive => object'[o] = object[o],
           shell' = shell \/ shell' = <<>> \/ \E o \in DOMAIN object' \cap Nat : shell' = Wrapped(o)
    PROVE  ShellInv'
<1>1. \A s \in DOMAIN shell : shell[s].obj \in DOMAIN object' /\ Snapped(shell[s], object'[shell[s].obj])
  <2> SUFFICES ASSUME NEW s \in DOMAIN shell
               PROVE  shell[s].obj \in DOMAIN object' /\ Snapped(shell[s], object'[shell[s].obj])
    OBVIOUS
  <2>1. shell[s].obj \in DOMAIN object /\ Snapped(shell[s], object[shell[s].obj])
    BY DEF ShellInv
  <2>2. QED
    BY <2>1 DEF Snapped
<1>2. CASE shell' = shell
  BY <1>1, <1>2 DEF ShellInv
<1>3. CASE shell' = <<>>
  BY <1>3, EmptySeq DEF ShellInv
<1>4. ASSUME NEW o \in DOMAIN object' \cap Nat, shell' = Wrapped(o), shell' # shell PROVE ShellInv'
  <2> DEFINE n == Len(shell)
             new == Wrap(o)
  <2>1. n \in Nat /\ DOMAIN shell = 1..n /\ shell \in Seq(ShellRec)
    BY LenProperties DEF ShellInv
  <2>2. shell' = Append(shell, new)
    BY <1>4 DEF Wrapped
  <2>3. new \in ShellRec /\ new.obj = o /\ ~new.ready
    BY <1>4, EmptySeq DEF Wrap, ShellRec
  <2> HIDE DEF new
  <2>4. shell' \in Seq(ShellRec) /\ Len(shell') = n + 1 /\ shell'[n + 1] = new /\ \A s \in 1..n : shell'[s] = shell[s]
    <3>1. shell \in Seq(ShellRec) /\ new \in ShellRec
      BY <2>1, <2>3
    <3>2. /\ Append(shell, new) \in Seq(ShellRec) /\ Len(Append(shell, new)) = Len(shell) + 1
          /\ \A s \in 1..Len(shell) : Append(shell, new)[s] = shell[s]
          /\ Append(shell, new)[Len(shell) + 1] = new
      BY <3>1, AppendProperties
    <3>3. QED
      BY <2>2, <3>2
  <2>5. DOMAIN shell' = 1..(n + 1)
    BY <2>4, LenProperties
  <2> HIDE DEF n
  <2>6. \A s \in 1..(n + 1) : s \in 1..n \/ s = n + 1
    BY <2>1
  <2>7. \A s \in 1..n : shell'[s].obj \in DOMAIN object' /\ Snapped(shell'[s], object'[shell'[s].obj])
    <3> SUFFICES ASSUME NEW s \in 1..n PROVE shell'[s].obj \in DOMAIN object' /\ Snapped(shell'[s], object'[shell'[s].obj])
      OBVIOUS
    <3>1. shell'[s] = shell[s] /\ shell[s].obj \in DOMAIN object' /\ Snapped(shell[s], object'[shell[s].obj])
      BY <1>1, <2>1, <2>4
    <3>2. QED
      BY <3>1
  <2>8. shell'[n + 1].obj \in DOMAIN object' /\ Snapped(shell'[n + 1], object'[shell'[n + 1].obj])
    BY <1>4, <2>3, <2>4 DEF Snapped
  <2>9. QED
    BY <2>4, <2>5, <2>6, <2>7, <2>8 DEF ShellInv
<1>5. QED
  BY <1>2, <1>3, <1>4

LEMMA FindInSnap ==
    ASSUME NEW snap \in Seq(Entry), NEW f \in Fields
    PROVE  /\ FindSpecKeyIndex(snap, f) \in DOMAIN snap \cup {0}
           /\ FindSpecKeyIndex(snap, f) = 0 => \A i \in DOMAIN snap : snap[i].key # f
           /\ FindSpecKeyIndex(snap, f) # 0 => snap[FindSpecKeyIndex(snap, f)].key = f
<1> DEFINE I == {i \in 1..Len(snap) : snap[i].key = f}
<1>1. DOMAIN snap = 1..Len(snap) /\ Len(snap) \in Nat
  BY LenProperties
<1>2. FindSpecKeyIndex(snap, f) = IF I # {} THEN Min(I) ELSE 0
  BY DEF FindSpecKeyIndex, SelectInSeq
<1>3. I # {} => Min(I) \in I
  <2> SUFFICES ASSUME I # {} PROVE Min(I) \in I
    OBVIOUS
  <2>1. I \in SUBSET Nat /\ \A i \in I : i \in Nat
    BY <1>1
  <2> HIDE DEF I
  <2>2. PICK m \in I : \A n \in I : ~(n < m)
    BY <2>1, LeastExists
  <2>3. \A n \in I : m <= n
    BY <2>1, <2>2
  <2>4. QED
    BY <2>3 DEF Min
<1>4. QED
  BY <1>1, <1>2, <1>3

LEMMA SnapUpdated ==
    ASSUME NEW snap \in Seq(Entry), Keyed(snap), NEW i \in DOMAIN snap, NEW v \in FieldValues, v # 0
    PROVE  LET t == [snap EXCEPT ![i].val = v]
           IN  /\ t \in Seq(Entry) /\ Keyed(t) /\ Len(t) = Len(snap)
               /\ \A kv \in [Fields -> FieldValues \cup {0}] : Shows(snap, kv) => Shows(t, [kv EXCEPT ![snap[i].key] = v])
<1> DEFINE n == Len(snap)
           e == [snap[i] EXCEPT !.val = v]
           t == [snap EXCEPT ![i] = e]
<1>1. n \in Nat /\ DOMAIN snap = 1..n /\ \A j \in 1..n : snap[j] \in Entry
  BY LenProperties
<1>2. e \in Entry /\ e.key = snap[i].key /\ e.val = v
  BY <1>1 DEF Entry
<1>3. t = [snap EXCEPT ![i].val = v]
  OBVIOUS
<1> HIDE DEF e
<1>4. t \in Seq(Entry) /\ Len(t) = n /\ \A j \in 1..n : t[j] = IF j = i THEN e ELSE snap[j]
  BY <1>1, <1>2, ExceptSeq
<1>5. DOMAIN t = 1..n
  BY <1>4, LenProperties
<1> HIDE DEF t, n
<1>6. \A j \in 1..n : t[j].key = snap[j].key /\ (j # i => t[j] = snap[j]) /\ t[i] = e
  BY <1>1, <1>2, <1>4
<1>7. Keyed(t)
  BY <1>1, <1>5, <1>6 DEF Keyed
<1>8. ASSUME NEW kv \in [Fields -> FieldValues \cup {0}], Shows(snap, kv)
      PROVE  Shows(t, [kv EXCEPT ![snap[i].key] = v])
  <2> DEFINE kw == [kv EXCEPT ![snap[i].key] = v]
  <2>1. snap[i].key \in Fields /\ \A j \in 1..n : snap[j].key \in Fields
    BY <1>1 DEF Entry
  <2>2. kw[snap[i].key] = v /\ \A f \in Fields : f # snap[i].key => kw[f] = kv[f]
    BY <2>1
  <2> HIDE DEF kw
  <2>3. \A f \in Fields : kw[f] # 0 => \E j \in DOMAIN t : t[j].key = f
    BY <1>1, <1>5, <1>6, <1>8, <2>2 DEF Shows
  <2>4. \A j \in DOMAIN t : kw[t[j].key] # 0 /\ t[j].val = kw[t[j].key]
    <3> SUFFICES ASSUME NEW j \in 1..n PROVE kw[t[j].key] # 0 /\ t[j].val = kw[t[j].key]
      BY <1>5
    <3>1. CASE j = i
      BY <1>2, <1>6, <2>2, <3>1
    <3>2. CASE j # i
      <4>1. snap[j].key # snap[i].key
        BY <1>1, <3>2 DEF Keyed
      <4>2. kw[snap[j].key] = kv[snap[j].key]
        BY <2>1, <2>2, <4>1
      <4>3. kv[snap[j].key] # 0 /\ snap[j].val = kv[snap[j].key]
        BY <1>1, <1>8 DEF Shows
      <4>4. QED
        BY <1>6, <3>2, <4>2, <4>3
    <3>3. QED
      BY <3>1, <3>2
  <2>5. QED
    BY <2>3, <2>4 DEF Shows, kw
<1>9. QED
  BY <1>3, <1>4, <1>7, <1>8 DEF n

LEMMA SnapAppended ==
    ASSUME NEW snap \in Seq(Entry), Keyed(snap), NEW f \in Fields, \A i \in DOMAIN snap : snap[i].key # f,
           NEW v \in FieldValues, v # 0
    PROVE  LET t == Append(snap, [key |-> f, val |-> v])
           IN  /\ t \in Seq(Entry) /\ Keyed(t) /\ Len(t) = Len(snap) + 1
               /\ \A kv \in [Fields -> FieldValues \cup {0}] : Shows(snap, kv) => Shows(t, [kv EXCEPT ![f] = v])
<1> DEFINE n == Len(snap)
           e == [key |-> f, val |-> v]
           t == Append(snap, e)
<1>1. n \in Nat /\ DOMAIN snap = 1..n /\ \A j \in 1..n : snap[j] \in Entry
  BY LenProperties
<1>2. e \in Entry /\ e.key = f /\ e.val = v
  BY DEF Entry
<1> HIDE DEF e
<1>3. t \in Seq(Entry) /\ Len(t) = n + 1 /\ t[n + 1] = e /\ \A j \in 1..n : t[j] = snap[j]
  BY <1>2, AppendProperties
<1>4. DOMAIN t = 1..(n + 1)
  BY <1>3, LenProperties
<1> HIDE DEF t, n
<1>5. n + 1 \in 1..(n + 1) /\ n + 1 \notin 1..n /\ \A j \in 1..(n + 1) : j \in 1..n \/ j = n + 1
  BY <1>1
<1>6. \A j \in 1..n : j \in 1..(n + 1)
  BY <1>1
<1>7. Keyed(t)
  BY <1>1, <1>2, <1>3, <1>4, <1>5 DEF Keyed
<1>8. ASSUME NEW kv \in [Fields -> FieldValues \cup {0}], Shows(snap, kv)
      PROVE  Shows(t, [kv EXCEPT ![f] = v])
  <2> DEFINE kw == [kv EXCEPT ![f] = v]
  <2>1. \A j \in 1..n : snap[j].key \in Fields
    BY <1>1 DEF Entry
  <2>2. kw[f] = v /\ \A g \in Fields : g # f => kw[g] = kv[g]
    OBVIOUS
  <2> HIDE DEF kw
  <2>3. \A g \in Fields : kw[g] # 0 => \E j \in DOMAIN t : t[j].key = g
    <3> SUFFICES ASSUME NEW g \in Fields, kw[g] # 0 PROVE \E j \in DOMAIN t : t[j].key = g
      OBVIOUS
    <3>1. CASE g = f
      BY <1>2, <1>3, <1>4, <1>5, <3>1
    <3>2. CASE g # f
      BY <1>1, <1>3, <1>4, <1>6, <1>8, <2>2, <3>2 DEF Shows
    <3>3. QED
      BY <3>1, <3>2
  <2>4. \A j \in DOMAIN t : kw[t[j].key] # 0 /\ t[j].val = kw[t[j].key]
    BY <1>1, <1>2, <1>3, <1>4, <1>5, <1>8, <2>1, <2>2 DEF Shows
  <2>5. QED
    BY <2>3, <2>4 DEF Shows, kw
<1>9. QED
  BY <1>3, <1>7, <1>8 DEF n, t, e

LEMMA SnapRemoved ==
    ASSUME NEW snap \in Seq(Entry), Keyed(snap), NEW i \in DOMAIN snap
    PROVE  LET t == Front([snap EXCEPT ![i] = Last(snap)])
           IN  /\ t \in Seq(Entry) /\ Keyed(t) /\ Len(t) <= Len(snap)
               /\ \A kv \in [Fields -> FieldValues \cup {0}] : Shows(snap, kv) => Shows(t, [kv EXCEPT ![snap[i].key] = 0])
<1> DEFINE n == Len(snap)
           w == [snap EXCEPT ![i] = Last(snap)]
           t == Front(w)
<1>1. n \in Nat /\ DOMAIN snap = 1..n /\ (\A j \in 1..n : snap[j] \in Entry) /\ i \in 1..n /\ n \in 1..n /\ n - 1 \in Nat
      /\ Last(snap) = snap[n]
  BY LenProperties DEF Last
<1>2. w \in Seq(Entry) /\ Len(w) = n /\ \A j \in 1..n : w[j] = IF j = i THEN snap[n] ELSE snap[j]
  BY <1>1, ExceptSeq
<1>3. t = SubSeq(w, 1, n - 1)
  BY <1>2 DEF Front
<1> HIDE DEF w, t, n
<1>4. \A j \in 1..(n - 1) : j \in 1..n /\ j # n /\ w[j] \in Entry
  BY <1>1, <1>2
<1>5. t \in Seq(Entry) /\ Len(t) = n - 1 /\ \A j \in 1..(n - 1) : t[j] = w[j]
  <2>1. /\ SubSeq(w, 1, n - 1) \in Seq(Entry)
        /\ Len(SubSeq(w, 1, n - 1)) = IF 1 <= n - 1 THEN n - 1 - 1 + 1 ELSE 0
        /\ \A j \in 1..(n - 1 - 1 + 1) : SubSeq(w, 1, n - 1)[j] = w[1 + j - 1]
    BY <1>1, <1>4, SubSeqProperties
  <2>2. QED
    BY <1>1, <1>3, <2>1
<1>6. DOMAIN t = 1..(n - 1)
  BY <1>5, LenProperties
<1>7. \A j \in 1..(n - 1) : t[j] = IF j = i THEN snap[n] ELSE snap[j]
  BY <1>2, <1>4, <1>5
<1>8. Keyed(t)
  BY <1>1, <1>4, <1>6, <1>7 DEF Keyed
<1>9. ASSUME NEW kv \in [Fields -> FieldValues \cup {0}], Shows(snap, kv)
      PROVE  Shows(t, [kv EXCEPT ![snap[i].key] = 0])
  <2> DEFINE kw == [kv EXCEPT ![snap[i].key] = 0]
  <2>1. snap[i].key \in Fields /\ \A j \in 1..n : snap[j].key \in Fields
    BY <1>1 DEF Entry
  <2>2. kw[snap[i].key] = 0 /\ \A g \in Fields : g # snap[i].key => kw[g] = kv[g]
    BY <2>1
  <2> HIDE DEF kw
  <2>3. \A g \in Fields : kw[g] # 0 => \E j \in DOMAIN t : t[j].key = g
    <3> SUFFICES ASSUME NEW g \in Fields, kw[g] # 0 PROVE \E j \in 1..(n - 1) : t[j].key = g
      BY <1>6
    <3>1. kv[g] # 0 /\ g # snap[i].key
      BY <2>2
    <3>2. PICK j \in 1..n : snap[j].key = g
      BY <1>1, <1>9, <3>1 DEF Shows
    <3>3. j # i
      BY <3>1, <3>2
    <3>4. CASE j = n
      <4>1. i \in 1..(n - 1)
        BY <1>1, <3>3, <3>4
      <4>2. QED
        BY <1>7, <3>2, <3>4, <4>1
    <3>5. CASE j # n
      <4>1. j \in 1..(n - 1)
        BY <1>1, <3>5
      <4>2. QED
        BY <1>7, <3>2, <3>3, <4>1
    <3>6. QED
      BY <3>4, <3>5
  <2>4. \A j \in DOMAIN t : kw[t[j].key] # 0 /\ t[j].val = kw[t[j].key]
    <3> SUFFICES ASSUME NEW j \in 1..(n - 1) PROVE kw[t[j].key] # 0 /\ t[j].val = kw[t[j].key]
      BY <1>6
    <3>1. PICK m \in 1..n : m # i /\ t[j] = snap[m]
      BY <1>1, <1>4, <1>7
    <3>2. snap[m].key # snap[i].key
      BY <1>1, <3>1 DEF Keyed
    <3>3. kv[snap[m].key] # 0 /\ snap[m].val = kv[snap[m].key]
      BY <1>1, <1>9 DEF Shows
    <3>4. QED
      BY <2>1, <2>2, <3>1, <3>2, <3>3
  <2>5. QED
    BY <2>3, <2>4 DEF Shows, kw
<1>10. Len(t) <= n
  BY <1>1, <1>5
<1>11. QED
  BY <1>5, <1>8, <1>9, <1>10 DEF n, t, w

LEMMA ShellRecord ==
    ASSUME NEW sh \in ShellRec, NEW t \in Seq(Entry), NEW c \in Nat
    PROVE  /\ [sh EXCEPT !.snap = t, !.cap = c] \in ShellRec
           /\ [sh EXCEPT !.snap = t] = [sh EXCEPT !.snap = t, !.cap = sh.cap]
<1> DEFINE S == Seq(Entry)
<1>1. ShellRec = [obj : Nat, ready : BOOLEAN, snap : S, cap : Nat, stale : BOOLEAN] /\ t \in S
  BY DEF ShellRec
<1> HIDE DEF S
<1>2. QED
  BY <1>1

\* The snapshot that a shell keeps up to date.
LEMMA SnapSetKeeps ==
    ASSUME NEW sh \in ShellRec, Keyed(sh.snap), Len(sh.snap) <= sh.cap, NEW f \in Fields, NEW v \in FieldValues \cup {0}
    PROVE  /\ SnapSet(sh, f, v) \in ShellRec /\ SnapSet(sh, f, v).obj = sh.obj
           /\ (SnapSet(sh, f, v).ready <=> sh.ready) /\ (SnapSet(sh, f, v).stale <=> sh.stale)
           /\ Keyed(SnapSet(sh, f, v).snap) /\ Len(SnapSet(sh, f, v).snap) <= SnapSet(sh, f, v).cap
           /\ \A kv \in [Fields -> FieldValues \cup {0}] :
                 Shows(sh.snap, kv) => Shows(SnapSet(sh, f, v).snap, [kv EXCEPT ![f] = v])
<1> DEFINE sn == sh.snap
           i == FindSpecKeyIndex(sn, f)
           Good(t, c) == /\ t \in Seq(Entry) /\ c \in Nat /\ Keyed(t) /\ Len(t) <= c
                         /\ SnapSet(sh, f, v) = [sh EXCEPT !.snap = t, !.cap = c]
                         /\ \A kv \in [Fields -> FieldValues \cup {0}] : Shows(sn, kv) => Shows(t, [kv EXCEPT ![f] = v])
<1>1. sn \in Seq(Entry) /\ sh.cap \in Nat
  BY DEF ShellRec
<1>2. Len(sn) \in Nat /\ DOMAIN sn = 1..Len(sn)
  BY <1>1, LenProperties
<1>3. /\ i \in DOMAIN sn \cup {0}
      /\ i = 0 => \A j \in DOMAIN sn : sn[j].key # f
      /\ i # 0 => sn[i].key = f
  BY <1>1, FindInSnap
<1>4. sh = [sh EXCEPT !.snap = sn, !.cap = sh.cap]
  BY DEF ShellRec
<1>5. SnapSet(sh, f, v) =
        IF v = 0 THEN IF i = 0 THEN sh ELSE [sh EXCEPT !.snap = Front([sn EXCEPT ![i] = Last(sn)])]
        ELSE IF i # 0 THEN [sh EXCEPT !.snap = [sn EXCEPT ![i].val = v]]
        ELSE [sh EXCEPT !.snap = Append(sn, [key |-> f, val |-> v]), !.cap = EnsureSpecCapacity(sh.cap, Len(sn) + 1)]
  BY DEF SnapSet
<1>6. \E t, c : Good(t, c)
  <2>1. CASE v = 0 /\ i = 0
    <3>1. SnapSet(sh, f, v) = [sh EXCEPT !.snap = sn, !.cap = sh.cap]
      BY <1>4, <1>5, <2>1
    <3> HIDE DEF i, sn
    <3>2. ASSUME NEW kv \in [Fields -> FieldValues \cup {0}], Shows(sn, kv) PROVE Shows(sn, [kv EXCEPT ![f] = v])
      <4>1. kv[f] = 0
        BY <1>3, <2>1, <3>2 DEF Shows
      <4>2. [kv EXCEPT ![f] = v] = kv
        BY <2>1, <4>1
      <4>3. QED
        BY <3>2, <4>2
    <3>3. Keyed(sn) /\ Len(sn) <= sh.cap
      BY DEF sn
    <3>4. Good(sn, sh.cap)
      BY <1>1, <3>1, <3>2, <3>3
    <3>5. QED
      BY <3>4
  <2>2. CASE v = 0 /\ i # 0
    <3> DEFINE t == Front([sn EXCEPT ![i] = Last(sn)])
    <3>1. i \in DOMAIN sn /\ sn[i].key = f
      BY <1>3, <2>2
    <3>2. SnapSet(sh, f, v) = [sh EXCEPT !.snap = t]
      BY <1>5, <2>2
    <3>3. Keyed(sn) /\ Len(sn) <= sh.cap
      OBVIOUS
    <3> HIDE DEF i, sn
    <3>4. /\ t \in Seq(Entry) /\ Keyed(t) /\ Len(t) <= Len(sn)
          /\ \A kv \in [Fields -> FieldValues \cup {0}] : Shows(sn, kv) => Shows(t, [kv EXCEPT ![f] = v])
      BY <1>1, <2>2, <3>1, <3>3, SnapRemoved
    <3> HIDE DEF t
    <3>5. SnapSet(sh, f, v) = [sh EXCEPT !.snap = t, !.cap = sh.cap]
      BY <1>1, <3>2, <3>4, ShellRecord
    <3>6. Len(t) <= sh.cap
      BY <1>1, <1>2, <3>3, <3>4, LenProperties
    <3>7. Good(t, sh.cap)
      BY <1>1, <3>4, <3>5, <3>6
    <3>8. QED
      BY <3>7
  <2>3. CASE v # 0 /\ i # 0
    <3> DEFINE t == [sn EXCEPT ![i].val = v]
    <3>1. i \in DOMAIN sn /\ sn[i].key = f /\ v \in FieldValues
      BY <1>3, <2>3
    <3>2. SnapSet(sh, f, v) = [sh EXCEPT !.snap = t]
      BY <1>5, <2>3
    <3>3. Keyed(sn) /\ Len(sn) <= sh.cap
      OBVIOUS
    <3> HIDE DEF i, sn
    <3>4. /\ t \in Seq(Entry) /\ Keyed(t) /\ Len(t) = Len(sn)
          /\ \A kv \in [Fields -> FieldValues \cup {0}] : Shows(sn, kv) => Shows(t, [kv EXCEPT ![f] = v])
      BY <1>1, <2>3, <3>1, <3>3, SnapUpdated
    <3> HIDE DEF t
    <3>5. SnapSet(sh, f, v) = [sh EXCEPT !.snap = t, !.cap = sh.cap]
      BY <1>1, <3>2, <3>4, ShellRecord
    <3>6. Good(t, sh.cap)
      BY <1>1, <3>3, <3>4, <3>5
    <3>7. QED
      BY <3>6
  <2>4. CASE v # 0 /\ i = 0
    <3> DEFINE t == Append(sn, [key |-> f, val |-> v])
               c == EnsureSpecCapacity(sh.cap, Len(sn) + 1)
    <3>1. v \in FieldValues /\ \A j \in DOMAIN sn : sn[j].key # f
      BY <1>3, <2>4
    <3>2. SnapSet(sh, f, v) = [sh EXCEPT !.snap = t, !.cap = c]
      BY <1>5, <2>4
    <3>3. Keyed(sn)
      OBVIOUS
    <3> HIDE DEF i, sn
    <3>4. /\ t \in Seq(Entry) /\ Keyed(t) /\ Len(t) = Len(sn) + 1
          /\ \A kv \in [Fields -> FieldValues \cup {0}] : Shows(sn, kv) => Shows(t, [kv EXCEPT ![f] = v])
      BY <1>1, <2>4, <3>1, <3>3, SnapAppended
    <3>5. c \in Nat /\ c >= Len(sn) + 1
      <4>1. Len(sn) + 1 \in Nat
        BY <1>2
      <4>2. QED
        BY <1>1, <4>1, CapacityEnough
    <3> HIDE DEF t, c
    <3>6. Len(t) <= c
      BY <1>2, <3>4, <3>5
    <3>7. Good(t, c)
      BY <3>2, <3>4, <3>5, <3>6
    <3>8. QED
      BY <3>7
  <2>5. QED
    BY <2>1, <2>2, <2>3, <2>4
<1>7. PICK t, c : Good(t, c)
  BY <1>6
<1>8. t \in Seq(Entry) /\ c \in Nat /\ SnapSet(sh, f, v) = [sh EXCEPT !.snap = t, !.cap = c]
  BY <1>7
<1> DEFINE r == SnapSet(sh, f, v)
<1>9. r \in ShellRec /\ r.obj = sh.obj /\ (r.ready <=> sh.ready) /\ (r.stale <=> sh.stale) /\ r.snap = t /\ r.cap = c
  <2> DEFINE q == [sh EXCEPT !.snap = t, !.cap = c]
  <2> HIDE DEF Good, i, sn, r
  <2>1. q \in ShellRec /\ q.obj = sh.obj /\ (q.ready <=> sh.ready) /\ (q.stale <=> sh.stale) /\ q.snap = t /\ q.cap = c
    <3> DEFINE S == Seq(Entry)
    <3>1. ShellRec = [obj : Nat, ready : BOOLEAN, snap : S, cap : Nat, stale : BOOLEAN] /\ t \in S /\ c \in Nat
      BY <1>8 DEF ShellRec
    <3> HIDE DEF S
    <3>2. q \in ShellRec
      BY <3>1
    <3>3. q.obj = sh.obj /\ q.snap = t /\ q.cap = c
      BY <3>1
    <3>4. (q.ready <=> sh.ready) /\ (q.stale <=> sh.stale)
      BY <3>1
    <3>5. QED
      BY <3>2, <3>3, <3>4
  <2>2. r = q
    BY <1>8 DEF r
  <2> HIDE DEF q
  <2>3. QED
    BY <2>1, <2>2
<1> HIDE DEF r
<1>10. QED
  BY <1>7, <1>9 DEF r

\* The snapshot that the first walk makes.
LEMMA SnapMade ==
    ASSUME IsFiniteSet(Fields), NEW kv \in [Fields -> FieldValues \cup {0}], NEW fs \in SetToSeqs({f \in Fields : kv[f] # 0})
    PROVE  LET t == [i \in DOMAIN fs |-> [key |-> fs[i], val |-> kv[fs[i]]]]
           IN  t \in Seq(Entry) /\ Len(t) = Len(fs) /\ Len(fs) \in Nat /\ Keyed(t) /\ Shows(t, kv)
<1> DEFINE S == {f \in Fields : kv[f] # 0}
           n == Cardinality(S)
           t == [i \in DOMAIN fs |-> [key |-> fs[i], val |-> kv[fs[i]]]]
<1>1. IsFiniteSet(S) /\ n \in Nat
  BY FS_Subset, FS_CardinalityType
<1>2. fs \in [1..n -> S] /\ \A i, j \in 1..n : fs[i] = fs[j] => i = j
  BY DEF SetToSeqs
<1>3. IsFiniteSet(1..n) /\ Cardinality(1..n) = n
  BY <1>1, FS_Interval
<1>4. fs \in Injection(1..n, S)
  BY <1>2, Fun_IsInj
<1>5. fs \in Surjection(1..n, S)
  BY <1>1, <1>3, <1>4, FS_Injection
<1>6. \A f \in S : \E i \in 1..n : fs[i] = f
  <2> HIDE DEF S, n
  <2>1. QED
    BY <1>5 DEF Surjection
<1>7. \A i \in 1..n : fs[i] \in Fields /\ kv[fs[i]] # 0 /\ kv[fs[i]] \in FieldValues \cup {0}
  BY <1>2
<1> HIDE DEF n
<1>8. \A i \in 1..n : t[i].key = fs[i] /\ t[i].val = kv[fs[i]] /\ t[i] \in Entry
  BY <1>2, <1>7 DEF Entry
<1>9. DOMAIN t = 1..n /\ t \in [1..n -> Entry]
  BY <1>2, <1>8
<1>10. Len(fs) = n
  BY <1>1, <1>2, FunAsSeq
<1>11. \A f \in Fields : kv[f] # 0 => \E i \in 1..n : fs[i] = f
  BY <1>6
<1> HIDE DEF t, S
<1>12. t \in Seq(Entry) /\ Len(t) = n
  BY <1>1, <1>9, FunAsSeq
<1>13. Keyed(t)
  BY <1>2, <1>8, <1>9 DEF Keyed
<1>14. Shows(t, kv)
  BY <1>7, <1>8, <1>9, <1>11 DEF Shows
<1>15. QED
  BY <1>1, <1>10, <1>12, <1>13, <1>14 DEF t

LEMMA StaleRecord ==
    ASSUME NEW sh \in ShellRec, NEW b \in BOOLEAN
    PROVE  /\ [sh EXCEPT !.stale = b] \in ShellRec /\ [sh EXCEPT !.stale = b].obj = sh.obj
           /\ ([sh EXCEPT !.stale = b].ready <=> sh.ready) /\ ([sh EXCEPT !.stale = b].stale <=> b)
           /\ [sh EXCEPT !.stale = b].snap = sh.snap /\ [sh EXCEPT !.stale = b].cap = sh.cap
<1> DEFINE S == Seq(Entry)
<1>1. ShellRec = [obj : Nat, ready : BOOLEAN, snap : S, cap : Nat, stale : BOOLEAN]
  BY DEF ShellRec
<1> HIDE DEF S
<1>2. QED
  BY <1>1

\* Another way to write marks the shells that have a snapshot of the object.
LEMMA StaleKeeps ==
    ASSUME NEW sh \in ShellRec, sh.obj \in DOMAIN object, Snapped(sh, object[sh.obj]), NEW o,
           DOMAIN object' = DOMAIN object, \A p \in DOMAIN object : p # o => object'[p] = object[p],
           NEW b \in BOOLEAN, b <=> sh.stale \/ (sh.ready /\ sh.obj = o)
    PROVE  /\ [sh EXCEPT !.stale = b] \in ShellRec /\ [sh EXCEPT !.stale = b].obj \in DOMAIN object'
           /\ Snapped([sh EXCEPT !.stale = b], object'[[sh EXCEPT !.stale = b].obj])
<1> DEFINE r == [sh EXCEPT !.stale = b]
<1>1. /\ r \in ShellRec /\ r.obj = sh.obj /\ (r.ready <=> sh.ready) /\ (r.stale <=> b) /\ r.snap = sh.snap /\ r.cap = sh.cap
  BY StaleRecord
<1> HIDE DEF r
<1>2. Snapped(r, object'[r.obj])
  <2>1. CASE sh.obj = o
    BY <1>1, <2>1 DEF Snapped
  <2>2. CASE sh.obj # o
    <3>1. object'[r.obj] = object[sh.obj]
      BY <1>1, <2>2
    <3>2. r.stale => sh.stale \/ ~sh.ready
      BY <1>1, <2>2
    <3>3. sh.stale => r.stale
      BY <1>1
    <3>4. QED
      BY <1>1, <3>1, <3>3 DEF Snapped
  <2>3. QED
    BY <2>1, <2>2
<1>3. QED
  BY <1>1, <1>2 DEF r

LEMMA ShellsMapped ==
    ASSUME ShellInv, shell' = [t \in DOMAIN shell |-> shell'[t]],
           \A t \in DOMAIN shell : shell'[t] \in ShellRec /\ shell'[t].obj \in DOMAIN object'
                                   /\ Snapped(shell'[t], object'[shell'[t].obj])
    PROVE  ShellInv'
<1>1. Len(shell) \in Nat /\ DOMAIN shell = 1..Len(shell)
  BY LenProperties DEF ShellInv
<1>2. shell' \in [1..Len(shell) -> ShellRec]
  BY <1>1
<1>3. shell' \in Seq(ShellRec) /\ DOMAIN shell' = DOMAIN shell
  BY <1>1, <1>2, FunAsSeq
<1>4. QED
  BY <1>3 DEF ShellInv

LEMMA StepNativeSpecSet ==
    ASSUME ObjInv, NEW s, NEW f \in Fields, NEW v \in FieldValues \cup {0}, NativeSpecSet(s, f, v)
    PROVE  ObjInv'
<1> DEFINE o == shell[s].obj
           m(t) == shell[t].stale \/ (shell[t].ready /\ shell[t].obj = o)
<1>1. s \in DOMAIN shell /\ o \in DOMAIN object /\ object[o].alive /\ FieldSet(o, f, v)
      /\ UNCHANGED <<objects, groups, globals, zombies, autoId, cleared>>
  BY DEF NativeSpecSet, FieldSet, ObjInv, ShellInv
<1>2. shell' = [t \in DOMAIN shell |-> IF t = s THEN IF shell[s].ready THEN SnapSet(shell[s], f, v) ELSE shell[s]
                                       ELSE [shell[t] EXCEPT !.stale = m(t)]]
  BY DEF NativeSpecSet
<1>3. \A t \in DOMAIN shell : /\ shell[t] \in ShellRec /\ shell[t].obj \in DOMAIN object /\ Snapped(shell[t], object[shell[t].obj])
                              /\ shell[t].stale \in BOOLEAN /\ shell[t].ready \in BOOLEAN
  <2>1. \A t \in DOMAIN shell : shell[t] \in ShellRec /\ shell[t].obj \in DOMAIN object /\ Snapped(shell[t], object[shell[t].obj])
    BY DEF ObjInv, ShellInv
  <2>2. QED
    BY <2>1 DEF ShellRec
<1> HIDE DEF o
<1>4. /\ ManagerInv' /\ object' \in Seq(ObjRec) /\ DOMAIN object' = DOMAIN object
      /\ \A p \in DOMAIN object : p # o => object'[p] = object[p]
      /\ object'[o].alive /\ object'[o].kv = [object[o].kv EXCEPT ![f] = v]
  BY <1>1, FieldSetKeeps DEF ObjInv
<1>5. ASSUME NEW t \in DOMAIN shell
      PROVE  shell'[t] \in ShellRec /\ shell'[t].obj \in DOMAIN object' /\ Snapped(shell'[t], object'[shell'[t].obj])
  <2>1. CASE t # s
    <3>1. m(t) \in BOOLEAN /\ shell'[t] = [shell[t] EXCEPT !.stale = m(t)]
      BY <1>2, <1>3, <2>1
    <3> DEFINE b == m(t)
    <3>2. b \in BOOLEAN /\ (b <=> shell[t].stale \/ (shell[t].ready /\ shell[t].obj = o))
      BY <3>1
    <3>3. shell'[t] = [shell[t] EXCEPT !.stale = b]
      BY <3>1
    <3> HIDE DEF b, m
    <3> DEFINE sh == shell[t]
    <3>4. sh \in ShellRec /\ sh.obj \in DOMAIN object /\ Snapped(sh, object[sh.obj])
          /\ (b <=> sh.stale \/ (sh.ready /\ sh.obj = o))
      BY <1>3, <3>2
    <3> HIDE DEF sh
    <3>5. /\ [sh EXCEPT !.stale = b] \in ShellRec /\ [sh EXCEPT !.stale = b].obj \in DOMAIN object'
          /\ Snapped([sh EXCEPT !.stale = b], object'[[sh EXCEPT !.stale = b].obj])
      BY <1>4, <3>2, <3>4, StaleKeeps
    <3>6. QED
      BY <3>3, <3>5 DEF sh
  <2>2. CASE t = s /\ ~shell[s].ready
    <3>1. shell'[t] = shell[s]
      BY <1>1, <1>2, <2>2
    <3>2. QED
      BY <1>1, <1>3, <1>4, <2>2, <3>1 DEF Snapped
  <2>3. CASE t = s /\ shell[s].ready
    <3> DEFINE sh == shell[s]
               r == SnapSet(sh, f, v)
    <3>1. shell'[t] = r /\ sh \in ShellRec /\ sh.obj = o /\ Snapped(sh, object[o]) /\ sh.ready
      BY <1>1, <1>2, <1>3, <2>3 DEF o
    <3> HIDE DEF sh
    <3>2. Keyed(sh.snap) /\ Len(sh.snap) <= sh.cap
      BY <3>1 DEF Snapped
    <3>3. /\ r \in ShellRec /\ r.obj = sh.obj
          /\ (r.ready <=> sh.ready) /\ (r.stale <=> sh.stale) /\ Keyed(r.snap) /\ Len(r.snap) <= r.cap
          /\ \A kv \in [Fields -> FieldValues \cup {0}] : Shows(sh.snap, kv) => Shows(r.snap, [kv EXCEPT ![f] = v])
      BY <3>1, <3>2, SnapSetKeeps
    <3> HIDE DEF r
    <3>4. object[o].kv \in [Fields -> FieldValues \cup {0}]
      <4>1. object[o] \in ObjRec
        BY <1>1 DEF ObjInv, ManagerInv, ObjTyped
      <4>2. QED
        BY <4>1 DEF ObjRec
    <3>5. ~r.stale => Shows(r.snap, object'[o].kv)
      BY <1>1, <1>4, <3>1, <3>3, <3>4 DEF Snapped
    <3>6. QED
      BY <1>1, <1>4, <3>1, <3>3, <3>5 DEF Snapped
  <2>4. QED
    BY <2>1, <2>2, <2>3
<1>6. shell' = [t \in DOMAIN shell |-> shell'[t]]
  BY <1>2
<1>7. ShellInv
  BY DEF ObjInv
<1>8. ShellInv'
  BY <1>5, <1>6, <1>7, ShellsMapped
<1>9. QED
  BY <1>4, <1>8 DEF ObjInv

LEMMA StepHostSet ==
    ASSUME ObjInv, NEW o, NEW f \in Fields, NEW v \in FieldValues \cup {0}, HostSet(o, f, v)
    PROVE  ObjInv'
<1> DEFINE m(t) == shell[t].stale \/ (shell[t].ready /\ shell[t].obj = o)
<1>1. o \in DOMAIN object /\ object[o].alive /\ FieldSet(o, f, v)
      /\ UNCHANGED <<objects, groups, globals, zombies, autoId, cleared>>
  BY DEF HostSet, FieldSet
<1>2. shell' = [t \in DOMAIN shell |-> [shell[t] EXCEPT !.stale = m(t)]]
  BY DEF HostSet
<1>3. \A t \in DOMAIN shell : /\ shell[t] \in ShellRec /\ shell[t].obj \in DOMAIN object /\ Snapped(shell[t], object[shell[t].obj])
                              /\ shell[t].stale \in BOOLEAN /\ shell[t].ready \in BOOLEAN
  <2>1. \A t \in DOMAIN shell : shell[t] \in ShellRec /\ shell[t].obj \in DOMAIN object /\ Snapped(shell[t], object[shell[t].obj])
    BY DEF ObjInv, ShellInv
  <2>2. QED
    BY <2>1 DEF ShellRec
<1>4. /\ ManagerInv' /\ object' \in Seq(ObjRec) /\ DOMAIN object' = DOMAIN object
      /\ \A p \in DOMAIN object : p # o => object'[p] = object[p]
  BY <1>1, FieldSetKeeps DEF ObjInv
<1>5. ASSUME NEW t \in DOMAIN shell
      PROVE  shell'[t] \in ShellRec /\ shell'[t].obj \in DOMAIN object' /\ Snapped(shell'[t], object'[shell'[t].obj])
  <2> DEFINE b == m(t)
  <2>1. b \in BOOLEAN /\ (b <=> shell[t].stale \/ (shell[t].ready /\ shell[t].obj = o))
    BY <1>3
  <2>2. shell'[t] = [shell[t] EXCEPT !.stale = b]
    BY <1>2
  <2> HIDE DEF b, m
  <2> DEFINE sh == shell[t]
  <2>3. sh \in ShellRec /\ sh.obj \in DOMAIN object /\ Snapped(sh, object[sh.obj])
        /\ (b <=> sh.stale \/ (sh.ready /\ sh.obj = o))
    BY <1>3, <2>1
  <2> HIDE DEF sh
  <2>4. /\ [sh EXCEPT !.stale = b] \in ShellRec /\ [sh EXCEPT !.stale = b].obj \in DOMAIN object'
        /\ Snapped([sh EXCEPT !.stale = b], object'[[sh EXCEPT !.stale = b].obj])
    BY <1>4, <2>1, <2>3, StaleKeeps
  <2>5. QED
    BY <2>2, <2>4 DEF sh
<1>6. shell' = [t \in DOMAIN shell |-> shell'[t]]
  BY <1>2
<1>7. ShellInv
  BY DEF ObjInv
<1>8. ShellInv'
  BY <1>5, <1>6, <1>7, ShellsMapped
<1>9. QED
  BY <1>4, <1>8 DEF ObjInv

LEMMA StepSnapshot ==
    ASSUME IsFiniteSet(Fields), ObjInv, NEW s, EnsureNativeSpecSnapshot(s)
    PROVE  ObjInv'
<1> DEFINE sh == shell[s]
           o == object[sh.obj]
<1>1. s \in DOMAIN shell /\ sh \in ShellRec /\ sh.obj \in DOMAIN object
  <2>1. s \in DOMAIN shell
    BY DEF EnsureNativeSpecSnapshot
  <2>2. shell \in Seq(ShellRec) /\ \A t \in DOMAIN shell : shell[t].obj \in DOMAIN object
    BY DEF ObjInv, ShellInv
  <2>3. QED
    BY <2>1, <2>2
<1>2. object' = object /\ ManagerInv'
  BY DEF EnsureNativeSpecSnapshot, ObjInv, ManagerInv, ObjTyped, Indexed, Buried, Counted
<1>3. o \in ObjRec
  BY <1>1 DEF ObjInv, ManagerInv, ObjTyped
<1>4. o.kv \in [Fields -> FieldValues \cup {0}]
  BY <1>3 DEF ObjRec
<1> DEFINE kv == o.kv
           snap(fs) == [i \in DOMAIN fs |-> [key |-> fs[i], val |-> kv[fs[i]]]]
           cap(fs) == IF fs = <<>> THEN 0 ELSE EnsureSpecCapacity(sh.cap, Len(fs))
<1>5. PICK fs \in SetToSeqs({f \in Fields : kv[f] # 0}) :
             shell' = [shell EXCEPT ![s].ready = TRUE, ![s].snap = snap(fs), ![s].cap = cap(fs)]
  BY DEF EnsureNativeSpecSnapshot
<1> DEFINE t == snap(fs)
           c == cap(fs)
           r == [sh EXCEPT !.ready = TRUE, !.snap = t, !.cap = c]
<1>6. t \in Seq(Entry) /\ Len(t) = Len(fs) /\ Len(fs) \in Nat /\ Keyed(t) /\ Shows(t, kv)
  <2> HIDE DEF kv
  <2>1. kv \in [Fields -> FieldValues \cup {0}]
    BY <1>4 DEF kv
  <2>2. QED
    BY <1>5, <2>1, SnapMade
<1>7. c \in Nat /\ Len(t) <= c
  <2>1. CASE fs = <<>>
    BY <1>6, <2>1, EmptySeq
  <2>2. CASE fs # <<>>
    <3>1. sh.cap \in Nat
      BY <1>1 DEF ShellRec
    <3>2. EnsureSpecCapacity(sh.cap, Len(fs)) \in Nat /\ EnsureSpecCapacity(sh.cap, Len(fs)) >= Len(fs)
      BY <1>6, <3>1, CapacityEnough
    <3>3. QED
      BY <1>6, <2>2, <3>2
  <2>3. QED
    BY <2>1, <2>2
<1>8. shell' = [shell EXCEPT ![s] = r]
  BY <1>5
<1> HIDE DEF t, c, snap, cap
<1>9. /\ r \in ShellRec /\ r.obj = sh.obj /\ r.snap = t /\ r.cap = c /\ r.ready
  <2> DEFINE S == Seq(Entry)
  <2>1. ShellRec = [obj : Nat, ready : BOOLEAN, snap : S, cap : Nat, stale : BOOLEAN] /\ t \in S
    BY <1>6 DEF ShellRec
  <2> HIDE DEF S, sh
  <2>2. r \in ShellRec
    BY <1>1, <1>7, <2>1
  <2>3. r.obj = sh.obj /\ r.snap = t /\ r.cap = c
    BY <1>1, <2>1
  <2>4. r.ready
    BY <1>1, <2>1
  <2>5. QED
    BY <2>2, <2>3, <2>4
<1> HIDE DEF r
<1>10. Snapped(r, o)
  BY <1>6, <1>7, <1>9 DEF Snapped
<1>11. \A u \in DOMAIN shell : shell'[u] = IF u = s THEN r ELSE shell[u]
  BY <1>1, <1>8
<1>12. \A u \in DOMAIN shell : shell'[u] \in ShellRec /\ shell'[u].obj \in DOMAIN object'
                               /\ Snapped(shell'[u], object'[shell'[u].obj])
  <2> SUFFICES ASSUME NEW u \in DOMAIN shell
               PROVE  shell'[u] \in ShellRec /\ shell'[u].obj \in DOMAIN object'
                      /\ Snapped(shell'[u], object'[shell'[u].obj])
    OBVIOUS
  <2>1. CASE u = s
    <3>1. shell'[u] = r /\ object'[r.obj] = o /\ r.obj \in DOMAIN object'
      BY <1>1, <1>2, <1>9, <1>11, <2>1
    <3>2. QED
      BY <1>9, <1>10, <3>1
  <2>2. CASE u # s
    BY <1>2, <1>11, <2>2 DEF ObjInv, ShellInv
  <2>3. QED
    BY <2>1, <2>2
<1>13. shell \in [DOMAIN shell -> ShellRec]
  BY LenProperties DEF ObjInv, ShellInv
<1>14. shell' = [u \in DOMAIN shell |-> shell'[u]]
  BY <1>8, <1>13
<1>15. ShellInv'
  <2>1. ShellInv
    BY DEF ObjInv
  <2>2. QED
    BY <1>12, <1>14, <2>1, ShellsMapped
<1>16. QED
  BY <1>2, <1>15 DEF ObjInv

LEMMA ManagerSame ==
    ASSUME ManagerInv, UNCHANGED <<object, objects, groups, globals, zombies, cleared>>, autoId' \in Int, autoId' <= 0
    PROVE  ManagerInv'
  BY DEF ManagerInv, ObjTyped, Indexed, Buried, Counted

LEMMA AutoIdNamed ==
    ASSUME MaxObjects \in Nat, ObjInv, autoId > 0 - MaxObjects
    PROVE  autoId - 1 \in AllIds /\ autoId - 1 \in Int /\ autoId - 1 <= 0
<1>1. autoId \in Int /\ autoId <= 0
  BY DEF ObjInv, ManagerInv, ObjTyped
<1>2. 1 - autoId \in 1..MaxObjects /\ autoId - 1 = 0 - (1 - autoId)
  BY <1>1
<1>3. QED
  BY <1>1, <1>2 DEF AllIds

LEMMA StepCreate ==
    ASSUME MaxObjects \in Nat, ObjInv, NEW g \in Groups, NEW i \in Ids \cup {0}, Create(g, i)
    PROVE  ObjInv'
<1> DEFINE id == IF i = 0 THEN autoId - 1 ELSE i
           n == Len(object)
<1>1. id \in AllIds /\ autoId' \in Int /\ autoId' <= 0
  <2>1. CASE i = 0
    BY <2>1, AutoIdNamed DEF Create
  <2>2. CASE i # 0
    BY <2>2 DEF Create, AllIds, ObjInv, ManagerInv, ObjTyped
  <2>3. QED
    BY <2>1, <2>2
<1>2. n \in Nat /\ DOMAIN object = 1..n /\ ManagerInv /\ ShellInv /\ objects[id] \in 1..n \cup {0}
  BY <1>1, LenProperties DEF ObjInv, ManagerInv, ObjTyped
<1>3. ~cleared /\ cleared' = cleared /\ globals' = globals /\ zombies' = zombies
  BY DEF Create
<1> DEFINE old == objects[id] # 0 /\ shell' = Wrapped(objects[id]) /\ UNCHANGED <<object, objects, groups>>
           made == /\ object' = Append(object, NewObject(id, g)) /\ objects' = [objects EXCEPT ![id] = n + 1]
                   /\ groups' = [groups EXCEPT ![g] = @ \cup {n + 1}] /\ shell' = Wrapped(n + 1)
<1>4. old \/ made
  BY DEF Create
<1> HIDE DEF id
<1>5. CASE old
  <2>1. ManagerInv'
    BY <1>1, <1>2, <1>3, <1>5, ManagerSame
  <2>2. object' = object /\ objects[id] \in DOMAIN object' \cap Nat /\ shell' = Wrapped(objects[id])
    BY <1>2, <1>5
  <2>3. ShellInv'
    <3>1. DOMAIN object \subseteq DOMAIN object' /\ \A o \in DOMAIN object : object'[o].alive => object'[o] = object[o]
      BY <2>2
    <3>2. QED
      BY <1>2, <2>2, <3>1, ShellsKept
  <2>4. QED
    BY <2>1, <2>3 DEF ObjInv
<1>6. CASE made
  <2>1. groups \in [Groups -> SUBSET (1..n)] /\ globals \in [GlobalKeys -> 1..n \cup {0}] /\ n + 1 \notin 1..n
        /\ 1..n \subseteq 1..(n + 1) /\ n + 1 \in 1..(n + 1) /\ n + 1 # 0
    BY <1>2 DEF ManagerInv, ObjTyped
  <2>2. DOMAIN object' = 1..(n + 1)
    <3>1. object \in Seq(ObjRec) /\ object' = Append(object, NewObject(id, g))
      BY <1>2, <1>6 DEF ManagerInv, ObjTyped
    <3>2. QED
      BY <3>1
  <2> HIDE DEF n
  <2>3. \A h \in Groups : groups'[h] = IF h = g THEN groups[h] \cup {n + 1} ELSE groups[h]
    BY <1>6, <2>1
  <2>4. groups' \in [Groups -> SUBSET DOMAIN object']
        /\ \A h \in Groups : groups'[h] \subseteq groups[h] \cup {n + 1} /\ (n + 1 \in groups'[h] => h = g)
    BY <1>6, <2>1, <2>2, <2>3
  <2>5. globals' \in [GlobalKeys -> DOMAIN object' \cup {0}]
        /\ \A k \in GlobalKeys : globals'[k] = globals[k] /\ globals'[k] # n + 1
    BY <1>3, <2>1, <2>2
  <2>6. /\ ManagerInv' /\ object' \in Seq(ObjRec) /\ DOMAIN object' = 1..(Len(object) + 1)
        /\ \A o \in DOMAIN object : o \in DOMAIN object' /\ object'[o] = object[o]
    <3>1. /\ object' = Append(object, NewObject(id, g)) /\ objects' = [objects EXCEPT ![id] = Len(object) + 1]
          /\ \A h \in Groups : groups'[h] \subseteq groups[h] \cup {Len(object) + 1} /\ (Len(object) + 1 \in groups'[h] => h = g)
          /\ \A k \in GlobalKeys : globals'[k] \in {globals[k], Len(object) + 1}
                                   /\ (globals'[k] = Len(object) + 1 => \A h \in Groups : globals'[k] \notin groups'[h])
          /\ \A k, l \in GlobalKeys : globals'[k] = Len(object) + 1 /\ globals'[l] = Len(object) + 1 => k = l
      BY <1>6, <2>4, <2>5 DEF n
    <3>2. g \in Groups \cup {0}
      OBVIOUS
    <3>3. QED
      BY <1>1, <1>2, <1>3, <2>4, <2>5, <3>1, <3>2, MakeKeeps
  <2>7. n + 1 \in DOMAIN object' \cap Nat /\ shell' = Wrapped(n + 1)
    BY <1>2, <1>6, <2>1, <2>2
  <2>8. DOMAIN object \subseteq DOMAIN object' /\ \A o \in DOMAIN object : object'[o].alive => object'[o] = object[o]
    BY <2>6
  <2>9. ShellInv'
    BY <1>2, <2>7, <2>8, ShellsKept
  <2>10. QED
    BY <2>6, <2>9 DEF ObjInv
<1>7. QED
  BY <1>4, <1>5, <1>6

LEMMA StepGlobalCreate ==
    ASSUME MaxObjects \in Nat, ObjInv, NEW k \in GlobalKeys, GlobalCreate(k)
    PROVE  ObjInv'
<1> DEFINE id == autoId - 1
           n == Len(object)
<1>1. n \in Nat /\ DOMAIN object = 1..n /\ ManagerInv /\ ShellInv /\ globals[k] \in 1..n \cup {0} /\ autoId \in Int /\ autoId <= 0
  BY LenProperties DEF ObjInv, ManagerInv, ObjTyped
<1>2. ~cleared /\ cleared' = cleared /\ groups' = groups /\ zombies' = zombies
  BY DEF GlobalCreate
<1> DEFINE old == globals[k] # 0 /\ shell' = Wrapped(globals[k]) /\ UNCHANGED <<object, objects, globals, autoId>>
           made == /\ globals[k] = 0 /\ autoId > 0 - MaxObjects /\ autoId' = id
                   /\ object' = Append(object, NewObject(id, 0)) /\ objects' = [objects EXCEPT ![id] = n + 1]
                   /\ globals' = [globals EXCEPT ![k] = n + 1] /\ shell' = Wrapped(n + 1)
<1>3. old \/ made
  BY DEF GlobalCreate
<1>4. CASE old
  <2>1. ManagerInv'
    BY <1>1, <1>2, <1>4, ManagerSame
  <2>2. object' = object /\ globals[k] \in DOMAIN object' \cap Nat /\ shell' = Wrapped(globals[k])
    BY <1>1, <1>4
  <2>3. DOMAIN object \subseteq DOMAIN object' /\ \A o \in DOMAIN object : object'[o].alive => object'[o] = object[o]
    BY <2>2
  <2>4. ShellInv'
    BY <1>1, <2>2, <2>3, ShellsKept
  <2>5. QED
    BY <2>1, <2>4 DEF ObjInv
<1>5. CASE made
  <2>0. id \in AllIds /\ autoId' \in Int /\ autoId' <= 0
    BY <1>5, AutoIdNamed
  <2>1. groups \in [Groups -> SUBSET (1..n)] /\ globals \in [GlobalKeys -> 1..n \cup {0}] /\ n + 1 \notin 1..n
        /\ 1..n \subseteq 1..(n + 1) /\ n + 1 \in 1..(n + 1) /\ n + 1 # 0
    BY <1>1 DEF ManagerInv, ObjTyped
  <2>2. DOMAIN object' = 1..(n + 1)
    <3>1. object \in Seq(ObjRec) /\ object' = Append(object, NewObject(id, 0))
      BY <1>1, <1>5 DEF ManagerInv, ObjTyped
    <3>2. QED
      BY <3>1
  <2> HIDE DEF n, id
  <2>3. \A l \in GlobalKeys : globals'[l] = IF l = k THEN n + 1 ELSE globals[l]
    BY <1>5, <2>1
  <2>4. groups' \in [Groups -> SUBSET DOMAIN object'] /\ \A h \in Groups : groups'[h] = groups[h] /\ n + 1 \notin groups'[h]
    BY <1>2, <2>1, <2>2
  <2>5. globals' \in [GlobalKeys -> DOMAIN object' \cup {0}]
        /\ \A l \in GlobalKeys : globals'[l] \in {globals[l], n + 1} /\ (globals'[l] = n + 1 => l = k)
    BY <1>5, <2>1, <2>2, <2>3
  <2>6. /\ ManagerInv' /\ object' \in Seq(ObjRec) /\ DOMAIN object' = 1..(Len(object) + 1)
        /\ \A o \in DOMAIN object : o \in DOMAIN object' /\ object'[o] = object[o]
    <3>1. /\ object' = Append(object, NewObject(id, 0)) /\ objects' = [objects EXCEPT ![id] = Len(object) + 1]
          /\ \A h \in Groups : groups'[h] \subseteq groups[h] \cup {Len(object) + 1} /\ (Len(object) + 1 \in groups'[h] => h = 0)
          /\ \A l \in GlobalKeys : globals'[l] \in {globals[l], Len(object) + 1}
                                   /\ (globals'[l] = Len(object) + 1 => \A h \in Groups : globals'[l] \notin groups'[h])
          /\ \A j, l \in GlobalKeys : globals'[j] = Len(object) + 1 /\ globals'[l] = Len(object) + 1 => j = l
      BY <1>5, <2>4, <2>5 DEF n
    <3>2. 0 \in Groups \cup {0}
      OBVIOUS
    <3>3. QED
      BY <1>1, <1>2, <2>0, <2>4, <2>5, <3>1, <3>2, MakeKeeps
  <2>7. n + 1 \in DOMAIN object' \cap Nat /\ shell' = Wrapped(n + 1)
    BY <1>1, <1>5, <2>1, <2>2
  <2>8. DOMAIN object \subseteq DOMAIN object' /\ \A o \in DOMAIN object : object'[o].alive => object'[o] = object[o]
    BY <2>6
  <2>9. ShellInv'
    BY <1>1, <2>7, <2>8, ShellsKept
  <2>10. QED
    BY <2>6, <2>9 DEF ObjInv
<1>6. QED
  BY <1>3, <1>4, <1>5

LEMMA StepDestroySingle ==
    ASSUME ObjInv, NEW i \in AllIds, DestroySingle(i)
    PROVE  ObjInv'
<1> DEFINE o == objects[i]
           os == {o}
<1>1. /\ ~cleared /\ o # 0 /\ Destroy(os)
      /\ groups' = [g \in Groups |-> IF g = object[o].group THEN groups[g] \ {o} ELSE groups[g]]
      /\ globals' = [k \in GlobalKeys |-> IF globals[k] = o THEN 0 ELSE globals[k]]
      /\ objects' = [objects EXCEPT ![i] = 0] /\ autoId' = autoId /\ shell' = shell /\ cleared' = cleared
  BY DEF DestroySingle
<1>2. ManagerInv /\ ShellInv /\ objects \in [AllIds -> DOMAIN object \cup {0}] /\ groups \in [Groups -> SUBSET DOMAIN object]
      /\ globals \in [GlobalKeys -> DOMAIN object \cup {0}] /\ 0 \notin DOMAIN object
  BY LenProperties DEF ObjInv, ManagerInv, ObjTyped
<1>3. o \in DOMAIN object /\ object[o].alive /\ object[o].id = i
  BY <1>1, <1>2 DEF ManagerInv, Indexed
<1>4. \A j \in AllIds : objects'[j] = (IF j = i THEN 0 ELSE objects[j]) /\ (j # i => objects[j] # o)
  <2>1. \A j \in AllIds : objects[j] = o => j = i
    <3>1. \A j \in AllIds : objects[j] # 0 => object[objects[j]].id = j
      BY <1>2 DEF ManagerInv, Indexed
    <3> HIDE DEF o
    <3>2. QED
      BY <1>1, <1>3, <3>1
  <2>2. QED
    BY <1>1, <1>2, <2>1
<1>5. \A g \in Groups : o \in groups[g] => g = object[o].group
  BY DEF ObjInv, ManagerInv, Indexed
<1> HIDE DEF o
<1>6. /\ objects' \in [AllIds -> DOMAIN object \cup {0}]
      /\ \A j \in AllIds : objects'[j] \in {objects[j], 0} /\ objects'[j] \notin os
  BY <1>1, <1>2, <1>4
<1>7. /\ groups' \in [Groups -> SUBSET DOMAIN object]
      /\ \A g \in Groups : groups'[g] \subseteq groups[g] /\ \A p \in os : p \notin groups'[g]
  BY <1>1, <1>2, <1>5
<1>8. /\ globals' \in [GlobalKeys -> DOMAIN object \cup {0}]
      /\ \A k \in GlobalKeys : globals'[k] \in {globals[k], 0} /\ globals'[k] \notin os
  BY <1>1, <1>2
<1>9. os \in SUBSET DOMAIN object /\ \A p \in os : object[p].alive
  BY <1>3
<1> HIDE DEF os
<1>10. /\ ManagerInv' /\ DOMAIN object' = DOMAIN object
       /\ \A p \in DOMAIN object : object'[p].alive => object'[p] = object[p]
  BY <1>1, <1>2, <1>6, <1>7, <1>8, <1>9, DestroyKeeps
<1>11. QED
  BY <1>1, <1>2, <1>10, ShellsKept DEF ObjInv

LEMMA StepGlobalDestroy ==
    ASSUME ObjInv, NEW k \in GlobalKeys, GlobalDestroy(k)
    PROVE  ObjInv'
<1> DEFINE o == globals[k]
           os == {o}
<1>1. /\ ~cleared /\ o # 0 /\ Destroy(os) /\ groups' = groups
      /\ globals' = [globals EXCEPT ![k] = 0]
      /\ objects' = [objects EXCEPT ![object[o].id] = 0] /\ autoId' = autoId /\ shell' = shell /\ cleared' = cleared
  BY DEF GlobalDestroy
<1>2. ManagerInv /\ ShellInv /\ objects \in [AllIds -> DOMAIN object \cup {0}] /\ groups \in [Groups -> SUBSET DOMAIN object]
      /\ globals \in [GlobalKeys -> DOMAIN object \cup {0}] /\ 0 \notin DOMAIN object
  BY LenProperties DEF ObjInv, ManagerInv, ObjTyped
<1>3. o \in DOMAIN object /\ object[o].alive /\ (\A g \in Groups : o \notin groups[g])
      /\ \A l \in GlobalKeys : l # k => globals[l] # o
  BY <1>1, <1>2 DEF ManagerInv, Indexed
<1>4. \A j \in AllIds : objects[j] = o => j = object[o].id
  BY <1>1 DEF ObjInv, ManagerInv, Indexed
<1> HIDE DEF o
<1>6. /\ objects' \in [AllIds -> DOMAIN object \cup {0}]
      /\ \A j \in AllIds : objects'[j] \in {objects[j], 0} /\ objects'[j] \notin os
  BY <1>1, <1>2, <1>4
<1>7. /\ groups' \in [Groups -> SUBSET DOMAIN object]
      /\ \A g \in Groups : groups'[g] \subseteq groups[g] /\ \A p \in os : p \notin groups'[g]
  BY <1>1, <1>2, <1>3
<1>8. /\ globals' \in [GlobalKeys -> DOMAIN object \cup {0}]
      /\ \A l \in GlobalKeys : globals'[l] \in {globals[l], 0} /\ globals'[l] \notin os
  BY <1>1, <1>2, <1>3
<1>9. os \in SUBSET DOMAIN object /\ \A p \in os : object[p].alive
  BY <1>3
<1> HIDE DEF os
<1>10. /\ ManagerInv' /\ DOMAIN object' = DOMAIN object
       /\ \A p \in DOMAIN object : object'[p].alive => object'[p] = object[p]
  BY <1>1, <1>2, <1>6, <1>7, <1>8, <1>9, DestroyKeeps
<1>11. QED
  BY <1>1, <1>2, <1>10, ShellsKept DEF ObjInv

LEMMA StepDestroyGroup ==
    ASSUME ObjInv, NEW g \in Groups, DestroyGroup(g)
    PROVE  ObjInv'
<1> DEFINE os == groups[g]
<1>1. /\ ~cleared /\ Destroy(os) /\ globals' = globals
      /\ objects' = [i \in AllIds |-> IF i \in {object[o].id : o \in os} THEN 0 ELSE objects[i]]
      /\ groups' = [groups EXCEPT ![g] = {}] /\ autoId' = autoId /\ shell' = shell /\ cleared' = cleared
  BY DEF DestroyGroup
<1>2. ManagerInv /\ ShellInv /\ objects \in [AllIds -> DOMAIN object \cup {0}] /\ groups \in [Groups -> SUBSET DOMAIN object]
      /\ globals \in [GlobalKeys -> DOMAIN object \cup {0}] /\ 0 \notin DOMAIN object
  BY LenProperties DEF ObjInv, ManagerInv, ObjTyped
<1>3. os \in SUBSET DOMAIN object /\ \A p \in os : object[p].alive
  BY <1>2 DEF ManagerInv, Indexed
<1>4. \A j \in AllIds : objects[j] \in os => objects[j] # 0 /\ j = object[objects[j]].id
  BY <1>2, <1>3 DEF ManagerInv, Indexed
<1>5. \A h \in Groups : h # g => \A p \in os : p \notin groups[h]
  BY DEF ObjInv, ManagerInv, Indexed
<1>5a. \A k \in GlobalKeys : globals[k] \notin os
  BY <1>2, <1>3 DEF ManagerInv, Indexed
<1> HIDE DEF os
<1>6. /\ objects' \in [AllIds -> DOMAIN object \cup {0}]
      /\ \A j \in AllIds : objects'[j] \in {objects[j], 0} /\ objects'[j] \notin os
  <2>1. 0 \notin os
    BY <1>2, <1>3
  <2>2. QED
    BY <1>1, <1>2, <1>4, <2>1
<1>7. /\ groups' \in [Groups -> SUBSET DOMAIN object]
      /\ \A h \in Groups : groups'[h] \subseteq groups[h] /\ \A p \in os : p \notin groups'[h]
  BY <1>1, <1>2, <1>5
<1>8. /\ globals' \in [GlobalKeys -> DOMAIN object \cup {0}]
      /\ \A l \in GlobalKeys : globals'[l] \in {globals[l], 0} /\ globals'[l] \notin os
  BY <1>1, <1>2, <1>5a
<1>10. /\ ManagerInv' /\ DOMAIN object' = DOMAIN object
       /\ \A p \in DOMAIN object : object'[p].alive => object'[p] = object[p]
  BY <1>1, <1>2, <1>3, <1>6, <1>7, <1>8, DestroyKeeps
<1>11. QED
  BY <1>1, <1>2, <1>10, ShellsKept DEF ObjInv

LEMMA StepObjects ==
    ASSUME MaxObjects \in Nat, IsFiniteSet(Fields), ObjInv, [ObjNext]_objVars
    PROVE  ObjInv'
<1>1. ASSUME NEW g \in Groups, NEW i \in Ids \cup {0}, Create(g, i) PROVE ObjInv'
  BY <1>1, StepCreate
<1>2. ASSUME NEW i \in AllIds, Get(i) PROVE ObjInv'
  <2>1. objects[i] \in DOMAIN object \cap Nat /\ shell' = Wrapped(objects[i]) /\ object' = object
    BY <1>2, LenProperties DEF Get, ObjInv, ManagerInv, ObjTyped
  <2>2. ManagerInv'
    BY <1>2, ManagerSame DEF Get, ObjInv, ManagerInv, ObjTyped
  <2>3. ShellInv'
    BY <2>1, ShellsKept DEF ObjInv
  <2>4. QED
    BY <2>2, <2>3 DEF ObjInv
<1>3. ASSUME NEW i \in AllIds, DestroySingle(i) PROVE ObjInv'
  BY <1>3, StepDestroySingle
<1>4. ASSUME NEW k \in GlobalKeys, GlobalCreate(k) PROVE ObjInv'
  BY <1>4, StepGlobalCreate
<1>5. ASSUME NEW k \in GlobalKeys, GlobalDestroy(k) PROVE ObjInv'
  BY <1>5, StepGlobalDestroy
<1>6. ASSUME NEW g \in Groups, DestroyGroup(g) PROVE ObjInv'
  BY <1>6, StepDestroyGroup
<1>7. CASE Clear
  <2>1. ManagerInv'
    BY <1>7, ClearKeeps DEF ObjInv
  <2>2. shell' = <<>>
    BY <1>7 DEF Clear
  <2>3. shell' \in Seq(ShellRec) /\ Len(shell') = 0
    BY <2>2, EmptySeq
  <2>4. DOMAIN shell' = {}
    BY <2>3, LenProperties
  <2>5. QED
    BY <2>1, <2>3, <2>4 DEF ObjInv, ShellInv
<1>8. CASE NewFrame
  <2>1. ManagerInv'
    BY <1>8, ManagerSame DEF NewFrame, ObjInv, ManagerInv, ObjTyped
  <2>2. shell' = <<>> /\ object' = object
    BY <1>8 DEF NewFrame
  <2>3. ShellInv'
    BY <2>2, ShellsKept DEF ObjInv
  <2>4. QED
    BY <2>1, <2>3 DEF ObjInv
<1>9. ASSUME NEW s, EnsureNativeSpecSnapshot(s) PROVE ObjInv'
  BY <1>9, StepSnapshot
<1>10. ASSUME NEW s, NEW f \in Fields, NEW v \in FieldValues \cup {0}, NativeSpecSet(s, f, v) PROVE ObjInv'
  BY <1>10, StepNativeSpecSet
<1>11. ASSUME NEW o, NEW f \in Fields, NEW v \in FieldValues \cup {0}, HostSet(o, f, v) PROVE ObjInv'
  BY <1>11, StepHostSet
<1>12. CASE UNCHANGED objVars
  BY <1>12 DEF objVars, ObjInv, ManagerInv, ObjTyped, Indexed, Buried, Counted, ShellInv
<1>13. QED
  BY <1>1, <1>2, <1>3, <1>4, <1>5, <1>6, <1>7, <1>8, <1>9, <1>10, <1>11, <1>12 DEF ObjNext

LEMMA ObjectsStart ==
    ASSUME ObjInit
    PROVE  ObjInv
<1>1. object = <<>> /\ zombies = <<>> /\ shell = <<>> /\ autoId = 0 /\ cleared = FALSE
      /\ objects = [i \in AllIds |-> 0] /\ groups = [g \in Groups |-> {}] /\ globals = [k \in GlobalKeys |-> 0]
  BY DEF ObjInit
<1>2. \A S : <<>> \in Seq(S) /\ DOMAIN <<>> = {}
  <2> SUFFICES ASSUME NEW S PROVE <<>> \in Seq(S) /\ DOMAIN <<>> = {}
    OBVIOUS
  <2>1. <<>> \in Seq(S) /\ Len(<<>>) = 0
    BY EmptySeq
  <2>2. QED
    BY <2>1, LenProperties
<1>3. object \in Seq(ObjRec) /\ zombies \in Seq(DOMAIN object) /\ shell \in Seq(ShellRec)
      /\ DOMAIN object = {} /\ DOMAIN zombies = {} /\ DOMAIN shell = {}
  BY <1>1, <1>2
<1>4. ObjTyped
  <2>1. objects \in [AllIds -> DOMAIN object \cup {0}] /\ groups \in [Groups -> SUBSET DOMAIN object]
        /\ globals \in [GlobalKeys -> DOMAIN object \cup {0}]
    BY <1>1
  <2>2. autoId \in Int /\ autoId <= 0 /\ cleared \in BOOLEAN
    <3>1. autoId = 0 /\ autoId \in Int /\ autoId <= 0
      BY <1>1
    <3>2. cleared \in BOOLEAN
      BY <1>1, Zenon
    <3>3. QED
      BY <3>1, <3>2
  <2>3. QED
    BY <1>3, <2>1, <2>2 DEF ObjTyped
<1>5. Indexed /\ Buried /\ Counted /\ ShellInv
  BY <1>1, <1>3 DEF Indexed, Buried, Counted, ShellInv
<1>6. QED
  BY <1>4, <1>5 DEF ObjInv, ManagerInv

\* A snapshot without a key twice that shows the fields is as long as there are fields.
LEMMA SnapCounts ==
    ASSUME IsFiniteSet(Fields), NEW snap \in Seq(Entry), NEW kv, Keyed(snap), Shows(snap, kv)
    PROVE  Len(snap) = Cardinality({f \in Fields : kv[f] # 0})
<1> DEFINE n == Len(snap)
           S == {f \in Fields : kv[f] # 0}
           b == [i \in 1..n |-> snap[i].key]
<1>1. n \in Nat /\ DOMAIN snap = 1..n /\ \A i \in 1..n : snap[i].key \in Fields
  <2>1. n \in Nat /\ DOMAIN snap = 1..n /\ \A i \in 1..n : snap[i] \in Entry
    BY LenProperties
  <2>2. QED
    BY <2>1 DEF Entry
<1>2. b \in [1..n -> S]
  BY <1>1 DEF Shows
<1>3. \A i, j \in 1..n : b[i] = b[j] => i = j
  BY <1>1 DEF Keyed
<1>4. \A f \in S : \E i \in 1..n : b[i] = f
  BY <1>1 DEF Shows
<1> HIDE DEF b, S, n
<1>5. b \in Bijection(1..n, S)
  BY <1>2, <1>3, <1>4, Fun_IsBij
<1>6. ExistsBijection(1..n, S)
  BY <1>5, Fun_ExistsBij
<1>7. IsFiniteSet(1..n) /\ Cardinality(1..n) = n
  <2>1. n \in Nat /\ n \in Int /\ 1 \in Int
    BY <1>1
  <2>2. IsFiniteSet(1..n) /\ Cardinality(1..n) = (IF 1 > n THEN 0 ELSE n - 1 + 1)
    BY <2>1, FS_Interval
  <2>3. (IF 1 > n THEN 0 ELSE n - 1 + 1) = n
    BY <2>1
  <2>4. QED
    BY <2>2, <2>3
<1>8. Cardinality(S) = Cardinality(1..n)
  BY <1>6, <1>7, FS_Bijection
<1>9. QED
  BY <1>7, <1>8 DEF S, n

\* The objects and their snapshots in every behaviour, for all ids, groups, keys and fields: ObjInv is inductive.
THEOREM ObjectsInvariant ==
    ASSUME MaxObjects \in Nat, IsFiniteSet(Fields)
    PROVE  ObjSpec => []ObjInv
<1>1. ObjInit => ObjInv
  BY ObjectsStart
<1>2. ObjInv /\ [ObjNext]_objVars => ObjInv'
  BY StepObjects
<1>3. QED
  BY <1>1, <1>2, PTL DEF ObjSpec

\* No index of the manager leads to an object that was destroyed, and no object is finalized or deleted twice.
THEOREM ObjectsAreSound ==
    ASSUME MaxObjects \in Nat, IsFiniteSet(Fields)
    PROVE  ObjSpec => []ObjectsSound
<1>1. ASSUME ObjInv PROVE ObjectsSound
  <2>1. 0 \notin DOMAIN object
    BY <1>1, LenProperties DEF ObjInv, ManagerInv, ObjTyped
  <2>2. QED
    BY <1>1, <2>1 DEF ObjInv, ManagerInv, ObjTyped, Indexed, Buried, Counted, ObjectsSound
<1>2. ObjInv => ObjectsSound
  BY <1>1
<1>3. QED
  BY <1>2, ObjectsInvariant, PTL

\* pairs() over an object yields every field once with its value, as long as it was only written through the shell.
THEOREM SnapshotsAreFresh ==
    ASSUME MaxObjects \in Nat, IsFiniteSet(Fields)
    PROVE  ObjSpec => []SnapshotFresh
<1>1. ASSUME ObjInv PROVE SnapshotFresh
  <2> SUFFICES ASSUME NEW s \in DOMAIN shell, shell[s].ready, ~shell[s].stale, object[shell[s].obj].alive
               PROVE  /\ Len(shell[s].snap) = Cardinality({f \in Fields : object[shell[s].obj].kv[f] # 0})
                      /\ \A f \in Fields : object[shell[s].obj].kv[f] # 0 =>
                            \E i \in DOMAIN shell[s].snap :
                                shell[s].snap[i] = [key |-> f, val |-> object[shell[s].obj].kv[f]]
                      /\ Len(shell[s].snap) <= shell[s].cap
    BY DEF SnapshotFresh
  <2> DEFINE snap == shell[s].snap
             kv == object[shell[s].obj].kv
  <2>1. shell[s] \in ShellRec /\ Snapped(shell[s], object[shell[s].obj])
    BY <1>1 DEF ObjInv, ShellInv
  <2>2. snap \in Seq(Entry)
    BY <2>1 DEF ShellRec
  <2>3. Keyed(snap) /\ Len(snap) <= shell[s].cap /\ Shows(snap, kv)
    BY <2>1 DEF Snapped
  <2> HIDE DEF snap, kv
  <2>4. Len(snap) = Cardinality({f \in Fields : kv[f] # 0})
    BY <2>2, <2>3, SnapCounts
  <2>5. ASSUME NEW f \in Fields, kv[f] # 0 PROVE \E i \in DOMAIN snap : snap[i] = [key |-> f, val |-> kv[f]]
    <3>1. PICK i \in DOMAIN snap : snap[i].key = f
      BY <2>3, <2>5 DEF Shows
    <3>2. snap[i] \in Entry /\ snap[i].val = kv[f]
      BY <2>2, <2>3, <3>1 DEF Shows
    <3>3. snap[i] = [key |-> f, val |-> kv[f]]
      BY <3>1, <3>2 DEF Entry
    <3>4. QED
      BY <3>3
  <2>6. QED
    BY <2>3, <2>4, <2>5 DEF snap, kv
<1>2. ObjInv => SnapshotFresh
  BY <1>1
<1>3. QED
  BY <1>2, ObjectsInvariant, PTL

-----------------------------------------------------------------------------
(* Network objects: the invariant.                                         *)

NetSpec == NetInit /\ [][NetNext]_netVars

EventKinds == {"conn", "recv", "close"}
Ev == [kind : EventKinds, conn : Conns, slot : Nat, msg : Nat]
Send == [to : Nat, from : Conns \cup {0}, own : BOOLEAN]
Frame == [conn : Conns, slot : Nat, by : {"tick", "close_connection"}]
NetRec == [kind : {"server", "client", "udp"}, handshake : BOOLEAN, live : BOOLEAN, depth : {0, 1}, closing : BOOLEAN,
           pending : Seq(Send), lastPeer : Conns \cup {0}, calls : Nat]
ConnRec == [st : {"none", "open", "closed"}, ready : BOOLEAN, msgs : Nat]
Msg == EventKinds \X Nat

NetTyped ==
    /\ net \in NetRec /\ conn \in [Conns -> ConnRec] /\ slots \in Seq(Conns \cup {0})
    /\ queue \in Seq(Ev) /\ batch \in Seq(Ev) /\ stack \in Seq(Frame) /\ npc \in {"out", "drain"}
    /\ seen \in [Conns -> Seq(Msg)] /\ spoiled \subseteq Conns
    /\ echoed \subseteq [from : Conns, to : Conns]

\* Outside of the tick no event of a batch and no send of the tick is left; an object that is gone runs nothing.
Phase ==
    /\ npc = "out" => batch = <<>> /\ \A i \in DOMAIN net.pending : ~net.pending[i].own
    /\ npc = "drain" => net.depth > 0
    /\ ~net.live => npc = "out" /\ stack = <<>>

\* A connection that is open has the slot that its events, callbacks and answers name.
At(c, i) == conn[c].st = "closed" \/ (conn[c].st = "open" /\ (net.kind # "udp" => i \in DOMAIN slots /\ slots[i] = c))

Waiting == batch \o queue

HasSlot == net.live /\ net.kind # "udp" => \A c \in Conns : IsOpen(c) => \E i \in DOMAIN slots : slots[i] = c
Taken == \A i \in DOMAIN slots : slots[i] # 0 => conn[slots[i]].st # "none"
EventsAt == \A j \in DOMAIN Waiting : At(Waiting[j].conn, Waiting[j].slot)
FramesAt == \A j \in DOMAIN stack : At(stack[j].conn, stack[j].slot)
Answers(p) == IF net.kind = "udp" THEN p.to = p.from ELSE At(p.from, p.to)
SendsAt == \A j \in DOMAIN net.pending : net.pending[j].from # 0 => Answers(net.pending[j])

\* A UDP socket has peers that are always there, and answers the one whose message its callback got.
PeersOnly ==
    net.kind = "udp" => /\ \A j \in DOMAIN stack : net.lastPeer = stack[j].conn
                        /\ \A j \in DOMAIN Waiting : Waiting[j].kind = "recv"
                        /\ net.live => \A c \in Conns : conn[c].st = "open"

Placed == HasSlot /\ Taken /\ EventsAt /\ FramesAt /\ SendsAt /\ PeersOnly

\* All that the callback is to be told of a connection: of a peer, of a connection with m messages (the first n),
\* and of one that fails before it was there.
Item(m, r) == IF r = 1 THEN <<"conn", 0>> ELSE IF r <= m + 1 THEN <<"recv", r - 1>> ELSE <<"close", 0>>
Line(m, n) == [r \in 1..n |-> Item(m, r)]
Peer(n) == [r \in 1..n |-> <<"recv", r>>]
Early == <<<<"close", 0>>>>
Lines(kind, k) ==
    IF kind = "udp" THEN {Peer(k.msgs)}
    ELSE IF k.st = "closed" THEN {Line(k.msgs, k.msgs + 2)} \cup {l \in {Early} : k.msgs = 0}
    ELSE IF k.ready THEN {Line(k.msgs, k.msgs + 1)} ELSE {<<>>}

\* f leads from the items a..b of L to the events of c among the first k of w, in this order.
Enum(f, a, b, L, w, k, c) ==
    /\ f \in [a..b -> 1..k]
    /\ \A r \in a..b : w[f[r]].conn = c /\ <<w[f[r]].kind, w[f[r]].msg>> = L[r]
    /\ \A q, r \in a..b : q < r => f[q] < f[r]
    /\ \A i \in 1..k : w[i].conn = c => \E r \in a..b : f[r] = i

\* Of the items L, the callback was told s, and the rest waits in w.
Lies(s, L, w, c) ==
    /\ Len(s) <= Len(L) /\ \A i \in 1..Len(s) : s[i] = L[i]
    /\ \E f : Enum(f, Len(s) + 1, Len(L), L, w, Len(w), c)

OnTheWay(kind, k, s, w, c) == \E L \in Lines(kind, k) : Lies(s, L, w, c)

\* What the callback can have been told.
Heard(kind, s) ==
    IF kind = "udp" THEN \E n \in Nat : s = Peer(n)
    ELSE s = Early \/ \E m \in Nat : \E n \in 0..(m + 2) : s = Line(m, n)

Fresh ==
    /\ \A c \in Conns : net.live /\ net.kind # "udp" /\ conn[c].st # "closed" /\ ~conn[c].ready => conn[c].msgs = 0
    /\ \A c \in Conns : net.live /\ net.kind # "udp" /\ conn[c].st # "open" => ~conn[c].ready

Ordered ==
    IF net.live THEN \A c \in Conns \ spoiled : OnTheWay(net.kind, conn[c], seen[c], Waiting, c)
    ELSE \A c \in Conns \ spoiled : Heard(net.kind, seen[c])

NetInv == NetTyped /\ Phase /\ Placed /\ Fresh /\ Ordered /\ EchoStraysOnlyWhenGone

\* The bounds of the sizes are numbers, and there is a connection.
NetSizes == MaxSlots \in Nat /\ MaxConns \in Nat /\ MaxConns > 0

-----------------------------------------------------------------------------
(* Network objects: what waits in a list.                                  *)

LEMMA LiesTail ==
    ASSUME NEW s \in Seq(Msg), NEW L \in Seq(Msg), NEW w \in Seq(Ev), w # <<>>, NEW c, Lies(s, L, w, c), Head(w).conn # c
    PROVE  Lies(s, L, Tail(w), c)
<1> DEFINE n == Len(s)
           m == Len(L)
           k == Len(w)
           t == Tail(w)
<1>1. n \in Nat /\ m \in Nat /\ k \in Nat
  BY LenProperties
<1>0. PICK f : Enum(f, n + 1, m, L, w, k, c)
  BY DEF Lies
<1>2. /\ f \in [(n + 1)..m -> 1..k]
      /\ \A r \in (n + 1)..m : w[f[r]].conn = c /\ <<w[f[r]].kind, w[f[r]].msg>> = L[r]
      /\ \A q, r \in (n + 1)..m : q < r => f[q] < f[r]
      /\ \A i \in 1..k : w[i].conn = c => \E r \in (n + 1)..m : f[r] = i
  BY <1>0 DEF Enum
<1>3. Len(t) = k - 1 /\ Head(w) = w[1] /\ \A i \in 1..(k - 1) : t[i] = w[i + 1]
  BY HeadTailProperties
<1>4. n <= m /\ \A i \in 1..n : s[i] = L[i]
  BY DEF Lies
<1> HIDE DEF n, m, k, t
<1> DEFINE g == [r \in (n + 1)..m |-> f[r] - 1]
<1>5. \A r \in (n + 1)..m : f[r] \in 1..k /\ f[r] # 1
  BY <1>2, <1>3
<1>6. \A r \in (n + 1)..m : f[r] - 1 \in 1..(k - 1) /\ t[f[r] - 1] = w[f[r]] /\ f[r] \in Nat
  <2> TAKE r \in (n + 1)..m
  <2>1. f[r] - 1 \in 1..(k - 1) /\ f[r] - 1 + 1 = f[r]
    BY <1>1, <1>5
  <2>2. QED
    BY <1>3, <1>5, <2>1
<1>7. g \in [(n + 1)..m -> 1..(k - 1)]
  BY <1>6
<1>8. \A r \in (n + 1)..m : t[g[r]].conn = c /\ <<t[g[r]].kind, t[g[r]].msg>> = L[r]
  BY <1>2, <1>6
<1>9. \A q, r \in (n + 1)..m : q < r => g[q] < g[r]
  BY <1>2, <1>6
<1>10. ASSUME NEW i \in 1..(k - 1), t[i].conn = c PROVE \E r \in (n + 1)..m : g[r] = i
  <2>1. i + 1 \in 1..k /\ w[i + 1].conn = c
    BY <1>1, <1>3, <1>10
  <2>2. PICK r \in (n + 1)..m : f[r] = i + 1
    BY <1>2, <2>1
  <2>3. i \in Int /\ i + 1 - 1 = i
    BY <1>1
  <2>6. g[r] = f[r] - 1
    OBVIOUS
  <2>4. g[r] = i
    BY ONLY <2>2, <2>3, <2>6
  <2>5. QED
    BY <2>4
<1> HIDE DEF g
<1>11. Enum(g, n + 1, m, L, t, k - 1, c)
  BY <1>7, <1>8, <1>9, <1>10 DEF Enum
<1>12. Len(s) = n /\ Len(L) = m
  BY DEF n, m
<1>13. Lies(s, L, t, c)
  BY <1>3, <1>4, <1>11, <1>12 DEF Lies
<1>14. QED
  BY <1>13 DEF t

LEMMA LiesTold ==
    ASSUME NEW s \in Seq(Msg), NEW L \in Seq(Msg), NEW w \in Seq(Ev), w # <<>>, NEW c, Lies(s, L, w, c), Head(w).conn = c
    PROVE  Lies(Append(s, <<Head(w).kind, Head(w).msg>>), L, Tail(w), c)
<1> DEFINE n == Len(s)
           m == Len(L)
           k == Len(w)
           t == Tail(w)
           x == <<Head(w).kind, Head(w).msg>>
           u == Append(s, x)
<1>1. n \in Nat /\ m \in Nat /\ k \in Nat /\ k # 0
  BY LenProperties, EmptySeq
<1>0. PICK f : Enum(f, n + 1, m, L, w, k, c)
  BY DEF Lies
<1>2. /\ f \in [(n + 1)..m -> 1..k]
      /\ \A r \in (n + 1)..m : w[f[r]].conn = c /\ <<w[f[r]].kind, w[f[r]].msg>> = L[r]
      /\ \A q, r \in (n + 1)..m : q < r => f[q] < f[r]
      /\ \A i \in 1..k : w[i].conn = c => \E r \in (n + 1)..m : f[r] = i
  BY <1>0 DEF Enum
<1>3. Len(t) = k - 1 /\ Head(w) = w[1] /\ Head(w) \in Ev /\ \A i \in 1..(k - 1) : t[i] = w[i + 1]
  BY HeadTailProperties
<1>4. n <= m /\ \A i \in 1..n : s[i] = L[i]
  BY DEF Lies
<1>5. x \in Msg /\ x = <<w[1].kind, w[1].msg>>
  BY <1>3 DEF Ev, Msg
<1> HIDE DEF x
<1>6. Len(u) = n + 1 /\ u[n + 1] = x /\ \A i \in 1..n : u[i] = s[i]
  BY <1>5, AppendProperties
<1> HIDE DEF n, m, k, t, u
<1>7. n + 1 \in (n + 1)..m /\ f[n + 1] = 1
  <2>1. 1 \in 1..k /\ w[1].conn = c
    BY <1>1, <1>3
  <2>2. PICK r \in (n + 1)..m : f[r] = 1
    BY <1>2, <2>1
  <2>3. n + 1 \in (n + 1)..m
    BY <1>1
  <2>4. ~(n + 1 < r)
    <3>1. f[n + 1] \in 1..k
      BY <1>2, <2>3
    <3>2. QED
      BY <1>1, <1>2, <2>2, <2>3, <3>1
  <2>5. r = n + 1
    BY <1>1, <2>4
  <2>6. QED
    BY <2>2, <2>3, <2>5
<1> DEFINE g == [r \in (n + 2)..m |-> f[r] - 1]
<1>8. \A r \in (n + 2)..m : r \in (n + 1)..m /\ n + 1 < r
  BY <1>1
<1>9. \A r \in (n + 2)..m : f[r] \in 1..k /\ f[r] # 1
  BY <1>1, <1>2, <1>7, <1>8
<1>10. \A r \in (n + 2)..m : f[r] - 1 \in 1..(k - 1) /\ t[f[r] - 1] = w[f[r]] /\ f[r] \in Nat
  <2> TAKE r \in (n + 2)..m
  <2>1. f[r] - 1 \in 1..(k - 1) /\ f[r] - 1 + 1 = f[r]
    BY <1>1, <1>9
  <2>2. QED
    BY <1>3, <1>9, <2>1
<1>11. g \in [(n + 2)..m -> 1..(k - 1)]
  BY <1>10
<1>12. \A r \in (n + 2)..m : t[g[r]].conn = c /\ <<t[g[r]].kind, t[g[r]].msg>> = L[r]
  BY <1>2, <1>8, <1>10
<1>13. \A q, r \in (n + 2)..m : q < r => g[q] < g[r]
  BY <1>2, <1>8, <1>10
<1>14. ASSUME NEW i \in 1..(k - 1), t[i].conn = c PROVE \E r \in (n + 2)..m : g[r] = i
  <2>1. i + 1 \in 1..k /\ w[i + 1].conn = c /\ i + 1 # 1
    BY <1>1, <1>3, <1>14
  <2>2. PICK r \in (n + 1)..m : f[r] = i + 1
    BY <1>2, <2>1
  <2>3. r \in (n + 2)..m
    BY <1>1, <1>7, <2>1, <2>2
  <2>4. g[r] = i
    BY <1>1, <2>2, <2>3
  <2>5. QED
    BY <2>3, <2>4
<1>15. n + 1 <= m /\ \A i \in 1..(n + 1) : u[i] = L[i]
  <2>1. x = L[n + 1]
    BY <1>2, <1>5, <1>7
  <2>2. \A i \in 1..(n + 1) : i \in 1..n \/ i = n + 1
    BY <1>1
  <2>3. n + 1 <= m
    BY <1>1, <1>7
  <2>4. \A i \in 1..(n + 1) : u[i] = L[i]
    BY <1>4, <1>6, <2>1, <2>2
  <2>5. QED
    BY <2>3, <2>4
<1> HIDE DEF g
<1>16. n + 1 + 1 = n + 2
  BY <1>1
<1>19. Enum(g, n + 2, m, L, t, k - 1, c)
  BY <1>11, <1>12, <1>13, <1>14 DEF Enum
<1>20. Len(u) + 1 = n + 2 /\ Len(L) = m
  BY <1>6, <1>16 DEF m
<1>17. Lies(u, L, t, c)
  BY <1>3, <1>6, <1>15, <1>19, <1>20 DEF Lies
<1>18. QED
  BY <1>17 DEF u, t, x

LEMMA LiesOther ==
    ASSUME NEW s \in Seq(Msg), NEW L \in Seq(Msg), NEW w \in Seq(Ev), NEW e \in Ev, NEW c, Lies(s, L, w, c), e.conn # c
    PROVE  Lies(s, L, Append(w, e), c)
<1> DEFINE n == Len(s)
           m == Len(L)
           k == Len(w)
           t == Append(w, e)
<1>1. n \in Nat /\ m \in Nat /\ k \in Nat
  BY LenProperties
<1>0. PICK f : Enum(f, n + 1, m, L, w, k, c)
  BY DEF Lies
<1>2. /\ f \in [(n + 1)..m -> 1..k]
      /\ \A r \in (n + 1)..m : w[f[r]].conn = c /\ <<w[f[r]].kind, w[f[r]].msg>> = L[r]
      /\ \A q, r \in (n + 1)..m : q < r => f[q] < f[r]
      /\ \A i \in 1..k : w[i].conn = c => \E r \in (n + 1)..m : f[r] = i
  BY <1>0 DEF Enum
<1>3. Len(t) = k + 1 /\ t[k + 1] = e /\ \A i \in 1..k : t[i] = w[i]
  BY AppendProperties
<1>4. n <= m /\ \A i \in 1..n : s[i] = L[i]
  BY DEF Lies
<1> HIDE DEF n, m, k, t
<1>5. (\A i \in 1..k : i \in 1..(k + 1)) /\ \A i \in 1..(k + 1) : i \in 1..k \/ i = k + 1
  BY <1>1
<1>6. f \in [(n + 1)..m -> 1..(k + 1)]
  BY <1>2, <1>5
<1>7. \A r \in (n + 1)..m : t[f[r]].conn = c /\ <<t[f[r]].kind, t[f[r]].msg>> = L[r]
  BY <1>2, <1>3
<1>8. \A i \in 1..(k + 1) : t[i].conn = c => \E r \in (n + 1)..m : f[r] = i
  BY <1>2, <1>3, <1>5
<1>9. Enum(f, n + 1, m, L, t, k + 1, c)
  BY <1>2, <1>6, <1>7, <1>8 DEF Enum
<1>10. Len(s) = n /\ Len(L) = m
  BY DEF n, m
<1>11. Lies(s, L, t, c)
  BY <1>3, <1>4, <1>9, <1>10 DEF Lies
<1>12. QED
  BY <1>11 DEF t

LEMMA LiesNew ==
    ASSUME NEW s \in Seq(Msg), NEW L \in Seq(Msg), NEW w \in Seq(Ev), NEW e \in Ev, NEW c, Lies(s, L, w, c), e.conn = c,
           NEW M \in Seq(Msg), Len(M) = Len(L) + 1, \A i \in 1..Len(L) : M[i] = L[i], M[Len(L) + 1] = <<e.kind, e.msg>>
    PROVE  Lies(s, M, Append(w, e), c)
<1> DEFINE n == Len(s)
           m == Len(L)
           k == Len(w)
           t == Append(w, e)
<1>1. n \in Nat /\ m \in Nat /\ k \in Nat
  BY LenProperties
<1>0. PICK f : Enum(f, n + 1, m, L, w, k, c)
  BY DEF Lies
<1>2. /\ f \in [(n + 1)..m -> 1..k]
      /\ \A r \in (n + 1)..m : w[f[r]].conn = c /\ <<w[f[r]].kind, w[f[r]].msg>> = L[r]
      /\ \A q, r \in (n + 1)..m : q < r => f[q] < f[r]
      /\ \A i \in 1..k : w[i].conn = c => \E r \in (n + 1)..m : f[r] = i
  BY <1>0 DEF Enum
<1>3. Len(t) = k + 1 /\ t[k + 1] = e /\ \A i \in 1..k : t[i] = w[i]
  BY AppendProperties
<1>4. n <= m /\ \A i \in 1..n : s[i] = L[i]
  BY DEF Lies
<1>4a. Len(M) = m + 1 /\ (\A i \in 1..m : M[i] = L[i]) /\ M[m + 1] = <<e.kind, e.msg>>
  OBVIOUS
<1> HIDE DEF n, m, k, t
<1> DEFINE g == [r \in (n + 1)..(m + 1) |-> IF r = m + 1 THEN k + 1 ELSE f[r]]
<1>5. /\ \A i \in 1..k : i \in 1..(k + 1) /\ i < k + 1
      /\ \A i \in 1..(k + 1) : i \in 1..k \/ i = k + 1
      /\ \A r \in (n + 1)..(m + 1) : r # m + 1 => r \in (n + 1)..m /\ r \in 1..m /\ r < m + 1
      /\ m + 1 \in (n + 1)..(m + 1) /\ k + 1 \in 1..(k + 1)
      /\ \A r \in (n + 1)..m : r \in (n + 1)..(m + 1) /\ r # m + 1
      /\ n <= m + 1 /\ \A i \in 1..n : i \in 1..m
  BY <1>1, <1>4
<1>6. g \in [(n + 1)..(m + 1) -> 1..(k + 1)]
  BY <1>2, <1>5
<1>7. \A r \in (n + 1)..(m + 1) : t[g[r]].conn = c /\ <<t[g[r]].kind, t[g[r]].msg>> = M[r]
  <2> TAKE r \in (n + 1)..(m + 1)
  <2>1. CASE r = m + 1
    BY <1>3, <1>4a, <1>5, <2>1
  <2>2. CASE r # m + 1
    <3>1. r \in (n + 1)..m /\ r \in 1..m /\ g[r] = f[r] /\ f[r] \in 1..k
      BY <1>2, <1>5, <2>2
    <3>2. t[g[r]] = w[f[r]] /\ M[r] = L[r]
      BY <1>3, <1>4a, <3>1
    <3>3. QED
      BY <1>2, <3>1, <3>2
  <2>3. QED
    BY <2>1, <2>2
<1>8. ASSUME NEW q \in (n + 1)..(m + 1), NEW r \in (n + 1)..(m + 1), q < r PROVE g[q] < g[r]
  <2>1. q # m + 1 /\ q \in (n + 1)..m /\ g[q] = f[q] /\ f[q] \in 1..k
    <3>1. q # m + 1
      BY <1>1, <1>8
    <3>2. QED
      BY <1>2, <1>5, <3>1
  <2>2. CASE r = m + 1
    BY <1>5, <2>1, <2>2
  <2>3. CASE r # m + 1
    BY <1>2, <1>5, <1>8, <2>1, <2>3
  <2>4. QED
    BY <2>2, <2>3
<1>9. ASSUME NEW i \in 1..(k + 1), t[i].conn = c PROVE \E r \in (n + 1)..(m + 1) : g[r] = i
  <2>1. CASE i = k + 1
    BY <1>5, <2>1
  <2>2. CASE i # k + 1
    <3>1. i \in 1..k /\ w[i].conn = c
      BY <1>3, <1>5, <1>9, <2>2
    <3>2. PICK r \in (n + 1)..m : f[r] = i
      BY <1>2, <3>1
    <3>3. QED
      BY <1>5, <3>2
  <2>3. QED
    BY <2>1, <2>2
<1> HIDE DEF g
<1>10. Enum(g, n + 1, m + 1, M, t, k + 1, c)
  BY <1>6, <1>7, <1>8, <1>9 DEF Enum
<1>11. Len(s) = n /\ n <= m + 1 /\ \A i \in 1..n : s[i] = M[i]
  BY <1>4, <1>4a, <1>5 DEF n
<1>12. Lies(s, M, t, c)
  BY <1>3, <1>4a, <1>10, <1>11 DEF Lies
<1>13. QED
  BY <1>12 DEF t

LEMMA LiesDrop ==
    ASSUME NEW s \in Seq(Msg), NEW L \in Seq(Msg), NEW b \in Seq(Ev), NEW w \in Seq(Ev), NEW c, Lies(s, L, b \o w, c),
           \A i \in 1..Len(b) : b[i].conn # c
    PROVE  Lies(s, L, w, c)
<1> DEFINE n == Len(s)
           m == Len(L)
           k == Len(w)
           d == Len(b)
           t == b \o w
<1>1. n \in Nat /\ m \in Nat /\ k \in Nat /\ d \in Nat
  BY LenProperties
<1>3. Len(t) = d + k /\ \A i \in 1..(d + k) : t[i] = IF i <= d THEN b[i] ELSE w[i - d]
  BY ConcatProperties
<1>0. PICK f : Enum(f, n + 1, m, L, t, d + k, c)
  BY <1>3 DEF Lies
<1>2. /\ f \in [(n + 1)..m -> 1..(d + k)]
      /\ \A r \in (n + 1)..m : t[f[r]].conn = c /\ <<t[f[r]].kind, t[f[r]].msg>> = L[r]
      /\ \A q, r \in (n + 1)..m : q < r => f[q] < f[r]
      /\ \A i \in 1..(d + k) : t[i].conn = c => \E r \in (n + 1)..m : f[r] = i
  BY <1>0 DEF Enum
<1>4. n <= m /\ \A i \in 1..n : s[i] = L[i]
  BY DEF Lies
<1>5. \A i \in 1..d : b[i].conn # c
  OBVIOUS
<1> HIDE DEF n, m, k, d, t
<1> DEFINE g == [r \in (n + 1)..m |-> f[r] - d]
<1>6. \A r \in (n + 1)..m : f[r] - d \in 1..k /\ t[f[r]] = w[f[r] - d] /\ f[r] \in Nat
  <2> TAKE r \in (n + 1)..m
  <2>1. f[r] \in 1..(d + k) /\ t[f[r]].conn = c
    BY <1>2
  <2>2. ~(f[r] <= d)
    <3>1. f[r] <= d => t[f[r]] = b[f[r]] /\ f[r] \in 1..d
      BY <1>1, <1>3, <2>1
    <3>2. QED
      BY <1>5, <2>1, <3>1
  <2>3. QED
    BY <1>1, <1>3, <2>1, <2>2
<1>7. g \in [(n + 1)..m -> 1..k]
  BY <1>6
<1>8. \A r \in (n + 1)..m : w[g[r]].conn = c /\ <<w[g[r]].kind, w[g[r]].msg>> = L[r]
  BY <1>2, <1>6
<1>9. \A q, r \in (n + 1)..m : q < r => g[q] < g[r]
  BY <1>1, <1>2, <1>6
<1>10. ASSUME NEW i \in 1..k, w[i].conn = c PROVE \E r \in (n + 1)..m : g[r] = i
  <2>1. i + d \in 1..(d + k) /\ ~(i + d <= d) /\ i + d - d = i
    BY <1>1
  <2>2. t[i + d].conn = c
    <3>1. PICK j \in 1..(d + k) : j = i + d
      BY <2>1
    <3>2. ~(j <= d) /\ j - d = i
      BY <1>1, <2>1, <3>1
    <3>3. t[j] = w[i]
      BY <1>3, <3>2
    <3>4. QED
      BY <1>10, <3>1, <3>3
  <2>3. PICK r \in (n + 1)..m : f[r] = i + d
    BY <1>2, <2>1, <2>2
  <2>4. g[r] = i
    BY <1>1, <2>1, <2>3
  <2>5. QED
    BY <2>4
<1> HIDE DEF g
<1>11. Enum(g, n + 1, m, L, w, k, c)
  BY <1>7, <1>8, <1>9, <1>10 DEF Enum
<1>12. Len(s) = n /\ Len(L) = m /\ Len(w) = k
  BY DEF n, m, k
<1>13. QED
  BY <1>4, <1>11, <1>12 DEF Lies

-----------------------------------------------------------------------------
(* Network objects: what a connection is to be told.                       *)

LEMMA LineFacts ==
    ASSUME NEW m \in Nat, NEW n \in 0..(m + 2)
    PROVE  /\ Line(m, n) \in Seq(Msg) /\ Len(Line(m, n)) = n
           /\ \A i \in 1..n : Line(m, n)[i] = Item(m, i)
<1>1. n \in Nat
  OBVIOUS
<1>2. \A i \in 1..n : Item(m, i) \in Msg
  BY <1>1 DEF Item, Msg, EventKinds
<1>3. QED
  BY <1>1, <1>2 DEF Line

LEMMA PeerFacts ==
    ASSUME NEW n \in Nat
    PROVE  /\ Peer(n) \in Seq(Msg) /\ Len(Peer(n)) = n
           /\ \A i \in 1..n : Peer(n)[i] = <<"recv", i>>
<1>1. \A i \in 1..n : <<"recv", i>> \in Msg
  BY DEF Msg, EventKinds
<1>2. QED
  BY <1>1 DEF Peer

LEMMA EarlyFacts == Early \in Seq(Msg) /\ Len(Early) = 1 /\ Early[1] = <<"close", 0>>
BY DEF Early, Msg, EventKinds

LEMMA LinesAreSeqs ==
    ASSUME NEW kind, NEW k \in ConnRec, NEW L \in Lines(kind, k)
    PROVE  L \in Seq(Msg)
<1>1. k.msgs \in Nat
  BY DEF ConnRec
<1>2. k.msgs + 1 \in 0..(k.msgs + 2) /\ k.msgs + 2 \in 0..(k.msgs + 2)
  BY <1>1
<1>3. Peer(k.msgs) \in Seq(Msg) /\ Line(k.msgs, k.msgs + 1) \in Seq(Msg) /\ Line(k.msgs, k.msgs + 2) \in Seq(Msg)
  BY <1>1, <1>2, LineFacts, PeerFacts
<1>4. Early \in Seq(Msg) /\ <<>> \in Seq(Msg)
  BY EarlyFacts
<1>5. QED
  BY <1>3, <1>4 DEF Lines

LEMMA WayOther ==
    ASSUME NEW kind, NEW k \in ConnRec, NEW s \in Seq(Msg), NEW w \in Seq(Ev), NEW e \in Ev, NEW c,
           OnTheWay(kind, k, s, w, c), e.conn # c
    PROVE  OnTheWay(kind, k, s, Append(w, e), c)
BY LinesAreSeqs, LiesOther DEF OnTheWay

LEMMA WayTail ==
    ASSUME NEW kind, NEW k \in ConnRec, NEW s \in Seq(Msg), NEW w \in Seq(Ev), w # <<>>, NEW c,
           OnTheWay(kind, k, s, w, c), Head(w).conn # c
    PROVE  OnTheWay(kind, k, s, Tail(w), c)
BY LinesAreSeqs, LiesTail DEF OnTheWay

LEMMA WayTold ==
    ASSUME NEW kind, NEW k \in ConnRec, NEW s \in Seq(Msg), NEW w \in Seq(Ev), w # <<>>, NEW c,
           OnTheWay(kind, k, s, w, c), Head(w).conn = c
    PROVE  OnTheWay(kind, k, Append(s, <<Head(w).kind, Head(w).msg>>), Tail(w), c)
BY LinesAreSeqs, LiesTold DEF OnTheWay

LEMMA WayDrop ==
    ASSUME NEW kind, NEW k \in ConnRec, NEW s \in Seq(Msg), NEW b \in Seq(Ev), NEW w \in Seq(Ev), NEW c,
           OnTheWay(kind, k, s, b \o w, c), \A i \in 1..Len(b) : b[i].conn # c
    PROVE  OnTheWay(kind, k, s, w, c)
BY LinesAreSeqs, LiesDrop DEF OnTheWay

\* A message of a peer.
LEMMA WayRecv ==
    ASSUME NEW kind, NEW k \in ConnRec, NEW j \in ConnRec, NEW s \in Seq(Msg), NEW w \in Seq(Ev), NEW e \in Ev, NEW c,
           OnTheWay(kind, k, s, w, c), k.st = "open", k.ready, j.st = "open", j.ready, j.msgs = k.msgs + 1,
           e.conn = c, e.kind = "recv", e.msg = j.msgs
    PROVE  OnTheWay(kind, j, s, Append(w, e), c)
<1> DEFINE m == k.msgs
<1>1. m \in Nat /\ m + 1 \in Nat /\ j.msgs = m + 1
  BY DEF ConnRec
<1>2. PICK L \in Lines(kind, k) : Lies(s, L, w, c)
  BY DEF OnTheWay
<1>3. L \in Seq(Msg)
  BY LinesAreSeqs
<1>4. <<e.kind, e.msg>> = <<"recv", m + 1>>
  BY <1>1
<1>5. CASE kind = "udp"
  <2>1. L = Peer(m) /\ Peer(m + 1) \in Lines(kind, j)
    BY <1>1, <1>2, <1>5 DEF Lines
  <2> HIDE DEF m
  <2>2. /\ Len(L) = m /\ Peer(m + 1) \in Seq(Msg) /\ Len(Peer(m + 1)) = m + 1
        /\ \A i \in 1..m : L[i] = <<"recv", i>>
        /\ \A i \in 1..(m + 1) : Peer(m + 1)[i] = <<"recv", i>>
    BY <1>1, <2>1, PeerFacts
  <2>3. (\A i \in 1..m : i \in 1..(m + 1)) /\ m + 1 \in 1..(m + 1)
    BY <1>1
  <2>6. Len(Peer(m + 1)) = Len(L) + 1 /\ (\A i \in 1..Len(L) : Peer(m + 1)[i] = L[i]) /\ Peer(m + 1)[Len(L) + 1] = <<e.kind, e.msg>>
    BY <1>4, <2>2, <2>3
  <2>4. Lies(s, Peer(m + 1), Append(w, e), c)
    BY <1>2, <1>3, <2>2, <2>6, LiesNew
  <2>5. QED
    BY <2>1, <2>4 DEF OnTheWay
<1>6. CASE kind # "udp"
  <2>1. L = Line(m, m + 1) /\ Line(m + 1, m + 1 + 1) \in Lines(kind, j)
    BY <1>1, <1>2, <1>6 DEF Lines
  <2> DEFINE M == Line(m + 1, m + 1 + 1)
  <2> HIDE DEF m
  <2>2. m + 1 \in 0..(m + 2) /\ m + 1 + 1 \in 0..(m + 1 + 2)
    BY <1>1
  <2>3. Len(L) = m + 1 /\ \A i \in 1..(m + 1) : L[i] = Item(m, i)
    BY <1>1, <2>1, <2>2, LineFacts
  <2>4. M \in Seq(Msg) /\ Len(M) = m + 1 + 1 /\ \A i \in 1..(m + 1 + 1) : M[i] = Item(m + 1, i)
    BY <1>1, <2>2, LineFacts
  <2> HIDE DEF M
  <2>5. /\ \A i \in 1..(m + 1) : i \in 1..(m + 1 + 1) /\ Item(m + 1, i) = Item(m, i)
        /\ m + 1 + 1 \in 1..(m + 1 + 1) /\ Item(m + 1, m + 1 + 1) = <<"recv", m + 1>>
    BY <1>1 DEF Item
  <2>8. Len(M) = Len(L) + 1 /\ (\A i \in 1..Len(L) : M[i] = L[i]) /\ M[Len(L) + 1] = <<e.kind, e.msg>>
    <3> HIDE DEF M
    <3>1. Len(M) = Len(L) + 1 /\ M[Len(L) + 1] = Item(m + 1, m + 1 + 1)
      BY ONLY <2>3, <2>4, <2>5
    <3>2. M[Len(L) + 1] = <<e.kind, e.msg>>
      BY ONLY <1>4, <2>5, <3>1
    <3>3. \A i \in 1..Len(L) : M[i] = L[i]
      BY ONLY <2>3, <2>4, <2>5
    <3>4. QED
      BY <3>1, <3>2, <3>3
  <2>6. Lies(s, M, Append(w, e), c)
    BY <1>2, <1>3, <2>4, <2>8, LiesNew
  <2>7. QED
    BY <2>1, <2>6 DEF OnTheWay, M
<1>7. QED
  BY <1>5, <1>6

\* It is there.
LEMMA WayConn ==
    ASSUME NEW kind, kind # "udp", NEW k \in ConnRec, NEW j \in ConnRec, NEW s \in Seq(Msg), NEW w \in Seq(Ev), NEW e \in Ev,
           NEW c, OnTheWay(kind, k, s, w, c), k.st # "closed", ~k.ready, j.st = "open", j.ready, j.msgs = 0,
           e.conn = c, e.kind = "conn", e.msg = 0
    PROVE  OnTheWay(kind, j, s, Append(w, e), c)
<1>1. Lies(s, <<>>, w, c) /\ Line(0, 1) \in Lines(kind, j)
  BY DEF OnTheWay, Lines
<1>2. 0 \in Nat /\ 1 \in 0..(0 + 2)
  OBVIOUS
<1>3. Line(0, 1) \in Seq(Msg) /\ Len(Line(0, 1)) = 1 /\ Line(0, 1)[1] = <<"conn", 0>>
  <2>1. Line(0, 1) \in Seq(Msg) /\ Len(Line(0, 1)) = 1 /\ \A i \in 1..1 : Line(0, 1)[i] = Item(0, i)
    BY <1>2, LineFacts
  <2>2. 1 \in 1..1 /\ Item(0, 1) = <<"conn", 0>>
    BY DEF Item
  <2>3. QED
    BY <2>1, <2>2
<1>4. <<>> \in Seq(Msg) /\ Len(<<>>) = 0
  OBVIOUS
<1> DEFINE L == <<>>
           M == Line(0, 1)
<1>7. L \in Seq(Msg) /\ Len(L) = 0 /\ M \in Seq(Msg) /\ Lies(s, L, w, c)
  BY <1>1, <1>3, <1>4
<1>8. Len(M) = 1 /\ M[1] = <<e.kind, e.msg>>
  BY <1>3
<1> HIDE DEF L, M
<1>9. Len(M) = Len(L) + 1 /\ (\A i \in 1..Len(L) : M[i] = L[i]) /\ M[Len(L) + 1] = <<e.kind, e.msg>>
  BY <1>7, <1>8
<1>10. Lies(s, M, Append(w, e), c)
  BY <1>7, <1>9, LiesNew
<1>5. Lies(s, Line(0, 1), Append(w, e), c)
  BY <1>10 DEF M
<1>6. QED
  BY <1>1, <1>5 DEF OnTheWay

\* Nothing is said of it yet.
LEMMA WaySilent ==
    ASSUME NEW kind, kind # "udp", NEW k \in ConnRec, NEW j \in ConnRec, NEW s, NEW w, NEW c,
           OnTheWay(kind, k, s, w, c), k.st # "closed", ~k.ready, j.st # "closed", ~j.ready
    PROVE  OnTheWay(kind, j, s, w, c)
BY DEF OnTheWay, Lines

\* It is gone.
LEMMA WayClose ==
    ASSUME NEW kind, kind # "udp", NEW k \in ConnRec, NEW j \in ConnRec, NEW s \in Seq(Msg), NEW w \in Seq(Ev), NEW e \in Ev,
           NEW c, OnTheWay(kind, k, s, w, c), k.st = "open", ~k.ready => k.msgs = 0, j.st = "closed", j.msgs = k.msgs,
           e.conn = c, e.kind = "close", e.msg = 0
    PROVE  OnTheWay(kind, j, s, Append(w, e), c)
<1> DEFINE m == k.msgs
<1>1. m \in Nat /\ j.msgs = m
  BY DEF ConnRec
<1>2. PICK L \in Lines(kind, k) : Lies(s, L, w, c)
  BY DEF OnTheWay
<1>3. L \in Seq(Msg)
  BY LinesAreSeqs
<1>5. CASE k.ready
  <2> DEFINE M == Line(m, m + 2)
  <2>1. L = Line(m, m + 1) /\ M \in Lines(kind, j)
    BY <1>1, <1>2, <1>5 DEF Lines
  <2> HIDE DEF m
  <2>2. m + 1 \in 0..(m + 2) /\ m + 2 \in 0..(m + 2)
    BY <1>1
  <2>3. Len(L) = m + 1 /\ \A i \in 1..(m + 1) : L[i] = Item(m, i)
    BY <1>1, <2>1, <2>2, LineFacts
  <2>4. M \in Seq(Msg) /\ Len(M) = m + 2 /\ \A i \in 1..(m + 2) : M[i] = Item(m, i)
    BY <1>1, <2>2, LineFacts
  <2> HIDE DEF M
  <2>5. /\ \A i \in 1..(m + 1) : i \in 1..(m + 2)
        /\ m + 2 \in 1..(m + 2) /\ Item(m, m + 2) = <<"close", 0>> /\ m + 2 = m + 1 + 1
    BY <1>1 DEF Item
  <2>8. Len(M) = Len(L) + 1 /\ (\A i \in 1..Len(L) : M[i] = L[i]) /\ M[Len(L) + 1] = <<e.kind, e.msg>>
    BY <2>3, <2>4, <2>5
  <2>6. Lies(s, M, Append(w, e), c)
    BY <1>2, <1>3, <2>4, <2>8, LiesNew
  <2>7. QED
    BY <2>1, <2>6 DEF OnTheWay
<1>6. CASE ~k.ready
  <2>1. L = <<>> /\ Early \in Lines(kind, j)
    BY <1>1, <1>2, <1>6 DEF Lines
  <2>2. Len(L) = 0
    BY <2>1
  <2>5. Len(Early) = Len(L) + 1 /\ (\A i \in 1..Len(L) : Early[i] = L[i]) /\ Early[Len(L) + 1] = <<e.kind, e.msg>>
    BY <2>2, EarlyFacts
  <2>3. Lies(s, Early, Append(w, e), c)
    BY <1>2, <1>3, <2>5, EarlyFacts, LiesNew
  <2>4. QED
    BY <2>1, <2>3 DEF OnTheWay
<1>7. QED
  BY <1>5, <1>6

LEMMA WayHeard ==
    ASSUME NEW kind, NEW k \in ConnRec, NEW s \in Seq(Msg), NEW w, NEW c, OnTheWay(kind, k, s, w, c)
    PROVE  Heard(kind, s)
<1> DEFINE m == k.msgs
           n == Len(s)
<1>1. m \in Nat /\ n \in Nat
  BY LenProperties DEF ConnRec
<1>2. PICK L \in Lines(kind, k) : Lies(s, L, w, c)
  BY DEF OnTheWay
<1>3. n <= Len(L) /\ \A i \in 1..n : s[i] = L[i]
  BY <1>2 DEF Lies
<1>4. CASE kind = "udp"
  <2>1. L = Peer(m)
    BY <1>2, <1>4 DEF Lines
  <2> HIDE DEF m
  <2>2. Len(L) = m /\ \A i \in 1..m : L[i] = <<"recv", i>>
    BY <1>1, <2>1, PeerFacts
  <2>3. Peer(n) \in Seq(Msg) /\ Len(Peer(n)) = n /\ \A i \in 1..n : Peer(n)[i] = <<"recv", i>>
    BY <1>1, PeerFacts
  <2>4. \A i \in 1..n : i \in 1..m
    BY <1>1, <1>3, <2>2
  <2>5. \A i \in 1..n : s[i] = Peer(n)[i]
    BY <1>3, <2>2, <2>3, <2>4
  <2>6. s = Peer(n)
    BY <2>3, <2>5, SeqEqual
  <2>7. QED
    BY <1>1, <1>4, <2>6 DEF Heard
<1>5. ASSUME kind # "udp", NEW h \in 0..(m + 2), L = Line(m, h) PROVE Heard(kind, s)
  <2> HIDE DEF m
  <2>1. h \in Nat
    BY <1>1
  <2>2. h \in Nat /\ Len(L) = h /\ \A i \in 1..h : L[i] = Item(m, i)
    BY <1>1, <1>5, <2>1, LineFacts
  <2>4. n \in 0..(m + 2) /\ \A i \in 1..n : i \in 1..h
    BY <1>1, <1>3, <2>2
  <2>3. Line(m, n) \in Seq(Msg) /\ Len(Line(m, n)) = n /\ \A i \in 1..n : Line(m, n)[i] = Item(m, i)
    BY <1>1, <2>4, LineFacts
  <2>5. \A i \in 1..n : s[i] = Line(m, n)[i]
    BY <1>3, <2>2, <2>3, <2>4
  <2>6. s = Line(m, n)
    BY <2>3, <2>5, SeqEqual
  <2>7. QED
    BY <1>1, <1>5, <2>4, <2>6 DEF Heard
<1>6. ASSUME kind # "udp", n = 0 PROVE Heard(kind, s)
  <2>1. s = <<>>
    BY <1>6, EmptySeq
  <2>2. 0 \in Nat /\ 0 \in 0..(0 + 2)
    OBVIOUS
  <2>3. Line(0, 0) \in Seq(Msg) /\ Len(Line(0, 0)) = 0
    BY <2>2, LineFacts
  <2>4. s = Line(0, 0)
    BY <2>1, <2>3, EmptySeq
  <2>5. QED
    BY <1>6, <2>2, <2>4 DEF Heard
<1>7. ASSUME kind # "udp", L = Early PROVE Heard(kind, s)
  <2>1. CASE n = 0
    BY <1>6, <1>7, <2>1
  <2>2. CASE n # 0
    <3>1. n = 1 /\ s[1] = Early[1]
      BY <1>1, <1>3, <1>7, <2>2, EarlyFacts
    <3>2. \A i \in 1..n : s[i] = Early[i]
      BY <3>1
    <3>3. s = Early
      BY <3>1, <3>2, EarlyFacts, SeqEqual
    <3>4. QED
      BY <1>7, <3>3 DEF Heard
  <2>3. QED
    BY <2>1, <2>2
<1>8. CASE kind # "udp"
  <2>1. m + 1 \in 0..(m + 2) /\ m + 2 \in 0..(m + 2)
    BY <1>1
  <2>2. L = Early \/ L = <<>> \/ L = Line(m, m + 1) \/ L = Line(m, m + 2)
    BY <1>2, <1>8 DEF Lines
  <2>3. CASE L = <<>>
    <3>1. n = 0
      BY <1>1, <1>3, <2>3
    <3>2. QED
      BY <1>6, <1>8, <3>1
  <2>4. QED
    BY <1>5, <1>7, <1>8, <2>1, <2>2, <2>3
<1>9. QED
  BY <1>4, <1>8

\* What CallbackOrder asks of one connection.
Told(kind, s) ==
    LET k == Cardinality({i \in DOMAIN s : s[i][1] = "recv"})
        whole == <<<<"conn", 0>>>> \o [i \in 1..k |-> <<"recv", i>>] \o <<<<"close", 0>>>>
    IN  IF kind = "udp" THEN s = [i \in 1..k |-> <<"recv", i>>]
        ELSE IsPrefix(s, whole) \/ s = <<<<"close", 0>>>>

LEMMA IntervalCount ==
    ASSUME NEW n \in Nat
    PROVE  Cardinality(1..n) = n /\ Cardinality(2..(n + 1)) = n
<1>1. QED
  BY FS_Interval

LEMMA WholeLine ==
    ASSUME NEW k \in Nat, NEW whole, whole = <<<<"conn", 0>>>> \o [i \in 1..k |-> <<"recv", i>>] \o <<<<"close", 0>>>>
    PROVE  whole \in Seq(Msg) /\ Len(whole) = k + 2 /\ \A i \in 1..(k + 2) : whole[i] = Item(k, i)
<1> DEFINE a == <<<<"conn", 0>>>>
           b == [i \in 1..k |-> <<"recv", i>>]
           d == <<<<"close", 0>>>>
<1>1. a \in Seq(Msg) /\ Len(a) = 1 /\ a[1] = <<"conn", 0>> /\ d \in Seq(Msg) /\ Len(d) = 1 /\ d[1] = <<"close", 0>>
  BY DEF Msg, EventKinds
<1>2. b \in Seq(Msg) /\ Len(b) = k /\ \A i \in 1..k : b[i] = <<"recv", i>>
  BY PeerFacts DEF Peer
<1>3. whole = a \o b \o d
  OBVIOUS
<1> HIDE DEF a, b, d
<1>8. a \o b \in Seq(Msg) /\ Len(a \o b) = Len(a) + Len(b)
      /\ \A i \in 1..(Len(a) + Len(b)) : (a \o b)[i] = IF i <= Len(a) THEN a[i] ELSE b[i - Len(a)]
  BY <1>1, <1>2, ConcatProperties
<1>4. a \o b \in Seq(Msg) /\ Len(a \o b) = 1 + k /\ \A i \in 1..(1 + k) : (a \o b)[i] = IF i <= 1 THEN a[i] ELSE b[i - 1]
  BY <1>1, <1>2, <1>8
<1> DEFINE ab == a \o b
<1>9. ab \in Seq(Msg) /\ Len(ab) = 1 + k /\ whole = ab \o d
  BY <1>3, <1>4
<1> HIDE DEF ab
<1>10. whole \in Seq(Msg) /\ Len(whole) = Len(ab) + Len(d)
       /\ \A i \in 1..(Len(ab) + Len(d)) : whole[i] = IF i <= Len(ab) THEN ab[i] ELSE d[i - Len(ab)]
  <2>1. d \in Seq(Msg) /\ ab \in Seq(Msg) /\ whole = ab \o d
    BY <1>1, <1>9
  <2>2. /\ ab \o d \in Seq(Msg) /\ Len(ab \o d) = Len(ab) + Len(d)
        /\ \A i \in 1..(Len(ab) + Len(d)) : (ab \o d)[i] = IF i <= Len(ab) THEN ab[i] ELSE d[i - Len(ab)]
    BY ONLY <2>1, ConcatProperties
  <2>3. QED
    BY ONLY <2>1, <2>2
<1>11. 1 + k + 1 = k + 2 /\ 1 + k = k + 1
  OBVIOUS
<1>12. Len(ab) + Len(d) = k + 2
  BY <1>1, <1>9, <1>11
<1>5. /\ whole \in Seq(Msg) /\ Len(whole) = k + 2
      /\ \A i \in 1..(k + 2) : whole[i] = IF i <= k + 1 THEN (a \o b)[i] ELSE d[i - (k + 1)]
  BY <1>9, <1>10, <1>11, <1>12 DEF ab
<1>6. ASSUME NEW i \in 1..(k + 2) PROVE whole[i] = Item(k, i)
  <2>1. CASE i = 1
    BY <1>1, <1>4, <1>5, <2>1 DEF Item
  <2>2. CASE i # 1 /\ i <= k + 1
    <3>1. i - 1 \in 1..k /\ ~(i <= 1) /\ i \in 1..(1 + k)
      BY <2>2
    <3>2. whole[i] = b[i - 1]
      BY <1>4, <1>5, <2>2, <3>1
    <3>3. QED
      BY <1>2, <2>2, <3>1, <3>2 DEF Item
  <2>3. CASE i # 1 /\ ~(i <= k + 1)
    <3>1. i - (k + 1) = 1
      BY <2>3
    <3>2. QED
      BY <1>1, <1>5, <2>3, <3>1 DEF Item
  <2>4. QED
    BY <2>1, <2>2, <2>3
<1>7. QED
  BY <1>5, <1>6

LEMMA HeardIsTold ==
    ASSUME NEW kind, NEW s, Heard(kind, s)
    PROVE  Told(kind, s)
<1> DEFINE R == {i \in DOMAIN s : s[i][1] = "recv"}
           k == Cardinality(R)
           whole == <<<<"conn", 0>>>> \o [i \in 1..k |-> <<"recv", i>>] \o <<<<"close", 0>>>>
<1>1. CASE kind = "udp"
  <2>1. PICK n \in Nat : s = Peer(n)
    BY <1>1 DEF Heard
  <2>2. s = [i \in 1..n |-> <<"recv", i>>]
    BY <2>1 DEF Peer
  <2>3. R = 1..n
    BY <2>2
  <2>4. k = n
    BY <2>3, IntervalCount
  <2>5. s = [i \in 1..k |-> <<"recv", i>>]
    BY <2>2, <2>4
  <2>6. QED
    BY <1>1, <2>5 DEF Told
<1>2. CASE kind # "udp" /\ s = Early
  BY <1>2 DEF Told, Early
<1>3. ASSUME kind # "udp", NEW m \in Nat, NEW n \in 0..(m + 2), s = Line(m, n) PROVE Told(kind, s)
  <2>1. n \in Nat
    BY <1>3
  <2>2. s \in Seq(Msg) /\ Len(s) = n /\ DOMAIN s = 1..n /\ \A i \in 1..n : s[i] = Item(m, i)
    BY <1>3, LineFacts, LenProperties
  <2> DEFINE h == IF n = 0 THEN 0 ELSE IF n <= m + 1 THEN n - 1 ELSE m
  <2>3. h \in Nat /\ h <= m /\ n <= h + 2 /\ (n = h + 2 => h = m)
    BY <2>1
  <2>4. R = 2..(h + 1)
    <3>1. \A i \in 1..n : Item(m, i)[1] = "recv" <=> i # 1 /\ i <= m + 1
      BY <2>1 DEF Item
    <3>2. \A i : i \in 1..n /\ i # 1 /\ i <= m + 1 <=> i \in 2..(h + 1)
      BY <2>1
    <3>3. R = {i \in 1..n : Item(m, i)[1] = "recv"}
      BY <2>2
    <3> HIDE DEF h, R
    <3>4. QED
      BY <3>1, <3>2, <3>3
  <2> HIDE DEF h, R
  <2>5. k = h
    BY <2>3, <2>4, IntervalCount
  <2>6. whole \in Seq(Msg) /\ Len(whole) = k + 2 /\ \A i \in 1..(k + 2) : whole[i] = Item(k, i)
    BY <2>3, <2>5, WholeLine
  <2> HIDE DEF whole
  <2>7. \A i \in 1..n : i \in 1..(h + 2) /\ Item(h, i) = Item(m, i)
    BY <2>1, <2>3 DEF Item
  <2>8. n <= h + 2 /\ \A i \in 1..n : s[i] = whole[i]
    BY <2>2, <2>3, <2>5, <2>6, <2>7
  <2>9. SubSeq(s, 1, n) = SubSeq(whole, 1, n)
    <3>1. SubSeq(s, 1, n) = [i \in 1..(n - 1 + 1) |-> s[1 + i - 1]] /\ SubSeq(whole, 1, n) = [i \in 1..(n - 1 + 1) |-> whole[1 + i - 1]]
      OBVIOUS
    <3>2. \A i \in 1..(n - 1 + 1) : i \in 1..n /\ 1 + i - 1 = i
      BY <2>1
    <3>3. QED
      BY <2>8, <3>1, <3>2
  <2>10. IsPrefix(s, whole)
    BY <2>2, <2>5, <2>6, <2>8, <2>9 DEF IsPrefix
  <2>11. QED
    BY <1>3, <2>10 DEF Told, whole, R
<1>4. QED
  BY <1>1, <1>2, <1>3 DEF Heard

-----------------------------------------------------------------------------
(* Network objects: the record, and where a connection is.                 *)

LEMMA NetChanges ==
    ASSUME NEW n \in NetRec, NEW q \in Seq(Send), NEW d \in {0, 1}, NEW c \in Conns \cup {0}, NEW i \in Nat
    PROVE  /\ [n EXCEPT !.pending = q] \in NetRec /\ [n EXCEPT !.calls = i] \in NetRec
           /\ [n EXCEPT !.depth = d] \in NetRec /\ [n EXCEPT !.lastPeer = c] \in NetRec
           /\ [n EXCEPT !.closing = TRUE] \in NetRec /\ [n EXCEPT !.live = FALSE] \in NetRec
<1> DEFINE S == Seq(Send)
           C == Conns \cup {0}
           NR == [kind : {"server", "client", "udp"}, handshake : BOOLEAN, live : BOOLEAN, depth : {0, 1}, closing : BOOLEAN,
                  pending : S, lastPeer : C, calls : Nat]
<1>1. NetRec = NR /\ q \in S /\ c \in C
  BY DEF NetRec
<1> HIDE DEF S, C
<1>2. n \in NR
  BY <1>1
<1>3. [n EXCEPT !.pending = q] \in NR /\ [n EXCEPT !.calls = i] \in NR
  BY <1>1, <1>2
<1>4. [n EXCEPT !.depth = d] \in NR /\ [n EXCEPT !.lastPeer = c] \in NR
  BY <1>1, <1>2
<1>5. [n EXCEPT !.closing = TRUE] \in NR /\ [n EXCEPT !.live = FALSE] \in NR
  BY <1>2
<1>6. QED
  BY <1>1, <1>3, <1>4, <1>5

LEMMA NetFields ==
    ASSUME NEW n \in NetRec
    PROVE  /\ n.kind \in {"server", "client", "udp"} /\ n.handshake \in BOOLEAN /\ n.live \in BOOLEAN /\ n.depth \in {0, 1}
           /\ n.closing \in BOOLEAN /\ n.pending \in Seq(Send) /\ n.lastPeer \in Conns \cup {0} /\ n.calls \in Nat
BY DEF NetRec

LEMMA ReleaseIs ==
    ASSUME NEW n \in NetRec
    PROVE  /\ Release(n) \in NetRec /\ Release(n).kind = n.kind /\ ~Release(n).live /\ Release(n).pending = <<>>
           /\ Release(n).lastPeer = n.lastPeer
<1> DEFINE m == [n EXCEPT !.live = FALSE]
<1>1. <<>> \in Seq(Send) /\ 0 \in {0, 1} /\ 0 \in Conns \cup {0} /\ 0 \in Nat
  OBVIOUS
<1>2. m \in NetRec
  BY <1>1, NetChanges
<1>3. n = [kind |-> n.kind, handshake |-> n.handshake, live |-> n.live, depth |-> n.depth, closing |-> n.closing,
           pending |-> n.pending, lastPeer |-> n.lastPeer, calls |-> n.calls]
  BY DEF NetRec
<1>4. Release(n) = [m EXCEPT !.pending = <<>>]
  BY <1>3 DEF Release
<1>5. Release(n) \in NetRec
  <2> HIDE DEF m
  <2>1. QED
    BY <1>1, <1>2, <1>4, NetChanges
<1>6. /\ Release(n).kind = n.kind /\ ~Release(n).live /\ Release(n).pending = <<>>
      /\ Release(n).lastPeer = n.lastPeer
  BY <1>3 DEF Release
<1>7. QED
  BY <1>5, <1>6

\* The end of a tick.
LEMMA FinishIs ==
    ASSUME NetTyped, FinishTick
    PROVE  /\ net' \in NetRec /\ net'.kind = net.kind /\ net'.pending = <<>> /\ (net'.live => net.live)
           /\ npc' = "out" /\ stack' = <<>> /\ batch' = <<>> /\ DoSend(net.pending)
<1> DEFINE m == [net EXCEPT !.depth = 0]
           n == [net EXCEPT !.depth = 0, !.pending = <<>>]
<1>1. <<>> \in Seq(Send) /\ 0 \in {0, 1} /\ 0 \in Conns \cup {0} /\ 0 \in Nat /\ net \in NetRec
  BY DEF NetTyped
<1>2. m \in NetRec
  BY <1>1, NetChanges
<1>3. net = [kind |-> net.kind, handshake |-> net.handshake, live |-> net.live, depth |-> net.depth, closing |-> net.closing,
           pending |-> net.pending, lastPeer |-> net.lastPeer, calls |-> net.calls]
  BY <1>1 DEF NetRec
<1>4. n = [m EXCEPT !.pending = <<>>]
  BY <1>3
<1>5. n \in NetRec
  <2> HIDE DEF m, n
  <2>1. QED
    BY <1>1, <1>2, <1>4, NetChanges
<1>6. n.kind = net.kind /\ n.pending = <<>> /\ n.live = net.live
  BY <1>3
<1>7. net' = IF n.closing THEN Release(n) ELSE n
  BY DEF FinishTick
<1> HIDE DEF n
<1>8. /\ Release(n) \in NetRec /\ Release(n).kind = n.kind /\ ~Release(n).live /\ Release(n).pending = <<>>
  BY <1>5, ReleaseIs
<1>9. CASE n.closing
  BY <1>6, <1>7, <1>8, <1>9 DEF FinishTick
<1>10. CASE ~n.closing
  BY <1>5, <1>6, <1>7, <1>10 DEF FinishTick
<1>11. QED
  BY <1>9, <1>10

\* The slot that a new connection takes.
LEMMA FreeSlotIs ==
    ASSUME NetTyped
    PROVE  /\ FreeSlot \in 1..(Len(slots) + 1)
           /\ FreeSlot \in DOMAIN slots => ~IsOpen(slots[FreeSlot])
<1> DEFINE F == {i \in DOMAIN slots : ~IsOpen(slots[i])}
<1>1. Len(slots) \in Nat /\ DOMAIN slots = 1..Len(slots)
  BY LenProperties DEF NetTyped
<1>2. FreeSlot = IF F = {} THEN Len(slots) + 1 ELSE CHOOSE i \in F : \A j \in F : i <= j
  BY DEF FreeSlot
<1>3. CASE F = {}
  BY <1>1, <1>2, <1>3
<1>4. CASE F # {}
  <2>1. F \in SUBSET Nat
    BY <1>1
  <2>2. PICK m \in F : \A n \in F : ~(n < m)
    BY <1>4, <2>1, LeastExists
  <2>3. \E i \in F : \A j \in F : i <= j
    BY <2>1, <2>2
  <2>4. FreeSlot \in F
    BY <1>2, <1>4, <2>3
  <2>5. QED
    BY <1>1, <2>4
<1>5. QED
  BY <1>3, <1>4

LEMMA SlotOfIs ==
    ASSUME NetTyped, Placed, net.live, NEW c \in Conns, IsOpen(c)
    PROVE  SlotOf(c) \in Nat /\ At(c, SlotOf(c))
<1>1. CASE net.kind = "udp"
  BY <1>1 DEF SlotOf, At, IsOpen
<1>2. CASE net.kind # "udp"
  <2>1. \E i \in DOMAIN slots : slots[i] = c
    BY <1>2 DEF Placed, HasSlot
  <2>2. SlotOf(c) \in DOMAIN slots /\ slots[SlotOf(c)] = c
    BY <1>2, <2>1 DEF SlotOf
  <2>3. DOMAIN slots = 1..Len(slots) /\ Len(slots) \in Nat
    BY LenProperties DEF NetTyped
  <2>4. QED
    BY <1>2, <2>2, <2>3 DEF At, IsOpen
<1>3. QED
  BY <1>1, <1>2

LEMMA ConnFields ==
    ASSUME NetTyped, NEW c \in Conns
    PROVE  conn[c] \in ConnRec /\ conn[c].st \in {"none", "open", "closed"} /\ conn[c].ready \in BOOLEAN /\ conn[c].msgs \in Nat
           /\ c # 0
<1>1. c # 0
  BY DEF Conns
<1>2. QED
  BY <1>1 DEF NetTyped, ConnRec

-----------------------------------------------------------------------------
(* Network objects: what the engine does.                                  *)

\* What At says of a connection stays true.
Stays == \A c \in Conns : \A i : At(c, i) => At(c, i)'

LEMMA WaitingIs ==
    ASSUME NetTyped
    PROVE  /\ Waiting \in Seq(Ev) /\ Len(Waiting) = Len(batch) + Len(queue)
           /\ batch = <<>> => Waiting = queue
           /\ \A j \in DOMAIN Waiting : Waiting[j] \in Ev
<1>1. batch \in Seq(Ev) /\ queue \in Seq(Ev)
  BY DEF NetTyped
<1>2. Waiting \in Seq(Ev) /\ Len(Waiting) = Len(batch) + Len(queue)
  BY <1>1, ConcatProperties DEF Waiting
<1>3. batch = <<>> => Waiting = queue
  BY <1>1, ConcatEmptySeq DEF Waiting
<1>4. QED
  BY <1>2, <1>3, ElementOfSeq, LenProperties

LEMMA Announced ==
    ASSUME NetTyped, NEW e \in Ev, Emits(<<e>>), batch' = batch
    PROVE  queue' \in Seq(Ev) /\ Waiting' = Append(Waiting, e)
<1>1. batch \in Seq(Ev) /\ queue \in Seq(Ev) /\ <<e>> \in Seq(Ev)
  BY DEF NetTyped
<1>2. queue' = queue \o <<e>>
  BY DEF Emits
<1>3. queue' \in Seq(Ev)
  BY <1>1, <1>2, ConcatProperties
<1>4. batch \o (queue \o <<e>>) = (batch \o queue) \o <<e>>
  BY <1>1, ConcatAssociative
<1>5. (batch \o queue) \o <<e>> = Append(batch \o queue, e)
  BY <1>1, AppendIsConcat, ConcatProperties
<1>6. QED
  BY <1>2, <1>3, <1>4, <1>5 DEF Waiting

\* One more event, of a connection that is where the event says.
LEMMA EventsAtMore ==
    ASSUME NetTyped, EventsAt, PeersOnly, Stays, net'.kind = net.kind, NEW e \in Ev, Waiting' = Append(Waiting, e),
           At(e.conn, e.slot)', net.kind = "udp" => e.kind = "recv"
    PROVE  EventsAt' /\ (net.kind = "udp" => \A j \in DOMAIN Waiting' : Waiting'[j].kind = "recv")
<1>1. Waiting \in Seq(Ev) /\ \A j \in DOMAIN Waiting : Waiting[j] \in Ev /\ Waiting[j].conn \in Conns
  BY WaitingIs DEF Ev
<1>2. \A j \in DOMAIN Waiting' : (j \in DOMAIN Waiting /\ Waiting'[j] = Waiting[j]) \/ Waiting'[j] = e
  <2> DEFINE k == Len(Waiting)
  <2>1. k \in Nat /\ DOMAIN Waiting = 1..k
    BY <1>1, LenProperties
  <2>2. DOMAIN Append(Waiting, e) = 1..(k + 1) /\ Append(Waiting, e)[k + 1] = e /\ \A i \in 1..k : Append(Waiting, e)[i] = Waiting[i]
    BY <1>1, AppendProperties, LenProperties
  <2> HIDE DEF k
  <2>3. \A i \in 1..(k + 1) : i \in 1..k \/ i = k + 1
    BY <2>1
  <2>4. QED
    BY <2>1, <2>2, <2>3
<1>3. ASSUME NEW j \in DOMAIN Waiting' PROVE At(Waiting[j].conn, Waiting[j].slot)'
  <2>1. CASE j \in DOMAIN Waiting /\ Waiting'[j] = Waiting[j]
    <3>1. Waiting[j].conn \in Conns /\ At(Waiting[j].conn, Waiting[j].slot)
      BY <1>1, <2>1 DEF EventsAt
    <3>2. QED
      BY <2>1, <3>1 DEF Stays, At
  <2>2. CASE Waiting'[j] = e
    BY <2>2 DEF At
  <2>3. QED
    BY <1>2, <2>1, <2>2
<1>4. net.kind = "udp" => \A j \in DOMAIN Waiting' : Waiting'[j].kind = "recv"
  BY <1>2 DEF PeersOnly
<1>5. QED
  BY <1>3, <1>4 DEF EventsAt

LEMMA FramesAndSendsStay ==
    ASSUME NetTyped, Stays, net'.kind = net.kind
    PROVE  /\ FramesAt /\ stack' = stack => FramesAt'
           /\ SendsAt /\ net'.pending = net.pending => SendsAt'
<1>1. \A j \in DOMAIN stack : stack[j] \in Frame /\ stack[j].conn \in Conns
  <2>1. \A j \in DOMAIN stack : stack[j] \in Frame
    BY ElementOfSeq, LenProperties DEF NetTyped
  <2>2. QED
    BY <2>1 DEF Frame
<1>2. \A j \in DOMAIN net.pending : net.pending[j] \in Send /\ net.pending[j].from \in Conns \cup {0}
  <2>1. \A j \in DOMAIN net.pending : net.pending[j] \in Send
    BY NetFields, ElementOfSeq, LenProperties DEF NetTyped
  <2>2. QED
    BY <2>1 DEF Send
<1>3. QED
  BY <1>1, <1>2 DEF FramesAt, SendsAt, Answers, Stays, At

\* One event of the engine: connection c changes, and its event waits.
LEMMA EngineStep ==
    ASSUME NetSizes, NetInv, net.live, npc = "out", NEW c \in Conns, conn[c].st = "open", NEW k \in ConnRec, NEW e \in Ev,
           conn' = [conn EXCEPT ![c] = k], Emits(<<e>>), UNCHANGED <<net, slots, batch, stack, npc>>, Script,
           e.conn = c, e.slot = SlotOf(c), k.st \in {"open", "closed"},
           net.kind = "udp" => e.kind = "recv" /\ k.st = "open",
           net.kind # "udp" => (k.st # "closed" /\ ~k.ready => k.msgs = 0) /\ (k.st # "open" => ~k.ready),
           c \notin spoiled => OnTheWay(net.kind, k, seen[c], Append(Waiting, e), c)
    PROVE  NetInv'
<1>1. NetTyped /\ Phase /\ Placed /\ Fresh /\ Ordered /\ EchoStraysOnlyWhenGone
  BY DEF NetInv
<1>2. queue' \in Seq(Ev) /\ Waiting' = Append(Waiting, e)
  BY <1>1, Announced
<1>3. conn' \in [Conns -> ConnRec] /\ conn'[c] = k /\ \A d \in Conns : d # c => conn'[d] = conn[d]
  BY <1>1 DEF NetTyped
<1>4. NetTyped'
  BY <1>1, <1>2, <1>3 DEF NetTyped, Script
<1>5. Phase'
  BY <1>1 DEF Phase
<1>6. Stays
  BY <1>3 DEF Stays, At
<1>7. SlotOf(c) \in Nat /\ At(c, SlotOf(c))
  BY <1>1, SlotOfIs, ConnFields DEF IsOpen
<1>8. At(e.conn, e.slot)'
  BY <1>6, <1>7 DEF Stays, At
<1>9. Placed'
  <2>1. EventsAt' /\ (net.kind = "udp" => \A j \in DOMAIN Waiting' : Waiting'[j].kind = "recv")
    BY <1>1, <1>2, <1>6, <1>8, EventsAtMore DEF Placed
  <2>2. FramesAt' /\ SendsAt'
    BY <1>1, <1>6, FramesAndSendsStay DEF Placed
  <2>3. HasSlot'
    BY <1>1, <1>3 DEF Placed, HasSlot, IsOpen
  <2>4. PeersOnly'
    BY <1>1, <1>3, <2>1 DEF Placed, PeersOnly
  <2>6. Taken'
    BY <1>1, <1>3 DEF Placed, Taken
  <2>5. QED
    BY <2>1, <2>2, <2>3, <2>4, <2>6 DEF Placed
<1>10. Fresh'
  BY <1>1, <1>3 DEF Fresh
<1>11. Ordered'
  <2>1. ASSUME NEW d \in Conns \ spoiled, d # c PROVE OnTheWay(net.kind, conn[d], seen[d], Append(Waiting, e), d)
    <3>1. conn[d] \in ConnRec /\ seen[d] \in Seq(Msg) /\ Waiting \in Seq(Ev)
      BY <1>1, WaitingIs DEF NetTyped
    <3>2. OnTheWay(net.kind, conn[d], seen[d], Waiting, d)
      BY <1>1 DEF Ordered
    <3>3. QED
      BY <2>1, <3>1, <3>2, WayOther
  <2>2. ASSUME NEW d \in Conns \ spoiled PROVE OnTheWay(net.kind, conn'[d], seen[d], Append(Waiting, e), d)
    <3>1. CASE d = c
      BY <1>3, <3>1
    <3>2. CASE d # c
      BY <1>3, <2>1, <3>2
    <3>3. QED
      BY <3>1, <3>2
  <2>3. QED
    BY <1>2, <2>2 DEF Ordered, Script
<1>13. EchoStraysOnlyWhenGone'
  <2>1. \A x \in echoed : x.from \in Conns
    BY <1>1 DEF NetTyped
  <2>2. QED
    BY <1>1, <1>3, <2>1 DEF EchoStraysOnlyWhenGone, Script
<1>12. QED
  BY <1>4, <1>5, <1>9, <1>10, <1>11, <1>13 DEF NetInv

LEMMA EventIs ==
    ASSUME NEW kind \in EventKinds, NEW c \in Conns, NEW slot \in Nat, NEW msg \in Nat
    PROVE  /\ Event(kind, c, slot, msg) \in Ev /\ Event(kind, c, slot, msg).kind = kind
           /\ Event(kind, c, slot, msg).conn = c /\ Event(kind, c, slot, msg).slot = slot /\ Event(kind, c, slot, msg).msg = msg
BY DEF Event, Ev

LEMMA StepMarkReady ==
    ASSUME NetSizes, NetInv, NEW c \in Conns, MarkReady(c)
    PROVE  NetInv'
<1> DEFINE e == Event("conn", c, SlotOf(c), 0)
           k == [conn[c] EXCEPT !.ready = TRUE]
<1>1. NetTyped /\ Placed /\ Fresh /\ Ordered /\ net.live /\ npc = "out" /\ conn[c].st = "open" /\ ~conn[c].ready /\ net.kind # "udp"
  BY DEF NetInv, MarkReady, Polling, IsOpen
<1>2. SlotOf(c) \in Nat
  BY <1>1, SlotOfIs, ConnFields DEF IsOpen
<1>3. e \in Ev /\ e.kind = "conn" /\ e.conn = c /\ e.slot = SlotOf(c) /\ e.msg = 0
  BY <1>2, EventIs DEF EventKinds
<1>4. k \in ConnRec /\ k.st = "open" /\ k.ready /\ k.msgs = conn[c].msgs /\ conn[c] \in ConnRec
  BY <1>1, ConnFields DEF ConnRec
<1>5. conn' = [conn EXCEPT ![c] = k] /\ Emits(<<e>>) /\ UNCHANGED <<net, slots, batch, stack, npc>> /\ Script
  BY DEF MarkReady
<1> HIDE DEF e, k
<1>6. k.msgs = 0
  BY <1>1, <1>4 DEF Fresh
<1>7. ASSUME c \notin spoiled PROVE OnTheWay(net.kind, k, seen[c], Append(Waiting, e), c)
  <2>1. seen[c] \in Seq(Msg) /\ Waiting \in Seq(Ev)
    BY <1>1, WaitingIs DEF NetTyped
  <2>2. OnTheWay(net.kind, conn[c], seen[c], Waiting, c)
    BY <1>1, <1>7 DEF Ordered
  <2>3. conn[c].st # "closed"
    BY <1>1
  <2>4. QED
    BY <1>1, <1>3, <1>4, <1>6, <2>1, <2>2, <2>3, WayConn
<1>8. QED
  BY <1>1, <1>3, <1>4, <1>5, <1>6, <1>7, EngineStep

LEMMA StepHandleRead ==
    ASSUME NetSizes, NetInv, NEW c \in Conns, HandleRead(c)
    PROVE  NetInv'
<1> DEFINE e == Event("recv", c, SlotOf(c), conn[c].msgs + 1)
           k == [conn[c] EXCEPT !.msgs = @ + 1]
<1>1. NetTyped /\ Placed /\ Fresh /\ Ordered /\ net.live /\ npc = "out" /\ conn[c].st = "open" /\ conn[c].ready
  BY DEF NetInv, HandleRead, Polling, IsOpen, Ready
<1>2. SlotOf(c) \in Nat /\ conn[c].msgs + 1 \in Nat
  BY <1>1, SlotOfIs, ConnFields DEF IsOpen
<1>3. e \in Ev /\ e.kind = "recv" /\ e.conn = c /\ e.slot = SlotOf(c) /\ e.msg = conn[c].msgs + 1
  BY <1>2, EventIs DEF EventKinds
<1>4. k \in ConnRec /\ k.st = "open" /\ k.ready /\ k.msgs = conn[c].msgs + 1 /\ conn[c] \in ConnRec
  BY <1>1, <1>2, ConnFields DEF ConnRec
<1>5. conn' = [conn EXCEPT ![c] = k] /\ Emits(<<e>>) /\ UNCHANGED <<net, slots, batch, stack, npc>> /\ Script
  BY DEF HandleRead
<1> HIDE DEF e, k
<1>7. ASSUME c \notin spoiled PROVE OnTheWay(net.kind, k, seen[c], Append(Waiting, e), c)
  <2>1. seen[c] \in Seq(Msg) /\ Waiting \in Seq(Ev)
    BY <1>1, WaitingIs DEF NetTyped
  <2>2. OnTheWay(net.kind, conn[c], seen[c], Waiting, c)
    BY <1>1, <1>7 DEF Ordered
  <2>3. e.msg = k.msgs
    BY <1>3, <1>4
  <2>4. QED
    BY <1>1, <1>3, <1>4, <2>1, <2>2, <2>3, WayRecv
<1>8. QED
  BY <1>1, <1>3, <1>4, <1>5, <1>7, EngineStep

\* A connection that is closed.
LEMMA ClosedConn ==
    ASSUME NetTyped, NEW c \in Conns, CloseConn(c)
    PROVE  \E k \in ConnRec : conn' = [conn EXCEPT ![c] = k] /\ k.st = "closed" /\ ~k.ready /\ k.msgs = conn[c].msgs
<1> DEFINE k == [conn[c] EXCEPT !.st = "closed", !.ready = FALSE]
<1>1. conn[c] \in ConnRec
  BY ConnFields
<1>2. k \in ConnRec /\ k.st = "closed" /\ ~k.ready /\ k.msgs = conn[c].msgs
  BY <1>1 DEF ConnRec
<1>3. conn' = [conn EXCEPT ![c] = k]
  BY DEF CloseConn, NetTyped
<1>4. QED
  BY <1>2, <1>3

LEMMA StepEventCb ==
    ASSUME NetSizes, NetInv, NEW c \in Conns, EventCb(c)
    PROVE  NetInv'
<1> DEFINE e == Event("close", c, SlotOf(c), 0)
<1>1. NetTyped /\ Placed /\ Fresh /\ Ordered /\ net.live /\ npc = "out" /\ conn[c].st = "open" /\ net.kind # "udp" /\ CloseConn(c)
  BY DEF NetInv, EventCb, Polling, IsOpen
<1>2. SlotOf(c) \in Nat
  BY <1>1, SlotOfIs, ConnFields DEF IsOpen
<1>3. e \in Ev /\ e.kind = "close" /\ e.conn = c /\ e.slot = SlotOf(c) /\ e.msg = 0
  BY <1>2, EventIs DEF EventKinds
<1>4. PICK k \in ConnRec : conn' = [conn EXCEPT ![c] = k] /\ k.st = "closed" /\ ~k.ready /\ k.msgs = conn[c].msgs
  BY <1>1, ClosedConn
<1>5. Emits(<<e>>) /\ UNCHANGED <<net, slots, batch, stack, npc>> /\ Script
  BY DEF EventCb
<1> HIDE DEF e
<1>7. ASSUME c \notin spoiled PROVE OnTheWay(net.kind, k, seen[c], Append(Waiting, e), c)
  <2>1. conn[c] \in ConnRec /\ seen[c] \in Seq(Msg) /\ Waiting \in Seq(Ev)
    BY <1>1, WaitingIs DEF NetTyped
  <2>2. OnTheWay(net.kind, conn[c], seen[c], Waiting, c)
    BY <1>1, <1>7 DEF Ordered
  <2>3. ~conn[c].ready => conn[c].msgs = 0
    BY <1>1 DEF Fresh
  <2>4. QED
    BY <1>1, <1>3, <1>4, <2>1, <2>2, <2>3, WayClose
<1>8. QED
  BY <1>1, <1>3, <1>4, <1>5, <1>7, EngineStep

LEMMA SeqPut ==
    ASSUME NEW S, NEW s \in Seq(S), NEW i \in DOMAIN s, NEW x \in S
    PROVE  /\ [s EXCEPT ![i] = x] \in Seq(S) /\ Len([s EXCEPT ![i] = x]) = Len(s)
           /\ DOMAIN [s EXCEPT ![i] = x] = DOMAIN s
<1>1. i \in 1..Len(s)
  BY LenProperties
<1>2. QED
  BY <1>1, ExceptSeq, LenProperties

\* The slots with connection c in a slot that was free.
LEMMA SlotsWith ==
    ASSUME NetTyped, NEW c \in Conns, conn[c].st = "none",
           slots' = IF FreeSlot > Len(slots) THEN Append(slots, c) ELSE [slots EXCEPT ![FreeSlot] = c]
    PROVE  /\ slots' \in Seq(Conns \cup {0}) /\ FreeSlot \in DOMAIN slots' /\ slots'[FreeSlot] = c /\ FreeSlot \in Nat
           /\ \A i \in DOMAIN slots : IsOpen(slots[i]) => i \in DOMAIN slots' /\ slots'[i] = slots[i]
           /\ \A i \in DOMAIN slots' : slots'[i] = c \/ (i \in DOMAIN slots /\ slots'[i] = slots[i])
<1> DEFINE k == Len(slots)
           n == FreeSlot
           S == Conns \cup {0}
<1>1. k \in Nat /\ DOMAIN slots = 1..k /\ slots \in Seq(S) /\ c \in S
  BY LenProperties DEF NetTyped
<1>2. n \in 1..(k + 1) /\ (n \in DOMAIN slots => ~IsOpen(slots[n]))
  BY FreeSlotIs
<1>3. slots' = IF n > k THEN Append(slots, c) ELSE [slots EXCEPT ![n] = c]
  OBVIOUS
<1> HIDE DEF k, n, S
<1>4. CASE n > k
  <2>1. slots' \in Seq(S) /\ Len(slots') = Len(slots) + 1 /\ slots'[Len(slots) + 1] = c /\ \A i \in 1..Len(slots) : slots'[i] = slots[i]
    BY <1>1, <1>3, <1>4, AppendProperties
  <2>2. n = k + 1
    BY <1>1, <1>2, <1>4
  <2>3. DOMAIN slots' = 1..(k + 1)
    BY <1>1, <2>1, LenProperties DEF k
  <2>4. n \in DOMAIN slots' /\ slots'[n] = c /\ n \in Nat
    BY <1>1, <1>2, <2>1, <2>2, <2>3 DEF k
  <2>5. \A i \in DOMAIN slots : i \in DOMAIN slots' /\ slots'[i] = slots[i]
    BY <1>1, <2>1, <2>3 DEF k
  <2>7. \A i \in 1..(k + 1) : i \in 1..k \/ i = n
    BY <1>1, <2>2
  <2>8. \A i \in DOMAIN slots' : slots'[i] = c \/ (i \in DOMAIN slots /\ slots'[i] = slots[i])
    BY <1>1, <2>3, <2>4, <2>5, <2>7
  <2>6. QED
    BY <2>1, <2>4, <2>5, <2>8 DEF n, S
<1>5. CASE ~(n > k)
  <2>1. n \in 1..k /\ n \in Nat
    BY <1>1, <1>2, <1>5
  <2>2. slots' = [slots EXCEPT ![n] = c]
    BY <1>3, <1>5
  <2>3. slots' \in Seq(S) /\ Len(slots') = Len(slots) /\ DOMAIN slots' = DOMAIN slots
    <3>1. n \in DOMAIN slots
      BY <1>1, <2>1
    <3>2. /\ [slots EXCEPT ![n] = c] \in Seq(S) /\ Len([slots EXCEPT ![n] = c]) = Len(slots)
          /\ DOMAIN [slots EXCEPT ![n] = c] = DOMAIN slots
      BY <1>1, <3>1, SeqPut
    <3>3. QED
      BY <2>2, <3>2
  <2>4. slots'[n] = c /\ \A i \in DOMAIN slots : i # n => slots'[i] = slots[i]
    BY <1>1, <2>1, <2>2
  <2>5. QED
    BY <1>1, <1>2, <2>1, <2>3, <2>4 DEF n, S
<1>6. QED
  BY <1>4, <1>5

LEMMA StepOnAccept ==
    ASSUME NetSizes, NetInv, OnAccept
    PROVE  NetInv'
<1>1. NetTyped /\ Phase /\ Placed /\ Fresh /\ Ordered /\ EchoStraysOnlyWhenGone
      /\ net.live /\ npc = "out" /\ net.kind # "udp"
  BY DEF NetInv, OnAccept, Polling
<1>2. PICK c \in Conns :
          /\ conn[c].st = "none"
          /\ conn' = [conn EXCEPT ![c].st = "open", ![c].ready = ~net.handshake]
          /\ slots' = IF FreeSlot > Len(slots) THEN Append(slots, c) ELSE [slots EXCEPT ![FreeSlot] = c]
          /\ Emits(IF net.handshake THEN <<>> ELSE <<Event("conn", c, FreeSlot, 0)>>)
  BY DEF OnAccept
<1>3. UNCHANGED <<net, batch, stack, npc>> /\ Script
  BY DEF OnAccept
<1>16. PICK n : n = FreeSlot
  OBVIOUS
<1> DEFINE k == conn'[c]
<1>4. /\ conn' \in [Conns -> ConnRec] /\ k \in ConnRec /\ k.st = "open" /\ (k.ready <=> ~net.handshake) /\ k.msgs = 0
      /\ conn[c] \in ConnRec /\ ~conn[c].ready /\ \A d \in Conns : d # c => conn'[d] = conn[d]
  <2>1. conn[c] \in ConnRec /\ ~conn[c].ready /\ conn[c].msgs = 0
    BY <1>1, <1>2, ConnFields DEF Fresh
  <2>2. (~net.handshake) \in BOOLEAN
    OBVIOUS
  <2> DEFINE h == ~net.handshake
  <2>3. conn' = [conn EXCEPT ![c] = [conn[c] EXCEPT !.st = "open", !.ready = h]]
    BY <1>1, <1>2 DEF NetTyped
  <2>4. h \in BOOLEAN
    OBVIOUS
  <2> HIDE DEF h
  <2>5. [conn[c] EXCEPT !.st = "open", !.ready = h] \in ConnRec
    BY <2>1, <2>4 DEF ConnRec
  <2>6. k = [conn[c] EXCEPT !.st = "open", !.ready = h] /\ conn' \in [Conns -> ConnRec] /\ \A d \in Conns : d # c => conn'[d] = conn[d]
    BY <1>1, <2>3, <2>5 DEF NetTyped
  <2>7. k.st = "open" /\ k.ready = h /\ k.msgs = 0
    BY <2>1, <2>6 DEF ConnRec
  <2>8. k.ready <=> ~net.handshake
    BY <2>7 DEF h
  <2>9. QED
    BY <2>1, <2>5, <2>6, <2>7, <2>8
<1>5. /\ slots' \in Seq(Conns \cup {0}) /\ FreeSlot \in DOMAIN slots' /\ slots'[FreeSlot] = c /\ FreeSlot \in Nat
      /\ \A i \in DOMAIN slots : IsOpen(slots[i]) => i \in DOMAIN slots' /\ slots'[i] = slots[i]
      /\ \A i \in DOMAIN slots' : slots'[i] = c \/ (i \in DOMAIN slots /\ slots'[i] = slots[i])
  BY <1>1, <1>2, SlotsWith
<1>6. PICK e \in Ev : e.kind = "conn" /\ e.conn = c /\ e.slot = n /\ e.msg = 0 /\ e = Event("conn", c, FreeSlot, 0)
  BY <1>5, <1>16, EventIs DEF EventKinds
<1> HIDE DEF k
<1>7. Stays
  <2> SUFFICES ASSUME NEW d \in Conns, NEW i, At(d, i) PROVE At(d, i)'
    BY DEF Stays
  <2>1. d # c
    BY <1>2 DEF At
  <2>2. conn'[d] = conn[d] /\ d # 0
    BY <1>1, <1>4, <2>1, ConnFields
  <2>3. QED
    BY <1>3, <1>5, <2>2 DEF At, IsOpen
<1>8. At(e.conn, e.slot)'
  BY <1>4, <1>5, <1>6, <1>16 DEF At, k
<1>9. /\ queue' \in Seq(Ev)
      /\ net.handshake => Waiting' = Waiting
      /\ ~net.handshake => Waiting' = Append(Waiting, e)
  <2>1. CASE net.handshake
    <3>1. queue' = queue \o <<>> /\ queue \in Seq(Ev)
      BY <1>1, <1>2, <2>1 DEF Emits, NetTyped
    <3>2. queue' = queue
      BY <3>1, ConcatEmptySeq
    <3>3. QED
      BY <1>3, <2>1, <3>1, <3>2 DEF Waiting
  <2>2. CASE ~net.handshake
    <3>1. Emits(<<e>>)
      BY <1>2, <1>6, <2>2
    <3>2. QED
      BY <1>1, <1>3, <1>6, <2>2, <3>1, Announced
  <2>3. QED
    BY <2>1, <2>2
<1>10. NetTyped'
  BY <1>1, <1>3, <1>4, <1>5, <1>9 DEF NetTyped, Script
<1>11. Phase'
  BY <1>1, <1>3 DEF Phase
<1>12. Placed'
  <2>1. FramesAt' /\ SendsAt'
    BY <1>1, <1>3, <1>7, FramesAndSendsStay DEF Placed
  <2>2. PeersOnly'
    BY <1>1, <1>3 DEF PeersOnly
  <2>3. HasSlot'
    <3> SUFFICES ASSUME NEW d \in Conns, conn'[d].st = "open" PROVE \E i \in DOMAIN slots' : slots'[i] = d
      BY DEF HasSlot, IsOpen
    <3>1. CASE d = c
      BY <1>5, <3>1
    <3>2. CASE d # c
      <4>1. conn[d].st = "open" /\ d # 0
        BY <1>1, <1>4, <3>2, ConnFields
      <4>2. QED
        BY <1>1, <1>5, <4>1 DEF Placed, HasSlot, IsOpen
    <3>3. QED
      BY <3>1, <3>2
  <2>4. EventsAt'
    <3>1. CASE net.handshake
      <4>1. \A j \in DOMAIN Waiting : Waiting[j].conn \in Conns
        BY <1>1, WaitingIs DEF Ev
      <4>2. QED
        BY <1>1, <1>7, <1>9, <3>1, <4>1 DEF Placed, EventsAt, Stays, At
    <3>2. CASE ~net.handshake
      BY <1>1, <1>3, <1>7, <1>8, <1>9, <3>2, EventsAtMore DEF Placed
    <3>3. QED
      BY <3>1, <3>2
  <2>6. Taken'
    <3> SUFFICES ASSUME NEW i \in DOMAIN slots', slots'[i] # 0 PROVE conn'[slots'[i]].st # "none"
      BY DEF Taken
    <3>1. slots'[i] \in Conns
      <4>1. slots'[i] \in Conns \cup {0}
        BY <1>5, ElementOfSeq, LenProperties
      <4>2. QED
        BY <4>1
    <3>2. CASE slots'[i] = c
      BY <1>4, <3>2 DEF k
    <3>3. CASE slots'[i] # c
      BY <1>1, <1>4, <1>5, <3>1, <3>3 DEF Placed, Taken
    <3>4. QED
      BY <3>2, <3>3
  <2>5. QED
    BY <2>1, <2>2, <2>3, <2>4, <2>6 DEF Placed
<1>13. Fresh'
  BY <1>1, <1>3, <1>4 DEF Fresh, k
<1>14. Ordered'
  <2> SUFFICES ASSUME NEW d \in Conns \ spoiled PROVE OnTheWay(net.kind, conn'[d], seen[d], Waiting', d)
    BY <1>1, <1>3 DEF Ordered, Script
  <2>1. conn[d] \in ConnRec /\ seen[d] \in Seq(Msg) /\ Waiting \in Seq(Ev)
    BY <1>1, WaitingIs DEF NetTyped
  <2>2. OnTheWay(net.kind, conn[d], seen[d], Waiting, d)
    BY <1>1 DEF Ordered
  <2>3. CASE d # c
    <3>1. conn'[d] = conn[d]
      BY <1>4, <2>3
    <3>2. ~net.handshake => OnTheWay(net.kind, conn[d], seen[d], Append(Waiting, e), d)
      BY <1>6, <2>1, <2>2, <2>3, WayOther
    <3>3. QED
      BY <1>9, <2>2, <3>1, <3>2
  <2>4. CASE d = c
    <3>1. conn'[d] = k /\ conn[d].st # "closed" /\ ~conn[d].ready
      BY <1>2, <1>4, <2>4 DEF k
    <3>2. net.handshake => OnTheWay(net.kind, k, seen[d], Waiting, d)
      BY <1>1, <1>4, <2>1, <2>2, <3>1, WaySilent
    <3>3. ~net.handshake => OnTheWay(net.kind, k, seen[d], Append(Waiting, e), d)
      BY <1>1, <1>4, <1>6, <2>1, <2>2, <2>4, <3>1, WayConn
    <3>4. QED
      BY <1>9, <3>1, <3>2, <3>3
  <2>5. QED
    BY <2>3, <2>4
<1>17. EchoStraysOnlyWhenGone'
  <2>1. \A x \in echoed : x.from \in Conns
    BY <1>1 DEF NetTyped
  <2>2. QED
    BY <1>1, <1>2, <1>3, <1>4, <2>1 DEF EchoStraysOnlyWhenGone, Script
<1>15. QED
  BY <1>10, <1>11, <1>12, <1>13, <1>14, <1>17 DEF NetInv

-----------------------------------------------------------------------------
(* Network objects: sends, answers and callbacks.                          *)

\* What is written: an answer goes to the connection that it answers, unless that is closed.
LEMMA WritesSound ==
    ASSUME NetTyped, EchoStraysOnlyWhenGone, NEW ps, DoSend(ps),
           \A q \in Range(ps) : q \in Send /\ (q.from # 0 => Answers(q))
    PROVE  /\ echoed' \subseteq [from : Conns, to : Conns]
           /\ \A x \in echoed' : x.from # x.to => conn[x.from].st = "closed"
<1> SUFFICES ASSUME NEW x \in echoed' PROVE x \in [from : Conns, to : Conns] /\ (x.from # x.to => conn[x.from].st = "closed")
  OBVIOUS
<1>1. CASE x \in echoed
  BY <1>1 DEF NetTyped, EchoStraysOnlyWhenGone
<1>2. CASE x \notin echoed
  <2>1. PICK p \in {q \in Range(ps) : q.from # 0 /\ Target(q.to) # 0} : x = [from |-> p.from, to |-> Target(p.to)]
    BY <1>2 DEF DoSend
  <2>2. p \in Send /\ p.from \in Conns /\ Answers(p) /\ Target(p.to) # 0
    BY <2>1 DEF Send
  <2>3. CASE net.kind = "udp"
    BY <2>1, <2>2, <2>3 DEF Answers, Target
  <2>4. CASE net.kind # "udp"
    <3>1. p.to \in DOMAIN slots /\ slots[p.to] # 0 /\ Target(p.to) = slots[p.to]
      BY <2>2, <2>4 DEF Target
    <3>2. slots[p.to] \in Conns
      <4>1. slots[p.to] \in Conns \cup {0}
        BY <3>1, ElementOfSeq, LenProperties DEF NetTyped
      <4>2. QED
        BY <3>1, <4>1
    <3>3. At(p.from, p.to)
      BY <2>2, <2>4 DEF Answers
    <3>4. QED
      BY <2>1, <2>2, <2>4, <3>1, <3>2, <3>3 DEF At
  <2>5. QED
    BY <2>3, <2>4
<1>3. QED
  BY <1>1, <1>2

\* A send, or an answer, goes out or waits.
LEMMA SendsSound ==
    ASSUME NetTyped, SendsAt, EchoStraysOnlyWhenGone, NEW n \in NetRec, NEW p \in Send, NEW late \in BOOLEAN,
           SendOrQueue(n, p, late), p.from # 0 => Answers(p), n.pending = net.pending
    PROVE  /\ net' \in NetRec /\ net'.kind = n.kind /\ (net'.live <=> n.live) /\ net'.depth = n.depth /\ net'.lastPeer = n.lastPeer
           /\ \A j \in DOMAIN net'.pending : (j \in DOMAIN net.pending /\ net'.pending[j] = net.pending[j])
                                             \/ (late /\ net'.pending[j] = p)
           /\ echoed' \subseteq [from : Conns, to : Conns]
           /\ \A x \in echoed' : x.from # x.to => conn[x.from].st = "closed"
<1>1. CASE late
  <2> DEFINE q == Append(n.pending, p)
  <2>1. n.pending \in Seq(Send) /\ q \in Seq(Send)
    BY NetFields, AppendProperties
  <2>2. \A j \in DOMAIN q : (j \in DOMAIN n.pending /\ q[j] = n.pending[j]) \/ q[j] = p
    <3> DEFINE k == Len(n.pending)
    <3>1. k \in Nat /\ DOMAIN n.pending = 1..k
      BY <2>1, LenProperties
    <3>2. DOMAIN q = 1..(k + 1) /\ q[k + 1] = p /\ \A i \in 1..k : q[i] = n.pending[i]
      BY <2>1, AppendProperties, LenProperties
    <3> HIDE DEF k, q
    <3>3. \A i \in 1..(k + 1) : i \in 1..k \/ i = k + 1
      BY <3>1
    <3>4. QED
      BY <3>1, <3>2, <3>3
  <2> HIDE DEF q
  <2>3. net' = IF Len(n.pending) < MaxPending THEN [n EXCEPT !.pending = q] ELSE n
    BY <1>1 DEF SendOrQueue, q, NetRec
  <2>4. [n EXCEPT !.pending = q] \in NetRec
    <3>1. 0 \in {0, 1} /\ 0 \in Conns \cup {0} /\ 0 \in Nat
      OBVIOUS
    <3>2. QED
      BY <2>1, <3>1, NetChanges
  <2> DEFINE m == [n EXCEPT !.pending = q]
  <2>6. m.kind = n.kind /\ m.live = n.live /\ m.depth = n.depth /\ m.lastPeer = n.lastPeer /\ m.pending = q
    BY DEF NetRec
  <2> HIDE DEF m
  <2>7. net' = m \/ net' = n
    BY <2>3 DEF m
  <2>8. m \in NetRec
    BY <2>4 DEF m
  <2>9. UNCHANGED echoed
    BY <1>1 DEF SendOrQueue
  <2>10. /\ net' \in NetRec /\ net'.kind = n.kind /\ (net'.live <=> n.live) /\ net'.depth = n.depth /\ net'.lastPeer = n.lastPeer
    BY <2>6, <2>7, <2>8
  <2>11. \A j \in DOMAIN net'.pending : (j \in DOMAIN net.pending /\ net'.pending[j] = net.pending[j])
                                             \/ (late /\ net'.pending[j] = p)
    BY <1>1, <2>2, <2>6, <2>7
  <2>12. QED
    BY <2>9, <2>10, <2>11 DEF NetTyped, EchoStraysOnlyWhenGone
<1>2. CASE ~late
  <2>1. net' = n /\ DoSend(<<p>>)
    BY <1>2 DEF SendOrQueue
  <2>2. \A q \in Range(<<p>>) : q \in Send /\ (q.from # 0 => Answers(q))
    BY DEF Range
  <2>3. QED
    BY <2>1, <2>2, WritesSound
<1>3. QED
  BY <1>1, <1>2

\* No connection changes, and no event.
LEMMA Unmoved ==
    ASSUME NetInv, UNCHANGED <<conn, slots, seen, spoiled>>, net'.kind = net.kind, net'.live <=> net.live, Waiting' = Waiting
    PROVE  Stays /\ HasSlot' /\ Taken' /\ EventsAt' /\ Fresh' /\ Ordered'
<1>1. Stays
  BY DEF Stays, At
<1>2. \A j \in DOMAIN Waiting : Waiting[j].conn \in Conns
  BY WaitingIs DEF NetInv, Ev
<1>3. HasSlot'
  BY DEF NetInv, Placed, HasSlot, IsOpen
<1>4. EventsAt'
  BY <1>1, <1>2 DEF NetInv, Placed, EventsAt, Stays, At
<1>5. Fresh'
  BY DEF NetInv, Fresh
<1>6. Ordered'
  BY DEF NetInv, Ordered
<1>8. Taken'
  BY DEF NetInv, Placed, Taken
<1>7. QED
  BY <1>1, <1>3, <1>4, <1>5, <1>6, <1>8

\* After a send or an answer: the sends that wait, and the phase.
LEMMA AfterSend ==
    ASSUME NetTyped, Phase, Placed, Stays, net' \in NetRec, net'.kind = net.kind, net'.live <=> net.live, net'.depth = net.depth,
           NEW p \in Send, p.from # 0 => Answers(p), p.own <=> InTick,
           \A j \in DOMAIN net'.pending : (j \in DOMAIN net.pending /\ net'.pending[j] = net.pending[j]) \/ net'.pending[j] = p,
           npc' = npc, batch' = batch, net.live, net.kind = "udp" => (p.from # 0 => p.to = p.from)
    PROVE  SendsAt' /\ Phase'
<1>1. \A j \in DOMAIN net.pending : net.pending[j] \in Send
  BY NetFields, ElementOfSeq, LenProperties DEF NetTyped
<1>2. \A j \in DOMAIN net'.pending : net'.pending[j] \in Send /\ (net'.pending[j].from # 0 => Answers(net'.pending[j]))
  BY <1>1 DEF Placed, SendsAt
<1>3. ASSUME NEW j \in DOMAIN net'.pending, net'.pending[j].from # 0 PROVE Answers(net.pending[j])'
  <2>1. net'.pending[j] \in Send /\ Answers(net'.pending[j]) /\ net'.pending[j].from \in Conns
    BY <1>2, <1>3 DEF Send
  <2>2. QED
    BY <2>1 DEF Answers, Stays, At
<1>4. SendsAt'
  BY <1>3 DEF SendsAt
<1>5. Phase'
  BY DEF Phase, InTick
<1>6. QED
  BY <1>4, <1>5

LEMMA StepNetSend ==
    ASSUME NetSizes, NetInv, NetSend
    PROVE  NetInv'
<1>1. NetTyped /\ Phase /\ Placed /\ Fresh /\ Ordered /\ EchoStraysOnlyWhenGone /\ net.live /\ net \in NetRec
  BY DEF NetInv, NetSend, CanCall, NetTyped
<1> DEFINE n == [net EXCEPT !.calls = @ + 1]
<1>2. PICK to \in 1..MaxSlots, foreign \in BOOLEAN : SendOrQueue(n, [to |-> to, from |-> 0, own |-> InTick], InTick \/ foreign)
  BY DEF NetSend
<1> DEFINE p == [to |-> to, from |-> 0, own |-> InTick]
           late == InTick \/ foreign
<1>3. UNCHANGED <<conn, slots, queue, batch, stack, npc, seen, spoiled, freed>>
  BY DEF NetSend
<1>4. InTick \in BOOLEAN /\ late \in BOOLEAN
  BY DEF InTick
<1>5. p \in Send /\ p.from = 0 /\ (p.own <=> InTick)
  BY <1>4 DEF Send, NetSizes
<1>6. n \in NetRec /\ n.kind = net.kind /\ n.live = net.live /\ n.depth = net.depth /\ n.pending = net.pending /\ n.lastPeer = net.lastPeer
  <2>1. net.calls + 1 \in Nat /\ <<>> \in Seq(Send) /\ 0 \in {0, 1} /\ 0 \in Conns \cup {0}
    BY <1>1, NetFields
  <2>2. n \in NetRec
    BY <1>1, <2>1, NetChanges
  <2>3. QED
    BY <1>1, <2>2 DEF NetRec
<1>7. SendOrQueue(n, p, late)
  BY <1>2
<1> HIDE DEF n, p, late
<1>8. /\ net' \in NetRec /\ net'.kind = n.kind /\ (net'.live <=> n.live) /\ net'.depth = n.depth /\ net'.lastPeer = n.lastPeer
      /\ \A j \in DOMAIN net'.pending : (j \in DOMAIN net.pending /\ net'.pending[j] = net.pending[j]) \/ net'.pending[j] = p
      /\ echoed' \subseteq [from : Conns, to : Conns]
      /\ \A x \in echoed' : x.from # x.to => conn[x.from].st = "closed"
  <2>1. SendsAt
    BY <1>1 DEF Placed
  <2>2. QED
    BY <1>1, <1>4, <1>5, <1>6, <1>7, <2>1, SendsSound
<1>9. Waiting' = Waiting
  BY <1>3 DEF Waiting
<1>10. Stays /\ HasSlot' /\ Taken' /\ EventsAt' /\ Fresh' /\ Ordered'
  BY <1>3, <1>6, <1>8, <1>9, Unmoved
<1>11. SendsAt' /\ Phase'
  BY <1>1, <1>3, <1>5, <1>6, <1>8, <1>10, AfterSend
<1>12. FramesAt' /\ PeersOnly'
  BY <1>1, <1>3, <1>6, <1>8, <1>9, <1>10, FramesAndSendsStay DEF Placed, PeersOnly
<1>13. NetTyped'
  BY <1>1, <1>3, <1>8 DEF NetTyped
<1>14. EchoStraysOnlyWhenGone'
  BY <1>3, <1>8 DEF EchoStraysOnlyWhenGone
<1>15. QED
  BY <1>10, <1>11, <1>12, <1>13, <1>14 DEF NetInv, Placed

LEMMA StepTickNetObject ==
    ASSUME NetSizes, NetInv, TickNetObject
    PROVE  NetInv'
<1>1. NetTyped /\ Phase /\ Placed /\ EchoStraysOnlyWhenGone /\ net \in NetRec /\ npc = "out" /\ stack = <<>>
  BY DEF NetInv, TickNetObject, NetTyped
<1>2. /\ net' = [net EXCEPT !.depth = 1] /\ batch' = queue /\ queue' = <<>> /\ npc' = "drain"
      /\ UNCHANGED <<conn, slots, stack>> /\ Script /\ net.live
  BY DEF TickNetObject
<1>3. net' \in NetRec /\ net'.kind = net.kind /\ net'.live = net.live /\ net'.depth = 1 /\ net'.pending = net.pending /\ net'.lastPeer = net.lastPeer
  <2>1. 0 \in Nat /\ <<>> \in Seq(Send) /\ 1 \in {0, 1} /\ 0 \in Conns \cup {0}
    OBVIOUS
  <2>2. net' \in NetRec
    BY <1>1, <1>2, <2>1, NetChanges
  <2>3. QED
    BY <1>1, <1>2, <2>2 DEF NetRec
<1>4. Waiting' = Waiting /\ batch = <<>>
  <2>1. queue \in Seq(Ev) /\ batch = <<>>
    BY <1>1 DEF Phase, NetTyped
  <2>2. <<>> \o queue = queue /\ queue \o <<>> = queue
    BY <2>1, ConcatEmptySeq
  <2>3. QED
    BY <1>2, <2>1, <2>2 DEF Waiting
<1>5. Stays /\ HasSlot' /\ Taken' /\ EventsAt' /\ Fresh' /\ Ordered'
  BY <1>2, <1>3, <1>4, Unmoved DEF Script
<1>6. FramesAt' /\ SendsAt'
  BY <1>1, <1>2, <1>3, <1>5, FramesAndSendsStay DEF Placed
<1>7. PeersOnly'
  BY <1>1, <1>2, <1>3, <1>4 DEF Placed, PeersOnly
<1>8. NetTyped'
  BY <1>1, <1>2, <1>3 DEF NetTyped, Script
<1>9. Phase'
  BY <1>1, <1>2, <1>3 DEF Phase
<1>10. EchoStraysOnlyWhenGone'
  BY <1>1, <1>2 DEF EchoStraysOnlyWhenGone, Script
<1>11. QED
  BY <1>5, <1>6, <1>7, <1>8, <1>9, <1>10 DEF NetInv, Placed

\* A callback that is called for connection c, and what it is told.
LEMMA CallsSound ==
    ASSUME NetTyped, FramesAt, Stays, net'.kind = net.kind, NEW c \in Conns, NEW i \in Nat, NEW kind \in EventKinds, NEW msg \in Nat,
           NEW by \in {"tick", "close_connection"}, Calls(c, i, kind, msg, by), At(c, i)
    PROVE  /\ stack' \in Seq(Frame) /\ FramesAt' /\ seen' \in [Conns -> Seq(Msg)]
           /\ \A j \in DOMAIN stack' : (j \in DOMAIN stack /\ stack'[j] = stack[j]) \/ stack'[j].conn = c
           /\ \A d \in Conns \ spoiled : seen'[d] = IF d = c THEN Append(seen[d], <<kind, msg>>) ELSE seen[d]
<1> DEFINE f == [conn |-> c, slot |-> i, by |-> by]
           k == Len(stack)
<1>1. f \in Frame /\ f.conn = c /\ f.slot = i /\ stack \in Seq(Frame) /\ stack' = Append(stack, f)
  BY DEF Frame, NetTyped, Calls
<1> HIDE DEF f
<1>2. k \in Nat /\ DOMAIN stack = 1..k /\ \A j \in 1..k : stack[j] \in Frame
  BY <1>1, LenProperties, ElementOfSeq
<1>3. /\ stack' \in Seq(Frame) /\ DOMAIN stack' = 1..(k + 1) /\ stack'[k + 1] = f
      /\ \A j \in 1..k : stack'[j] = stack[j]
  BY <1>1, AppendProperties, LenProperties
<1> HIDE DEF k
<1>4. \A j \in 1..(k + 1) : j \in 1..k \/ j = k + 1
  BY <1>2
<1>5. \A j \in DOMAIN stack' : (j \in DOMAIN stack /\ stack'[j] = stack[j]) \/ stack'[j] = f
  BY <1>2, <1>3, <1>4
<1>6. ASSUME NEW j \in DOMAIN stack' PROVE At(stack[j].conn, stack[j].slot)'
  <2>1. stack'[j].conn \in Conns /\ At(stack'[j].conn, stack'[j].slot)
    BY <1>1, <1>2, <1>5 DEF FramesAt, Frame
  <2>2. QED
    BY <2>1 DEF Stays, At
<1>7. FramesAt'
  BY <1>6 DEF FramesAt
<1>8. <<kind, msg>> \in Msg
  BY DEF Msg
<1>9. /\ seen' \in [Conns -> Seq(Msg)]
      /\ \A d \in Conns \ spoiled : seen'[d] = IF d = c THEN Append(seen[d], <<kind, msg>>) ELSE seen[d]
  <2> DEFINE x == <<kind, msg>>
             t == Append(seen[c], x)
             S == Seq(Msg)
  <2>1. seen[c] \in S /\ t \in S /\ seen \in [Conns -> S]
    BY <1>8, AppendProperties DEF NetTyped
  <2>2. seen' = [seen EXCEPT ![c] = IF c \in spoiled THEN seen[c] ELSE t]
    BY <2>1 DEF Calls
  <2> HIDE DEF t, S
  <2> DEFINE v == IF c \in spoiled THEN seen[c] ELSE t
  <2>5. v \in S /\ (c \notin spoiled => v = t) /\ seen' = [seen EXCEPT ![c] = v]
    BY <2>1, <2>2
  <2> HIDE DEF v
  <2>3. seen' \in [Conns -> S] /\ \A d \in Conns \ spoiled : seen'[d] = IF d = c THEN t ELSE seen[d]
    BY <2>1, <2>5
  <2>4. QED
    BY <2>3 DEF t, S
<1>10. QED
  BY <1>1, <1>3, <1>5, <1>7, <1>9

LEMMA ConcatFirst ==
    ASSUME NEW S, NEW b \in Seq(S), NEW q \in Seq(S), b # <<>>
    PROVE  (b \o q) # <<>> /\ Head(b \o q) = Head(b) /\ Tail(b \o q) = Tail(b) \o q
BY ConcatSimplifications

LEMMA ConcatWithin ==
    ASSUME NEW S, NEW b \in Seq(S), NEW q \in Seq(S)
    PROVE  \A j \in DOMAIN q : \E i \in DOMAIN (b \o q) : q[j] = (b \o q)[i]
<1> DEFINE d == Len(b)
           k == Len(q)
           w == b \o q
<1>1. d \in Nat /\ k \in Nat /\ DOMAIN q = 1..k
  BY LenProperties
<1>2. w \in Seq(S) /\ Len(w) = d + k /\ \A i \in 1..(d + k) : w[i] = IF i <= d THEN b[i] ELSE q[i - d]
  BY ConcatProperties
<1>3. DOMAIN w = 1..(d + k)
  BY <1>2, LenProperties
<1> HIDE DEF d, k, w
<1>4. ASSUME NEW j \in DOMAIN q PROVE \E i \in DOMAIN w : q[j] = w[i]
  <2>1. j + d \in 1..(d + k) /\ j \in Int
    BY <1>1
  <2>2. PICK i \in 1..(d + k) : i = j + d
    BY <2>1
  <2>3. ~(i <= d) /\ i - d = j
    BY <1>1, <2>1, <2>2
  <2>4. w[i] = q[j]
    BY <1>2, <2>3
  <2>5. QED
    BY <1>3, <2>4
<1>5. QED
  BY <1>4 DEF w

LEMMA TailWithin ==
    ASSUME NEW S, NEW s \in Seq(S), s # <<>>
    PROVE  \A j \in DOMAIN Tail(s) : \E i \in DOMAIN s : Tail(s)[j] = s[i]
<1>1. Tail(s) \in Seq(S) /\ Len(Tail(s)) = Len(s) - 1 /\ \A i \in 1..Len(Tail(s)) : Tail(s)[i] = s[i + 1]
  BY HeadTailProperties
<1>2. Len(s) \in Nat /\ DOMAIN s = 1..Len(s) /\ DOMAIN Tail(s) = 1..Len(Tail(s))
  BY <1>1, LenProperties
<1>3. \A j \in DOMAIN Tail(s) : j + 1 \in DOMAIN s
  BY <1>1, <1>2
<1>4. QED
  BY <1>1, <1>2, <1>3

LEMMA HeadFirst ==
    ASSUME NEW S, NEW s \in Seq(S), s # <<>>
    PROVE  Head(s) = s[1] /\ 1 \in DOMAIN s
<1>1. Len(s) \in Nat /\ Len(s) # 0 /\ DOMAIN s = 1..Len(s)
  BY LenProperties, EmptySeq
<1>2. QED
  BY <1>1, HeadTailProperties

LEMMA FrontIs ==
    ASSUME NEW S, NEW s \in Seq(S), s # <<>>
    PROVE  Front(s) \in Seq(S) /\ \A j \in DOMAIN Front(s) : j \in DOMAIN s /\ Front(s)[j] = s[j]
<1> DEFINE k == Len(s)
<1>1. k \in Nat /\ k # 0 /\ DOMAIN s = 1..k /\ \A i \in 1..k : s[i] \in S
  BY LenProperties, EmptySeq, ElementOfSeq
<1>2. Front(s) = SubSeq(s, 1, k - 1)
  BY DEF Front
<1> HIDE DEF k
<1>3. k - 1 \in Nat /\ 1 \in Int /\ (\A i \in 1..(k - 1) : i \in 1..k) /\ k - 1 - 1 + 1 = k - 1
  BY <1>1
<1>4. /\ SubSeq(s, 1, k - 1) \in Seq(S)
      /\ Len(SubSeq(s, 1, k - 1)) = IF 1 <= k - 1 THEN k - 1 - 1 + 1 ELSE 0
      /\ \A i \in 1..(k - 1 - 1 + 1) : SubSeq(s, 1, k - 1)[i] = s[1 + i - 1]
  BY <1>1, <1>3, SubSeqProperties
<1>5. Len(Front(s)) = k - 1 /\ DOMAIN Front(s) = 1..(k - 1)
  BY <1>1, <1>2, <1>3, <1>4, LenProperties
<1>6. \A i \in 1..(k - 1) : 1 + i - 1 = i
  BY <1>1
<1>7. QED
  BY <1>1, <1>2, <1>3, <1>4, <1>5, <1>6

LEMMA StepDispatchEventFor ==
    ASSUME NetSizes, NetInv, DispatchEventFor
    PROVE  NetInv'
<1>1. NetTyped /\ Phase /\ Placed /\ Fresh /\ Ordered /\ EchoStraysOnlyWhenGone /\ net \in NetRec /\ InTick /\ stack = <<>> /\ batch # <<>>
  BY DEF NetInv, DispatchEventFor, NetTyped
<1>2. /\ Calls(Head(batch).conn, Head(batch).slot, Head(batch).kind, Head(batch).msg, "tick")
      /\ net' = IF Head(batch).kind = "recv" THEN [net EXCEPT !.lastPeer = Head(batch).conn] ELSE net
      /\ batch' = Tail(batch) /\ UNCHANGED <<conn, slots, queue, npc, echoed, spoiled, freed>>
  BY DEF DispatchEventFor
<1>3. net.live
  BY <1>1, NetFields DEF Phase, InTick
<1>4. batch \in Seq(Ev) /\ queue \in Seq(Ev) /\ Head(batch) \in Ev /\ Tail(batch) \in Seq(Ev) /\ Waiting \in Seq(Ev) /\ Waiting # <<>>
      /\ Head(Waiting) = Head(batch) /\ Waiting' = Tail(Waiting)
  <2>1. batch \in Seq(Ev) /\ queue \in Seq(Ev) /\ Waiting \in Seq(Ev)
    BY <1>1, WaitingIs DEF NetTyped
  <2>2. Head(batch) \in Ev /\ Tail(batch) \in Seq(Ev)
    BY <1>1, <2>1, HeadTailProperties
  <2>3. (batch \o queue) # <<>> /\ Head(batch \o queue) = Head(batch) /\ Tail(batch \o queue) = Tail(batch) \o queue
    BY <1>1, <2>1, ConcatFirst
  <2>4. QED
    BY <1>2, <2>1, <2>2, <2>3 DEF Waiting
<1>5. PICK e \in Ev : e = Head(batch)
  BY <1>4
<1>6. e.conn \in Conns /\ e.slot \in Nat /\ e.kind \in EventKinds /\ e.msg \in Nat
  BY DEF Ev
<1>7. net' \in NetRec /\ net'.kind = net.kind /\ net'.live = net.live /\ net'.depth = net.depth /\ net'.pending = net.pending
      /\ (e.kind = "recv" => net'.lastPeer = e.conn)
  <2>1. 0 \in Nat /\ <<>> \in Seq(Send) /\ 0 \in {0, 1} /\ e.conn \in Conns \cup {0}
    BY <1>6
  <2>2. [net EXCEPT !.lastPeer = e.conn] \in NetRec
    BY <1>1, <2>1, NetChanges
  <2>3. QED
    BY <1>1, <1>2, <1>5, <2>2 DEF NetRec
<1>8. Stays
  BY <1>2, <1>7 DEF Stays, At
<1>9. \A j \in DOMAIN Waiting' : \E i \in DOMAIN Waiting : Waiting'[j] = Waiting[i]
  BY <1>4, TailWithin
<1>10. Waiting[1] = e /\ 1 \in DOMAIN Waiting
  BY <1>4, <1>5, HeadTailProperties, LenProperties, HeadFirst
<1>11. At(e.conn, e.slot) /\ (net.kind = "udp" => e.kind = "recv")
  BY <1>1, <1>10 DEF Placed, EventsAt, PeersOnly
<1>12. /\ stack' \in Seq(Frame) /\ FramesAt' /\ seen' \in [Conns -> Seq(Msg)]
       /\ \A j \in DOMAIN stack' : (j \in DOMAIN stack /\ stack'[j] = stack[j]) \/ stack'[j].conn = e.conn
       /\ \A d \in Conns \ spoiled : seen'[d] = IF d = e.conn THEN Append(seen[d], <<e.kind, e.msg>>) ELSE seen[d]
  <2>1. Calls(e.conn, e.slot, e.kind, e.msg, "tick") /\ FramesAt
    BY <1>1, <1>2, <1>5 DEF Placed
  <2>2. QED
    BY <1>1, <1>6, <1>7, <1>8, <1>11, <2>1, CallsSound
<1>13. NetTyped'
  BY <1>1, <1>2, <1>4, <1>7, <1>12 DEF NetTyped
<1>14. Phase'
  BY <1>1, <1>2, <1>3, <1>7 DEF Phase, InTick
<1>15. Placed'
  <2>1. HasSlot'
    BY <1>1, <1>2, <1>7 DEF Placed, HasSlot, IsOpen
  <2>2. SendsAt'
    BY <1>1, <1>7, <1>8, FramesAndSendsStay DEF Placed
  <2>3. EventsAt'
    <3>1. \A i \in DOMAIN Waiting : Waiting[i].conn \in Conns /\ At(Waiting[i].conn, Waiting[i].slot)
      BY <1>1, WaitingIs DEF Ev, Placed, EventsAt
    <3>2. QED
      BY <1>8, <1>9, <3>1 DEF EventsAt, Stays, At
  <2>4. PeersOnly'
    <3>1. net.kind = "udp" => \A j \in DOMAIN stack' : net'.lastPeer = stack'[j].conn
      <4>1. DOMAIN stack = {}
        BY <1>1
      <4>2. QED
        BY <1>7, <1>11, <1>12, <4>1
    <3>2. QED
      BY <1>1, <1>2, <1>7, <1>9, <3>1 DEF Placed, PeersOnly
  <2>6. Taken'
    BY <1>1, <1>2 DEF Placed, Taken
  <2>5. QED
    BY <1>12, <2>1, <2>2, <2>3, <2>4, <2>6 DEF Placed
<1>16. Fresh'
  BY <1>1, <1>2, <1>7 DEF Fresh
<1>17. Ordered'
  <2> SUFFICES ASSUME NEW d \in Conns \ spoiled PROVE OnTheWay(net.kind, conn[d], seen'[d], Tail(Waiting), d)
    BY <1>2, <1>3, <1>4, <1>7 DEF Ordered
  <2>1. conn[d] \in ConnRec /\ seen[d] \in Seq(Msg) /\ OnTheWay(net.kind, conn[d], seen[d], Waiting, d)
    BY <1>1, <1>3 DEF NetTyped, Ordered
  <2>2. CASE d = e.conn
    <3>1. OnTheWay(net.kind, conn[d], Append(seen[d], <<Head(Waiting).kind, Head(Waiting).msg>>), Tail(Waiting), d)
      BY <1>4, <1>5, <2>1, <2>2, WayTold
    <3>2. QED
      BY <1>4, <1>5, <1>12, <2>2, <3>1
  <2>3. CASE d # e.conn
    <3>1. OnTheWay(net.kind, conn[d], seen[d], Tail(Waiting), d)
      BY <1>4, <1>5, <2>1, <2>3, WayTail
    <3>2. QED
      BY <1>12, <2>3, <3>1
  <2>4. QED
    BY <2>2, <2>3
<1>18. EchoStraysOnlyWhenGone'
  BY <1>1, <1>2 DEF EchoStraysOnlyWhenGone
<1>19. QED
  BY <1>13, <1>14, <1>15, <1>16, <1>17, <1>18 DEF NetInv

LEMMA StepHandleCallbackReturn ==
    ASSUME NetSizes, NetInv, HandleCallbackReturn
    PROVE  NetInv'
<1>1. NetTyped /\ Phase /\ Placed /\ Fresh /\ Ordered /\ EchoStraysOnlyWhenGone /\ net \in NetRec /\ stack # <<>>
  BY DEF NetInv, HandleCallbackReturn, NetTyped
<1>2. net.live
  BY <1>1, NetFields DEF Phase
<1>3. stack' = Front(stack) /\ UNCHANGED <<conn, slots, queue, batch, npc, seen, spoiled, freed>>
  BY DEF HandleCallbackReturn
<1>4. stack \in Seq(Frame) /\ Len(stack) \in Nat /\ Len(stack) # 0 /\ DOMAIN stack = 1..Len(stack)
  BY <1>1, LenProperties, EmptySeq DEF NetTyped
<1>5. PICK f \in Frame : f = Last(stack) /\ Len(stack) \in DOMAIN stack /\ f = stack[Len(stack)]
  BY <1>4, ElementOfSeq DEF Last
<1>6. f.conn \in Conns /\ f.slot \in Nat /\ At(f.conn, f.slot) /\ (net.kind = "udp" => net.lastPeer = f.conn)
  BY <1>1, <1>5 DEF Frame, Placed, FramesAt, PeersOnly
<1>7. stack' \in Seq(Frame) /\ \A j \in DOMAIN stack' : j \in DOMAIN stack /\ stack'[j] = stack[j]
  BY <1>3, <1>4, FrontIs
<1> DEFINE to == IF net.kind = "udp" THEN net.lastPeer ELSE f.slot
           p == [to |-> to, from |-> f.conn, own |-> InTick]
<1>8. to \in Nat
  BY <1>6 DEF Conns
<1>9. InTick \in BOOLEAN /\ p \in Send /\ p.from = f.conn /\ (p.own <=> InTick) /\ Answers(p) /\ p.to = to
  BY <1>6, <1>8 DEF InTick, Send, Answers
<1>10. \/ UNCHANGED <<net, echoed>>
       \/ net' = [net EXCEPT !.closing = TRUE] /\ UNCHANGED echoed
       \/ SendOrQueue(net, p, InTick)
  BY <1>5 DEF HandleCallbackReturn
<1> HIDE DEF p, to
<1>11. /\ net' \in NetRec /\ net'.kind = net.kind /\ (net'.live <=> net.live) /\ net'.depth = net.depth /\ net'.lastPeer = net.lastPeer
       /\ \A j \in DOMAIN net'.pending : (j \in DOMAIN net.pending /\ net'.pending[j] = net.pending[j]) \/ net'.pending[j] = p
       /\ echoed' \subseteq [from : Conns, to : Conns]
       /\ \A x \in echoed' : x.from # x.to => conn[x.from].st = "closed"
  <2>1. CASE UNCHANGED <<net, echoed>>
    BY <1>1, <2>1 DEF NetTyped, EchoStraysOnlyWhenGone
  <2>2. CASE net' = [net EXCEPT !.closing = TRUE] /\ UNCHANGED echoed
    <3>1. 0 \in Nat /\ <<>> \in Seq(Send) /\ 0 \in {0, 1} /\ 0 \in Conns \cup {0}
      OBVIOUS
    <3>2. net' \in NetRec
      BY <1>1, <2>2, <3>1, NetChanges
    <3>3. net'.kind = net.kind /\ net'.live = net.live /\ net'.depth = net.depth /\ net'.lastPeer = net.lastPeer /\ net'.pending = net.pending
      BY <1>1, <2>2 DEF NetRec
    <3>4. QED
      BY <1>1, <2>2, <3>2, <3>3 DEF NetTyped, EchoStraysOnlyWhenGone
  <2>3. CASE SendOrQueue(net, p, InTick)
    <3>1. SendsAt
      BY <1>1 DEF Placed
    <3>2. QED
      BY <1>1, <1>9, <2>3, <3>1, SendsSound
  <2>4. QED
    BY <1>10, <2>1, <2>2, <2>3
<1>12. Waiting' = Waiting
  BY <1>3 DEF Waiting
<1>13. Stays /\ HasSlot' /\ Taken' /\ EventsAt' /\ Fresh' /\ Ordered'
  BY <1>3, <1>11, <1>12, Unmoved
<1>14. SendsAt' /\ Phase'
  <2>1. net.kind = "udp" => p.to = p.from
    BY <1>9 DEF Answers
  <2>2. SendsAt' /\ Phase'
    BY <1>1, <1>2, <1>3, <1>9, <1>11, <1>13, <2>1, AfterSend
  <2>3. QED
    BY <2>2
<1>15. FramesAt'
  <2> SUFFICES ASSUME NEW j \in DOMAIN stack' PROVE At(stack[j].conn, stack[j].slot)'
    BY DEF FramesAt
  <2>1. stack'[j] = stack[j] /\ stack[j] \in Frame /\ At(stack[j].conn, stack[j].slot)
    BY <1>1, <1>4, <1>7, ElementOfSeq DEF Placed, FramesAt
  <2>2. QED
    BY <1>13, <2>1 DEF Stays, At, Frame
<1>16. PeersOnly'
  BY <1>1, <1>3, <1>7, <1>11, <1>12 DEF Placed, PeersOnly
<1>17. NetTyped'
  BY <1>1, <1>3, <1>7, <1>11 DEF NetTyped
<1>18. EchoStraysOnlyWhenGone'
  BY <1>3, <1>11 DEF EchoStraysOnlyWhenGone
<1>19. QED
  BY <1>13, <1>14, <1>15, <1>16, <1>17, <1>18 DEF NetInv, Placed

-----------------------------------------------------------------------------
(* Network objects: the end of the object and of a tick, and the start.    *)

\* The object is freed.
LEMMA GoneSound ==
    ASSUME NetInv, net.live, Gone
    PROVE  NetInv'
<1>1. NetTyped /\ Ordered /\ EchoStraysOnlyWhenGone /\ net \in NetRec
  BY DEF NetInv, NetTyped
<1>2. /\ net' = Release(net) /\ slots' = <<>> /\ queue' = <<>> /\ batch' = <<>> /\ stack' = <<>> /\ npc' = "out"
      /\ conn' = [c \in Conns |-> IF IsOpen(c) THEN [conn[c] EXCEPT !.st = "closed"] ELSE conn[c]]
      /\ UNCHANGED <<seen, echoed, spoiled>>
  BY DEF Gone
<1>3. net' \in NetRec /\ net'.kind = net.kind /\ ~net'.live /\ net'.pending = <<>>
  BY <1>1, <1>2, ReleaseIs
<1>4. conn' \in [Conns -> ConnRec] /\ \A c \in Conns : conn[c].st = "closed" => conn'[c].st = "closed"
  <2>1. \A c \in Conns : conn[c] \in ConnRec /\ [conn[c] EXCEPT !.st = "closed"] \in ConnRec
    BY <1>1 DEF NetTyped, ConnRec
  <2>2. QED
    BY <1>2, <2>1 DEF IsOpen
<1>5. Waiting' = <<>>
  BY <1>2 DEF Waiting
<1>6. NetTyped'
  BY <1>1, <1>2, <1>3, <1>4 DEF NetTyped
<1>7. DOMAIN Waiting' = {} /\ DOMAIN stack' = {} /\ DOMAIN slots' = {} /\ DOMAIN net'.pending = {}
  BY <1>2, <1>3, <1>5
<1>8. Phase'
  BY <1>2, <1>3, <1>7 DEF Phase
<1>9. Placed'
  BY <1>3, <1>7 DEF Placed, HasSlot, Taken, EventsAt, FramesAt, SendsAt, PeersOnly
<1>10. Fresh'
  BY <1>3 DEF Fresh
<1>11. Ordered'
  <2>1. ASSUME NEW c \in Conns \ spoiled PROVE Heard(net.kind, seen[c])
    <3>1. conn[c] \in ConnRec /\ seen[c] \in Seq(Msg) /\ OnTheWay(net.kind, conn[c], seen[c], Waiting, c)
      BY <1>1 DEF NetTyped, Ordered
    <3>2. QED
      BY <3>1, WayHeard
  <2>2. QED
    BY <1>2, <1>3, <2>1 DEF Ordered
<1>12. EchoStraysOnlyWhenGone'
  <2>1. \A x \in echoed : x.from \in Conns
    BY <1>1 DEF NetTyped
  <2>2. QED
    BY <1>1, <1>2, <1>4, <2>1 DEF EchoStraysOnlyWhenGone
<1>13. QED
  BY <1>6, <1>8, <1>9, <1>10, <1>11, <1>12 DEF NetInv

LEMMA ReleasedSound ==
    ASSUME NetInv, net.live, NEW why, Released(why)
    PROVE  NetInv'
BY GoneSound DEF Released

LEMMA StepParserCloses ==
    ASSUME NetInv, ParserCloses
    PROVE  NetInv'
BY GoneSound DEF ParserCloses, Polling

LEMMA StepFinalizer ==
    ASSUME NetInv, Finalizer
    PROVE  NetInv'
BY ReleasedSound DEF Finalizer, CanCall

LEMMA StepNetClose ==
    ASSUME NetInv, NetClose
    PROVE  NetInv'
<1>1. NetTyped /\ Phase /\ Placed /\ EchoStraysOnlyWhenGone /\ net \in NetRec /\ net.live
  BY DEF NetInv, NetTyped, NetClose, CanCall
<1>2. CASE net.depth > 0
  <2>1. net' = [net EXCEPT !.closing = TRUE] /\ UNCHANGED <<conn, slots, queue, batch, stack, npc>> /\ Script
    BY <1>2 DEF NetClose
  <2>2. 0 \in Nat /\ <<>> \in Seq(Send) /\ 0 \in {0, 1} /\ 0 \in Conns \cup {0}
    OBVIOUS
  <2>3. net' \in NetRec
    BY <1>1, <2>1, <2>2, NetChanges
  <2>4. net'.kind = net.kind /\ net'.live = net.live /\ net'.depth = net.depth /\ net'.lastPeer = net.lastPeer /\ net'.pending = net.pending
    BY <1>1, <2>1 DEF NetRec
  <2>5. Waiting' = Waiting
    BY <2>1 DEF Waiting
  <2>6. Stays /\ HasSlot' /\ Taken' /\ EventsAt' /\ Fresh' /\ Ordered'
    BY <2>1, <2>4, <2>5, Unmoved DEF Script
  <2>7. FramesAt' /\ SendsAt'
    BY <1>1, <2>1, <2>4, <2>6, FramesAndSendsStay DEF Placed
  <2>8. PeersOnly'
    BY <1>1, <2>1, <2>4, <2>5 DEF Placed, PeersOnly
  <2>9. NetTyped'
    BY <1>1, <2>1, <2>3 DEF NetTyped, Script
  <2>10. Phase'
    BY <1>1, <2>1, <2>4 DEF Phase
  <2>11. EchoStraysOnlyWhenGone'
    BY <1>1, <2>1 DEF EchoStraysOnlyWhenGone, Script
  <2>12. QED
    BY <2>6, <2>7, <2>8, <2>9, <2>10, <2>11 DEF NetInv, Placed
<1>3. CASE ~(net.depth > 0)
  BY <1>1, <1>3, ReleasedSound DEF NetClose
<1>4. QED
  BY <1>2, <1>3

\* The end of a tick, by a return or by an error.
LEMMA AfterFinish ==
    ASSUME NetInv, InTick, FinishTick, UNCHANGED <<conn, queue, seen>>, slots' = slots \/ slots' = Reaped,
           spoiled \subseteq spoiled', spoiled' \subseteq Conns,
           \A c \in Conns \ spoiled' : \A i \in 1..Len(batch) : batch[i].conn # c
    PROVE  NetInv'
<1>1. NetTyped /\ Phase /\ Placed /\ Fresh /\ Ordered /\ EchoStraysOnlyWhenGone /\ net \in NetRec
  BY DEF NetInv, NetTyped
<1>2. net.live
  BY <1>1, NetFields DEF Phase, InTick
<1>3. /\ net' \in NetRec /\ net'.kind = net.kind /\ net'.pending = <<>> /\ (net'.live => net.live)
      /\ npc' = "out" /\ stack' = <<>> /\ batch' = <<>> /\ DoSend(net.pending)
  BY <1>1, FinishIs
<1>4. batch \in Seq(Ev) /\ queue \in Seq(Ev) /\ Waiting' = queue
  <2>1. batch \in Seq(Ev) /\ queue \in Seq(Ev)
    BY <1>1 DEF NetTyped
  <2>2. <<>> \o queue = queue
    BY <2>1, ConcatEmptySeq
  <2>3. QED
    BY <1>3, <2>1, <2>2 DEF Waiting
<1>5. /\ slots' \in Seq(Conns \cup {0})
      /\ \A i \in DOMAIN slots : IsOpen(slots[i]) => i \in DOMAIN slots' /\ slots'[i] = slots[i]
      /\ \A i \in DOMAIN slots' : i \in DOMAIN slots /\ (slots'[i] = slots[i] \/ slots'[i] = 0)
  <2>1. CASE slots' = slots
    BY <1>1, <2>1 DEF NetTyped
  <2>2. CASE slots' = Reaped
    <3>1. slots \in Seq(Conns \cup {0}) /\ Len(slots) \in Nat /\ DOMAIN slots = 1..Len(slots) /\ \A i \in 1..Len(slots) : slots[i] \in Conns \cup {0}
      BY <1>1, LenProperties, ElementOfSeq DEF NetTyped
    <3>2. Reaped \in [1..Len(slots) -> Conns \cup {0}]
      BY <3>1 DEF Reaped
    <3>3. Reaped \in Seq(Conns \cup {0})
      BY <3>1, <3>2, SeqDef
    <3>4. QED
      BY <2>2, <3>3 DEF Reaped
  <2>3. QED
    BY <2>1, <2>2
<1>6. Stays
  <2> SUFFICES ASSUME NEW c \in Conns, NEW i, At(c, i) PROVE At(c, i)'
    BY DEF Stays
  <2>1. c # 0
    BY <1>1, ConnFields
  <2>2. QED
    BY <1>3, <1>5, <2>1 DEF At, IsOpen
<1>7. NetTyped'
  <2>1. \A q \in Range(net.pending) : q \in Send /\ (q.from # 0 => Answers(q))
    <3>1. \A j \in DOMAIN net.pending : net.pending[j] \in Send
      BY <1>1, NetFields, ElementOfSeq, LenProperties
    <3>2. QED
      BY <1>1, <3>1 DEF Range, Placed, SendsAt
  <2>2. echoed' \subseteq [from : Conns, to : Conns]
    BY <1>1, <1>3, <2>1, WritesSound
  <2>3. QED
    BY <1>1, <1>3, <1>5, <2>2 DEF NetTyped
<1>8. EchoStraysOnlyWhenGone'
  <2>1. \A q \in Range(net.pending) : q \in Send /\ (q.from # 0 => Answers(q))
    <3>1. \A j \in DOMAIN net.pending : net.pending[j] \in Send
      BY <1>1, NetFields, ElementOfSeq, LenProperties
    <3>2. QED
      BY <1>1, <3>1 DEF Range, Placed, SendsAt
  <2>2. \A x \in echoed' : x.from # x.to => conn[x.from].st = "closed"
    BY <1>1, <1>3, <2>1, WritesSound
  <2>3. QED
    BY <2>2 DEF EchoStraysOnlyWhenGone
<1>9. DOMAIN stack' = {} /\ DOMAIN net'.pending = {}
  BY <1>3
<1>10. Phase'
  BY <1>3, <1>9 DEF Phase
<1>11. \A j \in DOMAIN queue : \E i \in DOMAIN Waiting : queue[j] = Waiting[i]
  <2>1. batch \in Seq(Ev) /\ queue \in Seq(Ev)
    BY <1>4
  <2>2. \A j \in DOMAIN queue : \E i \in DOMAIN (batch \o queue) : queue[j] = (batch \o queue)[i]
    BY ONLY <2>1, ConcatWithin
  <2>3. QED
    BY ONLY <2>2 DEF Waiting
<1>12. \A i \in DOMAIN Waiting : Waiting[i].conn \in Conns
  BY <1>1, WaitingIs DEF Ev
<1>13. Placed'
  <2>1. HasSlot'
    <3> SUFFICES ASSUME net'.live, net.kind # "udp", NEW c \in Conns, conn[c].st = "open" PROVE \E i \in DOMAIN slots' : slots'[i] = c
      BY <1>3 DEF HasSlot, IsOpen
    <3>1. c # 0
      BY <1>1, ConnFields
    <3>2. PICK i \in DOMAIN slots : slots[i] = c
      BY <1>1, <1>2, <3>1 DEF Placed, HasSlot, IsOpen
    <3>3. QED
      BY <1>5, <3>1, <3>2 DEF IsOpen
  <2>2. Taken'
    BY <1>1, <1>5 DEF Placed, Taken
  <2>3. EventsAt'
    <3> SUFFICES ASSUME NEW j \in DOMAIN queue PROVE At(queue[j].conn, queue[j].slot)'
      BY <1>4 DEF EventsAt
    <3>1. queue[j].conn \in Conns /\ At(queue[j].conn, queue[j].slot)
      BY <1>1, <1>11, <1>12 DEF Placed, EventsAt
    <3>2. QED
      BY <1>6, <3>1 DEF Stays, At
  <2>4. FramesAt' /\ SendsAt'
    BY <1>9 DEF FramesAt, SendsAt
  <2>5. PeersOnly'
    BY <1>1, <1>3, <1>4, <1>9, <1>11 DEF Placed, PeersOnly
  <2>6. QED
    BY <2>1, <2>2, <2>3, <2>4, <2>5 DEF Placed
<1>14. Fresh'
  BY <1>1, <1>2, <1>3 DEF Fresh
<1>15. Ordered'
  <2>1. ASSUME NEW c \in Conns \ spoiled' PROVE OnTheWay(net.kind, conn[c], seen[c], queue, c) /\ Heard(net.kind, seen[c])
    <3>1. conn[c] \in ConnRec /\ seen[c] \in Seq(Msg) /\ OnTheWay(net.kind, conn[c], seen[c], batch \o queue, c)
      BY <1>1, <1>2 DEF NetTyped, Ordered, Waiting
    <3>2. \A i \in 1..Len(batch) : batch[i].conn # c
      OBVIOUS
    <3>3. QED
      BY <1>4, <3>1, <3>2, WayDrop, WayHeard
  <2>2. QED
    BY <1>3, <1>4, <2>1 DEF Ordered
<1>16. QED
  BY <1>7, <1>8, <1>10, <1>13, <1>14, <1>15 DEF NetInv

LEMMA StepNetTickReturns ==
    ASSUME NetInv, NetTickReturns
    PROVE  NetInv'
<1>1. InTick /\ batch = <<>> /\ FinishTick /\ slots' = Reaped /\ UNCHANGED <<conn, queue, seen, spoiled>>
  BY DEF NetTickReturns
<1>2. spoiled \subseteq Conns /\ Len(batch) = 0
  BY <1>1 DEF NetInv, NetTyped
<1>3. \A c \in Conns \ spoiled' : \A i \in 1..Len(batch) : batch[i].conn # c
  BY <1>2
<1>4. QED
  BY <1>1, <1>2, <1>3, AfterFinish

LEMMA StepTickThrows ==
    ASSUME NetInv, TickThrows
    PROVE  NetInv'
<1>1. InTick /\ FinishTick /\ spoiled' = spoiled \cup {e.conn : e \in Range(batch)} /\ UNCHANGED <<conn, slots, queue, seen>>
  BY DEF TickThrows
<1>2. spoiled \subseteq Conns /\ batch \in Seq(Ev)
  BY DEF NetInv, NetTyped
<1>3. DOMAIN batch = 1..Len(batch) /\ \A i \in DOMAIN batch : batch[i] \in Ev
  BY <1>2, LenProperties, ElementOfSeq
<1>4. \A e \in Range(batch) : e.conn \in Conns
  BY <1>3 DEF Range, Ev
<1>5. \A i \in DOMAIN batch : batch[i] \in Range(batch)
  BY DEF Range
<1>6. \A c \in Conns \ spoiled' : \A i \in 1..Len(batch) : batch[i].conn # c
  BY <1>1, <1>3, <1>5
<1>7. QED
  BY <1>1, <1>2, <1>4, <1>6, AfterFinish

LEMMA StepNetCloseConnection ==
    ASSUME NetSizes, NetInv, NetCloseConnection
    PROVE  NetInv'
<1>1. NetTyped /\ Phase /\ Placed /\ Fresh /\ Ordered /\ EchoStraysOnlyWhenGone /\ net \in NetRec /\ net.live /\ net.kind = "server"
  BY DEF NetInv, NetTyped, NetCloseConnection, CanCall
<1>2. PICK i \in DOMAIN slots :
          /\ slots[i] # 0
          /\ IF IsOpen(slots[i]) THEN CloseConn(slots[i]) /\ Emits(<<Event("close", slots[i], i, 0)>>)
             ELSE UNCHANGED <<conn, queue>>
          /\ Calls(slots[i], i, "close", 0, "close_connection")
          /\ spoiled' = spoiled \cup {slots[i]}
  BY DEF NetCloseConnection
<1>3. net' = [net EXCEPT !.calls = @ + 1] /\ UNCHANGED <<slots, batch, npc, echoed, freed>>
  BY DEF NetCloseConnection
<1>4. slots[i] \in Conns /\ i \in Nat
  <2>1. slots[i] \in Conns \cup {0} /\ DOMAIN slots = 1..Len(slots) /\ Len(slots) \in Nat
    BY <1>1, ElementOfSeq, LenProperties DEF NetTyped
  <2>2. QED
    BY <1>2, <2>1
<1>5. PICK c \in Conns : c = slots[i]
  BY <1>4
<1>6. conn[c].st \in {"open", "closed"} /\ c # 0 /\ conn[c] \in ConnRec
  BY <1>1, <1>2, <1>5, ConnFields DEF Placed, Taken
<1>7. net' \in NetRec /\ net'.kind = net.kind /\ net'.live = net.live /\ net'.depth = net.depth /\ net'.pending = net.pending
  <2>1. net.calls + 1 \in Nat /\ <<>> \in Seq(Send) /\ 0 \in {0, 1} /\ 0 \in Conns \cup {0}
    BY <1>1, NetFields
  <2>2. net' \in NetRec
    BY <1>1, <1>3, <2>1, NetChanges
  <2>3. QED
    BY <1>1, <1>3, <2>2 DEF NetRec
<1>8. PICK e \in Ev : e.kind = "close" /\ e.conn = c /\ e.slot = i /\ e.msg = 0 /\ e = Event("close", c, i, 0)
  BY <1>4, EventIs DEF EventKinds
<1>9. \/ conn[c].st = "open" /\ CloseConn(c) /\ Emits(<<e>>)
      \/ UNCHANGED <<conn, queue>>
  BY <1>2, <1>5, <1>6, <1>8 DEF IsOpen
<1>10. /\ conn' \in [Conns -> ConnRec] /\ (\A d \in Conns : d # c => conn'[d] = conn[d])
       /\ conn'[c].st \in {"open", "closed"} /\ (conn'[c] = conn[c] \/ (conn'[c].st = "closed" /\ ~conn'[c].ready))
       /\ queue' \in Seq(Ev) /\ (Waiting' = Append(Waiting, e) \/ Waiting' = Waiting)
  <2>1. CASE conn[c].st = "open" /\ CloseConn(c) /\ Emits(<<e>>)
    <3>1. PICK k \in ConnRec : conn' = [conn EXCEPT ![c] = k] /\ k.st = "closed" /\ ~k.ready /\ k.msgs = conn[c].msgs
      BY <1>1, <2>1, ClosedConn
    <3>2. queue' \in Seq(Ev) /\ Waiting' = Append(Waiting, e)
      BY <1>1, <1>3, <2>1, Announced
    <3>3. QED
      BY <1>1, <3>1, <3>2 DEF NetTyped
  <2>2. CASE UNCHANGED <<conn, queue>>
    BY <1>1, <1>3, <1>6, <2>2 DEF NetTyped, Waiting
  <2>3. QED
    BY <1>9, <2>1, <2>2
<1>11. Stays
  BY <1>3, <1>7, <1>10 DEF Stays, At
<1>12. At(c, i) /\ At(c, i)'
  BY <1>2, <1>3, <1>5, <1>6, <1>7, <1>10 DEF At
<1>13. /\ stack' \in Seq(Frame) /\ FramesAt' /\ seen' \in [Conns -> Seq(Msg)]
       /\ \A d \in Conns \ spoiled : seen'[d] = IF d = c THEN Append(seen[d], <<"close", 0>>) ELSE seen[d]
  <2>1. Calls(c, i, "close", 0, "close_connection") /\ FramesAt
    BY <1>1, <1>2, <1>5 DEF Placed
  <2>2. "close" \in EventKinds /\ 0 \in Nat /\ "close_connection" \in {"tick", "close_connection"}
    BY DEF EventKinds
  <2>3. QED
    BY <1>1, <1>4, <1>7, <1>11, <1>12, <2>1, <2>2, CallsSound
<1>14. spoiled' = spoiled \cup {c}
  BY <1>2, <1>5
<1>15. NetTyped'
  BY <1>1, <1>3, <1>7, <1>10, <1>13, <1>14 DEF NetTyped
<1>16. Phase'
  BY <1>1, <1>3, <1>7 DEF Phase
<1>17. Placed'
  <2>1. HasSlot'
    <3> SUFFICES ASSUME NEW d \in Conns, conn'[d].st = "open" PROVE \E j \in DOMAIN slots : slots[j] = d
      BY <1>3 DEF HasSlot, IsOpen
    <3>1. conn[d].st = "open" /\ d # 0
      BY <1>1, <1>10, ConnFields
    <3>2. QED
      BY <1>1, <3>1 DEF Placed, HasSlot, IsOpen
  <2>2. Taken'
    <3> SUFFICES ASSUME NEW j \in DOMAIN slots, slots[j] # 0 PROVE conn'[slots[j]].st # "none"
      BY <1>3 DEF Taken
    <3>1. slots[j] \in Conns
      <4>1. slots[j] \in Conns \cup {0}
        BY <1>1, ElementOfSeq, LenProperties DEF NetTyped
      <4>2. QED
        BY <4>1
    <3>2. QED
      BY <1>1, <1>10, <3>1 DEF Placed, Taken
  <2>3. EventsAt'
    <3>1. CASE Waiting' = Append(Waiting, e)
      <4>1. EventsAt /\ PeersOnly /\ net.kind # "udp" /\ At(e.conn, e.slot)'
        BY <1>1, <1>8, <1>12 DEF Placed
      <4>2. QED
        BY <1>1, <1>7, <1>11, <3>1, <4>1, EventsAtMore
    <3>2. CASE Waiting' = Waiting
      <4>1. \A j \in DOMAIN Waiting : Waiting[j].conn \in Conns
        BY <1>1, WaitingIs DEF Ev
      <4>2. QED
        BY <1>1, <1>11, <3>2, <4>1 DEF Placed, EventsAt, Stays, At
    <3>3. QED
      BY <1>10, <3>1, <3>2
  <2>4. SendsAt'
    BY <1>1, <1>7, <1>11, FramesAndSendsStay DEF Placed
  <2>5. PeersOnly'
    BY <1>1, <1>7 DEF PeersOnly
  <2>6. QED
    BY <1>13, <2>1, <2>2, <2>3, <2>4, <2>5 DEF Placed
<1>18. Fresh'
  BY <1>1, <1>7, <1>10 DEF Fresh
<1>19. Ordered'
  <2> SUFFICES ASSUME NEW d \in Conns \ spoiled' PROVE OnTheWay(net.kind, conn'[d], seen'[d], Waiting', d)
    BY <1>1, <1>7 DEF Ordered
  <2>1. d \in Conns \ spoiled /\ d # c
    BY <1>14
  <2>2. conn[d] \in ConnRec /\ seen[d] \in Seq(Msg) /\ Waiting \in Seq(Ev) /\ OnTheWay(net.kind, conn[d], seen[d], Waiting, d)
    BY <1>1, <2>1, WaitingIs DEF NetTyped, Ordered
  <2>3. OnTheWay(net.kind, conn[d], seen[d], Append(Waiting, e), d)
    BY <1>8, <2>1, <2>2, WayOther
  <2>4. conn'[d] = conn[d] /\ seen'[d] = seen[d]
    BY <1>10, <1>13, <2>1
  <2>5. QED
    BY <1>10, <2>2, <2>3, <2>4
<1>20. EchoStraysOnlyWhenGone'
  <2>1. \A x \in echoed : x.from \in Conns
    BY <1>1 DEF NetTyped
  <2>2. QED
    BY <1>1, <1>3, <1>10, <2>1 DEF EchoStraysOnlyWhenGone
<1>21. QED
  BY <1>15, <1>16, <1>17, <1>18, <1>19, <1>20 DEF NetInv

LEMMA NothingYet ==
    ASSUME NEW kind, NEW k \in ConnRec, NEW c, k.msgs = 0, kind # "udp" => ~k.ready /\ k.st # "closed"
    PROVE  OnTheWay(kind, k, <<>>, <<>>, c)
<1>1. \A L : L \in Seq(Msg) /\ Len(L) = 0 => Lies(<<>>, L, <<>>, c)
  <2> SUFFICES ASSUME NEW L \in Seq(Msg), Len(L) = 0 PROVE Lies(<<>>, L, <<>>, c)
    OBVIOUS
  <2> DEFINE f == [r \in 1..0 |-> 0]
  <2>1. f \in [1..0 -> 1..0] /\ \A r : r \notin 1..0
    OBVIOUS
  <2> HIDE DEF f
  <2>2. Enum(f, 1, 0, L, <<>>, 0, c)
    BY <2>1 DEF Enum
  <2>3. Len(<<>>) + 1 = 1 /\ Len(<<>>) = 0
    OBVIOUS
  <2>4. Enum(f, Len(<<>>) + 1, Len(L), L, <<>>, Len(<<>>), c)
    BY <2>2, <2>3
  <2>5. QED
    BY <2>1, <2>3, <2>4 DEF Lies
<1>2. Peer(0) \in Seq(Msg) /\ Len(Peer(0)) = 0
  BY PeerFacts
<1>3. <<>> \in Seq(Msg) /\ Len(<<>>) = 0
  OBVIOUS
<1>4. CASE kind = "udp"
  <2>1. Peer(0) \in Lines(kind, k)
    BY <1>4 DEF Lines
  <2>2. QED
    BY <1>1, <1>2, <2>1 DEF OnTheWay
<1>5. CASE kind # "udp"
  <2>1. <<>> \in Lines(kind, k)
    BY <1>5 DEF Lines
  <2>2. QED
    BY <1>1, <1>3, <2>1 DEF OnTheWay
<1>6. QED
  BY <1>4, <1>5

LEMMA NetInvInit ==
    ASSUME NetSizes, NetInit
    PROVE  NetInv
<1>1. PICK k \in {"server", "client", "udp"}, hs \in BOOLEAN :
          /\ k = "udp" => ~hs
          /\ net = [kind |-> k, handshake |-> hs, live |-> TRUE, depth |-> 0, closing |-> FALSE,
                    pending |-> <<>>, lastPeer |-> 0, calls |-> 0]
          /\ conn = [c \in Conns |-> IF k = "client" /\ c = 1 THEN [NoConn EXCEPT !.st = "open"]
                                     ELSE IF k = "udp" THEN [st |-> "open", ready |-> TRUE, msgs |-> 0] ELSE NoConn]
          /\ slots = IF k = "client" THEN <<1>> ELSE <<>>
  BY DEF NetInit
<1>2. /\ queue = <<>> /\ batch = <<>> /\ stack = <<>> /\ npc = "out"
      /\ seen = [c \in Conns |-> <<>>] /\ echoed = {} /\ spoiled = {} /\ freed = {}
  BY DEF NetInit
<1>3. 1 \in Conns
  BY DEF NetSizes, Conns
<1>4. net \in NetRec /\ net.kind = k /\ net.live /\ net.pending = <<>>
  <2>1. <<>> \in Seq(Send) /\ 0 \in Conns \cup {0} /\ 0 \in Nat /\ 0 \in {0, 1}
    OBVIOUS
  <2> DEFINE S == Seq(Send)
             C == Conns \cup {0}
  <2>2. <<>> \in S /\ 0 \in C
    BY <2>1
  <2> HIDE DEF S, C
  <2>3. net \in [kind : {"server", "client", "udp"}, handshake : BOOLEAN, live : BOOLEAN, depth : {0, 1}, closing : BOOLEAN,
                 pending : S, lastPeer : C, calls : Nat]
    BY <1>1, <2>2
  <2>4. net \in NetRec
    BY <2>3 DEF NetRec, S, C
  <2>5. QED
    BY <1>1, <2>4
<1>5. \A c \in Conns : /\ conn[c] \in ConnRec /\ conn[c].msgs = 0 /\ (k # "udp" => ~conn[c].ready /\ conn[c].st # "closed")
                       /\ (k # "udp" /\ conn[c].st = "open" => k = "client" /\ c = 1)
                       /\ (k = "udp" => conn[c].st = "open")
                       /\ (k = "client" /\ c = 1 => conn[c].st = "open")
  <2> SUFFICES ASSUME NEW c \in Conns
               PROVE  /\ conn[c] \in ConnRec /\ conn[c].msgs = 0 /\ (k # "udp" => ~conn[c].ready /\ conn[c].st # "closed")
                      /\ (k # "udp" /\ conn[c].st = "open" => k = "client" /\ c = 1)
                      /\ (k = "udp" => conn[c].st = "open")
                      /\ (k = "client" /\ c = 1 => conn[c].st = "open")
    OBVIOUS
  <2>1. CASE k = "client" /\ c = 1
    <3>1. conn[c] = [st |-> "open", ready |-> FALSE, msgs |-> 0]
      BY <1>1, <2>1 DEF NoConn
    <3>2. QED
      BY <2>1, <3>1 DEF ConnRec
  <2>2. CASE k = "udp"
    <3>1. conn[c] = [st |-> "open", ready |-> TRUE, msgs |-> 0]
      BY <1>1, <2>2
    <3>2. QED
      BY <2>2, <3>1 DEF ConnRec
  <2>3. CASE ~(k = "client" /\ c = 1) /\ k # "udp"
    <3>1. conn[c] = [st |-> "none", ready |-> FALSE, msgs |-> 0]
      BY <1>1, <2>3 DEF NoConn
    <3>2. QED
      BY <2>3, <3>1 DEF ConnRec
  <2>4. QED
    BY <2>1, <2>2, <2>3
<1>6. Waiting = <<>> /\ DOMAIN Waiting = {} /\ DOMAIN stack = {} /\ DOMAIN net.pending = {}
  BY <1>2, <1>4 DEF Waiting
<1>7. slots \in Seq(Conns \cup {0}) /\ (k = "client" => 1 \in DOMAIN slots /\ slots[1] = 1) /\ (k # "client" => DOMAIN slots = {})
      /\ \A i \in DOMAIN slots : k = "client" /\ slots[i] = 1
  <2>1. CASE k = "client"
    BY <1>1, <1>3, <2>1
  <2>2. CASE k # "client"
    BY <1>1, <2>2
  <2>3. QED
    BY <2>1, <2>2
<1>8. NetTyped
  <2>1. conn \in [Conns -> ConnRec]
    BY <1>1, <1>5
  <2>2. seen \in [Conns -> Seq(Msg)] /\ queue \in Seq(Ev) /\ batch \in Seq(Ev) /\ stack \in Seq(Frame)
    BY <1>2
  <2>3. QED
    BY <1>2, <1>4, <1>7, <2>1, <2>2 DEF NetTyped
<1>9. Phase
  BY <1>2, <1>4, <1>6 DEF Phase
<1>10. Placed
  BY <1>3, <1>4, <1>5, <1>6, <1>7 DEF Placed, HasSlot, Taken, EventsAt, FramesAt, SendsAt, PeersOnly, IsOpen
<1>11. Fresh
  BY <1>4, <1>5 DEF Fresh
<1>12. Ordered
  <2>1. \A c \in Conns : OnTheWay(k, conn[c], <<>>, <<>>, c)
    BY <1>5, NothingYet
  <2>2. QED
    BY <1>2, <1>4, <1>6, <2>1 DEF Ordered
<1>13. EchoStraysOnlyWhenGone
  BY <1>2 DEF EchoStraysOnlyWhenGone
<1>14. QED
  BY <1>8, <1>9, <1>10, <1>11, <1>12, <1>13 DEF NetInv

-----------------------------------------------------------------------------
(* Network objects: the theorems.                                          *)

LEMMA NetInvStep ==
    ASSUME NetSizes, NetInv, [NetNext]_netVars
    PROVE  NetInv'
<1>1. CASE OnAccept
  BY <1>1, StepOnAccept
<1>2. ASSUME NEW c \in Conns, MarkReady(c) PROVE NetInv'
  BY <1>2, StepMarkReady
<1>3. ASSUME NEW c \in Conns, HandleRead(c) PROVE NetInv'
  BY <1>3, StepHandleRead
<1>4. ASSUME NEW c \in Conns, EventCb(c) PROVE NetInv'
  BY <1>4, StepEventCb
<1>5. CASE TickNetObject
  BY <1>5, StepTickNetObject
<1>6. CASE DispatchEventFor
  BY <1>6, StepDispatchEventFor
<1>7. CASE HandleCallbackReturn
  BY <1>7, StepHandleCallbackReturn
<1>8. CASE NetTickReturns
  BY <1>8, StepNetTickReturns
<1>9. CASE NetSend
  BY <1>9, StepNetSend
<1>10. CASE NetCloseConnection
  BY <1>10, StepNetCloseConnection
<1>11. CASE NetClose
  BY <1>11, StepNetClose
<1>12. CASE Finalizer
  BY <1>12, StepFinalizer
<1>13. CASE TickThrows
  BY <1>13, StepTickThrows
<1>14. CASE ParserCloses
  BY <1>14, StepParserCloses
<1>15. CASE UNCHANGED netVars
  <2>1. UNCHANGED <<net, conn, slots, seen, spoiled, queue, batch, stack, npc, echoed>>
    BY <1>15 DEF netVars
  <2>2. Waiting' = Waiting
    BY <2>1 DEF Waiting
  <2>3. Stays /\ HasSlot' /\ Taken' /\ EventsAt' /\ Fresh' /\ Ordered'
    BY <2>1, <2>2, Unmoved
  <2>4. NetTyped /\ Phase /\ Placed /\ EchoStraysOnlyWhenGone
    BY DEF NetInv
  <2>5. FramesAt' /\ SendsAt'
    BY <2>1, <2>3, <2>4, FramesAndSendsStay DEF Placed
  <2>6. PeersOnly' /\ NetTyped' /\ Phase' /\ EchoStraysOnlyWhenGone'
    BY <2>1, <2>2, <2>4 DEF Placed, PeersOnly, NetTyped, Phase, EchoStraysOnlyWhenGone
  <2>7. QED
    BY <2>3, <2>5, <2>6 DEF NetInv, Placed
<1>16. QED
  BY <1>1, <1>2, <1>3, <1>4, <1>5, <1>6, <1>7, <1>8, <1>9, <1>10, <1>11, <1>12, <1>13, <1>14, <1>15
  DEF NetNext, Libevent, NetTick, NetCalls

\* The network object's invariant: the events that wait, the callbacks that run and the sends that were put off name
\* connections by the slot they have (OnAccept, MarkReady, HandleRead, EventCb); and for each connection, what its
\* callback was told and what waits in events_ and in the tick's batch are together the whole story, once, in order.
THEOREM NetInvariant ==
    ASSUME NetSizes
    PROVE  NetSpec => []NetInv
<1>1. NetInit => NetInv
  BY NetInvInit
<1>2. NetInv /\ [NetNext]_netVars => NetInv'
  BY NetInvStep
<1>3. QED
  BY <1>1, <1>2, PTL DEF NetSpec

LEMMA InvSound ==
    ASSUME NetInv
    PROVE  EventsSound /\ SendsPumped
<1>1. ASSUME NEW c \in Conns \ spoiled PROVE Told(net.kind, seen[c])
  <2>1. conn[c] \in ConnRec /\ seen[c] \in Seq(Msg)
    BY DEF NetInv, NetTyped
  <2>2. Heard(net.kind, seen[c])
    <3>1. CASE net.live
      BY <2>1, <3>1, WayHeard DEF NetInv, Ordered
    <3>2. CASE ~net.live
      BY <3>2 DEF NetInv, Ordered
    <3>3. QED
      BY <3>1, <3>2
  <2>3. QED
    BY <2>2, HeardIsTold
<1>2. CallbackOrder
  BY <1>1 DEF CallbackOrder, Told
<1>3. SendsPumped
  BY DEF NetInv, Phase, SendsPumped
<1>4. QED
  BY <1>2, <1>3 DEF EventsSound, NetInv

\* What a callback hears and answers: the story of each connection in order, nothing left out or told twice, and an
\* "echo" for the connection whose event it is, unless that connection is gone (DispatchEventFor, DoSend).
THEOREM EventsAreSound ==
    ASSUME NetSizes
    PROVE  NetSpec => []EventsSound
<1>1. NetSpec => []NetInv
  BY NetInvariant
<1>2. NetInv => EventsSound
  BY InvSound
<1>3. QED
  BY <1>1, <1>2, PTL

\* A send that was put off in the object's own tick does not outlive the tick (FlushPendingSends, finish_tick).
LEMMA SendsArePumped ==
    ASSUME NetSizes
    PROVE  NetSpec => []SendsPumped
<1>1. NetSpec => []NetInv
  BY NetInvariant
<1>2. NetInv => SendsPumped
  BY InvSound
<1>3. QED
  BY <1>1, <1>2, PTL

\* The object is freed under its own code only by close() in the callback of a close_connection outside of the tick or
\* in a custom parser, and by a finalizer (NetClose looks at tick_depth).
LEMMA FreedOnlyKnownWays ==
    ASSUME NetSizes
    PROVE  NetSpec => []FreedUnderWay
<1>1. NetInit => FreedUnderWay
  BY DEF NetInit, FreedUnderWay
<1>2. ASSUME NetInv, FreedUnderWay, [NetNext]_netVars PROVE FreedUnderWay'
  <2>1. CASE NetClose
    <3>1. CASE net.depth > 0
      BY <1>2, <2>1, <3>1 DEF NetClose, Script, FreedUnderWay
    <3>2. CASE ~(net.depth > 0)
      <4>1. ~InTick
        BY <1>2, <3>2 DEF NetInv, Phase, InTick
      <4>2. freed' \subseteq freed \cup {"close in close_connection"}
        BY <2>1, <3>2, <4>1 DEF NetClose, Released
      <4>3. QED
        BY <1>2, <4>2 DEF FreedUnderWay
    <3>3. QED
      BY <3>1, <3>2
  <2>2. CASE Finalizer
    BY <1>2, <2>2 DEF Finalizer, Released, FreedUnderWay
  <2>3. CASE ParserCloses
    BY <1>2, <2>3 DEF ParserCloses, FreedUnderWay
  <2>4. CASE UNCHANGED freed
    BY <1>2, <2>4 DEF FreedUnderWay
  <2>5. QED
    BY <1>2, <2>1, <2>2, <2>3, <2>4
    DEF NetNext, Libevent, NetTick, NetCalls, OnAccept, MarkReady, HandleRead, EventCb, TickNetObject, DispatchEventFor,
        HandleCallbackReturn, NetTickReturns, NetSend, NetCloseConnection, TickThrows, Script, netVars
<1>3. NetSpec => []NetInv
  BY NetInvariant
<1>4. NetInv /\ FreedUnderWay /\ [NetNext]_netVars => FreedUnderWay'
  BY <1>2
<1>5. QED
  BY <1>1, <1>3, <1>4, PTL DEF NetSpec

\* A tick pumps the sends that were put off in it and, but for the known ways, the object outlives it (finish_tick).
THEOREM TicksAreSound ==
    ASSUME NetSizes
    PROVE  NetSpec => []TickSound
<1>1. NetSpec => []SendsPumped
  BY SendsArePumped
<1>2. NetSpec => []FreedUnderWay
  BY FreedOnlyKnownWays
<1>3. QED
  BY <1>1, <1>2, PTL DEF TickSound

=============================================================================
