-------------------------- MODULE StateHeapProofs --------------------------
(***************************************************************************)
(* The inductive invariant of StateHeap, and what follows from it, for     *)
(* every set of units and values and every depth of nesting.               *)
(*                                                                         *)
(* The counters are exact whatever is compiled to C.  That nothing which   *)
(* is referred to is reclaimed needs OneJitUnit: with two units compiled   *)
(* to C it is wrong, as the run of StateTwoUnits.cfg shows.                *)
(***************************************************************************)
EXTENDS StateHeap, FiniteSetTheorems, SequenceTheorems, TLAPS

\* At most one unit is compiled to C.
OneJitUnit == \A u, w \in Jit : u = w

Kinds(s, kind) == {i \in DOMAIN s : s[i].kind = kind}

TypeOK ==
    /\ status \in [Units -> {"absent", "init", "ready", "failed"}]
    /\ globals \in [Units -> SUBSET Values]
    /\ heap \in [Values -> {"temp", "const", "free"}]
    /\ constAlloc \in BOOLEAN
    /\ reentrant \in Int
    /\ frames \in Seq(HeapFrame)

\* A ConstAllocScope remembers whether another one is open below it.
PrevExact == \A i \in Kinds(frames, "init") : frames[i].prev <=> \E j \in Kinds(frames, "init") : j < i

\* The units whose __fakelua_init runs: each has one frame.
InitsOnce ==
    \A i \in Kinds(frames, "init") :
        /\ status[frames[i].unit] = "init"
        /\ \A j \in Kinds(frames, "init") : frames[i].unit = frames[j].unit => i = j

ScopesInv == TypeOK /\ ScopesExact /\ PrevExact /\ InitsOnce

SameBackend(u, w) == u \in Jit <=> w \in Jit

\* Frame i of s was entered from frame j, a Call or an init, by Lua-to-Lua calls of one backend.
EnteredFrom(s, j, i) ==
    /\ j \in 1..i
    /\ s[j].kind # "fn"
    /\ \A k \in (j + 1)..i : s[k].kind = "fn" /\ SameBackend(s[k].unit, s[j].unit)

Entered(s) == \A i \in DOMAIN s : \E j \in DOMAIN s : EnteredFrom(s, j, i)

\* What an init and the functions that it calls refer to is constant.
InitLocalsConst(s, h) ==
    \A i, j \in DOMAIN s : EnteredFrom(s, j, i) /\ s[j].kind = "init" => \A v \in s[i].locals : h[v] = "const"

LocalsLive(s, h) == \A i \in DOMAIN s : \A v \in s[i].locals : h[v] # "free"

GlobalsConst == \A u \in Units : \A v \in globals[u] : heap[v] = "const"

HeapInv ==
    /\ ScopesInv
    /\ Entered(frames)
    /\ InitLocalsConst(frames, heap)
    /\ LocalsLive(frames, heap)
    /\ GlobalsConst

-----------------------------------------------------------------------------
(* Sequences of frames.                                                    *)

\* What is on a stack is a frame.
LEMMA FrameAt ==
    ASSUME NEW s \in Seq(HeapFrame)
    PROVE  \A i \in DOMAIN s : /\ s[i] \in HeapFrame /\ s[i].kind \in {"call", "init", "fn"}
                              /\ s[i].unit \in Units /\ s[i].locals \subseteq Values
<1>1. \A i \in DOMAIN s : s[i] \in HeapFrame
  BY LenProperties, ElementOfSeq
<1>2. QED
  BY <1>1 DEF HeapFrame

\* A frame is pushed.
LEMMA PushShape ==
    ASSUME NEW s \in Seq(HeapFrame), NEW f \in HeapFrame
    PROVE  /\ Len(s) \in Nat /\ DOMAIN s = 1..Len(s)
           /\ Append(s, f) \in Seq(HeapFrame)
           /\ DOMAIN Append(s, f) = 1..(Len(s) + 1)
           /\ \A i \in DOMAIN s : Append(s, f)[i] = s[i]
           /\ Append(s, f)[Len(s) + 1] = f
<1>1. Len(s) \in Nat /\ DOMAIN s = 1..Len(s)
  BY LenProperties
<1>2. Append(s, f) \in Seq(HeapFrame) /\ Len(Append(s, f)) = Len(s) + 1
  BY AppendProperties
<1>3. DOMAIN Append(s, f) = 1..(Len(s) + 1)
  BY <1>2, LenProperties
<1>4. QED
  BY <1>1, <1>2, <1>3, AppendProperties

\* What is left of a stack when its last frame goes and hands values to the frame below.
Left(s, result) ==
    LET below == SubSeq(s, 1, Len(s) - 1)
    IN  IF below = <<>> THEN <<>> ELSE [below EXCEPT ![Len(below)].locals = @ \cup result]

\* Two stacks have the same frames but for what these refer to.
SameFrames(s, t, n) ==
    \A i \in 1..n : /\ t[i].kind = s[i].kind /\ t[i].unit = s[i].unit /\ t[i].prev = s[i].prev

\* Frame n refers to other values.
Referring(s, n, ls) == [s EXCEPT ![n].locals = ls]

\* The stack is still one.
LEMMA WithLocals ==
    ASSUME NEW s \in Seq(HeapFrame), NEW n \in DOMAIN s, NEW ls \in SUBSET Values
    PROVE  /\ Referring(s, n, ls) \in Seq(HeapFrame)
           /\ DOMAIN Referring(s, n, ls) = 1..Len(s)
           /\ SameFrames(s, Referring(s, n, ls), Len(s))
           /\ Referring(s, n, ls)[n].locals = ls
           /\ \A i \in 1..Len(s) : i # n => Referring(s, n, ls)[i].locals = s[i].locals
<1> DEFINE f == [s[n] EXCEPT !.locals = ls]
           t == Referring(s, n, ls)
<1>1. Len(s) \in Nat /\ DOMAIN s = 1..Len(s) /\ n \in 1..Len(s) /\ \A i \in 1..Len(s) : s[i] \in HeapFrame
  BY LenProperties, ElementOfSeq
<1>2. /\ f \in HeapFrame /\ f.locals = ls
      /\ f.kind = s[n].kind /\ f.unit = s[n].unit /\ f.prev = s[n].prev
  BY <1>1 DEF HeapFrame
<1>3. t = [s EXCEPT ![n] = f]
  BY DEF Referring
<1> HIDE DEF t
<1>4. /\ t \in Seq(HeapFrame) /\ Len(t) = Len(s)
      /\ \A i \in 1..Len(s) : t[i] = IF i = n THEN f ELSE s[i]
  BY <1>1, <1>2, <1>3, ExceptSeq
<1>5. DOMAIN t = 1..Len(s)
  BY <1>4, LenProperties
<1> HIDE DEF f
<1>6. SameFrames(s, t, Len(s))
  BY <1>1, <1>2, <1>4 DEF SameFrames
<1>7. t[n].locals = ls /\ \A i \in 1..Len(s) : i # n => t[i].locals = s[i].locals
  BY <1>1, <1>2, <1>4
<1>8. QED
  BY <1>4, <1>5, <1>6, <1>7 DEF t

\* The shape of what is left.
LEMMA LeaveShape ==
    ASSUME NEW s \in Seq(HeapFrame), s # <<>>, NEW r \in SUBSET Values, NEW t, t = Left(s, r)
    PROVE  /\ t \in Seq(HeapFrame)
           /\ \E n \in Nat :
                 /\ Len(s) = n + 1 /\ DOMAIN s = 1..(n + 1) /\ DOMAIN t = 1..n
                 /\ SameFrames(s, t, n)
                 /\ \A i \in 1..n : i # n => t[i].locals = s[i].locals
                 /\ n # 0 => t[n].locals = s[n].locals \cup r
<1>0. PICK n \in Nat : Len(s) = n + 1
  <2>1. Len(s) \in Nat /\ Len(s) # 0
    BY LenProperties, EmptySeq
  <2>2. Len(s) - 1 \in Nat /\ Len(s) = (Len(s) - 1) + 1
    BY <2>1
  <2>3. QED
    BY <2>2
<1> DEFINE b == SubSeq(s, 1, n)
<1>1. /\ DOMAIN s = 1..(n + 1)
      /\ \A i \in 1..n : s[i] \in HeapFrame
  BY <1>0, LenProperties, ElementOfSeq
<1>2. b \in Seq(HeapFrame) /\ Len(b) = n /\ \A i \in 1..n : b[i] = s[i]
  <2>1. /\ b \in Seq(HeapFrame)
        /\ Len(b) = IF 1 <= n THEN n - 1 + 1 ELSE 0
        /\ \A i \in 1..(n - 1 + 1) : b[i] = s[1 + i - 1]
    BY <1>1, SubSeqProperties
  <2>2. QED
    BY <1>1, <2>1
<1>3. t = IF b = <<>> THEN <<>> ELSE [b EXCEPT ![Len(b)].locals = @ \cup r]
  <2>1. Len(s) - 1 = n
    BY <1>0
  <2>2. QED
    BY <2>1 DEF Left
<1> HIDE DEF b
<1>4. DOMAIN b = 1..n
  BY <1>2, LenProperties
<1>5. CASE b = <<>>
  <2>1. n = 0 /\ t = <<>>
    BY <1>2, <1>3, <1>5
  <2>2. t \in Seq(HeapFrame) /\ DOMAIN t = 1..n
    BY <2>1, <1>4, <1>5, EmptySeq
  <2>3. SameFrames(s, t, n)
    BY <2>1 DEF SameFrames
  <2>4. QED
    BY <1>0, <1>1, <2>1, <2>2, <2>3
<1>6. CASE b # <<>>
  <2> DEFINE ls == b[n].locals \cup r
  <2>1. n \in DOMAIN b /\ n # 0
    BY <1>1, <1>2, <1>4, <1>6, EmptySeq
  <2>2. ls \in SUBSET Values
    BY <2>1, <1>1, <1>2, <1>4 DEF HeapFrame
  <2>3. t = Referring(b, n, ls)
    BY <1>2, <1>3, <1>6 DEF Referring
  <2>4. ls = s[n].locals \cup r
    BY <1>2, <1>4, <2>1
  <2> HIDE DEF ls
  <2>5. /\ t \in Seq(HeapFrame) /\ DOMAIN t = 1..Len(b)
        /\ SameFrames(b, t, Len(b))
        /\ t[n].locals = ls
        /\ \A i \in 1..Len(b) : i # n => t[i].locals = b[i].locals
    <3>1. b \in Seq(HeapFrame)
      BY <1>2
    <3>2. QED
      BY <2>1, <2>2, <2>3, <3>1, WithLocals
  <2>6. SameFrames(s, t, n)
    BY <1>2, <2>5 DEF SameFrames
  <2>7. QED
    BY <1>0, <1>1, <1>2, <2>1, <2>4, <2>5, <2>6
<1>7. QED
  BY <1>5, <1>6

\* The frames of a kind are finitely many.
LEMMA KindsFinite ==
    ASSUME NEW s \in Seq(HeapFrame), NEW kind
    PROVE  IsFiniteSet(Kinds(s, kind)) /\ Cardinality(Kinds(s, kind)) \in Nat
<1>1. Kinds(s, kind) \subseteq 1..Len(s) /\ Len(s) \in Nat
  BY LenProperties DEF Kinds
<1>2. IsFiniteSet(1..Len(s))
  BY <1>1, FS_Interval
<1>3. QED
  BY <1>1, <1>2, FS_Subset, FS_CardinalityType

\* The frames of a kind after a push.
LEMMA KindsPush ==
    ASSUME NEW s \in Seq(HeapFrame), NEW f \in HeapFrame, NEW kind
    PROVE  /\ f.kind = kind => Kinds(Append(s, f), kind) = Kinds(s, kind) \cup {Len(s) + 1}
           /\ f.kind = kind => Cardinality(Kinds(Append(s, f), kind)) = Cardinality(Kinds(s, kind)) + 1
           /\ f.kind # kind => Kinds(Append(s, f), kind) = Kinds(s, kind)
<1> DEFINE t == Append(s, f)
<1>1. /\ Len(s) \in Nat /\ DOMAIN s = 1..Len(s) /\ DOMAIN t = 1..(Len(s) + 1)
      /\ \A i \in 1..Len(s) : t[i] = s[i]
      /\ t[Len(s) + 1] = f
  BY PushShape
<1> HIDE DEF t
<1>2. CASE f.kind = kind
  <2>1. Kinds(t, kind) = Kinds(s, kind) \cup {Len(s) + 1}
    BY <1>1, <1>2 DEF Kinds
  <2>2. Len(s) + 1 \notin Kinds(s, kind)
    BY <1>1 DEF Kinds
  <2>3. Cardinality(Kinds(t, kind)) = Cardinality(Kinds(s, kind)) + 1
    BY <2>1, <2>2, KindsFinite, FS_AddElement
  <2>4. QED
    BY <1>2, <2>1, <2>3 DEF t
<1>3. CASE f.kind # kind
  <2>1. Kinds(t, kind) = Kinds(s, kind)
    BY <1>1, <1>3 DEF Kinds
  <2>2. QED
    BY <1>3, <2>1 DEF t
<1>4. QED
  BY <1>2, <1>3

\* The frames of a kind after the last frame went.
LEMMA KindsLeave ==
    ASSUME NEW s \in Seq(HeapFrame), NEW t, NEW n \in Nat, NEW kind,
           DOMAIN s = 1..(n + 1), DOMAIN t = 1..n, SameFrames(s, t, n)
    PROVE  /\ Kinds(t, kind) = Kinds(s, kind) \ {n + 1}
           /\ s[n + 1].kind = kind => Cardinality(Kinds(s, kind)) = Cardinality(Kinds(t, kind)) + 1
           /\ s[n + 1].kind # kind => Cardinality(Kinds(s, kind)) = Cardinality(Kinds(t, kind))
<1>1. Kinds(t, kind) = Kinds(s, kind) \ {n + 1}
  BY DEF Kinds, SameFrames
<1>2. IsFiniteSet(Kinds(s, kind)) /\ Cardinality(Kinds(s, kind)) \in Nat
  BY KindsFinite
<1>3. CASE s[n + 1].kind = kind
  <2>1. n + 1 \in Kinds(s, kind)
    BY <1>3 DEF Kinds
  <2>2. Cardinality(Kinds(t, kind)) = Cardinality(Kinds(s, kind)) - 1
    BY <1>1, <1>2, <2>1, FS_RemoveElement
  <2>3. QED
    BY <1>1, <1>2, <1>3, <2>2
<1>4. CASE s[n + 1].kind # kind
  <2>1. Kinds(t, kind) = Kinds(s, kind)
    BY <1>1, <1>4 DEF Kinds
  <2>2. QED
    BY <1>1, <1>4, <2>1
<1>5. QED
  BY <1>3, <1>4

\* The frames of a kind when only what a frame refers to changes.
LEMMA KindsSame ==
    ASSUME NEW s, NEW t, NEW n \in Nat, NEW kind, DOMAIN s = 1..n, DOMAIN t = 1..n, SameFrames(s, t, n)
    PROVE  Kinds(t, kind) = Kinds(s, kind)
BY DEF Kinds, SameFrames

\* Where a frame was entered from does not depend on the frames above it.
LEMMA EnteredFromBelow ==
    ASSUME NEW s, NEW t, NEW n \in Nat, SameFrames(s, t, n), NEW i \in 1..n, NEW j
    PROVE  EnteredFrom(t, j, i) <=> EnteredFrom(s, j, i)
<1>1. \A k \in 1..n : t[k].kind = s[k].kind /\ t[k].unit = s[k].unit
  BY DEF SameFrames
<1>2. j \in 1..i => j \in 1..n /\ \A k \in (j + 1)..i : k \in 1..n
  OBVIOUS
<1>3. QED
  BY <1>1, <1>2 DEF EnteredFrom

\* A frame was entered from one frame only.
LEMMA EnteredFromOne ==
    ASSUME NEW s, NEW n \in Nat, NEW i \in 1..n, NEW j, NEW k, EnteredFrom(s, j, i), EnteredFrom(s, k, i)
    PROVE  j = k
<1>1. j \in 1..i /\ k \in 1..i /\ s[j].kind # "fn" /\ s[k].kind # "fn"
  BY DEF EnteredFrom
<1>2. ~(j < k)
  <2>1. j < k => k \in (j + 1)..i
    BY <1>1
  <2>2. QED
    BY <1>1, <2>1 DEF EnteredFrom
<1>3. ~(k < j)
  <2>1. k < j => j \in (k + 1)..i
    BY <1>1
  <2>2. QED
    BY <1>1, <2>1 DEF EnteredFrom
<1>4. QED
  BY <1>1, <1>2, <1>3

\* A push keeps where frames were entered from; a function of the same backend joins the frames of its caller.
LEMMA PushEntered ==
    ASSUME NEW s \in Seq(HeapFrame), NEW f \in HeapFrame, NEW h, NEW t, t = Append(s, f), f.locals = {},
           Entered(s), InitLocalsConst(s, h), LocalsLive(s, h),
           f.kind = "fn" => s # <<>> /\ SameBackend(f.unit, s[Len(s)].unit)
    PROVE  Entered(t) /\ InitLocalsConst(t, h) /\ LocalsLive(t, h)
<1> DEFINE n == Len(s)
<1>1. /\ n \in Nat /\ DOMAIN s = 1..n /\ DOMAIN t = 1..(n + 1)
      /\ \A i \in 1..n : t[i] = s[i]
      /\ t[n + 1] = f
  BY PushShape
<1> HIDE DEF n
<1>2. SameFrames(s, t, n)
  BY <1>1 DEF SameFrames
<1>3. \A i \in 1..n : \A j : EnteredFrom(t, j, i) <=> EnteredFrom(s, j, i)
  BY <1>1, <1>2, EnteredFromBelow
<1>4. Entered(t)
  <2> SUFFICES ASSUME NEW i \in 1..(n + 1) PROVE \E j \in 1..(n + 1) : EnteredFrom(t, j, i)
    BY <1>1 DEF Entered
  <2>1. CASE i \in 1..n
    <3>1. \E j \in 1..n : EnteredFrom(t, j, i)
      BY <1>1, <1>3, <2>1 DEF Entered
    <3>2. QED
      BY <3>1, <1>1
  <2>2. CASE i = n + 1 /\ f.kind # "fn"
    <3>1. (i + 1)..i = {}
      BY <1>1
    <3>2. EnteredFrom(t, i, i)
      BY <1>1, <2>2, <3>1 DEF EnteredFrom
    <3>3. QED
      BY <3>2
  <2>3. CASE i = n + 1 /\ f.kind = "fn"
    <3>1. n \in 1..n
      BY <1>1, <2>3, EmptySeq DEF n
    <3>2. PICK j \in 1..n : EnteredFrom(t, j, n)
      BY <1>1, <1>3, <3>1 DEF Entered
    <3>3. SameBackend(f.unit, t[n].unit) /\ SameBackend(t[n].unit, t[j].unit)
      <4>1. SameBackend(f.unit, t[n].unit)
        BY <1>1, <2>3, <3>1 DEF n
      <4>2. n = j \/ n \in (j + 1)..n
        BY <3>1, <3>2
      <4>3. QED
        BY <4>1, <4>2, <3>2 DEF EnteredFrom, SameBackend
    <3>4. \A k \in (j + 1)..(n + 1) : k = n + 1 \/ k \in (j + 1)..n
      BY <1>1
    <3>5. EnteredFrom(t, j, i)
      BY <1>1, <2>3, <3>2, <3>3, <3>4 DEF EnteredFrom, SameBackend
    <3>6. QED
      BY <1>1, <3>2, <3>5
  <2>4. QED
    BY <1>1, <2>1, <2>2, <2>3
<1>5. InitLocalsConst(t, h)
  <2> SUFFICES ASSUME NEW i \in 1..(n + 1), NEW j \in 1..(n + 1),
                      EnteredFrom(t, j, i), t[j].kind = "init", NEW v \in t[i].locals
               PROVE  h[v] = "const"
    BY <1>1 DEF InitLocalsConst
  <2>1. i \in 1..n
    BY <1>1
  <2>2. j \in 1..n /\ EnteredFrom(s, j, i) /\ s[j].kind = "init" /\ v \in s[i].locals
    BY <1>1, <1>3, <2>1 DEF EnteredFrom
  <2>3. QED
    BY <1>1, <2>1, <2>2 DEF InitLocalsConst
<1>6. LocalsLive(t, h)
  <2> SUFFICES ASSUME NEW i \in 1..(n + 1), NEW v \in t[i].locals PROVE h[v] # "free"
    BY <1>1 DEF LocalsLive
  <2>1. i \in 1..n
    BY <1>1
  <2>2. QED
    BY <1>1, <2>1 DEF LocalsLive
<1>7. QED
  BY <1>4, <1>5, <1>6

\* A return keeps them too: what a function hands to its caller was constant if its caller's values must be.
LEMMA LeaveEntered ==
    ASSUME NEW s, NEW t, NEW n \in Nat, NEW h, NEW r,
           DOMAIN s = 1..(n + 1), DOMAIN t = 1..n, SameFrames(s, t, n),
           \A i \in 1..n : i # n => t[i].locals = s[i].locals,
           n # 0 => t[n].locals = s[n].locals \cup r,
           r \subseteq s[n + 1].locals, r = {} \/ s[n + 1].kind = "fn",
           Entered(s), InitLocalsConst(s, h), LocalsLive(s, h)
    PROVE  Entered(t) /\ InitLocalsConst(t, h) /\ LocalsLive(t, h)
<1>1. \A i \in 1..n : \A j : EnteredFrom(t, j, i) <=> EnteredFrom(s, j, i)
  BY EnteredFromBelow
<1>2. \A i \in 1..n : i \in 1..(n + 1)
  OBVIOUS
<1>3. Entered(t)
  <2> SUFFICES ASSUME NEW i \in 1..n PROVE \E j \in 1..n : EnteredFrom(t, j, i)
    BY DEF Entered
  <2>1. PICK j \in 1..(n + 1) : EnteredFrom(s, j, i)
    BY <1>2 DEF Entered
  <2>2. j \in 1..n
    BY <2>1 DEF EnteredFrom
  <2>3. QED
    BY <1>1, <2>1, <2>2
<1>4. \A i \in 1..n : \A v \in t[i].locals : v \in s[i].locals \/ (i = n /\ v \in r)
  OBVIOUS
<1>5. InitLocalsConst(t, h)
  <2> SUFFICES ASSUME NEW i \in 1..n, NEW j \in 1..n,
                      EnteredFrom(t, j, i), t[j].kind = "init", NEW v \in t[i].locals
               PROVE  h[v] = "const"
    BY DEF InitLocalsConst
  <2>1. EnteredFrom(s, j, i) /\ s[j].kind = "init" /\ i \in DOMAIN s /\ j \in DOMAIN s
    BY <1>1, <1>2 DEF SameFrames
  <2>2. CASE v \in s[i].locals
    BY <2>1, <2>2 DEF InitLocalsConst
  <2>3. CASE i = n /\ v \in r
    <3>1. s[n + 1].kind = "fn" /\ n + 1 \in 1..(n + 1) /\ v \in s[n + 1].locals
      BY <2>3
    <3>2. PICK k \in 1..(n + 1) : EnteredFrom(s, k, n + 1)
      BY <3>1 DEF Entered
    <3>3. k \in 1..n
      BY <3>1, <3>2 DEF EnteredFrom
    <3>4. EnteredFrom(s, k, n)
      BY <3>2, <3>3 DEF EnteredFrom
    <3>5. k = j
      BY <2>1, <2>3, <3>4, EnteredFromOne
    <3>6. QED
      BY <2>1, <3>1, <3>2, <3>5 DEF InitLocalsConst
  <2>4. QED
    BY <1>4, <2>2, <2>3
<1>6. LocalsLive(t, h)
  <2> SUFFICES ASSUME NEW i \in 1..n, NEW v \in t[i].locals PROVE h[v] # "free"
    BY DEF LocalsLive
  <2>1. n + 1 \in DOMAIN s /\ i \in DOMAIN s
    BY <1>2
  <2>2. QED
    BY <1>4, <2>1 DEF LocalsLive
<1>7. QED
  BY <1>3, <1>5, <1>6

-----------------------------------------------------------------------------
(* The scopes.                                                             *)

\* A frame is pushed: it counts a Call, and an init opens a scope that remembers the one around it.
LEMMA PushScopes ==
    ASSUME ScopesInv, NEW f \in HeapFrame, frames' = Append(frames, f), f.prev = constAlloc,
           f.kind = "call" => reentrant' = reentrant + 1,
           f.kind # "call" => reentrant' = reentrant,
           constAlloc' = (constAlloc \/ f.kind = "init"),
           f.kind # "init" => status' = status,
           f.kind = "init" => status[f.unit] = "absent" /\ status' = [status EXCEPT ![f.unit] = "init"]
    PROVE  ScopesExact' /\ PrevExact' /\ InitsOnce'
<1> DEFINE n == Len(frames)
<1>1. /\ frames \in Seq(HeapFrame) /\ n \in Nat /\ DOMAIN frames = 1..n
      /\ \A i \in 1..n : frames'[i] = frames[i]
      /\ frames'[n + 1] = f
  BY PushShape DEF ScopesInv, TypeOK
<1>2. Kinds(frames', "call") = {i \in DOMAIN frames' : frames'[i].kind = "call"}
  BY DEF Kinds
<1>3. /\ f.kind = "init" => Kinds(frames', "init") = Kinds(frames, "init") \cup {n + 1}
      /\ f.kind # "init" => Kinds(frames', "init") = Kinds(frames, "init")
      /\ f.kind = "call" => Cardinality(Kinds(frames', "call")) = Cardinality(Kinds(frames, "call")) + 1
      /\ f.kind # "call" => Kinds(frames', "call") = Kinds(frames, "call")
  <2>1. frames \in Seq(HeapFrame)
    BY <1>1
  <2>2. \A kind : f.kind = kind => Kinds(frames', kind) = Kinds(frames, kind) \cup {Len(frames) + 1}
    BY <2>1, KindsPush
  <2>3. \A kind : f.kind = kind => Cardinality(Kinds(frames', kind)) = Cardinality(Kinds(frames, kind)) + 1
    BY <2>1, KindsPush
  <2>4. \A kind : f.kind # kind => Kinds(frames', kind) = Kinds(frames, kind)
    BY <2>1, KindsPush
  <2>5. QED
    BY <2>2, <2>3, <2>4
<1>4. \A i \in Kinds(frames, "init") : i \in 1..n /\ i < n + 1 /\ frames'[i] = frames[i]
  BY <1>1 DEF Kinds
<1>5. /\ reentrant = Cardinality(Kinds(frames, "call"))
      /\ constAlloc <=> Kinds(frames, "init") # {}
  BY DEF ScopesInv, ScopesExact, Kinds
<1> HIDE DEF n
<1>6. ScopesExact'
  <2>1. reentrant' = Cardinality(Kinds(frames', "call"))
    BY <1>3, <1>5
  <2>2. constAlloc' <=> Kinds(frames', "init") # {}
    BY <1>3, <1>5
  <2>3. QED
    BY <2>1, <2>2 DEF ScopesExact, Kinds
<1>7. PrevExact'
  <2> SUFFICES ASSUME NEW i \in Kinds(frames', "init")
               PROVE  frames'[i].prev <=> \E j \in Kinds(frames', "init") : j < i
    BY DEF PrevExact
  <2>1. CASE i \in Kinds(frames, "init")
    <3>1. \A j \in Kinds(frames', "init") : j < i => j \in Kinds(frames, "init")
      BY <1>1, <1>3, <1>4, <2>1
    <3>2. frames[i].prev <=> \E j \in Kinds(frames, "init") : j < i
      BY <2>1 DEF ScopesInv, PrevExact
    <3>3. QED
      BY <1>3, <1>4, <2>1, <3>1, <3>2
  <2>2. CASE i = n + 1
    <3>1. frames'[i].prev = constAlloc
      BY <1>1, <2>2
    <3>2. \A j \in Kinds(frames', "init") : j < i => j \in Kinds(frames, "init")
      BY <1>1, <1>3, <2>2
    <3>3. QED
      BY <1>3, <1>4, <1>5, <2>2, <3>1, <3>2
  <2>3. QED
    BY <1>3, <2>1, <2>2
<1>8. InitsOnce'
  <2>1. \A i \in Kinds(frames, "init") : status[frames[i].unit] = "init" /\ frames[i].unit \in Units
    <3>1. \A i \in 1..n : frames[i] \in HeapFrame
      BY <1>1, ElementOfSeq DEF n
    <3>2. QED
      BY <1>4, <3>1 DEF ScopesInv, InitsOnce, HeapFrame
  <2>2. status \in [Units -> {"absent", "init", "ready", "failed"}] /\ f.unit \in Units
    BY DEF ScopesInv, TypeOK, HeapFrame
  <2>3. CASE f.kind # "init"
    <3>1. Kinds(frames', "init") = Kinds(frames, "init") /\ status' = status
      BY <1>3, <2>3
    <3>2. QED
      BY <1>4, <3>1 DEF ScopesInv, InitsOnce
  <2>4. CASE f.kind = "init"
    <3>1. \A i \in Kinds(frames, "init") : frames'[i].unit # f.unit
      BY <1>4, <2>1, <2>4
    <3>2. \A i \in Kinds(frames', "init") : status'[frames'[i].unit] = "init"
      BY <1>1, <1>3, <1>4, <2>1, <2>2, <2>4
    <3>3. \A i, j \in Kinds(frames', "init") : frames'[i].unit = frames'[j].unit => i = j
      BY <1>1, <1>3, <1>4, <2>4, <3>1 DEF ScopesInv, InitsOnce
    <3>4. QED
      BY <3>2, <3>3 DEF InitsOnce
  <2>5. QED
    BY <2>3, <2>4
<1>9. QED
  BY <1>6, <1>7, <1>8

\* The last frame goes, by a return or a throw: its scope closes.
LEMMA LeaveScopes ==
    ASSUME ScopesInv, NEW result \in SUBSET Values, NEW outcome \in {"ready", "failed"}, Leave(result, outcome)
    PROVE  /\ TypeOK' /\ ScopesExact' /\ PrevExact' /\ InitsOnce'
           /\ \E n \in Nat :
                 /\ Len(frames) = n + 1 /\ DOMAIN frames = 1..(n + 1) /\ DOMAIN frames' = 1..n
                 /\ SameFrames(frames, frames', n)
                 /\ \A i \in 1..n : i # n => frames'[i].locals = frames[i].locals
                 /\ n # 0 => frames'[n].locals = frames[n].locals \cup result
<1>1. frames \in Seq(HeapFrame) /\ frames # <<>>
  BY DEF ScopesInv, TypeOK, Leave
<1>2. frames' = Left(frames, result)
  BY DEF Leave, Left, Below
<1>3. frames' \in Seq(HeapFrame)
  BY <1>1, <1>2, LeaveShape
<1>4. PICK n \in Nat :
        /\ Len(frames) = n + 1 /\ DOMAIN frames = 1..(n + 1) /\ DOMAIN frames' = 1..n
        /\ SameFrames(frames, frames', n)
        /\ \A i \in 1..n : i # n => frames'[i].locals = frames[i].locals
        /\ n # 0 => frames'[n].locals = frames[n].locals \cup result
  BY <1>1, <1>2, LeaveShape
<1>5. Innermost = frames[n + 1] /\ Innermost \in HeapFrame
  BY <1>1, <1>4, ElementOfSeq DEF Innermost
<1>6. /\ reentrant' = IF frames[n + 1].kind = "call" THEN reentrant - 1 ELSE reentrant
      /\ constAlloc' = IF frames[n + 1].kind = "init" THEN frames[n + 1].prev ELSE constAlloc
      /\ status' = IF frames[n + 1].kind = "init" THEN [status EXCEPT ![frames[n + 1].unit] = outcome] ELSE status
      /\ UNCHANGED <<globals, heap>>
  BY <1>5 DEF Leave, ReentrantAfter, ConstAllocAfter
<1>7. /\ Kinds(frames', "init") = Kinds(frames, "init") \ {n + 1}
      /\ frames[n + 1].kind = "call" => Cardinality(Kinds(frames, "call")) = Cardinality(Kinds(frames', "call")) + 1
      /\ frames[n + 1].kind # "call" => Cardinality(Kinds(frames, "call")) = Cardinality(Kinds(frames', "call"))
      /\ Cardinality(Kinds(frames', "call")) \in Nat
  <2>1. \A kind :
          /\ Kinds(frames', kind) = Kinds(frames, kind) \ {n + 1}
          /\ frames[n + 1].kind = kind => Cardinality(Kinds(frames, kind)) = Cardinality(Kinds(frames', kind)) + 1
          /\ frames[n + 1].kind # kind => Cardinality(Kinds(frames, kind)) = Cardinality(Kinds(frames', kind))
    BY <1>1, <1>4, KindsLeave
  <2>2. Cardinality(Kinds(frames', "call")) \in Nat
    BY <1>3, KindsFinite
  <2>3. QED
    BY <2>1, <2>2
<1>8. /\ reentrant = Cardinality(Kinds(frames, "call"))
      /\ constAlloc <=> Kinds(frames, "init") # {}
  BY DEF ScopesInv, ScopesExact, Kinds
<1>9. /\ \A i \in Kinds(frames, "init") : i \in 1..(n + 1)
      /\ \A i \in Kinds(frames', "init") :
            i \in 1..n /\ i < n + 1 /\ frames'[i].prev = frames[i].prev /\ frames'[i].unit = frames[i].unit
      /\ n + 1 \in Kinds(frames, "init") <=> frames[n + 1].kind = "init"
  BY <1>4 DEF Kinds, SameFrames
<1>10. TypeOK'
  BY <1>3, <1>5, <1>6 DEF ScopesInv, TypeOK, HeapFrame
<1>11. ScopesExact'
  <2>1. reentrant' = Cardinality(Kinds(frames', "call"))
    BY <1>6, <1>7, <1>8
  <2>2. constAlloc' <=> Kinds(frames', "init") # {}
    <3>1. CASE frames[n + 1].kind = "init"
      <4>1. frames[n + 1].prev <=> \E j \in Kinds(frames, "init") : j < n + 1
        BY <1>9, <3>1 DEF ScopesInv, PrevExact
      <4>2. \A j \in Kinds(frames, "init") : j < n + 1 <=> j # n + 1
        BY <1>9
      <4>3. QED
        BY <1>6, <1>7, <3>1, <4>1, <4>2
    <3>2. CASE frames[n + 1].kind # "init"
      BY <1>6, <1>7, <1>8, <1>9, <3>2
    <3>3. QED
      BY <3>1, <3>2
  <2>3. QED
    BY <2>1, <2>2 DEF ScopesExact, Kinds
<1>12. PrevExact'
  <2> SUFFICES ASSUME NEW i \in Kinds(frames', "init")
               PROVE  frames'[i].prev <=> \E j \in Kinds(frames', "init") : j < i
    BY DEF PrevExact
  <2>1. frames[i].prev <=> \E j \in Kinds(frames, "init") : j < i
    BY <1>7 DEF ScopesInv, PrevExact
  <2>2. \A j \in Kinds(frames, "init") : j < i => j # n + 1
    BY <1>9
  <2>3. QED
    BY <1>7, <1>9, <2>1, <2>2
<1>13. InitsOnce'
  <2>1. \A i \in Kinds(frames', "init") : i \in Kinds(frames, "init") /\ i # n + 1
    BY <1>7
  <2>2. \A i, j \in Kinds(frames', "init") : frames'[i].unit = frames'[j].unit => i = j
    BY <1>9, <2>1 DEF ScopesInv, InitsOnce
  <2>3. \A i \in Kinds(frames', "init") : status'[frames'[i].unit] = "init"
    <3> SUFFICES ASSUME NEW i \in Kinds(frames', "init") PROVE status'[frames'[i].unit] = "init"
      OBVIOUS
    <3>1. status[frames'[i].unit] = "init"
      BY <1>9, <2>1 DEF ScopesInv, InitsOnce
    <3>2. frames[n + 1].kind = "init" => frames'[i].unit # frames[n + 1].unit
      BY <1>9, <2>1 DEF ScopesInv, InitsOnce
    <3>3. QED
      BY <1>6, <3>1, <3>2 DEF ScopesInv, TypeOK
  <2>4. QED
    BY <2>2, <2>3 DEF InitsOnce
<1>14. QED
  BY <1>4, <1>10, <1>11, <1>12, <1>13

\* What StartInit, Call and CallByName enter is a frame.
LEMMA NewFrame ==
    ASSUME ScopesInv, NEW kind \in {"call", "init", "fn"}, NEW u \in Units
    PROVE  LET f == [kind |-> kind, unit |-> u, prev |-> constAlloc, locals |-> {}]
           IN  f \in HeapFrame /\ Append(frames, f) \in Seq(HeapFrame)
<1> DEFINE f == [kind |-> kind, unit |-> u, prev |-> constAlloc, locals |-> {}]
<1>1. f \in HeapFrame
  BY DEF ScopesInv, TypeOK, HeapFrame
<1>2. frames \in Seq(HeapFrame)
  BY DEF ScopesInv, TypeOK
<1> HIDE DEF f
<1>3. Append(frames, f) \in Seq(HeapFrame)
  BY <1>1, <1>2, AppendProperties
<1>4. QED
  BY <1>1, <1>3 DEF f

\* A running frame refers to one value more.
LEMMA NewValueShape ==
    ASSUME ScopesInv, NEW v \in Values, NewValue(v)
    PROVE  \E n \in Nat \ {0} :
              /\ Innermost = frames[n] /\ Innermost \in HeapFrame
              /\ frames' \in Seq(HeapFrame) /\ DOMAIN frames = 1..n /\ DOMAIN frames' = 1..n
              /\ SameFrames(frames, frames', n)
              /\ frames'[n].locals = frames[n].locals \cup {v}
              /\ \A i \in 1..n : i # n => frames'[i].locals = frames[i].locals
<1> DEFINE n == Len(frames)
<1>1. frames \in Seq(HeapFrame) /\ frames # <<>>
  BY DEF ScopesInv, TypeOK, NewValue
<1>2. /\ n \in Nat \ {0} /\ DOMAIN frames = 1..n /\ n \in DOMAIN frames
      /\ Innermost = frames[n] /\ Innermost \in HeapFrame
  BY <1>1, LenProperties, EmptySeq, ElementOfSeq DEF Innermost
<1> DEFINE ls == frames[n].locals \cup {v}
<1>3. frames' = Referring(frames, n, ls)
  BY DEF NewValue, Referring
<1>4. ls \in SUBSET Values
  BY <1>2 DEF HeapFrame
<1>5. frames[n].locals \cup {v} = ls
  OBVIOUS
<1> HIDE DEF ls, n
<1>6. /\ Referring(frames, n, ls) \in Seq(HeapFrame)
      /\ DOMAIN Referring(frames, n, ls) = 1..Len(frames)
      /\ SameFrames(frames, Referring(frames, n, ls), Len(frames))
      /\ Referring(frames, n, ls)[n].locals = ls
      /\ \A i \in 1..Len(frames) : i # n => Referring(frames, n, ls)[i].locals = frames[i].locals
  BY <1>1, <1>2, <1>4, WithLocals
<1>7. QED
  BY <1>2, <1>3, <1>5, <1>6 DEF n

\* Every step keeps the counters, whatever is compiled to C.
LEMMA ScopesStep == ScopesInv /\ [HeapsNext]_heapVars => ScopesInv'
<1> SUFFICES ASSUME ScopesInv, [HeapsNext]_heapVars PROVE ScopesInv'
  OBVIOUS
<1>0. /\ status \in [Units -> {"absent", "init", "ready", "failed"}]
      /\ globals \in [Units -> SUBSET Values]
      /\ heap \in [Values -> {"temp", "const", "free"}]
      /\ constAlloc \in BOOLEAN /\ reentrant \in Int /\ frames \in Seq(HeapFrame)
  BY DEF ScopesInv, TypeOK
<1>1. ASSUME NEW u \in Units, Call(u) PROVE ScopesInv'
  <2> DEFINE f == [kind |-> "call", unit |-> u, prev |-> constAlloc, locals |-> {}]
  <2>1. f \in HeapFrame /\ Append(frames, f) \in Seq(HeapFrame)
    BY NewFrame
  <2>2. /\ frames' = Append(frames, f) /\ f.prev = constAlloc /\ f.kind = "call"
        /\ reentrant' = reentrant + 1 /\ UNCHANGED <<status, globals, constAlloc>>
    BY <1>1 DEF Call, Enter
  <2>3. heap' \in [Values -> {"temp", "const", "free"}]
    BY <1>0, <1>1 DEF Call, HeapAfterCallEntry, Reclaimed
  <2> HIDE DEF f
  <2>4. TypeOK'
    BY <1>0, <2>1, <2>2, <2>3 DEF TypeOK
  <2>5. constAlloc' = (constAlloc \/ f.kind = "init")
    BY <1>0, <2>2
  <2>6. ScopesExact' /\ PrevExact' /\ InitsOnce'
    BY <2>1, <2>2, <2>5, PushScopes
  <2>7. QED
    BY <2>4, <2>6 DEF ScopesInv
<1>2. ASSUME NEW u \in Units, CallByName(u) PROVE ScopesInv'
  <2> DEFINE f == [kind |-> "fn", unit |-> u, prev |-> constAlloc, locals |-> {}]
  <2>1. f \in HeapFrame /\ Append(frames, f) \in Seq(HeapFrame)
    BY NewFrame
  <2>2. /\ frames' = Append(frames, f) /\ f.prev = constAlloc /\ f.kind = "fn"
        /\ UNCHANGED <<status, globals, heap, constAlloc, reentrant>>
    BY <1>2 DEF CallByName, Enter
  <2> HIDE DEF f
  <2>3. TypeOK'
    BY <1>0, <2>1, <2>2 DEF TypeOK
  <2>4. constAlloc' = (constAlloc \/ f.kind = "init")
    BY <1>0, <2>2
  <2>5. ScopesExact' /\ PrevExact' /\ InitsOnce'
    BY <2>1, <2>2, <2>4, PushScopes
  <2>6. QED
    BY <2>3, <2>5 DEF ScopesInv
<1>3. ASSUME NEW u \in Units, StartInit(u) PROVE ScopesInv'
  <2> DEFINE f == [kind |-> "init", unit |-> u, prev |-> constAlloc, locals |-> {}]
  <2>1. f \in HeapFrame /\ Append(frames, f) \in Seq(HeapFrame)
    BY NewFrame
  <2>2. /\ frames' = Append(frames, f) /\ f.prev = constAlloc /\ f.kind = "init" /\ f.unit = u
        /\ status[u] = "absent" /\ status' = [status EXCEPT ![u] = "init"] /\ constAlloc' = TRUE
        /\ UNCHANGED <<globals, heap, reentrant>>
    BY <1>3 DEF StartInit, Enter
  <2> HIDE DEF f
  <2>3. TypeOK'
    BY <1>0, <2>1, <2>2 DEF TypeOK
  <2>4. constAlloc' = (constAlloc \/ f.kind = "init")
    BY <2>2
  <2>5. ScopesExact' /\ PrevExact' /\ InitsOnce'
    BY <2>1, <2>2, <2>4, PushScopes
  <2>6. QED
    BY <2>3, <2>5 DEF ScopesInv
<1>4. ASSUME NEW result, NEW outcome \in {"ready", "failed"}, result \in SUBSET Values, Leave(result, outcome)
      PROVE  ScopesInv'
  BY <1>4, LeaveScopes DEF ScopesInv
<1>5. CASE ReturnFrom
  <2>1. Innermost \in HeapFrame
    BY <1>0, <1>5, LenProperties, EmptySeq, ElementOfSeq DEF ReturnFrom, Innermost
  <2>2. \A v \in Innermost.locals : {v} \in SUBSET Values
    BY <2>1 DEF HeapFrame
  <2>3. QED
    BY <1>4, <1>5, <2>2 DEF ReturnFrom
<1>6. CASE Throw
  BY <1>4, <1>6 DEF Throw
<1>7. ASSUME NEW v \in Values, NewValue(v) PROVE ScopesInv'
  <2>1. PICK n \in Nat \ {0} :
              /\ frames' \in Seq(HeapFrame) /\ DOMAIN frames = 1..n /\ DOMAIN frames' = 1..n
              /\ SameFrames(frames, frames', n)
    BY <1>7, NewValueShape
  <2>2. UNCHANGED <<status, globals, constAlloc, reentrant>> /\ heap' \in [Values -> {"temp", "const", "free"}]
    BY <1>0, <1>7 DEF NewValue, AllocHeaps, ValueHeap, FastHeap, SlowHeap
  <2>3. TypeOK'
    BY <1>0, <2>1, <2>2 DEF TypeOK
  <2>4. \A kind : Kinds(frames', kind) = Kinds(frames, kind)
    BY <2>1, KindsSame
  <2>5. \A i \in Kinds(frames, "init") : frames'[i].prev = frames[i].prev /\ frames'[i].unit = frames[i].unit
    BY <2>1 DEF Kinds, SameFrames
  <2>6. ScopesExact'
    <3>1. reentrant = Cardinality(Kinds(frames, "call")) /\ (constAlloc <=> \E i \in Kinds(frames, "init") : TRUE)
      BY DEF ScopesInv, ScopesExact, Kinds
    <3>2. reentrant' = Cardinality(Kinds(frames', "call")) /\ (constAlloc' <=> \E i \in Kinds(frames', "init") : TRUE)
      BY <2>2, <2>4, <3>1
    <3>3. QED
      BY <3>2 DEF ScopesExact, Kinds
  <2>7. PrevExact' /\ InitsOnce'
    BY <2>2, <2>4, <2>5 DEF ScopesInv, PrevExact, InitsOnce
  <2>8. QED
    BY <2>3, <2>6, <2>7 DEF ScopesInv
<1>8. ASSUME NEW v \in Values, SetGlobal(v) PROVE ScopesInv'
  <2>1. UNCHANGED <<status, heap, constAlloc, reentrant, frames>> /\ globals' \in [Units -> SUBSET Values]
    BY <1>0, <1>8 DEF SetGlobal
  <2>2. TypeOK'
    BY <1>0, <2>1 DEF TypeOK
  <2>3. ScopesExact' /\ PrevExact' /\ InitsOnce'
    BY <2>1 DEF ScopesInv, ScopesExact, PrevExact, InitsOnce, Kinds
  <2>4. QED
    BY <2>2, <2>3 DEF ScopesInv
<1>9. CASE UNCHANGED heapVars
  BY <1>9 DEF heapVars, ScopesInv, TypeOK, ScopesExact, PrevExact, InitsOnce, Kinds
<1>10. QED
  BY <1>1, <1>2, <1>3, <1>5, <1>6, <1>7, <1>8, <1>9 DEF HeapsNext

-----------------------------------------------------------------------------
(* What is referred to.                                                    *)

\* While no Call runs, everything that runs was entered from an init, and is constant.
LEMMA ConstOutsideCalls ==
    ASSUME HeapInv, reentrant = 0
    PROVE  \A i \in DOMAIN frames : \A v \in frames[i].locals : heap[v] = "const"
<1>1. frames \in Seq(HeapFrame) /\ reentrant = Cardinality(Kinds(frames, "call"))
  BY DEF HeapInv, ScopesInv, TypeOK, ScopesExact, Kinds
<1>2. Kinds(frames, "call") = {}
  <2>1. IsFiniteSet(Kinds(frames, "call"))
    BY <1>1, KindsFinite
  <2>2. QED
    BY <1>1, <2>1, FS_EmptySet
<1>3. \A j \in DOMAIN frames : frames[j].kind \in {"call", "init", "fn"}
  BY <1>1, FrameAt
<1>4. SUFFICES ASSUME NEW i \in DOMAIN frames, NEW v \in frames[i].locals PROVE heap[v] = "const"
  OBVIOUS
<1>5. PICK j \in DOMAIN frames : EnteredFrom(frames, j, i)
  BY DEF HeapInv, Entered
<1>6. frames[j].kind = "init"
  BY <1>2, <1>3, <1>5 DEF EnteredFrom, Kinds
<1>7. QED
  BY <1>5, <1>6 DEF HeapInv, InitLocalsConst

\* Where the running code puts a value while an init that entered it runs.
LEMMA InitAllocatesConst ==
    ASSUME OneJitUnit, ScopesInv, NEW n \in DOMAIN frames, NEW j \in DOMAIN frames, EnteredFrom(frames, j, n),
           frames[j].kind = "init", NEW h \in AllocHeaps(frames[n].unit)
    PROVE  h = "const"
<1>1. j \in Kinds(frames, "init")
  BY DEF Kinds
<1>2. constAlloc
  BY DEF ScopesInv, ScopesExact
<1>3. status[frames[j].unit] = "init"
  BY <1>1 DEF ScopesInv, InitsOnce
<1>4. SameBackend(frames[n].unit, frames[j].unit)
  <2>1. n = j \/ n \in (j + 1)..n
    <3>1. frames \in Seq(HeapFrame)
      BY DEF ScopesInv, TypeOK
    <3>2. n \in Nat /\ j \in 1..n
      BY <3>1, LenProperties DEF EnteredFrom
    <3>3. QED
      BY <3>2
  <2>2. QED
    BY <2>1 DEF EnteredFrom, SameBackend
<1>5. frames[n].unit \in Jit => ~InitFlag(frames[n].unit)
  BY <1>3, <1>4 DEF SameBackend, OneJitUnit, InitFlag
<1>6. QED
  BY <1>2, <1>5 DEF AllocHeaps, ValueHeap, FastHeap, SlowHeap

\* Every step keeps what is referred to, and keeps it constant where it must be.
LEMMA HeapStep == ASSUME OneJitUnit PROVE HeapInv /\ [HeapsNext]_heapVars => HeapInv'
<1> SUFFICES ASSUME HeapInv, [HeapsNext]_heapVars PROVE HeapInv'
  OBVIOUS
<1>0. /\ ScopesInv /\ ScopesInv'
      /\ frames \in Seq(HeapFrame)
      /\ heap \in [Values -> {"temp", "const", "free"}] /\ globals \in [Units -> SUBSET Values]
      /\ Entered(frames) /\ InitLocalsConst(frames, heap) /\ LocalsLive(frames, heap) /\ GlobalsConst
  BY ScopesStep DEF HeapInv, ScopesInv, TypeOK
<1>1. ASSUME NEW u \in Units, Call(u) PROVE HeapInv'
  <2> DEFINE f == [kind |-> "call", unit |-> u, prev |-> constAlloc, locals |-> {}]
  <2>1. f \in HeapFrame
    BY <1>0, NewFrame
  <2>2. frames' = Append(frames, f) /\ f.locals = {} /\ f.kind = "call" /\ globals' = globals
    BY <1>1 DEF Call, Enter
  <2>3. \A v \in Values : heap[v] = "const" => heap'[v] = "const"
    BY <1>0, <1>1 DEF Call, HeapAfterCallEntry, Reclaimed
  <2>4. \A i \in DOMAIN frames : frames[i].locals \subseteq Values
    BY <1>0, FrameAt
  <2>5. InitLocalsConst(frames, heap')
    BY <1>0, <2>3, <2>4 DEF InitLocalsConst
  <2>6. LocalsLive(frames, heap')
    <3>1. CASE reentrant = 0
      BY <2>3, <2>4, <3>1, ConstOutsideCalls DEF LocalsLive
    <3>2. CASE reentrant # 0
      <4>1. heap' = heap
        BY <1>1, <3>2 DEF Call, HeapAfterCallEntry
      <4>2. QED
        BY <1>0, <4>1
    <3>3. QED
      BY <3>1, <3>2
  <2>7. GlobalsConst'
    BY <1>0, <2>2, <2>3 DEF GlobalsConst
  <2> HIDE DEF f
  <2>8. Entered(frames') /\ InitLocalsConst(frames', heap') /\ LocalsLive(frames', heap')
    BY <1>0, <2>1, <2>2, <2>5, <2>6, PushEntered
  <2>9. QED
    BY <1>0, <2>7, <2>8 DEF HeapInv
<1>2. ASSUME NEW u \in Units, CallByName(u) PROVE HeapInv'
  <2> DEFINE f == [kind |-> "fn", unit |-> u, prev |-> constAlloc, locals |-> {}]
  <2>1. f \in HeapFrame
    BY <1>0, NewFrame
  <2>2. /\ frames' = Append(frames, f) /\ f.locals = {} /\ UNCHANGED <<globals, heap>>
        /\ frames # <<>> /\ SameBackend(f.unit, frames[Len(frames)].unit)
    BY <1>2 DEF CallByName, Enter, SameBackend, Innermost
  <2>3. GlobalsConst'
    BY <1>0, <2>2 DEF GlobalsConst
  <2> HIDE DEF f
  <2>4. Entered(frames') /\ InitLocalsConst(frames', heap) /\ LocalsLive(frames', heap)
    BY <1>0, <2>1, <2>2, PushEntered
  <2>5. QED
    BY <1>0, <2>2, <2>3, <2>4 DEF HeapInv
<1>3. ASSUME NEW u \in Units, StartInit(u) PROVE HeapInv'
  <2> DEFINE f == [kind |-> "init", unit |-> u, prev |-> constAlloc, locals |-> {}]
  <2>1. f \in HeapFrame
    BY <1>0, NewFrame
  <2>2. frames' = Append(frames, f) /\ f.locals = {} /\ f.kind = "init" /\ UNCHANGED <<globals, heap>>
    BY <1>3 DEF StartInit, Enter
  <2>3. GlobalsConst'
    BY <1>0, <2>2 DEF GlobalsConst
  <2> HIDE DEF f
  <2>4. Entered(frames') /\ InitLocalsConst(frames', heap) /\ LocalsLive(frames', heap)
    BY <1>0, <2>1, <2>2, PushEntered
  <2>5. QED
    BY <1>0, <2>2, <2>3, <2>4 DEF HeapInv
<1>4. ASSUME NEW r \in SUBSET Values, NEW outcome \in {"ready", "failed"}, Leave(r, outcome),
             r \subseteq Innermost.locals, r = {} \/ Innermost.kind = "fn"
      PROVE  HeapInv'
  <2>1. PICK n \in Nat :
          /\ Len(frames) = n + 1 /\ DOMAIN frames = 1..(n + 1) /\ DOMAIN frames' = 1..n
          /\ SameFrames(frames, frames', n)
          /\ \A i \in 1..n : i # n => frames'[i].locals = frames[i].locals
          /\ n # 0 => frames'[n].locals = frames[n].locals \cup r
    BY <1>0, <1>4, LeaveScopes
  <2>2. r \subseteq frames[n + 1].locals /\ (r = {} \/ frames[n + 1].kind = "fn")
    BY <1>4, <2>1 DEF Innermost
  <2>3. UNCHANGED <<globals, heap>>
    BY <1>4 DEF Leave
  <2>4. Entered(frames') /\ InitLocalsConst(frames', heap) /\ LocalsLive(frames', heap)
    BY <1>0, <2>1, <2>2, LeaveEntered
  <2>5. GlobalsConst'
    BY <1>0, <2>3 DEF GlobalsConst
  <2>6. QED
    BY <1>0, <2>3, <2>4, <2>5 DEF HeapInv
<1>5. CASE ReturnFrom
  <2>1. Innermost \in HeapFrame
    BY <1>0, <1>5, LenProperties, EmptySeq, ElementOfSeq DEF ReturnFrom, Innermost
  <2>2. CASE Leave({}, "ready")
    BY <1>4, <2>2
  <2>3. CASE \E v \in Innermost.locals : Innermost.kind = "fn" /\ Leave({v}, "ready")
    <3>1. PICK v \in Innermost.locals : Innermost.kind = "fn" /\ Leave({v}, "ready")
      BY <2>3
    <3>2. {v} \in SUBSET Values /\ {v} \subseteq Innermost.locals
      BY <2>1 DEF HeapFrame
    <3>3. QED
      BY <1>4, <3>1, <3>2
  <2>4. QED
    BY <1>5, <2>2, <2>3 DEF ReturnFrom
<1>6. CASE Throw
  BY <1>4, <1>6 DEF Throw
<1>7. ASSUME NEW v \in Values, NewValue(v) PROVE HeapInv'
  <2>1. PICK n \in Nat \ {0} :
          /\ Innermost = frames[n] /\ Innermost \in HeapFrame
          /\ DOMAIN frames = 1..n /\ DOMAIN frames' = 1..n
          /\ SameFrames(frames, frames', n)
          /\ frames'[n].locals = frames[n].locals \cup {v}
          /\ \A i \in 1..n : i # n => frames'[i].locals = frames[i].locals
    BY <1>0, <1>7, NewValueShape
  <2>2. PICK h \in AllocHeaps(frames[n].unit) : heap' = [heap EXCEPT ![v] = h]
    BY <1>7, <2>1 DEF NewValue
  <2>3. h \in {"temp", "const"}
    BY <2>2 DEF AllocHeaps, ValueHeap, FastHeap, SlowHeap
  <2>4. globals' = globals /\ heap[v] = "free"
    BY <1>7 DEF NewValue
  <2>5. heap'[v] = h /\ \A w \in Values : w # v => heap'[w] = heap[w]
    BY <1>0, <2>2
  <2>6. \A i \in 1..n : frames[i].locals \subseteq Values
    BY <1>0, <2>1, FrameAt
  <2>7. \A i \in 1..n : \A w \in frames'[i].locals : w \in frames[i].locals \/ (i = n /\ w = v)
    BY <2>1
  <2>8. \A i \in 1..n : \A j : EnteredFrom(frames', j, i) <=> EnteredFrom(frames, j, i)
    BY <2>1, EnteredFromBelow
  <2>9. Entered(frames')
    BY <1>0, <2>1, <2>8 DEF Entered
  <2>10. \A i \in 1..n : \A w \in frames[i].locals : w # v
    BY <1>0, <2>1, <2>4 DEF LocalsLive
  <2>11. InitLocalsConst(frames', heap')
    <3> SUFFICES ASSUME NEW i \in 1..n, NEW j \in 1..n, EnteredFrom(frames', j, i), frames'[j].kind = "init",
                        NEW w \in frames'[i].locals
                 PROVE  heap'[w] = "const"
      BY <2>1 DEF InitLocalsConst
    <3>1. EnteredFrom(frames, j, i) /\ frames[j].kind = "init"
      BY <2>1, <2>8 DEF SameFrames
    <3>2. CASE w \in frames[i].locals
      BY <1>0, <2>1, <2>5, <2>6, <2>10, <3>1, <3>2 DEF InitLocalsConst
    <3>3. CASE i = n /\ w = v
      BY <1>0, <2>1, <2>2, <2>5, <3>1, <3>3, InitAllocatesConst
    <3>4. QED
      BY <2>7, <3>2, <3>3
  <2>12. LocalsLive(frames', heap')
    <3> SUFFICES ASSUME NEW i \in 1..n, NEW w \in frames'[i].locals PROVE heap'[w] # "free"
      BY <2>1 DEF LocalsLive
    <3>1. CASE w \in frames[i].locals
      BY <1>0, <2>1, <2>5, <2>6, <2>10, <3>1 DEF LocalsLive
    <3>2. CASE i = n /\ w = v
      BY <2>3, <2>5, <3>2
    <3>3. QED
      BY <2>7, <3>1, <3>2
  <2>13. GlobalsConst'
    BY <1>0, <2>4, <2>5 DEF GlobalsConst
  <2>14. QED
    BY <1>0, <2>9, <2>11, <2>12, <2>13 DEF HeapInv
<1>8. ASSUME NEW v \in Values, SetGlobal(v) PROVE HeapInv'
  <2> DEFINE n == Len(frames)
  <2>1. /\ n \in DOMAIN frames /\ n \in Nat /\ frames[n].kind = "init" /\ v \in frames[n].locals
        /\ globals' = [globals EXCEPT ![frames[n].unit] = @ \cup {v}] /\ UNCHANGED <<heap, frames>>
    BY <1>0, <1>8, LenProperties, EmptySeq DEF SetGlobal, Innermost
  <2> HIDE DEF n
  <2>2. EnteredFrom(frames, n, n)
    <3>1. PICK j \in DOMAIN frames : EnteredFrom(frames, j, n)
      BY <1>0, <2>1 DEF Entered
    <3>2. j = n \/ n \in (j + 1)..n
      BY <2>1, <3>1 DEF EnteredFrom
    <3>3. QED
      BY <2>1, <3>1, <3>2 DEF EnteredFrom
  <2>3. heap[v] = "const"
    BY <1>0, <2>1, <2>2 DEF InitLocalsConst
  <2>4. GlobalsConst'
    BY <1>0, <2>1, <2>3 DEF GlobalsConst
  <2>5. QED
    BY <1>0, <2>1, <2>4 DEF HeapInv
<1>9. CASE UNCHANGED heapVars
  BY <1>0, <1>9 DEF heapVars, HeapInv, GlobalsConst
<1>10. QED
  BY <1>1, <1>2, <1>3, <1>5, <1>6, <1>7, <1>8, <1>9 DEF HeapsNext

-----------------------------------------------------------------------------

LEMMA InitHasInv == HeapsInit => HeapInv
<1> SUFFICES ASSUME HeapsInit PROVE HeapInv
  OBVIOUS
<1>1. frames = <<>> /\ frames \in Seq(HeapFrame) /\ DOMAIN frames = {}
  <2>1. <<>> \in Seq(HeapFrame) /\ Len(<<>>) = 0
    BY EmptySeq
  <2>2. DOMAIN <<>> = 1..0
    BY <2>1, LenProperties
  <2>3. QED
    BY <2>1, <2>2 DEF HeapsInit
<1>2. TypeOK
  <2>1. reentrant \in Int
    BY DEF HeapsInit
  <2>2. constAlloc \in BOOLEAN
    BY DEF HeapsInit
  <2>3. /\ status \in [Units -> {"absent", "init", "ready", "failed"}]
        /\ globals \in [Units -> SUBSET Values]
        /\ heap \in [Values -> {"temp", "const", "free"}]
    BY DEF HeapsInit
  <2>4. QED
    BY <1>1, <2>1, <2>2, <2>3 DEF TypeOK
<1>3. Kinds(frames, "call") = {} /\ Kinds(frames, "init") = {}
  BY <1>1 DEF Kinds
<1>4. ScopesExact
  <2>1. reentrant = Cardinality(Kinds(frames, "call")) /\ ~constAlloc
    BY <1>3, FS_EmptySet DEF HeapsInit
  <2>2. QED
    BY <1>1, <2>1 DEF ScopesExact, Kinds
<1>5. PrevExact /\ InitsOnce
  BY <1>3 DEF PrevExact, InitsOnce
<1>6. Entered(frames) /\ InitLocalsConst(frames, heap) /\ LocalsLive(frames, heap)
  BY <1>1 DEF Entered, InitLocalsConst, LocalsLive
<1>7. GlobalsConst
  BY DEF HeapsInit, GlobalsConst
<1>8. QED
  BY <1>2, <1>4, <1>5, <1>6, <1>7 DEF HeapInv, ScopesInv

\* reentrant_count_ is the number of Calls that run and interp_const_alloc_ is set exactly while some
\* __fakelua_init runs, however Calls and compilations nest, return or throw, in whatever engine.
THEOREM ScopesAlwaysExact == HeapsSpec => []ScopesExact
<1>1. HeapsInit => ScopesInv
  BY InitHasInv DEF HeapInv
<1>2. ScopesInv /\ [HeapsNext]_heapVars => ScopesInv'
  BY ScopesStep
<1>3. ScopesInv => ScopesExact
  BY DEF ScopesInv
<1>4. QED
  BY <1>1, <1>2, <1>3, PTL DEF HeapsSpec

\* The relation HeapInv holds of every reachable state if one unit at most is compiled to C.
THEOREM HeapInvariant == ASSUME OneJitUnit PROVE HeapsSpec => []HeapInv
<1>1. HeapsInit => HeapInv
  BY InitHasInv
<1>2. HeapInv /\ [HeapsNext]_heapVars => HeapInv'
  BY HeapStep
<1>3. QED
  BY <1>1, <1>2, PTL DEF HeapsSpec

\* Nothing that a file-level variable refers to is ever reclaimed, if one unit at most is compiled to C.
THEOREM GlobalsAlwaysSurvive == ASSUME OneJitUnit PROVE HeapsSpec => []GlobalsSurvive
<1>1. HeapInv => GlobalsSurvive
  BY DEF HeapInv, GlobalsConst, GlobalsSurvive
<1>2. QED
  BY <1>1, HeapInvariant, PTL

\* Nothing that a running function refers to is reclaimed under it, if one unit at most is compiled to C.
THEOREM LocalsAlwaysSurvive == ASSUME OneJitUnit PROVE HeapsSpec => []LocalsSurvive
<1>1. HeapInv => LocalsSurvive
  BY DEF HeapInv, LocalsLive, LocalsSurvive
<1>2. QED
  BY <1>1, HeapInvariant, PTL
=============================================================================
