------------------------- MODULE JitDispatchProofs -------------------------
(***************************************************************************)
(* The inductive invariants of JitDispatch, and what follows from them,    *)
(* for every depth of nesting.                                             *)
(*                                                                         *)
(* There are three layers, each with the assumptions that it needs.        *)
(* BaseInv, how frames lie on one another and which boundary is on the     *)
(* chain, needs none.  That no exception reaches TCC code needs NoTccClosures, *)
(* and that a longjmp skips no destructor needs OneEngine.                 *)
(***************************************************************************)
EXTENDS JitDispatch, FiniteSetTheorems, SequenceTheorems, TLAPS

\* Code of another engine has no closures of TCC code to call.
NoTccClosures == "TCC" \notin Foreign

\* No closure travels between engines, named callbacks are TCC code, and GCC code does not call table.sort.
OneEngine == Foreign = {} /\ Callbacks \subseteq {"TCC"} /\ "sort" \notin Flavors["GCC"]

TypeOK ==
    /\ stack \in Seq(Frame)
    /\ boundary \in Nat
    /\ curJit \in Engine
    /\ mode \in {"run", "throw", "dead"}
    /\ depth \in Int

\* b is the topmost owner among the first n frames, or 0.
TopOwner(s, b, n) ==
    /\ b = 0 \/ (b \in 1..n /\ s[b].owner)
    /\ \A i \in 1..n : s[i].owner => i <= b

IsInterp(f) == f.kind = "code" /\ f.jit = "INTERP"

\* Frame i of s may lie on the frames below it.
Fits(s, i) ==
    /\ i = 1 => s[i].kind = "dispatch" /\ s[i].prevJit = "TCC"
    /\ s[i].owner => s[i].kind \in {"dispatch", "load"} /\ TopOwner(s, s[i].prevB, i - 1)
    /\ s[i].kind = "load" => s[i].owner
    /\ s[i].kind # "native" => s[i].flavor \notin {"tick", "pcall"}
    /\ s[i].kind = "native" => i > 2 /\ s[i - 1].kind = "entry" /\ s[i - 2].kind = "code"
    /\ i > 3 /\ s[i - 1].kind = "native" => s[i].kind = "dispatch" /\ s[i].prevJit = s[i - 3].jit
    /\ i > 1 /\ s[i - 1].kind = "entry" => s[i].kind \in {"dispatch", "native"} \/ IsInterp(s[i])
    /\ i > 1 /\ s[i].kind = "dispatch" => s[i - 1].kind \in {"entry", "native"} \/ IsInterp(s[i - 1])
    /\ IsInterp(s[i]) => i > 1 /\ s[i - 1].kind \in {"entry", "dispatch"}

\* The native function on top sees its caller's engine.
CallerSeen(s, jit) == LET n == Len(s) IN n > 2 /\ s[n].kind = "native" => jit = s[n - 2].jit

BaseInv ==
    /\ TypeOK
    /\ \A i \in DOMAIN stack : Fits(stack, i)
    /\ TopOwner(stack, boundary, Len(stack))
    /\ CallerSeen(stack, curJit)
    /\ stack = <<>> => curJit = "TCC"

\* TCC code has a boundary below it.
Guarded(s, i) == s[i].kind = "code" /\ s[i].jit = "TCC" => \E j \in 1..(i - 1) : s[j].owner

\* An exception that is at C code got there because there is no boundary.
ThrowOutside == mode = "throw" /\ stack # <<>> /\ IsC(Top) => boundary = 0

GuardInv ==
    /\ BaseInv
    /\ \A i \in DOMAIN stack : Guarded(stack, i)
    /\ ThrowOutside
    /\ mode # "dead"

\* Above a boundary there is only TCC code, and every dispatch owns a boundary.
Uniform(s, i) ==
    /\ (\E j \in 1..(i - 1) : s[j].owner) =>
          /\ s[i].kind = "code" => s[i].jit = "TCC"
          /\ s[i].kind = "dispatch" => s[i].owner
    /\ s[i].kind = "native" /\ i > 2 => s[i].flavor \in Flavors[s[i - 2].jit]

Ticks(s) == {i \in DOMAIN s : s[i].flavor = "tick"}

ExactInv ==
    /\ GuardInv
    /\ \A i \in DOMAIN stack : Uniform(stack, i)
    /\ depth = Cardinality(Ticks(stack))

-----------------------------------------------------------------------------
(* Stacks of frames.                                                       *)

\* t begins with the first m frames of s.
SamePrefix(s, t, m) == \A i \in 1..m : t[i] = s[i]

\* Whether a frame may lie where it does depends on it and the frames below it only.
LEMMA FitsPrefix ==
    ASSUME NEW s, NEW t, NEW m \in Nat, SamePrefix(s, t, m), NEW i \in 1..m
    PROVE  (Fits(s, i) => Fits(t, i)) /\ (Guarded(s, i) => Guarded(t, i)) /\ (Uniform(s, i) => Uniform(t, i))
<1>1. t[i] = s[i] /\ (i > 1 => t[i - 1] = s[i - 1]) /\ (i > 2 => t[i - 2] = s[i - 2]) /\ (i > 3 => t[i - 3] = s[i - 3])
  BY DEF SamePrefix
<1>2. \A j \in 1..(i - 1) : t[j] = s[j]
  BY DEF SamePrefix
<1>3. \A b : TopOwner(s, b, i - 1) => TopOwner(t, b, i - 1)
  BY <1>2 DEF TopOwner
<1>4. Fits(s, i) => Fits(t, i)
  BY <1>1, <1>3 DEF Fits, IsInterp
<1>5. Guarded(s, i) => Guarded(t, i)
  BY <1>1, <1>2 DEF Guarded
<1>6. Uniform(s, i) => Uniform(t, i)
  BY <1>1, <1>2 DEF Uniform
<1>7. QED
  BY <1>4, <1>5, <1>6

\* What is on a stack is a frame.
LEMMA FrameAt ==
    ASSUME NEW s \in Seq(Frame)
    PROVE  /\ Len(s) \in Nat /\ DOMAIN s = 1..Len(s) /\ s # <<>> => Len(s) # 0
           /\ \A i \in 1..Len(s) :
                 /\ s[i] \in Frame /\ s[i].kind \in {"code", "dispatch", "entry", "native", "load"}
                 /\ s[i].jit \in Engine /\ s[i].owner \in BOOLEAN /\ s[i].prevB \in Nat
                 /\ s[i].prevJit \in Engine /\ s[i].flavor \in NativeFlavor
<1>1. Len(s) \in Nat /\ DOMAIN s = 1..Len(s) /\ s # <<>> => Len(s) # 0
  BY LenProperties, EmptySeq
<1>2. \A i \in 1..Len(s) : s[i] \in Frame
  BY ElementOfSeq
<1>3. QED
  BY <1>1, <1>2 DEF Frame

\* The first m frames of a stack.
LEMMA PrefixShape ==
    ASSUME NEW s \in Seq(Frame), NEW m \in 0..Len(s)
    PROVE  /\ SubSeq(s, 1, m) \in Seq(Frame)
           /\ Len(SubSeq(s, 1, m)) = m /\ DOMAIN SubSeq(s, 1, m) = 1..m
           /\ SamePrefix(s, SubSeq(s, 1, m), m)
           /\ m # 0 => SubSeq(s, 1, m) # <<>>
<1>1. Len(s) \in Nat /\ \A i \in 1..m : s[i] \in Frame
  BY FrameAt
<1>2. /\ SubSeq(s, 1, m) \in Seq(Frame)
      /\ Len(SubSeq(s, 1, m)) = IF 1 <= m THEN m - 1 + 1 ELSE 0
      /\ \A i \in 1..(m - 1 + 1) : SubSeq(s, 1, m)[i] = s[1 + i - 1]
  BY <1>1, SubSeqProperties
<1>3. Len(SubSeq(s, 1, m)) = m /\ SamePrefix(s, SubSeq(s, 1, m), m)
  BY <1>1, <1>2 DEF SamePrefix
<1>4. DOMAIN SubSeq(s, 1, m) = 1..m
  BY <1>2, <1>3, LenProperties
<1>5. m # 0 => SubSeq(s, 1, m) # <<>>
  BY <1>3, EmptySeq
<1>6. QED
  BY <1>2, <1>3, <1>4, <1>5

\* A stack on which others were pushed.
LEMMA PushShape ==
    ASSUME NEW s \in Seq(Frame), NEW fs \in Seq(Frame)
    PROVE  /\ s \o fs \in Seq(Frame)
           /\ Len(s \o fs) = Len(s) + Len(fs) /\ DOMAIN (s \o fs) = 1..(Len(s) + Len(fs))
           /\ SamePrefix(s, s \o fs, Len(s))
           /\ \A k \in 1..Len(fs) : (s \o fs)[Len(s) + k] = fs[k]
<1>1. Len(s) \in Nat /\ Len(fs) \in Nat
  BY LenProperties
<1>2. /\ s \o fs \in Seq(Frame) /\ Len(s \o fs) = Len(s) + Len(fs)
      /\ \A i \in 1..(Len(s) + Len(fs)) : (s \o fs)[i] = IF i <= Len(s) THEN s[i] ELSE fs[i - Len(s)]
  BY ConcatProperties
<1>3. DOMAIN (s \o fs) = 1..(Len(s) + Len(fs))
  BY <1>2, LenProperties
<1>4. SamePrefix(s, s \o fs, Len(s))
  BY <1>1, <1>2 DEF SamePrefix
<1>5. \A k \in 1..Len(fs) : (s \o fs)[Len(s) + k] = fs[k]
  BY <1>1, <1>2
<1>6. QED
  BY <1>2, <1>3, <1>4, <1>5

\* One, two and four frames.
LEMMA Tuples ==
    ASSUME NEW a \in Frame, NEW b \in Frame, NEW c \in Frame, NEW d \in Frame
    PROVE  /\ <<a>> \in Seq(Frame) /\ Len(<<a>>) = 1 /\ <<a>>[1] = a
           /\ <<a, b>> \in Seq(Frame) /\ Len(<<a, b>>) = 2 /\ <<a, b>>[1] = a /\ <<a, b>>[2] = b
           /\ <<a, b, c>> \in Seq(Frame) /\ Len(<<a, b, c>>) = 3
           /\ <<a, b, c>>[1] = a /\ <<a, b, c>>[2] = b /\ <<a, b, c>>[3] = c
           /\ <<a, b, c, d>> \in Seq(Frame) /\ Len(<<a, b, c, d>>) = 4
           /\ <<a, b, c, d>>[1] = a /\ <<a, b, c, d>>[2] = b
           /\ <<a, b, c, d>>[3] = c /\ <<a, b, c, d>>[4] = d
OBVIOUS

\* k frames were pushed.
Pushed(k) ==
    /\ Len(stack) \in Nat /\ DOMAIN stack = 1..Len(stack)
    /\ stack' \in Seq(Frame) /\ Len(stack') = Len(stack) + k /\ DOMAIN stack' = 1..(Len(stack) + k)
    /\ SamePrefix(stack, stack', Len(stack))

LEMMA PushIs ==
    ASSUME stack \in Seq(Frame), NEW fs \in Seq(Frame), stack' = stack \o fs
    PROVE  Pushed(Len(fs)) /\ \A k \in 1..Len(fs) : stack'[Len(stack) + k] = fs[k]
<1>1. /\ stack \o fs \in Seq(Frame)
      /\ Len(stack \o fs) = Len(stack) + Len(fs) /\ DOMAIN (stack \o fs) = 1..(Len(stack) + Len(fs))
      /\ SamePrefix(stack, stack \o fs, Len(stack))
      /\ \A k \in 1..Len(fs) : (stack \o fs)[Len(stack) + k] = fs[k]
  BY PushShape
<1>2. Len(stack) \in Nat /\ DOMAIN stack = 1..Len(stack)
  BY LenProperties
<1>3. QED
  BY <1>1, <1>2 DEF Pushed

\* What the frames are that a call pushes.
IsCode(f, e, jit) == f.kind = "code" /\ f.jit = e /\ ~f.owner /\ f.flavor = "plain" /\ f.prevJit = jit
IsEntry(f) == f.kind = "entry" /\ ~f.owner /\ f.flavor = "plain"
IsDispatch(f, callee, type, b, jit) ==
    /\ f.kind = "dispatch" /\ f.owner = NeedsBoundary(callee, type) /\ f.prevB = b /\ f.prevJit = jit
    /\ f.flavor = "plain"

LEMMA DispatchShape ==
    ASSUME TypeOK, NEW callee \in Engine, NEW type \in Engine,
           stack' = stack \o <<Dispatch(callee, type), Code(callee, type)>>
    PROVE  /\ Pushed(2)
           /\ IsDispatch(stack'[Len(stack) + 1], callee, type, boundary, curJit)
           /\ IsCode(stack'[Len(stack) + 2], callee, type)
<1> DEFINE d == Dispatch(callee, type)
           c == Code(callee, type)
<1>1. NeedsBoundary(callee, type) \in BOOLEAN /\ "plain" \in NativeFlavor
  BY DEF NeedsBoundary, NativeFlavor
<1>2. d \in Frame /\ IsDispatch(d, callee, type, boundary, curJit)
  BY <1>1 DEF TypeOK, Dispatch, Frame, IsDispatch
<1>3. c \in Frame /\ IsCode(c, callee, type)
  BY <1>1 DEF TypeOK, Code, Frame, IsCode
<1> HIDE DEF d, c
<1>4. <<d, c>> \in Seq(Frame) /\ Len(<<d, c>>) = 2 /\ <<d, c>>[1] = d /\ <<d, c>>[2] = c
  BY <1>2, <1>3, Tuples
<1>5. stack \in Seq(Frame) /\ Len(stack) \in Nat /\ DOMAIN stack = 1..Len(stack) /\ stack' = stack \o <<d, c>>
  BY FrameAt DEF TypeOK, d, c
<1>6. Pushed(2)
  BY <1>4, <1>5, PushIs
<1>7. stack'[Len(stack) + 1] = d /\ stack'[Len(stack) + 2] = c
  BY <1>4, <1>5, PushIs
<1>8. QED
  BY <1>2, <1>3, <1>6, <1>7

LEMMA CallLuaByNameShape ==
    ASSUME TypeOK, CallLuaByName
    PROVE  /\ Pushed(3) /\ Top = stack[Len(stack)] /\ Len(stack) # 0 /\ Top.kind = "code" /\ Top.jit \in Engine
           /\ IsEntry(stack'[Len(stack) + 1])
           /\ IsDispatch(stack'[Len(stack) + 2], Top.jit, Top.jit, boundary, Top.jit)
           /\ IsCode(stack'[Len(stack) + 3], Top.jit, Top.jit)
<1> DEFINE j == Top.jit
           a == Entry
           d == [Dispatch(j, j) EXCEPT !.prevJit = j]
           c == Code(j, j)
<1>1. NeedsBoundary(j, j) \in BOOLEAN /\ "plain" \in NativeFlavor
  BY DEF NeedsBoundary, NativeFlavor
<1>2. /\ stack \in Seq(Frame) /\ Len(stack) \in Nat \ {0} /\ DOMAIN stack = 1..Len(stack)
      /\ Top = stack[Len(stack)] /\ Top.kind = "code" /\ j \in Engine
      /\ stack' = stack \o <<a, d, c>>
  BY FrameAt DEF TypeOK, CallLuaByName, Running, Push, Top
<1> HIDE DEF j
<1>3. a \in Frame /\ IsEntry(a)
  BY <1>1 DEF TypeOK, Entry, Frame, IsEntry
<1>4. d \in Frame /\ IsDispatch(d, j, j, boundary, j)
  BY <1>1, <1>2 DEF TypeOK, Dispatch, Frame, IsDispatch
<1>5. c \in Frame /\ IsCode(c, j, j)
  BY <1>1, <1>2 DEF TypeOK, Code, Frame, IsCode
<1> HIDE DEF a, d, c
<1>6. <<a, d, c>> \in Seq(Frame) /\ Len(<<a, d, c>>) = 3
      /\ <<a, d, c>>[1] = a /\ <<a, d, c>>[2] = d /\ <<a, d, c>>[3] = c
  BY <1>3, <1>4, <1>5, Tuples
<1>7. Pushed(3)
  BY <1>2, <1>6, PushIs
<1>8. stack'[Len(stack) + 1] = a /\ stack'[Len(stack) + 2] = d /\ stack'[Len(stack) + 3] = c
  BY <1>2, <1>6, PushIs
<1>9. QED
  BY <1>2, <1>3, <1>4, <1>5, <1>7, <1>8 DEF j

LEMMA CallNativeShape ==
    ASSUME TypeOK, NEW fl \in NativeFlavor, CallNative(fl)
    PROVE  /\ Pushed(2) /\ Top = stack[Len(stack)] /\ Len(stack) # 0 /\ Top.kind = "code" /\ Top.jit \in Engine
           /\ IsEntry(stack'[Len(stack) + 1])
           /\ stack'[Len(stack) + 2].kind = "native" /\ ~stack'[Len(stack) + 2].owner
           /\ stack'[Len(stack) + 2].flavor = fl
<1> DEFINE a == Entry
           b == Native(fl)
<1>1. /\ stack \in Seq(Frame) /\ Len(stack) \in Nat \ {0} /\ DOMAIN stack = 1..Len(stack)
      /\ Top = stack[Len(stack)] /\ Top.kind = "code" /\ Top.jit \in Engine
      /\ stack' = stack \o <<a, b>>
  BY FrameAt DEF TypeOK, CallNative, Running, Push, Top
<1>2. a \in Frame /\ IsEntry(a)
  BY DEF TypeOK, Entry, Frame, IsEntry, NativeFlavor
<1>3. b \in Frame /\ b.kind = "native" /\ ~b.owner /\ b.flavor = fl
  BY DEF TypeOK, Entry, Native, Frame
<1> HIDE DEF a, b
<1>4. <<a, b>> \in Seq(Frame) /\ Len(<<a, b>>) = 2 /\ <<a, b>>[1] = a /\ <<a, b>>[2] = b
  BY <1>2, <1>3, Tuples
<1>5. Pushed(2)
  BY <1>1, <1>4, PushIs
<1>6. stack'[Len(stack) + 1] = a /\ stack'[Len(stack) + 2] = b
  BY <1>1, <1>4, PushIs
<1>7. QED
  BY <1>1, <1>2, <1>3, <1>5, <1>6

LEMMA CallClosureFromCShape ==
    ASSUME TypeOK, NEW e \in Engine, CallClosureFromC(e)
    PROVE  /\ Top = stack[Len(stack)] /\ Len(stack) # 0 /\ IsC(Top) /\ Top.jit \in Engine
           /\ e = "INTERP" =>
                 Pushed(2) /\ IsEntry(stack'[Len(stack) + 1]) /\ IsCode(stack'[Len(stack) + 2], e, curJit)
           /\ e # "INTERP" => Pushed(1) /\ IsCode(stack'[Len(stack) + 1], e, curJit)
<1> DEFINE a == Entry
           b == Code(e, curJit)
<1>1. /\ stack \in Seq(Frame) /\ Len(stack) \in Nat \ {0} /\ DOMAIN stack = 1..Len(stack)
      /\ Top = stack[Len(stack)] /\ IsC(Top) /\ Top.jit \in Engine
      /\ e = "INTERP" => stack' = stack \o <<a, b>>
      /\ e # "INTERP" => stack' = stack \o <<b>>
  BY FrameAt DEF TypeOK, CallClosureFromC, Running, Push, Top, IsC
<1>2. a \in Frame /\ IsEntry(a)
  BY DEF TypeOK, Entry, Frame, IsEntry, NativeFlavor
<1>3. b \in Frame /\ IsCode(b, e, curJit)
  BY DEF TypeOK, Code, Frame, IsCode, NativeFlavor
<1> HIDE DEF a, b
<1>4. /\ <<a, b>> \in Seq(Frame) /\ Len(<<a, b>>) = 2 /\ <<a, b>>[1] = a /\ <<a, b>>[2] = b
      /\ <<b>> \in Seq(Frame) /\ Len(<<b>>) = 1 /\ <<b>>[1] = b
  BY <1>2, <1>3, Tuples
<1>5. CASE e = "INTERP"
  <2>1. Pushed(2)
    BY <1>1, <1>4, <1>5, PushIs
  <2>2. stack'[Len(stack) + 1] = a /\ stack'[Len(stack) + 2] = b
    BY <1>1, <1>4, <1>5, PushIs
  <2>3. QED
    BY <1>1, <1>2, <1>3, <1>5, <2>1, <2>2
<1>6. CASE e # "INTERP"
  <2>1. Pushed(1)
    BY <1>1, <1>4, <1>6, PushIs
  <2>2. stack'[Len(stack) + 1] = b
    BY <1>1, <1>4, <1>6, PushIs
  <2>3. QED
    BY <1>1, <1>3, <1>6, <2>1, <2>2
<1>7. QED
  BY <1>5, <1>6

LEMMA CallLoadedShape ==
    ASSUME TypeOK, CallLoaded
    PROVE  /\ Pushed(4) /\ Top = stack[Len(stack)] /\ Len(stack) # 0 /\ Top.kind = "code"
           /\ stack'[Len(stack) + 1].kind = "load" /\ stack'[Len(stack) + 1].owner
           /\ stack'[Len(stack) + 1].prevB = boundary /\ stack'[Len(stack) + 1].flavor = "load"
           /\ IsEntry(stack'[Len(stack) + 2])
           /\ IsDispatch(stack'[Len(stack) + 3], "TCC", "TCC", Len(stack) + 1, "TCC")
           /\ IsCode(stack'[Len(stack) + 4], "TCC", "TCC")
<1> DEFINE l == Load
           a == [Entry EXCEPT !.prevB = Len(stack) + 1]
           d == [Dispatch("TCC", "TCC") EXCEPT !.prevB = Len(stack) + 1, !.prevJit = "TCC"]
           c == Code("TCC", "TCC")
<1>1. /\ stack \in Seq(Frame) /\ Len(stack) \in Nat \ {0} /\ DOMAIN stack = 1..Len(stack)
      /\ Top = stack[Len(stack)] /\ Top.kind = "code" /\ Len(stack) + 1 \in Nat
      /\ stack' = stack \o <<l, a, d, c>>
  BY FrameAt DEF TypeOK, CallLoaded, Running, Push, Top
<1>2. "TCC" \in Engine /\ NeedsBoundary("TCC", "TCC") \in BOOLEAN /\ {"plain", "load"} \subseteq NativeFlavor
  BY DEF Engine, NeedsBoundary, NativeFlavor
<1>3. l \in Frame /\ l.kind = "load" /\ l.owner /\ l.prevB = boundary /\ l.flavor = "load"
  BY <1>2 DEF TypeOK, Load, Entry, Frame
<1>4. a \in Frame /\ IsEntry(a)
  BY <1>1, <1>2 DEF TypeOK, Entry, Frame, IsEntry
<1>5. d \in Frame /\ IsDispatch(d, "TCC", "TCC", Len(stack) + 1, "TCC")
  BY <1>1, <1>2 DEF TypeOK, Dispatch, Frame, IsDispatch
<1>6. c \in Frame /\ IsCode(c, "TCC", "TCC")
  BY <1>2 DEF TypeOK, Code, Frame, IsCode
<1> HIDE DEF l, a, d, c
<1>7. /\ <<l, a, d, c>> \in Seq(Frame) /\ Len(<<l, a, d, c>>) = 4
      /\ <<l, a, d, c>>[1] = l /\ <<l, a, d, c>>[2] = a /\ <<l, a, d, c>>[3] = d /\ <<l, a, d, c>>[4] = c
  BY <1>3, <1>4, <1>5, <1>6, Tuples
<1>8. Pushed(4)
  BY <1>1, <1>7, PushIs
<1>9. /\ stack'[Len(stack) + 1] = l /\ stack'[Len(stack) + 2] = a
      /\ stack'[Len(stack) + 3] = d /\ stack'[Len(stack) + 4] = c
  BY <1>1, <1>7, PushIs
<1>10. QED
  BY <1>1, <1>3, <1>4, <1>5, <1>6, <1>8, <1>9

-----------------------------------------------------------------------------
(* How frames lie on one another, and the chain of boundaries.             *)

LEMMA TopOwnerPrefix ==
    ASSUME NEW s, NEW t, NEW m \in Nat, SamePrefix(s, t, m), NEW b, TopOwner(s, b, m)
    PROVE  TopOwner(t, b, m)
BY DEF TopOwner, SamePrefix

\* One frame more: it is the topmost owner, or owns nothing.
LEMMA TopOwnerUp ==
    ASSUME NEW t, NEW m \in Nat, NEW b \in Nat, TopOwner(t, b, m)
    PROVE  /\ ~t[m + 1].owner => TopOwner(t, b, m + 1)
           /\ t[m + 1].owner => TopOwner(t, m + 1, m + 1)
<1>1. \A i \in 1..(m + 1) : i \in 1..m \/ i = m + 1
  OBVIOUS
<1>2. \A i \in 1..(m + 1) : i <= m + 1
  OBVIOUS
<1>3. b \in 1..m => b \in 1..(m + 1)
  OBVIOUS
<1>4. ~t[m + 1].owner => TopOwner(t, b, m + 1)
  BY <1>1, <1>3 DEF TopOwner
<1>5. t[m + 1].owner => TopOwner(t, m + 1, m + 1)
  BY <1>2 DEF TopOwner
<1>6. QED
  BY <1>4, <1>5

\* A call keeps BaseInv if what it pushes fits.
LEMMA BasePush ==
    ASSUME BaseInv, NEW k \in Nat \ {0}, Pushed(k),
           \A i \in 1..k : Fits(stack', Len(stack) + i),
           TopOwner(stack', boundary', Len(stack) + k), CallerSeen(stack', curJit'),
           boundary' \in Nat, curJit' \in Engine, mode' \in {"run", "throw", "dead"}, depth' \in Int
    PROVE  BaseInv'
<1> DEFINE n == Len(stack)
<1>1. n \in Nat /\ DOMAIN stack = 1..n /\ SamePrefix(stack, stack', n) /\ stack' \in Seq(Frame)
  BY DEF Pushed
<1>2. DOMAIN stack' = 1..(n + k) /\ Len(stack') = n + k
  BY DEF Pushed
<1>3. \A i \in 1..n : Fits(stack, i)
  BY <1>1 DEF BaseInv
<1>4. \A i \in 1..k : Fits(stack', n + i)
  OBVIOUS
<1>5. stack' # <<>>
  <2>1. Len(stack') # 0
    BY <1>1, <1>2
  <2>2. QED
    BY <2>1, EmptySeq
<1>6. TopOwner(stack', boundary', Len(stack'))
  BY <1>2
<1> HIDE DEF n
<1>7. \A i \in 1..n : Fits(stack', i)
  BY <1>1, <1>3, FitsPrefix
<1>8. \A i \in 1..(n + k) : i \in 1..n \/ (i - n \in 1..k /\ i = n + (i - n))
  BY <1>1
<1>9. \A i \in DOMAIN stack' : Fits(stack', i)
  <2> SUFFICES ASSUME NEW i \in 1..(n + k) PROVE Fits(stack', i)
    BY <1>2
  <2>1. CASE i \in 1..n
    BY <1>7, <2>1
  <2>2. CASE i - n \in 1..k /\ i = n + (i - n)
    BY <1>4, <2>2
  <2>3. QED
    BY <1>8, <2>1, <2>2
<1>10. TypeOK'
  BY <1>1 DEF TypeOK
<1>11. QED
  BY <1>5, <1>6, <1>9, <1>10 DEF BaseInv

\* What is known of the frame on top.
LEMMA TopFrame ==
    ASSUME BaseInv
    PROVE  /\ stack \in Seq(Frame) /\ Len(stack) \in Nat /\ boundary \in Nat /\ curJit \in Engine /\ depth \in Int
           /\ Len(stack) = 0 => stack = <<>> /\ curJit = "TCC"
           /\ Len(stack) # 0 => Fits(stack, Len(stack))
           /\ Len(stack) > 2 /\ stack[Len(stack)].kind = "native" => curJit = stack[Len(stack) - 2].jit
<1>1. stack \in Seq(Frame) /\ boundary \in Nat /\ curJit \in Engine /\ depth \in Int
  BY DEF BaseInv, TypeOK
<1>2. Len(stack) \in Nat /\ DOMAIN stack = 1..Len(stack) /\ (stack # <<>> => Len(stack) # 0)
  BY <1>1, FrameAt
<1>3. QED
  BY <1>1, <1>2 DEF BaseInv, CallerSeen

\* f may lie on the first n frames of t: Fits, seen from below.
FitsOver(f, t, n) ==
    /\ n = 0 => f.kind = "dispatch" /\ f.prevJit = "TCC"
    /\ f.owner => f.kind \in {"dispatch", "load"} /\ TopOwner(t, f.prevB, n)
    /\ f.kind = "load" => f.owner
    /\ f.kind # "native" => f.flavor \notin {"tick", "pcall"}
    /\ f.kind = "native" => n > 1 /\ t[n].kind = "entry" /\ t[n - 1].kind = "code"
    /\ n > 2 /\ t[n].kind = "native" => f.kind = "dispatch" /\ f.prevJit = t[n - 2].jit
    /\ n > 0 /\ t[n].kind = "entry" => f.kind \in {"dispatch", "native"} \/ IsInterp(f)
    /\ n > 0 /\ f.kind = "dispatch" => t[n].kind \in {"entry", "native"} \/ IsInterp(t[n])
    /\ IsInterp(f) => n > 0 /\ t[n].kind \in {"entry", "dispatch"}

LEMMA FitsUp ==
    ASSUME NEW t, NEW n \in Nat, FitsOver(t[n + 1], t, n)
    PROVE  Fits(t, n + 1)
<1> DEFINE i == n + 1
           f == t[n + 1]
<1>1. i - 1 = n /\ i - 2 = n - 1 /\ i - 3 = n - 2
  OBVIOUS
<1>2. (i = 1 <=> n = 0) /\ (i > 1 <=> n > 0) /\ (i > 2 <=> n > 1) /\ (i > 3 <=> n > 2)
  OBVIOUS
<1>3. t[i] = f /\ FitsOver(f, t, n)
  OBVIOUS
<1> HIDE DEF i, f
<1>4. Fits(t, i)
  BY <1>1, <1>2, <1>3 DEF Fits, FitsOver
<1>5. QED
  BY <1>4 DEF i

\* A dispatch and the code that it runs are pushed, by the host, the interpreter or a native function.
LEMMA BaseDispatch ==
    ASSUME BaseInv, NEW callee \in Engine, NEW type \in Engine,
           stack' = stack \o <<Dispatch(callee, type), Code(callee, type)>>,
           boundary' = BoundaryFor(callee, type, Len(stack) + 1), curJit' = type, mode' = mode, depth' = depth,
           Len(stack) # 0 => stack[Len(stack)].kind \in {"entry", "native"} \/ IsInterp(stack[Len(stack)])
    PROVE  BaseInv'
<1> DEFINE n == Len(stack)
           t == stack'
<1>1. /\ Pushed(2)
      /\ IsDispatch(t[n + 1], callee, type, boundary, curJit)
      /\ IsCode(t[n + 2], callee, type)
  BY DispatchShape DEF BaseInv
<1>2. /\ n \in Nat /\ boundary \in Nat /\ Len(t) = n + 2 /\ SamePrefix(stack, t, n)
      /\ n = 0 => curJit = "TCC"
      /\ n > 2 /\ stack[n].kind = "native" => curJit = stack[n - 2].jit
      /\ n # 0 => stack[n].kind \in {"entry", "native"} \/ IsInterp(stack[n])
  BY <1>1, TopFrame DEF Pushed
<1>3. TopOwner(t, boundary, n)
  BY <1>2, TopOwnerPrefix DEF BaseInv
<1>4. /\ NeedsBoundary(callee, type) => boundary' = n + 1
      /\ ~NeedsBoundary(callee, type) => boundary' = boundary
  BY DEF BoundaryFor
<1>5. mode' \in {"run", "throw", "dead"} /\ depth' \in Int /\ curJit' \in Engine
  BY DEF BaseInv, TypeOK
<1> HIDE DEF n, t
<1>6. (n # 0 => t[n] = stack[n]) /\ (n > 2 => t[n - 2] = stack[n - 2])
  BY <1>2 DEF SamePrefix
<1>7. Fits(t, n + 1)
  <2>1. FitsOver(t[n + 1], t, n)
    BY <1>1, <1>2, <1>3, <1>6 DEF FitsOver, IsDispatch, IsInterp
  <2>2. QED
    BY <1>2, <2>1, FitsUp
<1>8. Fits(t, n + 2)
  <2>1. n + 1 \in Nat /\ n + 1 > 0 /\ n + 1 + 1 = n + 2
    BY <1>2
  <2>2. FitsOver(t[n + 2], t, n + 1)
    BY <1>1, <2>1 DEF FitsOver, IsDispatch, IsCode, IsInterp
  <2>3. QED
    BY <2>1, <2>2, FitsUp
<1>9. TopOwner(t, boundary', n + 2) /\ boundary' \in Nat
  <2>1. t[n + 1].owner = NeedsBoundary(callee, type)
    BY <1>1 DEF IsDispatch
  <2>2. TopOwner(t, boundary', n + 1)
    BY <1>2, <1>3, <1>4, <2>1, TopOwnerUp
  <2>3. ~t[n + 1 + 1].owner /\ n + 1 \in Nat /\ n + 1 + 1 = n + 2 /\ boundary' \in Nat
    BY <1>1, <1>2, <1>4 DEF IsCode
  <2>4. QED
    BY <2>2, <2>3, TopOwnerUp
<1>10. CallerSeen(t, curJit')
  BY <1>1, <1>2 DEF CallerSeen, IsCode
<1>11. \A i \in 1..2 : Fits(t, n + i)
  <2>1. \A i \in 1..2 : i = 1 \/ i = 2
    OBVIOUS
  <2>2. QED
    BY <1>7, <1>8, <2>1
<1>12. /\ \A i \in 1..2 : Fits(stack', Len(stack) + i)
       /\ TopOwner(stack', boundary', Len(stack) + 2) /\ CallerSeen(stack', curJit')
  BY <1>9, <1>10, <1>11 DEF n, t
<1>13. Pushed(2) /\ 2 \in Nat \ {0} /\ boundary' \in Nat
  BY <1>1, <1>9
<1>14. QED
  BY <1>5, <1>12, <1>13, BasePush

LEMMA BaseHostCall ==
    ASSUME BaseInv, NEW e \in Engine, HostCall(e)
    PROVE  BaseInv'
<1>1. Len(stack) = 0
  BY EmptySeq DEF HostCall
<1>2. QED
  BY <1>1, BaseDispatch DEF HostCall, Push

LEMMA BaseCallClosureFromInterp ==
    ASSUME BaseInv, NEW e \in Engine, CallClosureFromInterp(e)
    PROVE  BaseInv'
<1>1. IsInterp(stack[Len(stack)]) /\ "INTERP" \in Engine
  BY DEF CallClosureFromInterp, Running, Top, IsInterp, Engine
<1>2. QED
  BY <1>1, BaseDispatch DEF CallClosureFromInterp, Push

LEMMA BaseNativeDispatch ==
    ASSUME BaseInv, NEW e \in Engine, NativeDispatch(e)
    PROVE  BaseInv'
<1>1. stack[Len(stack)].kind = "native"
  BY DEF NativeDispatch, Running, Top
<1>2. DispatchType(Top.flavor, e) \in Engine
  BY DEF NativeDispatch, DispatchType, BaseInv, TypeOK, Engine
<1>3. QED
  BY <1>1, <1>2, BaseDispatch DEF NativeDispatch, Push

LEMMA BaseCallLuaByName ==
    ASSUME BaseInv, CallLuaByName
    PROVE  BaseInv'
<1> DEFINE n == Len(stack)
           t == stack'
           j == Top.jit
<1>1. /\ Pushed(3) /\ n # 0 /\ stack[n].kind = "code" /\ j \in Engine
      /\ IsEntry(t[n + 1]) /\ IsDispatch(t[n + 2], j, j, boundary, j) /\ IsCode(t[n + 3], j, j)
  BY CallLuaByNameShape DEF BaseInv
<1>2. n \in Nat /\ boundary \in Nat /\ Len(t) = n + 3 /\ SamePrefix(stack, t, n)
  BY <1>1, TopFrame DEF Pushed
<1>3. TopOwner(t, boundary, n)
  BY <1>2, TopOwnerPrefix DEF BaseInv
<1>4. /\ NeedsBoundary(j, j) => boundary' = n + 2
      /\ ~NeedsBoundary(j, j) => boundary' = boundary
  BY DEF BoundaryFor, CallLuaByName
<1>5. mode' \in {"run", "throw", "dead"} /\ depth' \in Int /\ curJit' \in Engine
  BY <1>1 DEF BaseInv, TypeOK, CallLuaByName
<1> HIDE DEF n, t, j
<1>6. t[n] = stack[n]
  BY <1>1, <1>2 DEF SamePrefix
<1>7. n + 1 \in Nat /\ n + 2 \in Nat /\ n + 1 + 1 = n + 2 /\ n + 2 + 1 = n + 3
  BY <1>2
<1>8. Fits(t, n + 1) /\ TopOwner(t, boundary, n + 1)
  <2>1. FitsOver(t[n + 1], t, n)
    BY <1>1, <1>2, <1>6 DEF FitsOver, IsEntry, IsInterp
  <2>2. ~t[n + 1].owner
    BY <1>1 DEF IsEntry
  <2>3. QED
    BY <1>2, <1>3, <2>1, <2>2, FitsUp, TopOwnerUp
<1>9. Fits(t, n + 2)
  <2>1. FitsOver(t[n + 2], t, n + 1)
    BY <1>1, <1>2, <1>7, <1>8 DEF FitsOver, IsEntry, IsDispatch, IsInterp
  <2>2. QED
    BY <1>7, <2>1, FitsUp
<1>10. Fits(t, n + 3)
  <2>1. FitsOver(t[n + 3], t, n + 2)
    BY <1>1, <1>7 DEF FitsOver, IsDispatch, IsCode, IsInterp
  <2>2. QED
    BY <1>7, <2>1, FitsUp
<1>11. TopOwner(t, boundary', n + 3) /\ boundary' \in Nat
  <2>1. t[n + 2].owner = NeedsBoundary(j, j) /\ ~t[n + 3].owner
    BY <1>1 DEF IsDispatch, IsCode
  <2>2. TopOwner(t, boundary', n + 2) /\ boundary' \in Nat
    BY <1>2, <1>4, <1>7, <1>8, <2>1, TopOwnerUp
  <2>3. QED
    BY <1>7, <2>1, <2>2, TopOwnerUp
<1>12. CallerSeen(t, curJit')
  BY <1>1, <1>2 DEF CallerSeen, IsCode
<1>13. \A i \in 1..3 : Fits(t, n + i)
  <2>1. \A i \in 1..3 : i = 1 \/ i = 2 \/ i = 3
    OBVIOUS
  <2>2. QED
    BY <1>8, <1>9, <1>10, <2>1
<1>14. /\ \A i \in 1..3 : Fits(stack', Len(stack) + i)
       /\ TopOwner(stack', boundary', Len(stack) + 3) /\ CallerSeen(stack', curJit')
  BY <1>11, <1>12, <1>13 DEF n, t
<1>15. QED
  BY <1>1, <1>5, <1>11, <1>14, BasePush

LEMMA BaseCallNative ==
    ASSUME BaseInv, NEW fl \in NativeFlavor, CallNative(fl)
    PROVE  BaseInv'
<1> DEFINE n == Len(stack)
           t == stack'
<1>1. /\ Pushed(2) /\ n # 0 /\ stack[n].kind = "code" /\ Top = stack[n] /\ Top.jit \in Engine
      /\ IsEntry(t[n + 1]) /\ t[n + 2].kind = "native" /\ ~t[n + 2].owner
  BY CallNativeShape DEF BaseInv
<1>2. n \in Nat /\ boundary \in Nat /\ Len(t) = n + 2 /\ SamePrefix(stack, t, n)
  BY <1>1, TopFrame DEF Pushed
<1>3. TopOwner(t, boundary, n)
  BY <1>2, TopOwnerPrefix DEF BaseInv
<1>4. boundary' = boundary /\ curJit' = stack[n].jit
  BY <1>1 DEF CallNative
<1>5. mode' \in {"run", "throw", "dead"} /\ depth' \in Int /\ curJit' \in Engine
  BY <1>1 DEF BaseInv, TypeOK, CallNative
<1> HIDE DEF n, t
<1>6. t[n] = stack[n]
  BY <1>1, <1>2 DEF SamePrefix
<1>7. n + 1 \in Nat /\ n + 1 + 1 = n + 2 /\ n + 1 - 1 = n /\ n + 1 > 1 /\ n + 2 - 2 = n
  BY <1>1, <1>2
<1>8. Fits(t, n + 1) /\ TopOwner(t, boundary, n + 1)
  <2>1. FitsOver(t[n + 1], t, n)
    BY <1>1, <1>2, <1>6 DEF FitsOver, IsEntry, IsInterp
  <2>2. ~t[n + 1].owner
    BY <1>1 DEF IsEntry
  <2>3. QED
    BY <1>2, <1>3, <2>1, <2>2, FitsUp, TopOwnerUp
<1>9. Fits(t, n + 2) /\ TopOwner(t, boundary', n + 2)
  <2>1. t[n + 1 - 1].kind = "code" /\ t[n + 1].kind = "entry"
    BY <1>1, <1>6, <1>7 DEF IsEntry
  <2> DEFINE m == n + 1
             f == t[n + 2]
  <2>2. m > 1 /\ m \in Nat /\ t[m - 1].kind = "code" /\ t[m].kind = "entry"
    BY <1>2, <1>7, <2>1
  <2>3. f.kind = "native" /\ ~f.owner
    BY <1>1
  <2> HIDE DEF m, f
  <2>4. FitsOver(f, t, m)
    BY <2>2, <2>3 DEF FitsOver, IsInterp
  <2>5. QED
    BY <1>1, <1>2, <1>4, <1>7, <1>8, <2>4, FitsUp, TopOwnerUp DEF m, f
<1>10. CallerSeen(t, curJit')
  BY <1>1, <1>2, <1>4, <1>6, <1>7 DEF CallerSeen
<1>11. \A i \in 1..2 : Fits(t, n + i)
  <2>1. \A i \in 1..2 : i = 1 \/ i = 2
    OBVIOUS
  <2>2. QED
    BY <1>8, <1>9, <2>1
<1>12. /\ \A i \in 1..2 : Fits(stack', Len(stack) + i)
       /\ TopOwner(stack', boundary', Len(stack) + 2) /\ CallerSeen(stack', curJit')
  BY <1>9, <1>10, <1>11 DEF n, t
<1>13. QED
  BY <1>1, <1>2, <1>4, <1>5, <1>12, BasePush

LEMMA BaseCallClosureFromC ==
    ASSUME BaseInv, NEW e \in Engine, CallClosureFromC(e)
    PROVE  BaseInv'
<1> DEFINE n == Len(stack)
           t == stack'
<1>1. /\ n # 0 /\ IsC(stack[n]) /\ Top.jit \in Engine
      /\ e = "INTERP" => Pushed(2) /\ IsEntry(t[n + 1]) /\ IsCode(t[n + 2], e, curJit)
      /\ e # "INTERP" => Pushed(1) /\ IsCode(t[n + 1], e, curJit)
  BY CallClosureFromCShape DEF BaseInv
<1>2. /\ n \in Nat /\ boundary \in Nat /\ SamePrefix(stack, t, n)
      /\ e = "INTERP" => Len(t) = n + 2
      /\ e # "INTERP" => Len(t) = n + 1
  BY <1>1, TopFrame DEF Pushed
<1>3. TopOwner(t, boundary, n)
  BY <1>2, TopOwnerPrefix DEF BaseInv
<1>4. boundary' = boundary /\ mode' \in {"run", "throw", "dead"} /\ depth' \in Int /\ curJit' \in Engine
  BY <1>1 DEF BaseInv, TypeOK, CallClosureFromC
<1> HIDE DEF n, t
<1>5. t[n] = stack[n]
  BY <1>1, <1>2 DEF SamePrefix
<1>6. CASE e = "INTERP"
  <2>1. n + 1 \in Nat /\ n + 1 + 1 = n + 2 /\ n + 1 > 0
    BY <1>2
  <2>2. FitsOver(t[n + 1], t, n) /\ ~t[n + 1].owner
    BY <1>1, <1>2, <1>5, <1>6 DEF FitsOver, IsEntry, IsInterp, IsC
  <2>3. FitsOver(t[n + 2], t, n + 1) /\ ~t[n + 2].owner
    BY <1>1, <1>6, <2>1 DEF FitsOver, IsEntry, IsCode, IsInterp
  <2>4. Fits(t, n + 1) /\ TopOwner(t, boundary, n + 1)
    BY <1>2, <1>3, <2>2, FitsUp, TopOwnerUp
  <2>5. Fits(t, n + 2) /\ TopOwner(t, boundary', n + 2)
    BY <1>2, <1>4, <2>1, <2>3, <2>4, FitsUp, TopOwnerUp
  <2>6. CallerSeen(t, curJit')
    BY <1>1, <1>2, <1>6 DEF CallerSeen, IsCode
  <2>7. \A i \in 1..2 : Fits(t, n + i)
    <3>1. \A i \in 1..2 : i = 1 \/ i = 2
      OBVIOUS
    <3>2. QED
      BY <2>4, <2>5, <3>1
  <2>8. /\ \A i \in 1..2 : Fits(stack', Len(stack) + i)
        /\ TopOwner(stack', boundary', Len(stack) + 2) /\ CallerSeen(stack', curJit')
    BY <2>5, <2>6, <2>7 DEF n, t
  <2>9. QED
    BY <1>1, <1>2, <1>4, <1>6, <2>8, BasePush
<1>7. CASE e # "INTERP"
  <2>1. FitsOver(t[n + 1], t, n) /\ ~t[n + 1].owner
    BY <1>1, <1>2, <1>5, <1>7 DEF FitsOver, IsCode, IsInterp, IsC
  <2>2. Fits(t, n + 1) /\ TopOwner(t, boundary', n + 1)
    BY <1>2, <1>3, <1>4, <2>1, FitsUp, TopOwnerUp
  <2>3. CallerSeen(t, curJit')
    BY <1>1, <1>2, <1>7 DEF CallerSeen, IsCode
  <2>4. \A i \in 1..1 : Fits(t, n + i)
    <3>1. \A i \in 1..1 : i = 1
      OBVIOUS
    <3>2. QED
      BY <2>2, <3>1
  <2>5. /\ \A i \in 1..1 : Fits(stack', Len(stack) + i)
        /\ TopOwner(stack', boundary', Len(stack) + 1) /\ CallerSeen(stack', curJit')
    BY <2>2, <2>3, <2>4 DEF n, t
  <2>6. QED
    BY <1>1, <1>2, <1>4, <1>7, <2>5, BasePush
<1>8. QED
  BY <1>6, <1>7

LEMMA BaseCallLoaded ==
    ASSUME BaseInv, CallLoaded
    PROVE  BaseInv'
<1> DEFINE n == Len(stack)
           t == stack'
<1>1. /\ Pushed(4) /\ n # 0 /\ stack[n].kind = "code"
      /\ t[n + 1].kind = "load" /\ t[n + 1].owner /\ t[n + 1].prevB = boundary /\ t[n + 1].flavor = "load"
      /\ IsEntry(t[n + 2]) /\ IsDispatch(t[n + 3], "TCC", "TCC", n + 1, "TCC") /\ IsCode(t[n + 4], "TCC", "TCC")
  BY CallLoadedShape DEF BaseInv
<1>2. n \in Nat /\ boundary \in Nat /\ Len(t) = n + 4 /\ SamePrefix(stack, t, n)
  BY <1>1, TopFrame DEF Pushed
<1>3. TopOwner(t, boundary, n)
  BY <1>2, TopOwnerPrefix DEF BaseInv
<1>4. boundary' = n + 1 + 2 /\ boundary' = n + 3
  BY <1>2 DEF CallLoaded
<1>5. mode' \in {"run", "throw", "dead"} /\ depth' \in Int /\ curJit' \in Engine
  BY DEF BaseInv, TypeOK, CallLoaded, Engine
<1> HIDE DEF n, t
<1>6. t[n] = stack[n]
  BY <1>1, <1>2 DEF SamePrefix
<1>7. /\ n + 1 \in Nat /\ n + 2 \in Nat /\ n + 3 \in Nat /\ n + 1 > 0 /\ n + 2 > 0 /\ n + 3 > 0
      /\ n + 1 + 1 = n + 2 /\ n + 2 + 1 = n + 3 /\ n + 3 + 1 = n + 4
  BY <1>2
<1>8. Fits(t, n + 1) /\ TopOwner(t, n + 1, n + 1)
  <2>1. FitsOver(t[n + 1], t, n)
    BY <1>1, <1>2, <1>3, <1>6 DEF FitsOver, IsInterp
  <2>2. QED
    BY <1>1, <1>2, <1>3, <2>1, FitsUp, TopOwnerUp
<1>9. Fits(t, n + 2) /\ TopOwner(t, n + 1, n + 2)
  <2>1. FitsOver(t[n + 2], t, n + 1) /\ ~t[n + 2].owner
    BY <1>1, <1>7 DEF FitsOver, IsEntry, IsInterp
  <2>2. QED
    BY <1>7, <1>8, <2>1, FitsUp, TopOwnerUp
<1>10. Fits(t, n + 3) /\ TopOwner(t, n + 3, n + 3)
  <2>1. FitsOver(t[n + 3], t, n + 2)
    BY <1>1, <1>7, <1>9 DEF FitsOver, IsEntry, IsDispatch, IsInterp
  <2>2. t[n + 3].owner
    BY <1>1 DEF IsDispatch, NeedsBoundary
  <2>3. QED
    BY <1>7, <1>9, <2>1, <2>2, FitsUp, TopOwnerUp
<1>11. Fits(t, n + 4) /\ TopOwner(t, boundary', n + 4)
  <2>1. FitsOver(t[n + 4], t, n + 3) /\ ~t[n + 4].owner
    BY <1>1, <1>7 DEF FitsOver, IsDispatch, IsCode, IsInterp
  <2>2. QED
    BY <1>4, <1>7, <1>10, <2>1, FitsUp, TopOwnerUp
<1>12. CallerSeen(t, curJit')
  BY <1>1, <1>2 DEF CallerSeen, IsCode
<1>13. \A i \in 1..4 : Fits(t, n + i)
  <2>1. \A i \in 1..4 : i = 1 \/ i = 2 \/ i = 3 \/ i = 4
    OBVIOUS
  <2>2. QED
    BY <1>8, <1>9, <1>10, <1>11, <2>1
<1>14. /\ \A i \in 1..4 : Fits(stack', Len(stack) + i)
       /\ TopOwner(stack', boundary', Len(stack) + 4) /\ CallerSeen(stack', curJit')
  BY <1>11, <1>12, <1>13 DEF n, t
<1>15. boundary' \in Nat
  BY <1>4, <1>7
<1>16. QED
  BY <1>1, <1>5, <1>14, <1>15, BasePush

LEMMA TopOwnerDown ==
    ASSUME NEW s, NEW m \in Nat \ {0}, NEW b \in Nat, TopOwner(s, b, m), ~s[m].owner
    PROVE  TopOwner(s, b, m - 1)
<1>1. \A i \in 1..(m - 1) : i \in 1..m
  OBVIOUS
<1>2. b \in 1..m => b \in 1..(m - 1) \/ b = m
  OBVIOUS
<1>3. b = 0 \/ (b \in 1..(m - 1) /\ s[b].owner)
  BY <1>2 DEF TopOwner
<1>4. QED
  BY <1>1, <1>3 DEF TopOwner

\* Leaving frames keeps BaseInv if what is restored fits the stack that is left.
LEMMA BaseCut ==
    ASSUME BaseInv, NEW m \in 0..Len(stack), stack' = SubSeq(stack, 1, m), TopOwner(stack, boundary', m),
           m > 2 /\ stack[m].kind = "native" => curJit' = stack[m - 2].jit,
           m = 0 => curJit' = "TCC",
           boundary' \in Nat, curJit' \in Engine, mode' \in {"run", "throw", "dead"}, depth' \in Int
    PROVE  BaseInv'
<1>1. /\ stack' \in Seq(Frame) /\ Len(stack') = m /\ DOMAIN stack' = 1..m /\ SamePrefix(stack, stack', m)
      /\ m # 0 => stack' # <<>>
  BY PrefixShape DEF BaseInv, TypeOK
<1>2. /\ Len(stack) \in Nat /\ m \in Nat
      /\ \A i \in 1..m : Fits(stack, i)
  <2>1. Len(stack) \in Nat /\ DOMAIN stack = 1..Len(stack)
    BY LenProperties DEF BaseInv, TypeOK
  <2>2. \A i \in 1..m : i \in 1..Len(stack)
    BY <2>1
  <2>3. QED
    BY <2>1, <2>2 DEF BaseInv
<1>3. \A i \in DOMAIN stack' : Fits(stack', i)
  BY <1>1, <1>2, FitsPrefix
<1>4. TopOwner(stack', boundary', Len(stack'))
  BY <1>1, <1>2, TopOwnerPrefix
<1>5. CallerSeen(stack', curJit')
  <2>1. m > 2 => stack'[m] = stack[m] /\ stack'[m - 2] = stack[m - 2]
    BY <1>1, <1>2 DEF SamePrefix
  <2>2. QED
    BY <1>1, <2>1 DEF CallerSeen
<1>6. stack' = <<>> => curJit' = "TCC"
  BY <1>1
<1>7. TypeOK'
  BY <1>1 DEF TypeOK
<1>8. QED
  BY <1>3, <1>4, <1>5, <1>6, <1>7 DEF BaseInv

\* The facts about the top frame that leaving it needs.
LEMMA Leaving ==
    ASSUME BaseInv, stack # <<>>
    PROVE  /\ Len(stack) \in Nat \ {0} /\ Len(stack) - 1 \in 0..Len(stack) /\ Top = stack[Len(stack)]
           /\ Top.prevB \in Nat /\ Top.prevJit \in Engine /\ boundary \in Nat /\ curJit \in Engine /\ depth \in Int
           /\ Top.owner => TopOwner(stack, Top.prevB, Len(stack) - 1)
           /\ ~Top.owner => TopOwner(stack, boundary, Len(stack) - 1)
           /\ Top.owner => Top.kind \in {"dispatch", "load"}
           /\ Len(stack) - 1 > 2 /\ stack[Len(stack) - 1].kind = "native" =>
                 Top.kind = "dispatch" /\ Top.prevJit = stack[Len(stack) - 1 - 2].jit
           /\ Len(stack) - 1 = 0 => Top.kind = "dispatch" /\ Top.prevJit = "TCC"
           /\ Top.kind # "native" => Top.flavor \notin {"tick", "pcall"}
<1> DEFINE n == Len(stack)
<1>1. stack \in Seq(Frame) /\ n \in Nat /\ boundary \in Nat /\ curJit \in Engine /\ depth \in Int
  BY TopFrame
<1>2. n # 0
  BY <1>1, FrameAt
<1>3. n \in Nat \ {0} /\ n - 1 \in 0..n /\ n \in 1..n
  BY <1>1, <1>2
<1>4. Top = stack[n] /\ Top.prevB \in Nat /\ Top.prevJit \in Engine
  BY <1>1, <1>3, FrameAt DEF Top
<1>5. Fits(stack, n)
  BY <1>2, TopFrame
<1>6. TopOwner(stack, boundary, n)
  BY DEF BaseInv
<1> HIDE DEF n
<1>7. ~Top.owner => TopOwner(stack, boundary, n - 1)
  BY <1>1, <1>3, <1>4, <1>6, TopOwnerDown
<1>8. (n - 1 > 2 <=> n > 3) /\ n - 1 - 2 = n - 3 /\ (n - 1 = 0 <=> n = 1)
  BY <1>3
<1>9. /\ Top.owner => Top.kind \in {"dispatch", "load"} /\ TopOwner(stack, Top.prevB, n - 1)
      /\ Top.kind # "native" => Top.flavor \notin {"tick", "pcall"}
  BY <1>4, <1>5 DEF Fits
<1>10. /\ n - 1 > 2 /\ stack[n - 1].kind = "native" => Top.kind = "dispatch" /\ Top.prevJit = stack[n - 1 - 2].jit
       /\ n - 1 = 0 => Top.kind = "dispatch" /\ Top.prevJit = "TCC"
  BY <1>4, <1>5, <1>8 DEF Fits
<1>11. QED
  BY <1>1, <1>3, <1>4, <1>7, <1>9, <1>10 DEF n

\* A frame is left and its destructors run.
LEMMA BasePop ==
    ASSUME BaseInv, stack # <<>>, Pop, PopScopes(Top), mode' \in {"run", "throw", "dead"}
    PROVE  BaseInv'
<1>1. boundary' \in Nat /\ TopOwner(stack, boundary', Len(stack) - 1)
  BY Leaving DEF PopScopes
<1>2. curJit' \in Engine
  BY Leaving DEF PopScopes
<1>3. depth' \in Int
  BY Leaving DEF PopScopes
<1>4. /\ Len(stack) - 1 > 2 /\ stack[Len(stack) - 1].kind = "native" => curJit' = stack[Len(stack) - 1 - 2].jit
      /\ Len(stack) - 1 = 0 => curJit' = "TCC"
  BY Leaving DEF PopScopes
<1>5. Len(stack) - 1 \in 0..Len(stack) /\ stack' = SubSeq(stack, 1, Len(stack) - 1)
  BY Leaving DEF Pop
<1>6. QED
  BY <1>1, <1>2, <1>3, <1>4, <1>5, BaseCut

\* A frame of code is left.
LEMMA BasePopCode ==
    ASSUME BaseInv, stack # <<>>, Pop, Top.kind = "code", boundary' = boundary, depth' = depth,
           curJit' \in Engine, mode' \in {"run", "throw", "dead"}
    PROVE  BaseInv'
<1>1. boundary' \in Nat /\ depth' \in Int
  BY Leaving
<1>2. TopOwner(stack, boundary', Len(stack) - 1)
  BY Leaving
<1>3. /\ Len(stack) - 1 > 2 /\ stack[Len(stack) - 1].kind = "native" => curJit' = stack[Len(stack) - 1 - 2].jit
      /\ Len(stack) - 1 = 0 => curJit' = "TCC"
  BY Leaving
<1>4. Len(stack) - 1 \in 0..Len(stack) /\ stack' = SubSeq(stack, 1, Len(stack) - 1)
  BY Leaving DEF Pop
<1>5. QED
  BY <1>1, <1>2, <1>3, <1>4, BaseCut

LEMMA BaseReturn ==
    ASSUME BaseInv, Return
    PROVE  BaseInv'
<1>1. stack # <<>> /\ Pop /\ mode' \in {"run", "throw", "dead"}
  BY DEF Return, BaseInv, TypeOK
<1>2. CASE Top.kind = "code"
  BY <1>1, <1>2, Leaving, BasePopCode DEF Return
<1>3. CASE Top.kind # "code"
  BY <1>1, <1>3, BasePop DEF Return
<1>4. QED
  BY <1>2, <1>3

\* The boundary is one of the stack's frames, an owner.
LEMMA Landing ==
    ASSUME BaseInv, boundary # 0
    PROVE  /\ boundary \in 1..Len(stack) /\ stack[boundary].owner /\ stack[boundary].kind \in {"dispatch", "load"}
           /\ TopOwner(stack, boundary, boundary)
<1>1. Len(stack) \in Nat /\ DOMAIN stack = 1..Len(stack)
  BY LenProperties DEF BaseInv, TypeOK
<1>2. boundary \in 1..Len(stack) /\ stack[boundary].owner
  BY DEF BaseInv, TopOwner
<1>3. Fits(stack, boundary)
  BY <1>1, <1>2 DEF BaseInv
<1>4. stack[boundary].kind \in {"dispatch", "load"}
  BY <1>2, <1>3 DEF Fits
<1>5. boundary \in 1..boundary /\ \A i \in 1..boundary : i <= boundary
  BY <1>1, <1>2
<1>6. QED
  BY <1>2, <1>4, <1>5 DEF TopOwner

\* A longjmp lands on the boundary's owner.
LEMMA BaseLongjmp ==
    ASSUME BaseInv, boundary # 0, Longjmp, curJit' \in Engine
    PROVE  BaseInv'
<1>1. /\ boundary \in 0..Len(stack) /\ stack[boundary].kind # "native" /\ TopOwner(stack, boundary, boundary)
      /\ boundary \in Nat
  BY Landing DEF BaseInv, TypeOK
<1>2. boundary' = boundary /\ mode' \in {"run", "throw", "dead"} /\ depth' \in Int
  BY DEF Longjmp, BaseInv, TypeOK
<1>3. stack' = SubSeq(stack, 1, boundary)
  BY DEF Longjmp
<1>4. TopOwner(stack, boundary', boundary) /\ boundary' \in Nat
  BY <1>1, <1>2
<1>5. QED
  BY <1>1, <1>2, <1>3, <1>4, BaseCut

\* Only the mode changes.
LEMMA BaseKeep ==
    ASSUME BaseInv, UNCHANGED <<stack, boundary, curJit, depth>>, mode' \in {"run", "throw", "dead"}
    PROVE  BaseInv'
BY DEF BaseInv, TypeOK

LEMMA BaseThrowFromC ==
    ASSUME BaseInv, ThrowFromC
    PROVE  BaseInv'
<1>1. CASE boundary # 0
  <2>1. Longjmp /\ curJit' \in Engine
    BY <1>1 DEF ThrowFromC, BaseInv, TypeOK
  <2>2. QED
    BY <1>1, <2>1, BaseLongjmp
<1>2. CASE boundary = 0
  BY <1>2, BaseKeep DEF ThrowFromC
<1>3. QED
  BY <1>1, <1>2

LEMMA BaseUnwindCode ==
    ASSUME BaseInv, UnwindCode
    PROVE  BaseInv'
<1>1. stack # <<>> /\ Top.kind = "code" /\ boundary' = boundary /\ depth' = depth /\ curJit' = curJit
  BY DEF UnwindCode
<1>2. CASE Top.jit = "TCC"
  BY <1>2, BaseKeep DEF UnwindCode
<1>3. CASE Top.jit # "TCC"
  <2>1. Pop /\ mode' \in {"run", "throw", "dead"} /\ curJit' \in Engine
    BY <1>1, <1>3 DEF UnwindCode, BaseInv, TypeOK
  <2>2. QED
    BY <1>1, <2>1, BasePopCode
<1>4. QED
  BY <1>2, <1>3

LEMMA BaseUnwindEntry ==
    ASSUME BaseInv, UnwindEntry
    PROVE  BaseInv'
<1>1. stack # <<>>
  BY DEF UnwindEntry
<1>2. CASE boundary = 0
  <2>1. Pop /\ PopScopes(Top) /\ mode' \in {"run", "throw", "dead"}
    BY <1>2 DEF UnwindEntry, GuardThrows
  <2>2. QED
    BY <1>1, <2>1, BasePop
<1>3. CASE boundary # 0
  <2>1. Longjmp /\ curJit' \in Engine
    BY <1>1, <1>3, Leaving DEF UnwindEntry, GuardThrows
  <2>2. QED
    BY <1>3, <2>1, BaseLongjmp
<1>4. QED
  BY <1>2, <1>3

LEMMA BaseUnwindCpp ==
    ASSUME BaseInv, UnwindCpp
    PROVE  BaseInv'
<1>1. stack # <<>>
  BY DEF UnwindCpp
<1>2. CASE Top.flavor = "pcall"
  BY <1>2, BaseKeep DEF UnwindCpp
<1>3. CASE Top.flavor # "pcall"
  <2>1. Pop /\ PopScopes(Top) /\ mode' \in {"run", "throw", "dead"}
    BY <1>3 DEF UnwindCpp
  <2>2. QED
    BY <1>1, <2>1, BasePop
<1>4. QED
  BY <1>2, <1>3

LEMMA BaseStep ==
    ASSUME BaseInv, [CallsNext]_callVars
    PROVE  BaseInv'
<1>1. ASSUME NEW e \in Engine, HostCall(e) PROVE BaseInv'
  BY <1>1, BaseHostCall
<1>2. ASSUME NEW e \in Engine, CallClosureFromC(e) PROVE BaseInv'
  BY <1>2, BaseCallClosureFromC
<1>3. ASSUME NEW e \in Engine, CallClosureFromInterp(e) PROVE BaseInv'
  BY <1>3, BaseCallClosureFromInterp
<1>4. ASSUME NEW e \in Engine, NativeDispatch(e) PROVE BaseInv'
  BY <1>4, BaseNativeDispatch
<1>5. ASSUME NEW fl \in NativeFlavor, CallNative(fl) PROVE BaseInv'
  BY <1>5, BaseCallNative
<1>6. CASE CallLuaByName
  BY <1>6, BaseCallLuaByName
<1>7. CASE CallLoaded
  BY <1>7, BaseCallLoaded
<1>8. CASE Return
  BY <1>8, BaseReturn
<1>9. CASE ThrowFromC
  BY <1>9, BaseThrowFromC
<1>10. CASE ThrowFromCpp
  BY <1>10, BaseKeep DEF ThrowFromCpp
<1>11. CASE UnwindCode
  BY <1>11, BaseUnwindCode
<1>12. CASE UnwindEntry
  BY <1>12, BaseUnwindEntry
<1>13. CASE UnwindCpp
  BY <1>13, BaseUnwindCpp
<1>14. CASE HostCatches
  BY <1>14, BaseKeep DEF HostCatches
<1>15. CASE UNCHANGED callVars
  BY <1>15, BaseKeep DEF callVars, BaseInv, TypeOK
<1>16. QED
  BY <1>1, <1>2, <1>3, <1>4, <1>5, <1>6, <1>7, <1>8, <1>9, <1>10, <1>11, <1>12, <1>13, <1>14, <1>15 DEF CallsNext

\* BaseInv holds whatever the engines, closures and native functions.
THEOREM BaseInvariant == CallsSpec => []BaseInv
<1>1. CallsInit => BaseInv
  <2> SUFFICES ASSUME CallsInit PROVE BaseInv
    OBVIOUS
  <2>1. stack = <<>> /\ boundary = 0 /\ curJit = "TCC" /\ mode = "run" /\ depth = 0
    BY DEF CallsInit
  <2>2. stack \in Seq(Frame) /\ Len(stack) = 0 /\ DOMAIN stack = {}
    BY <2>1, EmptySeq
  <2>3. TopOwner(stack, boundary, Len(stack))
    BY <2>1, <2>2 DEF TopOwner
  <2>4. CallerSeen(stack, curJit)
    BY <2>2 DEF CallerSeen
  <2>5. QED
    BY <2>1, <2>2, <2>3, <2>4 DEF BaseInv, TypeOK, Engine
<1>2. BaseInv /\ [CallsNext]_callVars => BaseInv'
  BY BaseStep
<1>3. QED
  BY <1>1, <1>2, PTL DEF CallsSpec

\* State's boundary is the one owned by the topmost owner on the stack, and every owner remembers the
\* owner below it, whatever the engines, closures and native functions: no longjmp targets a frame
\* that is gone (jit_error_boundary.h:47-48).
THEOREM BoundaryAlwaysOnStack == CallsSpec => []BoundaryOnStack
<1>1. BaseInv => BoundaryOnStack
  <2> SUFFICES ASSUME BaseInv PROVE BoundaryOnStack
    OBVIOUS
  <2>1. \A b, n : TopOwner(stack, b, n) =>
           /\ b = 0 \/ b \in {i \in 1..n : stack[i].owner}
           /\ \A i \in {i \in 1..n : stack[i].owner} : i <= b
    BY DEF TopOwner
  <2>2. TopOwner(stack, boundary, Len(stack))
    BY DEF BaseInv
  <2>3. \A i \in DOMAIN stack : stack[i].owner => TopOwner(stack, stack[i].prevB, i - 1)
    BY DEF BaseInv, Fits
  <2>4. QED
    BY <2>1, <2>2, <2>3 DEF BoundaryOnStack
<1>2. QED
  BY <1>1, BaseInvariant, PTL

-----------------------------------------------------------------------------
(* TCC code has a boundary below it, so that no exception reaches it.      *)

\* A call keeps GuardInv if what it pushes is guarded.
LEMMA GuardPush ==
    ASSUME GuardInv, BaseInv', NEW k \in Nat \ {0}, Pushed(k), \A i \in 1..k : Guarded(stack', Len(stack) + i),
           mode' = "run"
    PROVE  GuardInv'
<1> DEFINE n == Len(stack)
<1>1. /\ n \in Nat /\ DOMAIN stack = 1..n /\ SamePrefix(stack, stack', n) /\ DOMAIN stack' = 1..(n + k)
      /\ \A i \in 1..k : Guarded(stack', n + i)
  BY DEF Pushed
<1>2. \A i \in 1..n : Guarded(stack, i)
  BY <1>1 DEF GuardInv
<1> HIDE DEF n
<1>3. \A i \in 1..n : Guarded(stack', i)
  BY <1>1, <1>2, FitsPrefix
<1>4. \A i \in 1..(n + k) : i \in 1..n \/ (i - n \in 1..k /\ i = n + (i - n))
  BY <1>1
<1>5. \A i \in DOMAIN stack' : Guarded(stack', i)
  <2> SUFFICES ASSUME NEW i \in 1..(n + k) PROVE Guarded(stack', i)
    BY <1>1
  <2>1. CASE i \in 1..n
    BY <1>3, <2>1
  <2>2. CASE i - n \in 1..k /\ i = n + (i - n)
    BY <1>1, <2>2
  <2>3. QED
    BY <1>4, <2>1, <2>2
<1>6. QED
  BY <1>5 DEF GuardInv, ThrowOutside

\* Leaving frames keeps GuardInv.
LEMMA GuardCut ==
    ASSUME GuardInv, BaseInv', NEW m \in 0..Len(stack), stack' = SubSeq(stack, 1, m),
           mode' # "dead", ThrowOutside'
    PROVE  GuardInv'
<1>1. DOMAIN stack' = 1..m /\ SamePrefix(stack, stack', m)
  BY PrefixShape DEF GuardInv, BaseInv, TypeOK
<1>2. m \in Nat /\ \A i \in 1..m : Guarded(stack, i)
  <2>1. Len(stack) \in Nat /\ DOMAIN stack = 1..Len(stack)
    BY LenProperties DEF GuardInv, BaseInv, TypeOK
  <2>2. \A i \in 1..m : i \in 1..Len(stack)
    BY <2>1
  <2>3. QED
    BY <2>1, <2>2 DEF GuardInv
<1>3. \A i \in DOMAIN stack' : Guarded(stack', i)
  BY <1>1, <1>2, FitsPrefix
<1>4. QED
  BY <1>3 DEF GuardInv

\* A dispatch guards the code that it runs, if it owns a boundary whenever that is TCC code.
LEMMA GuardDispatch ==
    ASSUME GuardInv, BaseInv', NEW callee \in Engine, NEW type \in Engine,
           stack' = stack \o <<Dispatch(callee, type), Code(callee, type)>>, mode' = "run",
           callee = "TCC" => NeedsBoundary(callee, type)
    PROVE  GuardInv'
<1> DEFINE n == Len(stack)
           t == stack'
<1>1. Pushed(2) /\ IsDispatch(t[n + 1], callee, type, boundary, curJit) /\ IsCode(t[n + 2], callee, type)
  BY DispatchShape DEF GuardInv, BaseInv
<1>2. n \in Nat
  BY <1>1 DEF Pushed
<1> HIDE DEF n, t
<1>3. Guarded(t, n + 1)
  BY <1>1 DEF Guarded, IsDispatch
<1>4. Guarded(t, n + 2)
  <2>1. n + 1 \in 1..(n + 2 - 1)
    BY <1>2
  <2>2. callee = "TCC" => t[n + 1].owner
    BY <1>1 DEF IsDispatch
  <2>3. t[n + 2].jit = callee
    BY <1>1 DEF IsCode
  <2>4. t[n + 2].jit = "TCC" => \E k \in 1..(n + 2 - 1) : t[k].owner
    BY <2>1, <2>2, <2>3
  <2>5. QED
    BY <1>2, <2>4 DEF Guarded
<1>5. \A i \in 1..2 : Guarded(t, n + i)
  <2>1. \A i \in 1..2 : i = 1 \/ i = 2
    OBVIOUS
  <2>2. QED
    BY <1>3, <1>4, <2>1
<1>6. \A i \in 1..2 : Guarded(stack', Len(stack) + i)
  BY <1>5 DEF n, t
<1>7. QED
  BY <1>1, <1>6, GuardPush

LEMMA GuardCallLuaByName ==
    ASSUME GuardInv, BaseInv', CallLuaByName
    PROVE  GuardInv'
<1> DEFINE n == Len(stack)
           t == stack'
           j == Top.jit
<1>1. /\ Pushed(3) /\ IsEntry(t[n + 1]) /\ IsDispatch(t[n + 2], j, j, boundary, j) /\ IsCode(t[n + 3], j, j)
  BY CallLuaByNameShape DEF GuardInv, BaseInv
<1>2. n \in Nat /\ mode' = "run"
  BY <1>1 DEF Pushed, CallLuaByName, Running
<1> HIDE DEF n, t, j
<1>3. Guarded(t, n + 1) /\ Guarded(t, n + 2)
  BY <1>1 DEF Guarded, IsEntry, IsDispatch
<1>4. Guarded(t, n + 3)
  <2>1. n + 2 \in 1..(n + 3 - 1)
    BY <1>2
  <2>2. j = "TCC" => t[n + 2].owner
    BY <1>1 DEF IsDispatch, NeedsBoundary
  <2>3. t[n + 3].jit = j
    BY <1>1 DEF IsCode
  <2>4. t[n + 3].jit = "TCC" => \E k \in 1..(n + 3 - 1) : t[k].owner
    BY <2>1, <2>2, <2>3
  <2>5. QED
    BY <1>2, <2>4 DEF Guarded
<1>5. \A i \in 1..3 : Guarded(t, n + i)
  <2>1. \A i \in 1..3 : i = 1 \/ i = 2 \/ i = 3
    OBVIOUS
  <2>2. QED
    BY <1>3, <1>4, <2>1
<1>6. \A i \in 1..3 : Guarded(stack', Len(stack) + i)
  BY <1>5 DEF n, t
<1>7. QED
  BY <1>1, <1>2, <1>6, GuardPush

LEMMA GuardCallNative ==
    ASSUME GuardInv, BaseInv', NEW fl \in NativeFlavor, CallNative(fl)
    PROVE  GuardInv'
<1> DEFINE n == Len(stack)
           t == stack'
<1>1. Pushed(2) /\ IsEntry(t[n + 1]) /\ t[n + 2].kind = "native"
  BY CallNativeShape DEF GuardInv, BaseInv
<1>2. mode' = "run"
  BY DEF CallNative, Running
<1>3. \A i \in 1..2 : i = 1 \/ i = 2
  OBVIOUS
<1>4. \A i \in 1..2 : Guarded(t, n + i)
  BY <1>1, <1>3 DEF Guarded, IsEntry
<1>5. QED
  BY <1>1, <1>2, <1>4, GuardPush

\* A closure of TCC code is called by TCC code, whose boundary guards it too.
LEMMA GuardCallClosureFromC ==
    ASSUME NoTccClosures, GuardInv, BaseInv', NEW e \in Engine, CallClosureFromC(e)
    PROVE  GuardInv'
<1> DEFINE n == Len(stack)
           t == stack'
<1>1. /\ n # 0 /\ IsC(stack[n]) /\ Top = stack[n]
      /\ e = "INTERP" => Pushed(2) /\ IsEntry(t[n + 1]) /\ IsCode(t[n + 2], e, curJit)
      /\ e # "INTERP" => Pushed(1) /\ IsCode(t[n + 1], e, curJit)
  BY CallClosureFromCShape DEF GuardInv, BaseInv
<1>2. mode' = "run" /\ e \in {stack[n].jit} \cup Foreign
  BY <1>1 DEF CallClosureFromC, Running
<1>3. n \in Nat \ {0} /\ SamePrefix(stack, t, n) /\ DOMAIN stack = 1..n
  BY <1>1 DEF Pushed
<1>4. Guarded(stack, n)
  BY <1>3 DEF GuardInv
<1>5. CASE e = "INTERP"
  <2>1. \A i \in 1..2 : i = 1 \/ i = 2
    OBVIOUS
  <2>2. \A i \in 1..2 : Guarded(t, n + i)
    BY <1>1, <1>5, <2>1 DEF Guarded, IsEntry, IsCode
  <2>3. QED
    BY <1>1, <1>2, <1>5, <2>2, GuardPush
<1>6. CASE e # "INTERP"
  <2>1. e = "TCC" => \E j \in 1..(n - 1) : stack[j].owner
    BY <1>1, <1>2, <1>4 DEF NoTccClosures, Guarded, IsC
  <2>2. \A j \in 1..(n - 1) : j \in 1..(n + 1 - 1) /\ t[j] = stack[j]
    BY <1>3 DEF SamePrefix
  <2>3. t[n + 1].jit = e
    BY <1>1, <1>6 DEF IsCode
  <2>4. Guarded(t, n + 1)
    BY <2>1, <2>2, <2>3 DEF Guarded
  <2>5. \A i \in 1..1 : i = 1
    OBVIOUS
  <2>6. \A i \in 1..1 : Guarded(t, n + i)
    BY <2>4, <2>5
  <2>7. QED
    BY <1>1, <1>2, <1>6, <2>6, GuardPush
<1>7. QED
  BY <1>5, <1>6

LEMMA GuardCallLoaded ==
    ASSUME GuardInv, BaseInv', CallLoaded
    PROVE  GuardInv'
<1> DEFINE n == Len(stack)
           t == stack'
<1>1. /\ Pushed(4) /\ t[n + 1].kind = "load" /\ t[n + 1].owner /\ IsEntry(t[n + 2])
      /\ IsDispatch(t[n + 3], "TCC", "TCC", n + 1, "TCC")
  BY CallLoadedShape DEF GuardInv, BaseInv
<1>2. n \in Nat /\ mode' = "run"
  BY <1>1 DEF Pushed, CallLoaded, Running
<1>3. n + 1 \in 1..(n + 4 - 1)
  BY <1>2
<1>4. Guarded(t, n + 4)
  BY <1>1, <1>3 DEF Guarded
<1>5. Guarded(t, n + 1) /\ Guarded(t, n + 2) /\ Guarded(t, n + 3)
  BY <1>1 DEF Guarded, IsEntry, IsDispatch
<1>6. \A i \in 1..4 : i = 1 \/ i = 2 \/ i = 3 \/ i = 4
  OBVIOUS
<1>7. \A i \in 1..4 : Guarded(t, n + i)
  BY <1>4, <1>5, <1>6
<1>8. QED
  BY <1>1, <1>2, <1>7, GuardPush

\* Only the mode changes, or nothing.
LEMMA GuardKeep ==
    ASSUME GuardInv, BaseInv', UNCHANGED <<stack, boundary>>, mode' \in {"run", mode}
    PROVE  GuardInv'
BY DEF GuardInv, ThrowOutside, Top

\* A longjmp throws in a dispatch or in FlEvalLoadClosure.
LEMMA GuardLongjmp ==
    ASSUME GuardInv, BaseInv', boundary # 0, Longjmp
    PROVE  GuardInv'
<1>1. /\ boundary \in 0..Len(stack) /\ stack[boundary].kind # "code"
      /\ boundary \in Nat
  BY Landing DEF GuardInv, BaseInv, TypeOK
<1>2. stack' = SubSeq(stack, 1, boundary) /\ mode' # "dead"
  BY DEF Longjmp
<1>3. Len(stack') = boundary /\ SamePrefix(stack, stack', boundary)
  BY <1>1, <1>2, PrefixShape DEF GuardInv, BaseInv, TypeOK
<1>4. stack'[boundary] = stack[boundary]
  BY <1>1, <1>3 DEF SamePrefix
<1>5. ThrowOutside'
  BY <1>1, <1>3, <1>4 DEF ThrowOutside, Top, IsC
<1>6. QED
  BY <1>1, <1>2, <1>5, GuardCut

\* A frame is left; if it goes on throwing then not at C code, unless there is no boundary.
LEMMA GuardPop ==
    ASSUME GuardInv, BaseInv', stack # <<>>, Pop, mode' \in {"run", "throw"},
           mode' = "throw" /\ Len(stack) - 1 # 0 /\ IsC(stack[Len(stack) - 1]) => boundary' = 0
    PROVE  GuardInv'
<1> DEFINE n == Len(stack) - 1
<1>1. n \in Nat /\ n \in 0..Len(stack) /\ stack' = SubSeq(stack, 1, n)
  BY Leaving DEF GuardInv, Pop
<1>2. Len(stack') = n /\ SamePrefix(stack, stack', n)
  BY <1>1, PrefixShape DEF GuardInv, BaseInv, TypeOK
<1>3. n # 0 => stack'[n] = stack[n]
  BY <1>1, <1>2 DEF SamePrefix
<1>4. stack' # <<>> => n # 0
  BY <1>1, <1>2, EmptySeq DEF BaseInv, TypeOK
<1>5. ThrowOutside'
  BY <1>2, <1>3, <1>4 DEF ThrowOutside, Top
<1>6. QED
  BY <1>1, <1>5, GuardCut

\* What lies below a frame that throws.
LEMMA Below ==
    ASSUME BaseInv, stack # <<>>
    PROVE  /\ IsInterp(Top) => ~IsC(stack[Len(stack) - 1])
           /\ Top.kind = "native" => ~IsC(stack[Len(stack) - 1])
           /\ Top.kind = "dispatch" /\ Len(stack) - 1 # 0 => ~IsC(stack[Len(stack) - 1])
<1>1. Len(stack) \in Nat \ {0} /\ Top = stack[Len(stack)]
  BY Leaving
<1>2. Fits(stack, Len(stack))
  BY <1>1, TopFrame
<1>3. Len(stack) - 1 # 0 => Len(stack) > 1
  <2>1. \A k \in Nat \ {0} : k - 1 # 0 => k > 1
    OBVIOUS
  <2>2. QED
    BY <1>1, <2>1
<1>4. QED
  BY <1>1, <1>2, <1>3 DEF Fits, IsC, IsInterp

LEMMA GuardUnwindCode ==
    ASSUME GuardInv, BaseInv', UnwindCode
    PROVE  GuardInv'
<1>1. stack # <<>> /\ mode = "throw" /\ Top.kind = "code" /\ boundary' = boundary
  BY DEF UnwindCode
<1>2. Len(stack) \in Nat \ {0} /\ Top = stack[Len(stack)] /\ DOMAIN stack = 1..Len(stack) /\ boundary \in Nat
  BY <1>1, Leaving, LenProperties DEF GuardInv, BaseInv, TypeOK
<1>3. Top.jit # "INTERP" => boundary = 0
  BY <1>1 DEF GuardInv, ThrowOutside, IsC
<1>4. Top.jit # "TCC"
  <2> SUFFICES ASSUME Top.jit = "TCC" PROVE FALSE
    OBVIOUS
  <2>1. Guarded(stack, Len(stack))
    BY <1>2 DEF GuardInv
  <2>2. PICK j \in 1..(Len(stack) - 1) : stack[j].owner
    BY <1>1, <1>2, <2>1 DEF Guarded
  <2>3. boundary = 0 /\ TopOwner(stack, boundary, Len(stack))
    BY <1>3 DEF GuardInv, BaseInv
  <2>4. j \in 1..Len(stack) /\ ~(j <= 0)
    BY <1>2
  <2>5. QED
    BY <2>2, <2>3, <2>4 DEF TopOwner
<1>5. Pop /\ mode' = mode
  BY <1>4 DEF UnwindCode
<1>6. Top.jit = "INTERP" => ~IsC(stack[Len(stack) - 1])
  BY <1>1, Below DEF GuardInv, IsInterp
<1>7. QED
  BY <1>1, <1>3, <1>5, <1>6, GuardPop

LEMMA GuardUnwindEntry ==
    ASSUME GuardInv, BaseInv', UnwindEntry
    PROVE  GuardInv'
<1>1. stack # <<>> /\ mode = "throw"
  BY DEF UnwindEntry
<1>2. CASE boundary = 0
  <2>1. Pop /\ PopScopes(Top) /\ mode' \in {"run", "throw"} /\ Top.kind = "entry"
    BY <1>1, <1>2 DEF UnwindEntry, GuardThrows
  <2>2. boundary' = 0
    BY <1>1, <1>2, <2>1, Leaving DEF GuardInv, PopScopes
  <2>3. QED
    BY <1>1, <2>1, <2>2, GuardPop
<1>3. CASE boundary # 0
  BY <1>3, GuardLongjmp DEF UnwindEntry, GuardThrows
<1>4. QED
  BY <1>2, <1>3

LEMMA GuardUnwindCpp ==
    ASSUME GuardInv, BaseInv', UnwindCpp
    PROVE  GuardInv'
<1>1. stack # <<>> /\ Top.kind \in {"dispatch", "native", "load"}
  BY DEF UnwindCpp
<1>2. CASE Top.flavor = "pcall"
  BY <1>2, GuardKeep DEF UnwindCpp
<1>3. CASE Top.flavor # "pcall"
  <2>1. /\ Pop /\ mode' \in {"run", "throw"}
        /\ mode' = "throw" => Top.kind \in {"dispatch", "native"}
    BY <1>1, <1>3 DEF UnwindCpp
  <2>2. mode' = "throw" /\ Len(stack) - 1 # 0 => ~IsC(stack[Len(stack) - 1])
    BY <1>1, <2>1, Below DEF GuardInv
  <2>3. QED
    BY <1>1, <2>1, <2>2, GuardPop
<1>4. QED
  BY <1>2, <1>3

LEMMA GuardNativeDispatch ==
    ASSUME NoTccClosures, GuardInv, BaseInv', NEW e \in Engine, NativeDispatch(e)
    PROVE  GuardInv'
<1> DEFINE type == DispatchType(Top.flavor, e)
<1>1. type \in Engine
  BY DEF NativeDispatch, DispatchType, GuardInv, BaseInv, TypeOK, Engine
<1>2. e = "TCC" => type = "TCC"
  BY DEF NativeDispatch, DispatchType, NoTccClosures
<1>3. e = "TCC" => NeedsBoundary(e, type)
  BY <1>2 DEF NeedsBoundary
<1>4. stack' = stack \o <<Dispatch(e, type), Code(e, type)>> /\ mode' = "run"
  BY DEF NativeDispatch, Push, Running
<1> HIDE DEF type
<1>5. QED
  BY <1>1, <1>3, <1>4, GuardDispatch

LEMMA GuardStep ==
    ASSUME NoTccClosures, GuardInv, [CallsNext]_callVars
    PROVE  GuardInv'
<1>0. BaseInv'
  BY BaseStep DEF GuardInv
<1>1. ASSUME NEW e \in Engine, HostCall(e) PROVE GuardInv'
  <2>1. stack' = stack \o <<Dispatch(e, e), Code(e, e)>> /\ mode' = "run"
    BY <1>1 DEF HostCall, Push
  <2>2. e = "TCC" => NeedsBoundary(e, e)
    BY DEF NeedsBoundary
  <2>3. QED
    BY <1>0, <2>1, <2>2, GuardDispatch
<1>2. ASSUME NEW e \in Engine, CallClosureFromC(e) PROVE GuardInv'
  BY <1>0, <1>2, GuardCallClosureFromC
<1>3. ASSUME NEW e \in Engine, CallClosureFromInterp(e) PROVE GuardInv'
  <2>1. stack' = stack \o <<Dispatch(e, "INTERP"), Code(e, "INTERP")>> /\ mode' = "run"
    BY <1>3 DEF CallClosureFromInterp, Push, Running
  <2>2. e # "TCC" /\ "INTERP" \in Engine
    BY <1>3 DEF CallClosureFromInterp, NoTccClosures, Engine
  <2>3. QED
    BY <1>0, <2>1, <2>2, GuardDispatch
<1>4. ASSUME NEW e \in Engine, NativeDispatch(e) PROVE GuardInv'
  BY <1>0, <1>4, GuardNativeDispatch
<1>5. ASSUME NEW fl \in NativeFlavor, CallNative(fl) PROVE GuardInv'
  BY <1>0, <1>5, GuardCallNative
<1>6. CASE CallLuaByName
  BY <1>0, <1>6, GuardCallLuaByName
<1>7. CASE CallLoaded
  BY <1>0, <1>7, GuardCallLoaded
<1>8. CASE Return
  BY <1>0, <1>8, GuardPop DEF Return
<1>9. CASE ThrowFromC
  <2>1. CASE boundary # 0
    BY <1>0, <1>9, <2>1, GuardLongjmp DEF ThrowFromC
  <2>2. CASE boundary = 0
    BY <1>0, <1>9, <2>2 DEF ThrowFromC, GuardInv, ThrowOutside, Top
  <2>3. QED
    BY <2>1, <2>2
<1>10. CASE ThrowFromCpp
  <2>1. ~IsC(Top) /\ mode' = "throw" /\ stack' = stack
    BY <1>10 DEF ThrowFromCpp, Running, IsC
  <2>2. QED
    BY <1>0, <2>1 DEF GuardInv, ThrowOutside, Top
<1>11. CASE UnwindCode
  BY <1>0, <1>11, GuardUnwindCode
<1>12. CASE UnwindEntry
  BY <1>0, <1>12, GuardUnwindEntry
<1>13. CASE UnwindCpp
  BY <1>0, <1>13, GuardUnwindCpp
<1>14. CASE HostCatches
  BY <1>0, <1>14, GuardKeep DEF HostCatches
<1>15. CASE UNCHANGED callVars
  BY <1>0, <1>15, GuardKeep DEF callVars
<1>16. QED
  BY <1>1, <1>2, <1>3, <1>4, <1>5, <1>6, <1>7, <1>8, <1>9, <1>10, <1>11, <1>12, <1>13, <1>14, <1>15 DEF CallsNext

\* GuardInv holds if code of another engine has no closures of TCC code to call.
THEOREM GuardInvariant ==
    ASSUME NoTccClosures
    PROVE  CallsSpec => []GuardInv
<1>1. CallsSpec => []BaseInv
  BY BaseInvariant
<1>2. CallsInit /\ BaseInv => GuardInv
  <2>1. CallsInit => DOMAIN stack = {} /\ mode = "run"
    BY EmptySeq DEF CallsInit
  <2>2. QED
    BY <2>1 DEF GuardInv, ThrowOutside
<1>3. GuardInv /\ [CallsNext]_callVars => GuardInv'
  BY GuardStep
<1>4. QED
  BY <1>1, <1>2, <1>3, PTL DEF CallsSpec

\* No C++ exception ever reaches a TCC frame, which would end the process (jit_error_boundary.h:21-27).
THEOREM NeverTerminates ==
    ASSUME NoTccClosures
    PROVE  CallsSpec => []NoTerminate
<1>1. GuardInv => NoTerminate
  BY DEF GuardInv, NoTerminate
<1>2. QED
  BY <1>1, GuardInvariant, PTL

-----------------------------------------------------------------------------
(* Above a boundary there is only TCC code: what a longjmp crosses.        *)

LEMMA TicksFinite ==
    ASSUME NEW s \in Seq(Frame)
    PROVE  IsFiniteSet(Ticks(s))
<1>1. Len(s) \in Nat /\ DOMAIN s = 1..Len(s)
  BY LenProperties
<1>2. IsFiniteSet(1..Len(s)) /\ Ticks(s) \subseteq 1..Len(s)
  BY <1>1, FS_Interval DEF Ticks
<1>3. QED
  BY <1>2, FS_Subset

\* Frames that are no runtime.tick count nothing.
LEMMA TicksPush ==
    ASSUME NEW k \in Nat \ {0}, Pushed(k), \A i \in 1..k : stack'[Len(stack) + i].flavor # "tick"
    PROVE  Ticks(stack') = Ticks(stack)
<1> DEFINE n == Len(stack)
<1>1. /\ n \in Nat /\ DOMAIN stack = 1..n /\ DOMAIN stack' = 1..(n + k) /\ \A i \in 1..n : stack'[i] = stack[i]
      /\ \A i \in 1..k : stack'[n + i].flavor # "tick"
  BY DEF Pushed, SamePrefix
<1> HIDE DEF n
<1>2. \A i \in 1..(n + k) : i \in 1..n \/ (i - n \in 1..k /\ i = n + (i - n))
  BY <1>1
<1>3. \A i \in 1..n : i \in 1..(n + k)
  BY <1>1
<1>4. ASSUME NEW i \in 1..(n + k), stack'[i].flavor = "tick" PROVE i \in 1..n
  <2>1. CASE i - n \in 1..k /\ i = n + (i - n)
    BY <1>1, <1>4, <2>1
  <2>2. QED
    BY <1>2, <2>1
<1>5. QED
  BY <1>1, <1>3, <1>4 DEF Ticks

LEMMA ExactPush ==
    ASSUME ExactInv, GuardInv', NEW k \in Nat \ {0}, Pushed(k),
           \A i \in 1..k : Uniform(stack', Len(stack) + i), depth' = Cardinality(Ticks(stack'))
    PROVE  ExactInv'
<1> DEFINE n == Len(stack)
<1>1. /\ n \in Nat /\ DOMAIN stack = 1..n /\ SamePrefix(stack, stack', n) /\ DOMAIN stack' = 1..(n + k)
      /\ \A i \in 1..k : Uniform(stack', n + i)
  BY DEF Pushed
<1>2. \A i \in 1..n : Uniform(stack, i)
  BY <1>1 DEF ExactInv
<1> HIDE DEF n
<1>3. \A i \in 1..n : Uniform(stack', i)
  BY <1>1, <1>2, FitsPrefix
<1>4. \A i \in 1..(n + k) : i \in 1..n \/ (i - n \in 1..k /\ i = n + (i - n))
  BY <1>1
<1>5. \A i \in DOMAIN stack' : Uniform(stack', i)
  <2> SUFFICES ASSUME NEW i \in 1..(n + k) PROVE Uniform(stack', i)
    BY <1>1
  <2>1. CASE i \in 1..n
    BY <1>3, <2>1
  <2>2. CASE i - n \in 1..k /\ i = n + (i - n)
    BY <1>1, <2>2
  <2>3. QED
    BY <1>4, <2>1, <2>2
<1>6. QED
  BY <1>5 DEF ExactInv

\* A call that is no runtime.tick.
LEMMA ExactCall ==
    ASSUME ExactInv, GuardInv', NEW k \in Nat \ {0}, Pushed(k), depth' = depth,
           \A i \in 1..k : Uniform(stack', Len(stack) + i),
           \A i \in 1..k : stack'[Len(stack) + i].flavor # "tick"
    PROVE  ExactInv'
<1>1. Ticks(stack') = Ticks(stack)
  BY TicksPush
<1>2. depth' = Cardinality(Ticks(stack'))
  BY <1>1 DEF ExactInv
<1>3. QED
  BY <1>2, ExactPush

\* A frame is uniform if it is TCC code, a dispatch that owns a boundary, or something else, wherever
\* there is a boundary b below it.
LEMMA UniformUp ==
    ASSUME NEW t, NEW n \in Nat, NEW b \in Nat, TopOwner(t, b, n),
           b # 0 => /\ t[n + 1].kind = "code" => t[n + 1].jit = "TCC"
                    /\ t[n + 1].kind = "dispatch" => t[n + 1].owner,
           t[n + 1].kind # "native"
    PROVE  Uniform(t, n + 1)
<1>1. ASSUME NEW j \in 1..(n + 1 - 1), t[j].owner PROVE b # 0
  <2>1. j \in 1..n /\ j > 0
    OBVIOUS
  <2>2. j <= b
    BY <1>1, <2>1 DEF TopOwner
  <2>3. QED
    BY <2>1, <2>2
<1>2. QED
  BY <1>1 DEF Uniform

\* Code and native functions that run above a boundary are of TCC code.
LEMMA OnlyTcc ==
    ASSUME ExactInv, stack # <<>>, boundary # 0
    PROVE  /\ Top.kind = "code" => Top.jit = "TCC"
           /\ Top.kind = "native" => curJit = "TCC"
<1> DEFINE n == Len(stack)
<1>1. n \in Nat \ {0} /\ Top = stack[n] /\ boundary \in Nat /\ DOMAIN stack = 1..n
  BY Leaving, LenProperties DEF ExactInv, GuardInv, BaseInv, TypeOK
<1>2. \A i \in 1..n : Fits(stack, i) /\ Uniform(stack, i)
  BY <1>1 DEF ExactInv, GuardInv, BaseInv
<1>3. boundary \in 1..n /\ stack[boundary].owner
  BY Landing DEF ExactInv, GuardInv
<1>4. n > 2 /\ stack[n].kind = "native" => curJit = stack[n - 2].jit
  BY <1>1 DEF ExactInv, GuardInv, BaseInv, CallerSeen
<1> HIDE DEF n
<1>5. \A i \in 1..n : stack[i].owner => stack[i].kind \in {"dispatch", "load"}
  BY <1>2 DEF Fits
<1>6. ASSUME NEW i \in 1..n, boundary < i, stack[i].kind = "code" PROVE stack[i].jit = "TCC"
  <2>1. boundary \in 1..(i - 1)
    BY <1>1, <1>3, <1>6
  <2>2. QED
    BY <1>2, <1>3, <1>6, <2>1 DEF Uniform
<1>7. CASE Top.kind = "code"
  <2>1. boundary # n
    BY <1>1, <1>3, <1>5, <1>7
  <2>2. n \in 1..n /\ boundary < n
    BY <1>1, <1>3, <2>1
  <2>3. QED
    BY <1>1, <1>6, <1>7, <2>2
<1>8. CASE Top.kind = "native"
  <2>1. n \in 1..n
    BY <1>1
  <2>2. n > 2 /\ stack[n - 1].kind = "entry" /\ stack[n - 2].kind = "code"
    BY <1>1, <1>2, <1>8, <2>1 DEF Fits
  <2>3. n - 1 \in 1..n /\ n - 2 \in 1..n
    BY <1>1, <2>2
  <2>4. boundary # n /\ boundary # n - 1 /\ boundary # n - 2
    BY <1>1, <1>3, <1>5, <1>8, <2>1, <2>2, <2>3
  <2>5. boundary < n - 2
    BY <1>1, <1>3, <2>2, <2>4
  <2>6. stack[n - 2].jit = "TCC"
    BY <1>6, <2>2, <2>3, <2>5
  <2>7. QED
    BY <1>1, <1>4, <1>8, <2>2, <2>6
<1>9. QED
  BY <1>7, <1>8

\* A native function that runs is one that its caller's engine uses.
LEMMA FlavorUsed ==
    ASSUME ExactInv, stack # <<>>, Top.kind = "native"
    PROVE  Top.flavor \in Flavors[curJit]
<1> DEFINE n == Len(stack)
<1>1. n \in Nat \ {0} /\ Top = stack[n] /\ DOMAIN stack = 1..n /\ n \in 1..n
  BY Leaving, LenProperties DEF ExactInv, GuardInv, BaseInv, TypeOK
<1>2. Fits(stack, n) /\ Uniform(stack, n)
  BY <1>1 DEF ExactInv, GuardInv, BaseInv
<1>3. n > 2
  BY <1>1, <1>2 DEF Fits
<1>4. curJit = stack[n - 2].jit
  BY <1>1, <1>3 DEF ExactInv, GuardInv, BaseInv, CallerSeen
<1>5. QED
  BY <1>1, <1>2, <1>3, <1>4 DEF Uniform

\* A dispatch keeps the stack uniform if only TCC code gets a boundary, and all of it above one does.
LEMMA ExactDispatch ==
    ASSUME ExactInv, GuardInv', NEW callee \in Engine, NEW type \in Engine,
           stack' = stack \o <<Dispatch(callee, type), Code(callee, type)>>, depth' = depth,
           boundary # 0 => NeedsBoundary(callee, type), NeedsBoundary(callee, type) => callee = "TCC"
    PROVE  ExactInv'
<1> DEFINE n == Len(stack)
           t == stack'
<1>1. Pushed(2) /\ IsDispatch(t[n + 1], callee, type, boundary, curJit) /\ IsCode(t[n + 2], callee, type)
  BY DispatchShape DEF ExactInv, GuardInv, BaseInv
<1>2. n \in Nat /\ boundary \in Nat /\ SamePrefix(stack, t, n)
  BY <1>1 DEF Pushed, ExactInv, GuardInv, BaseInv, TypeOK
<1>3. TopOwner(t, boundary, n)
  BY <1>2, TopOwnerPrefix DEF ExactInv, GuardInv, BaseInv
<1> HIDE DEF n, t
<1>4. n + 1 \in Nat /\ n + 1 # 0 /\ n + 1 + 1 = n + 2
  BY <1>2
<1>5. Uniform(t, n + 1)
  BY <1>1, <1>2, <1>3, UniformUp DEF IsDispatch
<1>6. Uniform(t, n + 2)
  <2>1. t[n + 2].kind = "code" /\ t[n + 2].jit = callee
    BY <1>1 DEF IsCode
  <2>2. t[n + 1].owner = NeedsBoundary(callee, type)
    BY <1>1 DEF IsDispatch
  <2>3. CASE NeedsBoundary(callee, type)
    <3>1. TopOwner(t, n + 1, n + 1)
      BY <1>2, <1>3, <2>2, <2>3, TopOwnerUp
    <3>2. QED
      BY <1>4, <2>1, <2>3, <3>1, UniformUp
  <2>4. CASE ~NeedsBoundary(callee, type)
    <3>1. TopOwner(t, boundary, n + 1) /\ boundary = 0
      BY <1>2, <1>3, <2>2, <2>4, TopOwnerUp
    <3>2. QED
      BY <1>2, <1>4, <2>1, <3>1, UniformUp
  <2>5. QED
    BY <2>3, <2>4
<1>7. t[n + 1].flavor # "tick" /\ t[n + 2].flavor # "tick"
  BY <1>1 DEF IsDispatch, IsCode
<1>8. (\A i \in 1..2 : Uniform(t, n + i)) /\ (\A i \in 1..2 : t[n + i].flavor # "tick")
  <2>1. \A i \in 1..2 : i = 1 \/ i = 2
    OBVIOUS
  <2>2. QED
    BY <1>5, <1>6, <1>7, <2>1
<1>9. /\ \A i \in 1..2 : Uniform(stack', Len(stack) + i)
      /\ \A i \in 1..2 : stack'[Len(stack) + i].flavor # "tick"
  BY <1>8 DEF n, t
<1>10. Pushed(2) /\ 2 \in Nat \ {0}
  BY <1>1
<1>11. QED
  BY <1>9, <1>10, ExactCall

LEMMA ExactCallLuaByName ==
    ASSUME ExactInv, GuardInv', CallLuaByName
    PROVE  ExactInv'
<1> DEFINE n == Len(stack)
           t == stack'
           j == Top.jit
<1>1. /\ Pushed(3) /\ n # 0 /\ Top.kind = "code" /\ j \in Engine
      /\ IsEntry(t[n + 1]) /\ IsDispatch(t[n + 2], j, j, boundary, j) /\ IsCode(t[n + 3], j, j)
  BY CallLuaByNameShape DEF ExactInv, GuardInv, BaseInv
<1>2. n \in Nat /\ boundary \in Nat /\ SamePrefix(stack, t, n) /\ depth' = depth
  BY <1>1 DEF Pushed, ExactInv, GuardInv, BaseInv, TypeOK, CallLuaByName
<1>3. TopOwner(t, boundary, n)
  BY <1>2, TopOwnerPrefix DEF ExactInv, GuardInv, BaseInv
<1>4. boundary # 0 => j = "TCC"
  BY <1>1, OnlyTcc DEF CallLuaByName, Running
<1> HIDE DEF n, t, j
<1>5. n + 1 \in Nat /\ n + 2 \in Nat /\ n + 2 # 0 /\ n + 1 + 1 = n + 2 /\ n + 2 + 1 = n + 3
  BY <1>2
<1>6. Uniform(t, n + 1) /\ TopOwner(t, boundary, n + 1)
  <2>1. t[n + 1].kind = "entry" /\ ~t[n + 1].owner
    BY <1>1 DEF IsEntry
  <2>2. QED
    BY <1>2, <1>3, <2>1, UniformUp, TopOwnerUp
<1>7. Uniform(t, n + 2)
  <2>1. t[n + 2].kind = "dispatch" /\ (boundary # 0 => t[n + 2].owner)
    BY <1>1, <1>4 DEF IsDispatch, NeedsBoundary
  <2>2. QED
    BY <1>2, <1>5, <1>6, <2>1, UniformUp
<1>8. Uniform(t, n + 3)
  <2>1. t[n + 3].kind = "code" /\ t[n + 3].jit = j
    BY <1>1 DEF IsCode
  <2>2. t[n + 2].owner = NeedsBoundary(j, j)
    BY <1>1 DEF IsDispatch
  <2>3. CASE NeedsBoundary(j, j)
    <3>1. TopOwner(t, n + 2, n + 2)
      BY <1>2, <1>5, <1>6, <2>2, <2>3, TopOwnerUp
    <3>2. j = "TCC"
      BY <1>1, <2>3 DEF NeedsBoundary, Engine
    <3>3. QED
      BY <1>5, <2>1, <3>1, <3>2, UniformUp
  <2>4. CASE ~NeedsBoundary(j, j)
    <3>1. TopOwner(t, boundary, n + 2)
      BY <1>2, <1>5, <1>6, <2>2, <2>4, TopOwnerUp
    <3>2. QED
      BY <1>2, <1>4, <1>5, <2>1, <3>1, UniformUp
  <2>5. QED
    BY <2>3, <2>4
<1>9. t[n + 1].flavor # "tick" /\ t[n + 2].flavor # "tick" /\ t[n + 3].flavor # "tick"
  BY <1>1 DEF IsEntry, IsDispatch, IsCode
<1>10. (\A i \in 1..3 : Uniform(t, n + i)) /\ (\A i \in 1..3 : t[n + i].flavor # "tick")
  <2>1. \A i \in 1..3 : i = 1 \/ i = 2 \/ i = 3
    OBVIOUS
  <2>2. QED
    BY <1>6, <1>7, <1>8, <1>9, <2>1
<1>11. /\ \A i \in 1..3 : Uniform(stack', Len(stack) + i)
       /\ \A i \in 1..3 : stack'[Len(stack) + i].flavor # "tick"
  BY <1>10 DEF n, t
<1>12. Pushed(3) /\ 3 \in Nat \ {0} /\ depth' = depth
  BY <1>1, <1>2
<1>13. QED
  BY <1>11, <1>12, ExactCall

\* runtime.tick is counted while it runs.
LEMMA ExactCallNative ==
    ASSUME ExactInv, GuardInv', NEW fl \in NativeFlavor, CallNative(fl)
    PROVE  ExactInv'
<1> DEFINE n == Len(stack)
           t == stack'
<1>1. /\ Pushed(2) /\ Top = stack[n] /\ n # 0 /\ Top.kind = "code"
      /\ IsEntry(t[n + 1]) /\ t[n + 2].kind = "native" /\ t[n + 2].flavor = fl
  BY CallNativeShape DEF ExactInv, GuardInv, BaseInv
<1>2. /\ n \in Nat /\ SamePrefix(stack, t, n)
      /\ DOMAIN stack = 1..n /\ DOMAIN t = 1..(n + 2)
  BY <1>1 DEF Pushed
<1>3. fl \in Flavors[stack[n].jit]
  BY <1>1 DEF CallNative
<1>4. IsFiniteSet(Ticks(stack)) /\ depth = Cardinality(Ticks(stack))
  BY TicksFinite DEF ExactInv, GuardInv, BaseInv, TypeOK
<1> HIDE DEF n, t
<1>5. n + 2 - 2 = n /\ t[n] = stack[n] /\ \A i \in 1..n : t[i] = stack[i]
  BY <1>1, <1>2 DEF SamePrefix
<1>6. Uniform(t, n + 1)
  BY <1>1 DEF Uniform, IsEntry
<1>7. Uniform(t, n + 2)
  <2>1. t[n + 2].flavor \in Flavors[t[n + 2 - 2].jit]
    BY <1>1, <1>3, <1>5
  <2>2. QED
    BY <1>1, <1>2, <2>1 DEF Uniform
<1>8. \A i \in 1..2 : Uniform(t, n + i)
  <2>1. \A i \in 1..2 : i = 1 \/ i = 2
    OBVIOUS
  <2>2. QED
    BY <1>6, <1>7, <2>1
<1>9. t[n + 1].flavor # "tick"
  BY <1>1 DEF IsEntry
<1>10. \A i \in 1..(n + 2) : i \in 1..n \/ i = n + 1 \/ i = n + 2
  BY <1>2
<1>11. n + 2 \in 1..(n + 2) /\ n + 2 \notin 1..n /\ \A i \in 1..n : i \in 1..(n + 2)
  BY <1>2
<1>12. depth' = Cardinality(Ticks(stack'))
  <2>1. CASE fl = "tick"
    <3>1. Ticks(t) = Ticks(stack) \cup {n + 2}
      BY <1>1, <1>2, <1>5, <1>9, <1>10, <1>11, <2>1 DEF Ticks
    <3>2. n + 2 \notin Ticks(stack)
      BY <1>2, <1>11 DEF Ticks
    <3>3. Cardinality(Ticks(t)) = depth + 1
      BY <1>4, <3>1, <3>2, FS_AddElement
    <3>4. depth' = depth + 1
      BY <2>1 DEF CallNative
    <3>5. QED
      BY <3>3, <3>4 DEF t
  <2>2. CASE fl # "tick"
    <3>1. Ticks(t) = Ticks(stack)
      BY <1>1, <1>2, <1>5, <1>9, <1>10, <1>11, <2>2 DEF Ticks
    <3>2. depth' = depth
      BY <2>2 DEF CallNative
    <3>3. QED
      BY <1>4, <3>1, <3>2 DEF t
  <2>3. QED
    BY <2>1, <2>2
<1>13. Pushed(2) /\ 2 \in Nat \ {0} /\ \A i \in 1..2 : Uniform(stack', Len(stack) + i)
  BY <1>1, <1>8 DEF n, t
<1>14. QED
  BY <1>12, <1>13, ExactPush

LEMMA ExactCallClosureFromC ==
    ASSUME OneEngine, ExactInv, GuardInv', NEW e \in Engine, CallClosureFromC(e)
    PROVE  ExactInv'
<1> DEFINE n == Len(stack)
           t == stack'
<1>1. /\ n # 0 /\ IsC(Top) /\ e = Top.jit /\ depth' = depth
      /\ e # "INTERP" => Pushed(1) /\ IsCode(t[n + 1], e, curJit)
  BY CallClosureFromCShape DEF ExactInv, GuardInv, BaseInv, CallClosureFromC, OneEngine
<1>2. Pushed(1) /\ IsCode(t[n + 1], e, curJit)
  BY <1>1 DEF IsC
<1>3. n \in Nat /\ boundary \in Nat /\ SamePrefix(stack, t, n)
  BY <1>2 DEF Pushed, ExactInv, GuardInv, BaseInv, TypeOK
<1>4. TopOwner(t, boundary, n)
  BY <1>3, TopOwnerPrefix DEF ExactInv, GuardInv, BaseInv
<1>5. boundary # 0 => e = "TCC"
  BY <1>1, OnlyTcc DEF CallClosureFromC, Running, IsC
<1> HIDE DEF n, t
<1>6. Uniform(t, n + 1)
  <2>1. t[n + 1].kind = "code" /\ t[n + 1].jit = e
    BY <1>2 DEF IsCode
  <2>2. QED
    BY <1>3, <1>4, <1>5, <2>1, UniformUp
<1>7. (\A i \in 1..1 : Uniform(t, n + i)) /\ (\A i \in 1..1 : t[n + i].flavor # "tick")
  <2>1. (\A i \in 1..1 : i = 1) /\ t[n + 1].flavor # "tick"
    BY <1>2 DEF IsCode
  <2>2. QED
    BY <1>6, <2>1
<1>8. /\ \A i \in 1..1 : Uniform(stack', Len(stack) + i)
      /\ \A i \in 1..1 : stack'[Len(stack) + i].flavor # "tick"
  BY <1>7 DEF n, t
<1>9. Pushed(1) /\ 1 \in Nat \ {0} /\ depth' = depth
  BY <1>1, <1>2
<1>10. QED
  BY <1>8, <1>9, ExactCall

LEMMA ExactCallLoaded ==
    ASSUME ExactInv, GuardInv', CallLoaded
    PROVE  ExactInv'
<1> DEFINE n == Len(stack)
           t == stack'
<1>1. /\ Pushed(4) /\ t[n + 1].kind = "load" /\ t[n + 1].flavor = "load" /\ IsEntry(t[n + 2])
      /\ IsDispatch(t[n + 3], "TCC", "TCC", n + 1, "TCC") /\ IsCode(t[n + 4], "TCC", "TCC")
  BY CallLoadedShape DEF ExactInv, GuardInv, BaseInv
<1>2. depth' = depth
  BY DEF CallLoaded
<1> HIDE DEF n, t
<1>3. /\ t[n + 1].kind = "load"
      /\ t[n + 2].kind = "entry"
      /\ t[n + 3].kind = "dispatch" /\ t[n + 3].owner
      /\ t[n + 4].kind = "code" /\ t[n + 4].jit = "TCC"
  BY <1>1 DEF IsEntry, IsDispatch, IsCode, NeedsBoundary
<1>4. Uniform(t, n + 1) /\ Uniform(t, n + 2) /\ Uniform(t, n + 3) /\ Uniform(t, n + 4)
  BY <1>3 DEF Uniform
<1>5. t[n + 1].flavor # "tick" /\ t[n + 2].flavor # "tick" /\ t[n + 3].flavor # "tick" /\ t[n + 4].flavor # "tick"
  BY <1>1 DEF IsEntry, IsDispatch, IsCode
<1>6. (\A i \in 1..4 : Uniform(t, n + i)) /\ (\A i \in 1..4 : t[n + i].flavor # "tick")
  <2>1. \A i \in 1..4 : i = 1 \/ i = 2 \/ i = 3 \/ i = 4
    OBVIOUS
  <2>2. QED
    BY <1>4, <1>5, <2>1
<1>7. /\ \A i \in 1..4 : Uniform(stack', Len(stack) + i)
      /\ \A i \in 1..4 : stack'[Len(stack) + i].flavor # "tick"
  BY <1>6 DEF n, t
<1>8. Pushed(4) /\ 4 \in Nat \ {0} /\ depth' = depth
  BY <1>1, <1>2
<1>9. QED
  BY <1>7, <1>8, ExactCall

LEMMA ExactNativeDispatch ==
    ASSUME OneEngine, ExactInv, GuardInv', NEW e \in Engine, NativeDispatch(e)
    PROVE  ExactInv'
<1> DEFINE type == DispatchType(Top.flavor, e)
<1>1. type \in Engine
  BY DEF NativeDispatch, DispatchType, ExactInv, GuardInv, BaseInv, TypeOK, Engine
<1>2. stack # <<>> /\ Top.kind = "native" /\ curJit \in Engine
  BY DEF NativeDispatch, Running, ExactInv, GuardInv, BaseInv, TypeOK
<1>3. Top.flavor \in Flavors[curJit]
  BY <1>2, FlavorUsed
<1>4. boundary # 0 => curJit = "TCC"
  BY <1>2, OnlyTcc
<1>5. \/ e = "TCC" /\ type = "TCC"
      \/ e = curJit /\ type = curJit /\ Top.flavor = "pcall"
      \/ e = curJit /\ type = "TCC" /\ Top.flavor = "sort"
  BY DEF NativeDispatch, DispatchType, OneEngine
<1>6. (boundary # 0 => NeedsBoundary(e, type)) /\ (NeedsBoundary(e, type) => e = "TCC")
  BY <1>2, <1>3, <1>4, <1>5 DEF NeedsBoundary, OneEngine, Engine
<1>7. stack' = stack \o <<Dispatch(e, type), Code(e, type)>> /\ depth' = depth
  BY DEF NativeDispatch, Push
<1> HIDE DEF type
<1>8. QED
  BY <1>1, <1>6, <1>7, ExactDispatch

\* Leaving frames keeps ExactInv if the dispatches that are left are counted.
LEMMA ExactCut ==
    ASSUME ExactInv, GuardInv', NEW m \in 0..Len(stack), stack' = SubSeq(stack, 1, m),
           depth' = Cardinality(Ticks(stack'))
    PROVE  ExactInv'
<1>1. DOMAIN stack' = 1..m /\ SamePrefix(stack, stack', m)
  BY PrefixShape DEF ExactInv, GuardInv, BaseInv, TypeOK
<1>2. m \in Nat /\ \A i \in 1..m : Uniform(stack, i)
  <2>1. Len(stack) \in Nat /\ DOMAIN stack = 1..Len(stack)
    BY LenProperties DEF ExactInv, GuardInv, BaseInv, TypeOK
  <2>2. \A i \in 1..m : i \in 1..Len(stack)
    BY <2>1
  <2>3. QED
    BY <2>1, <2>2 DEF ExactInv
<1>3. \A i \in DOMAIN stack' : Uniform(stack', i)
  BY <1>1, <1>2, FitsPrefix
<1>4. QED
  BY <1>3 DEF ExactInv

\* No dispatch that is counted is left.
LEMMA ExactCutNoTick ==
    ASSUME ExactInv, GuardInv', NEW m \in 0..Len(stack), stack' = SubSeq(stack, 1, m), depth' = depth,
           \A i \in (m + 1)..Len(stack) : stack[i].flavor # "tick"
    PROVE  ExactInv'
<1> DEFINE n == Len(stack)
<1>1. n \in Nat /\ DOMAIN stack = 1..n
  BY LenProperties DEF ExactInv, GuardInv, BaseInv, TypeOK
<1>2. DOMAIN stack' = 1..m /\ \A i \in 1..m : stack'[i] = stack[i]
  BY PrefixShape DEF ExactInv, GuardInv, BaseInv, TypeOK, SamePrefix
<1>3. \A i \in 1..n : i \in 1..m \/ i \in (m + 1)..n
  BY <1>1
<1>4. \A i \in 1..m : i \in 1..n
  BY <1>1
<1>5. Ticks(stack') = Ticks(stack)
  BY <1>1, <1>2, <1>3, <1>4 DEF Ticks
<1>6. depth' = Cardinality(Ticks(stack'))
  BY <1>5 DEF ExactInv
<1>7. QED
  BY <1>6, ExactCut

\* A frame is left; runtime.tick is no longer counted.
LEMMA ExactPop ==
    ASSUME ExactInv, GuardInv', stack # <<>>, Pop,
           Top.flavor = "tick" => depth' = depth - 1,
           Top.flavor # "tick" => depth' = depth
    PROVE  ExactInv'
<1> DEFINE n == Len(stack)
           m == n - 1
<1>1. n \in Nat \ {0} /\ DOMAIN stack = 1..n /\ m \in 0..n /\ Top = stack[n] /\ depth \in Int
  BY Leaving, LenProperties DEF ExactInv, GuardInv, BaseInv, TypeOK
<1>2. stack' = SubSeq(stack, 1, m)
  BY DEF Pop
<1>3. CASE Top.flavor # "tick"
  <2>1. \A i \in (m + 1)..n : i = n
    <3>1. \A k \in Nat : \A i \in (k - 1 + 1)..k : i = k
      OBVIOUS
    <3>2. QED
      BY <1>1, <3>1
  <2>2. \A i \in (m + 1)..Len(stack) : stack[i].flavor # "tick"
    BY <1>1, <1>3, <2>1
  <2>3. QED
    BY <1>1, <1>2, <1>3, <2>2, ExactCutNoTick
<1>4. CASE Top.flavor = "tick"
  <2>1. DOMAIN stack' = 1..m /\ \A i \in 1..m : stack'[i] = stack[i]
    BY <1>1, <1>2, PrefixShape DEF ExactInv, GuardInv, BaseInv, TypeOK, SamePrefix
  <2>2. \A i \in 1..n : i \in 1..m <=> i # n
    <3>1. \A k \in Nat : \A i \in 1..k : i \in 1..(k - 1) <=> i # k
      OBVIOUS
    <3>2. QED
      BY <1>1, <3>1
  <2>3. \A i \in 1..m : i \in 1..n
    BY <1>1
  <2>4. Ticks(stack') = Ticks(stack) \ {n}
    BY <1>1, <2>1, <2>2, <2>3 DEF Ticks
  <2>5. n \in Ticks(stack)
    BY <1>1, <1>4 DEF Ticks
  <2>6. IsFiniteSet(Ticks(stack)) /\ Cardinality(Ticks(stack)) = depth
    BY TicksFinite DEF ExactInv, GuardInv, BaseInv, TypeOK
  <2>7. Cardinality(Ticks(stack) \ {n}) = depth - 1
    BY <2>5, <2>6, FS_RemoveElement
  <2>8. depth' = Cardinality(Ticks(stack'))
    BY <1>4, <2>4, <2>7
  <2>9. QED
    BY <1>1, <1>2, <2>8, ExactCut
<1>5. QED
  BY <1>3, <1>4

\* Between the owner of the boundary and the frame that jumps there is C code only.
LEMMA Crossed ==
    ASSUME ExactInv, boundary # 0, stack # <<>>, Top.kind \in {"code", "entry"}
    PROVE  /\ \A i \in (boundary + 1)..(Len(stack) - 1) : IsC(stack[i])
           /\ \A i \in (boundary + 1)..Len(stack) : stack[i].flavor # "tick"
<1> DEFINE n == Len(stack)
<1>1. n \in Nat \ {0} /\ Top = stack[n] /\ DOMAIN stack = 1..n
  BY Leaving, LenProperties DEF ExactInv, GuardInv, BaseInv, TypeOK
<1>2. \A i \in 1..n : Fits(stack, i) /\ Uniform(stack, i)
  BY <1>1 DEF ExactInv, GuardInv, BaseInv
<1>3. boundary \in 1..n /\ stack[boundary].owner
  BY Landing DEF ExactInv, GuardInv
<1>4. \A i \in 1..n : stack[i].owner => i <= boundary
  BY DEF ExactInv, GuardInv, BaseInv, TopOwner
<1>5. \A i \in 1..n : stack[i].kind \in {"code", "dispatch", "entry", "native", "load"}
  BY FrameAt DEF ExactInv, GuardInv, BaseInv, TypeOK
<1> HIDE DEF n
<1>6. ASSUME NEW i \in 1..n, boundary < i
      PROVE  /\ stack[i].kind \in {"code", "entry", "native"}
             /\ stack[i].kind = "code" => IsC(stack[i]) /\ ~IsInterp(stack[i])
  <2>1. boundary \in 1..(i - 1)
    BY <1>1, <1>3, <1>6
  <2>2. ~(i <= boundary)
    BY <1>1, <1>3, <1>6
  <2>3. ~stack[i].owner
    BY <1>4, <2>2
  <2>4. stack[i].kind = "code" => stack[i].jit = "TCC"
    BY <1>2, <1>3, <2>1 DEF Uniform
  <2>5. stack[i].kind # "dispatch"
    BY <1>2, <1>3, <2>1, <2>3 DEF Uniform
  <2>6. stack[i].kind # "load"
    BY <1>2, <2>3 DEF Fits
  <2>7. QED
    BY <1>5, <2>4, <2>5, <2>6 DEF IsC, IsInterp
<1>7. ASSUME NEW i \in 1..(n - 1), boundary < i PROVE stack[i].kind # "native"
  <2>1. i + 1 \in 1..n /\ boundary < i + 1 /\ i \in 1..n /\ i \in Nat
    BY <1>1, <1>3, <1>7
  <2>2. Fits(stack, i + 1) /\ Fits(stack, i)
    BY <1>2, <2>1
  <2>3. stack[i].kind = "native" => i > 2
    BY <2>2 DEF Fits
  <2>4. i > 2 => i + 1 > 3
    BY <2>1
  <2>5. i + 1 - 1 = i
    BY <2>1
  <2>6. stack[i].kind = "native" => stack[i + 1].kind = "dispatch"
    BY <2>2, <2>3, <2>4, <2>5 DEF Fits
  <2>7. QED
    BY <1>6, <2>1, <2>6
<1>8. ASSUME NEW i \in 1..(n - 1), boundary < i PROVE stack[i].kind # "entry"
  <2>1. i + 1 \in 1..n /\ boundary < i + 1 /\ i \in 1..n /\ i \in Nat
    BY <1>1, <1>3, <1>8
  <2>2. Fits(stack, i + 1)
    BY <1>2, <2>1
  <2>3. i + 1 > 1 /\ i + 1 - 1 = i
    BY <2>1
  <2>4. stack[i].kind = "entry" => stack[i + 1].kind \in {"dispatch", "native"} \/ IsInterp(stack[i + 1])
    BY <2>2, <2>3 DEF Fits
  <2>5. stack[i].kind = "entry" => stack[i + 1].kind = "native"
    BY <1>6, <2>1, <2>4 DEF IsInterp
  <2>6. stack[i + 1].kind # "native"
    <3>1. i + 1 = n \/ i + 1 \in 1..(n - 1)
      BY <1>1, <2>1
    <3>2. CASE i + 1 = n
      BY <1>1, <3>2
    <3>3. CASE i + 1 \in 1..(n - 1)
      BY <1>7, <2>1, <3>3
    <3>4. QED
      BY <3>1, <3>2, <3>3
  <2>7. QED
    BY <2>5, <2>6
<1>9. ASSUME NEW i \in (boundary + 1)..(n - 1) PROVE IsC(stack[i])
  <2>1. i \in 1..(n - 1) /\ i \in 1..n /\ boundary < i
    BY <1>1, <1>3, <1>9
  <2>2. QED
    BY <1>6, <1>7, <1>8, <2>1
<1>10. ASSUME NEW i \in (boundary + 1)..n PROVE stack[i].flavor # "tick"
  <2>1. i \in 1..n /\ (i = n \/ i \in (boundary + 1)..(n - 1))
    BY <1>1, <1>3, <1>10
  <2>2. stack[i].kind # "native"
    <3>1. CASE i = n
      BY <1>1, <3>1
    <3>2. CASE i \in (boundary + 1)..(n - 1)
      BY <1>9, <3>2 DEF IsC
    <3>3. QED
      BY <2>1, <3>1, <3>2
  <2>3. QED
    BY <1>2, <2>1, <2>2 DEF Fits
<1>11. QED
  BY <1>9, <1>10 DEF n

LEMMA ExactLongjmp ==
    ASSUME ExactInv, GuardInv', boundary # 0, stack # <<>>, Top.kind \in {"code", "entry"}, Longjmp
    PROVE  ExactInv'
<1>1. boundary \in 0..Len(stack)
  BY Landing DEF ExactInv, GuardInv
<1>2. \A i \in (boundary + 1)..Len(stack) : stack[i].flavor # "tick"
  BY Crossed
<1>3. stack' = SubSeq(stack, 1, boundary) /\ depth' = depth
  BY DEF Longjmp
<1>4. QED
  BY <1>1, <1>2, <1>3, ExactCutNoTick

LEMMA ExactKeep ==
    ASSUME ExactInv, GuardInv', stack' = stack, depth' = depth
    PROVE  ExactInv'
BY DEF ExactInv

LEMMA ExactStep ==
    ASSUME OneEngine, ExactInv, [CallsNext]_callVars
    PROVE  ExactInv'
<1>0. GuardInv'
  BY GuardStep DEF ExactInv, OneEngine, NoTccClosures
<1>1. ASSUME NEW e \in Engine, HostCall(e) PROVE ExactInv'
  <2>1. stack' = stack \o <<Dispatch(e, e), Code(e, e)>> /\ depth' = depth
    BY <1>1 DEF HostCall, Push
  <2>2. Len(stack) = 0
    BY <1>1, EmptySeq DEF HostCall
  <2>3. boundary = 0
    BY <2>2, Landing DEF ExactInv, GuardInv
  <2>4. NeedsBoundary(e, e) => e = "TCC"
    BY DEF NeedsBoundary, Engine
  <2>5. QED
    BY <1>0, <2>1, <2>3, <2>4, ExactDispatch
<1>2. ASSUME NEW e \in Engine, CallClosureFromC(e) PROVE ExactInv'
  BY <1>0, <1>2, ExactCallClosureFromC
<1>3. ASSUME NEW e \in Engine, CallClosureFromInterp(e) PROVE ExactInv'
  <2>1. stack' = stack \o <<Dispatch(e, "INTERP"), Code(e, "INTERP")>> /\ depth' = depth
    BY <1>3 DEF CallClosureFromInterp, Push
  <2>2. e = "INTERP" /\ "INTERP" \in Engine
    BY <1>3 DEF CallClosureFromInterp, OneEngine, Engine
  <2>3. boundary = 0
    BY <1>3, OnlyTcc DEF CallClosureFromInterp, Running
  <2>4. ~NeedsBoundary(e, "INTERP")
    BY <2>2 DEF NeedsBoundary
  <2>5. QED
    BY <1>0, <2>1, <2>2, <2>3, <2>4, ExactDispatch
<1>4. ASSUME NEW e \in Engine, NativeDispatch(e) PROVE ExactInv'
  BY <1>0, <1>4, ExactNativeDispatch
<1>5. ASSUME NEW fl \in NativeFlavor, CallNative(fl) PROVE ExactInv'
  BY <1>0, <1>5, ExactCallNative
<1>6. CASE CallLuaByName
  BY <1>0, <1>6, ExactCallLuaByName
<1>7. CASE CallLoaded
  BY <1>0, <1>7, ExactCallLoaded
<1>8. CASE Return
  <2>1. stack # <<>> /\ Pop
    BY <1>8 DEF Return
  <2>2. Top.kind = "code" => Top.flavor # "tick" /\ depth' = depth
    BY <1>8, <2>1, Leaving DEF Return, ExactInv, GuardInv
  <2>3. /\ Top.flavor = "tick" => depth' = depth - 1
        /\ Top.flavor # "tick" => depth' = depth
    BY <1>8, <2>2 DEF Return, PopScopes
  <2>4. QED
    BY <1>0, <2>1, <2>3, ExactPop
<1>9. CASE ThrowFromC
  <2>1. CASE boundary # 0
    BY <1>0, <1>9, <2>1, ExactLongjmp DEF ThrowFromC, Running
  <2>2. CASE boundary = 0
    BY <1>0, <1>9, <2>2, ExactKeep DEF ThrowFromC
  <2>3. QED
    BY <2>1, <2>2
<1>10. CASE ThrowFromCpp
  BY <1>0, <1>10, ExactKeep DEF ThrowFromCpp
<1>11. CASE UnwindCode
  <2>1. stack # <<>> /\ Top.kind = "code" /\ depth' = depth
    BY <1>11 DEF UnwindCode
  <2>2. Top.flavor # "tick"
    BY <2>1, Leaving DEF ExactInv, GuardInv
  <2>3. CASE Top.jit = "TCC"
    BY <1>0, <1>11, <2>3, ExactKeep DEF UnwindCode
  <2>4. CASE Top.jit # "TCC"
    BY <1>0, <1>11, <2>1, <2>2, <2>4, ExactPop DEF UnwindCode
  <2>5. QED
    BY <2>3, <2>4
<1>12. CASE UnwindEntry
  <2>1. CASE boundary # 0
    BY <1>0, <1>12, <2>1, ExactLongjmp DEF UnwindEntry, GuardThrows
  <2>2. CASE boundary = 0
    BY <1>0, <1>12, <2>2, ExactPop DEF UnwindEntry, GuardThrows, PopScopes
  <2>3. QED
    BY <2>1, <2>2
<1>13. CASE UnwindCpp
  <2>1. CASE Top.flavor = "pcall"
    BY <1>0, <1>13, <2>1, ExactKeep DEF UnwindCpp
  <2>2. CASE Top.flavor # "pcall"
    BY <1>0, <1>13, <2>2, ExactPop DEF UnwindCpp, PopScopes
  <2>3. QED
    BY <2>1, <2>2
<1>14. CASE HostCatches
  BY <1>0, <1>14, ExactKeep DEF HostCatches
<1>15. CASE UNCHANGED callVars
  BY <1>0, <1>15, ExactKeep DEF callVars
<1>16. QED
  BY <1>1, <1>2, <1>3, <1>4, <1>5, <1>6, <1>7, <1>8, <1>9, <1>10, <1>11, <1>12, <1>13, <1>14, <1>15 DEF CallsNext

\* ExactInv holds where no closure travels between engines, named callbacks are TCC code and GCC code
\* does not call table.sort.
THEOREM ExactInvariant ==
    ASSUME OneEngine
    PROVE  CallsSpec => []ExactInv
<1>1. CallsInit => ExactInv
  <2> SUFFICES ASSUME CallsInit PROVE ExactInv
    OBVIOUS
  <2>1. stack = <<>> /\ boundary = 0 /\ curJit = "TCC" /\ mode = "run" /\ depth = 0
    BY DEF CallsInit
  <2>2. stack \in Seq(Frame) /\ Len(stack) = 0 /\ DOMAIN stack = {}
    BY <2>1, EmptySeq
  <2>3. TopOwner(stack, boundary, Len(stack)) /\ CallerSeen(stack, curJit)
    BY <2>1, <2>2 DEF TopOwner, CallerSeen
  <2>4. BaseInv
    BY <2>1, <2>2, <2>3 DEF BaseInv, TypeOK, Engine
  <2>5. Ticks(stack) = {}
    BY <2>2 DEF Ticks
  <2>6. depth = Cardinality(Ticks(stack))
    BY <2>1, <2>5, FS_EmptySet
  <2>7. QED
    BY <2>1, <2>2, <2>4, <2>6 DEF ExactInv, GuardInv, ThrowOutside
<1>2. ExactInv /\ [CallsNext]_callVars => ExactInv'
  BY ExactStep
<1>3. QED
  BY <1>1, <1>2, PTL DEF CallsSpec

\* Whatever returned, threw or jumped before, what the scopes keep in State is exact: the boundary on
\* top of the chain, the engine that a native function sees, and the dispatches that run
\* (jit_error_boundary.h:47-48, state.h:190-195).
THEOREM DispatchAlwaysExact ==
    ASSUME OneEngine
    PROVE  CallsSpec => []DispatchExact
<1>1. ExactInv => ContextExact
  <2> SUFFICES ASSUME ExactInv PROVE ContextExact
    OBVIOUS
  <2>1. ASSUME stack # <<>>, Top.kind = "native" PROVE curJit = stack[Len(stack) - 2].jit
    <3>1. Len(stack) \in Nat \ {0} /\ Top = stack[Len(stack)]
      BY <2>1, Leaving DEF ExactInv, GuardInv
    <3>2. Fits(stack, Len(stack))
      BY <3>1, TopFrame DEF ExactInv, GuardInv
    <3>3. Len(stack) > 2
      BY <2>1, <3>1, <3>2 DEF Fits
    <3>4. QED
      BY <2>1, <3>1, <3>3, TopFrame DEF ExactInv, GuardInv
  <2>2. depth = Cardinality({i \in DOMAIN stack : stack[i].flavor = "tick"})
    BY DEF ExactInv, Ticks
  <2>3. stack = <<>> => curJit = "TCC"
    BY DEF ExactInv, GuardInv, BaseInv
  <2>4. QED
    BY <2>1, <2>2, <2>3 DEF ContextExact
<1>2. QED
  BY <1>1, ExactInvariant, BoundaryAlwaysOnStack, PTL DEF DispatchExact

\* A longjmp crosses generated C frames only: no destructor and no handler, pcall's among others, is
\* skipped (jit_error_boundary.h:28-30).
THEOREM LongjmpAlwaysCrossesOnlyC ==
    ASSUME OneEngine
    PROVE  CallsSpec => LongjmpCrossesOnlyC
<1> DEFINE Crosses == \A i \in (Len(stack') + 1)..(Len(stack) - 1) : IsC(stack[i])
<1>1. ExactInv /\ ExactInv' /\ [CallsNext]_callVars => [Crosses]_callVars
  <2> SUFFICES ASSUME ExactInv, ExactInv', CallsNext PROVE Crosses
    OBVIOUS
  <2>1. Len(stack) \in Nat /\ Len(stack') \in Nat
    BY LenProperties DEF ExactInv, GuardInv, BaseInv, TypeOK
  <2>2. ASSUME Len(stack) <= Len(stack') + 1 PROVE Crosses
    <3>1. \A i \in (Len(stack') + 1)..(Len(stack) - 1) : FALSE
      BY <2>1, <2>2
    <3>2. QED
      BY <3>1
  <2>3. ASSUME stack # <<>>, Pop PROVE Crosses
    <3>1. Len(stack) - 1 \in 0..Len(stack)
      BY <2>3, Leaving DEF ExactInv, GuardInv
    <3>2. Len(stack') = Len(stack) - 1
      BY <2>3, <3>1, PrefixShape DEF Pop, ExactInv, GuardInv, BaseInv, TypeOK
    <3>3. QED
      BY <2>1, <2>2, <3>2
  <2>4. ASSUME Longjmp, boundary # 0, stack # <<>>, Top.kind \in {"code", "entry"} PROVE Crosses
    <3>1. boundary \in 0..Len(stack)
      BY <2>4, Landing DEF ExactInv, GuardInv
    <3>2. Len(stack') = boundary
      BY <2>4, <3>1, PrefixShape DEF Longjmp, ExactInv, GuardInv, BaseInv, TypeOK
    <3>3. QED
      BY <2>4, <3>2, Crossed
  <2>5. ASSUME stack' = stack PROVE Crosses
    BY <2>1, <2>2, <2>5
  <2>6. ASSUME NEW k \in Nat, Pushed(k) PROVE Crosses
    BY <2>1, <2>2, <2>6 DEF Pushed
  <2>7. ASSUME NEW c \in Engine, NEW type \in Engine, stack' = stack \o <<Dispatch(c, type), Code(c, type)>>
        PROVE  Crosses
    BY <2>6, <2>7, DispatchShape DEF ExactInv, GuardInv, BaseInv
  <2>8. ASSUME NEW e \in Engine, HostCall(e) PROVE Crosses
    BY <2>7, <2>8 DEF HostCall, Push
  <2>9. ASSUME NEW e \in Engine, CallClosureFromC(e) PROVE Crosses
    BY <2>6, <2>9, CallClosureFromCShape DEF ExactInv, GuardInv, BaseInv
  <2>10. ASSUME NEW e \in Engine, CallClosureFromInterp(e) PROVE Crosses
    BY <2>7, <2>10 DEF CallClosureFromInterp, Push, Engine
  <2>11. ASSUME NEW e \in Engine, NativeDispatch(e) PROVE Crosses
    <3>1. DispatchType(Top.flavor, e) \in Engine
      BY <2>11 DEF NativeDispatch, DispatchType, ExactInv, GuardInv, BaseInv, TypeOK, Engine
    <3>2. QED
      BY <2>7, <2>11, <3>1 DEF NativeDispatch, Push
  <2>12. ASSUME NEW fl \in NativeFlavor, CallNative(fl) PROVE Crosses
    BY <2>6, <2>12, CallNativeShape DEF ExactInv, GuardInv, BaseInv
  <2>13. CASE CallLuaByName
    BY <2>6, <2>13, CallLuaByNameShape DEF ExactInv, GuardInv, BaseInv
  <2>14. CASE CallLoaded
    BY <2>6, <2>14, CallLoadedShape DEF ExactInv, GuardInv, BaseInv
  <2>15. CASE Return
    BY <2>3, <2>15 DEF Return
  <2>16. CASE ThrowFromC
    BY <2>4, <2>5, <2>16 DEF ThrowFromC, Running
  <2>17. CASE ThrowFromCpp
    BY <2>5, <2>17 DEF ThrowFromCpp
  <2>18. CASE UnwindCode
    BY <2>3, <2>5, <2>18 DEF UnwindCode
  <2>19. CASE UnwindEntry
    BY <2>3, <2>4, <2>19 DEF UnwindEntry, GuardThrows
  <2>20. CASE UnwindCpp
    BY <2>3, <2>5, <2>20 DEF UnwindCpp
  <2>21. CASE HostCatches
    BY <2>5, <2>21 DEF HostCatches
  <2>22. QED
    BY <2>8, <2>9, <2>10, <2>11, <2>12, <2>13, <2>14, <2>15, <2>16, <2>17, <2>18, <2>19, <2>20, <2>21 DEF CallsNext
<1>2. QED
  BY <1>1, ExactInvariant, PTL DEF CallsSpec, LongjmpCrossesOnlyC
=============================================================================
