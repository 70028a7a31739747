-------------------------- MODULE VmRegistryProofs --------------------------
(***************************************************************************)
(* What a State knows by name is code that exists, and it writes lines to  *)
(* code that exists: for all files, engines and plans, and without bounds. *)
(*                                                                         *)
(* A step is a change of what runs, of the code made, of the entries and   *)
(* of the locations, and then the release of what nobody shares any more.  *)
(* Ready says what holds before the release, of any values of the four,    *)
(* so that EndInit, which may load the next unit, is two changes in a row. *)
(***************************************************************************)
EXTENDS VmRegistry, SequenceTheorems, WellFoundedInduction, TLAPS

RegSpec == RegInit /\ [][RegNext]_regVars

\* A compilation uses one engine or more.
PlansAssumption == \A p \in Plans : p \in Seq(Range(p)) /\ p # <<>>

Unit == [jit : Engines, loc : Nat, spoiled : BOOLEAN]
Activation == [kind : {"call", "init"}, code : Nat, names : SUBSET Names, rest : Seq(Engines)]
Entry == [addr : [Engines -> Nat], handle : [Engines -> Nat]]

\* The unit c is being initialised.
InitOf(rs, c) == \E i \in DOMAIN rs : rs[i].kind = "init" /\ rs[i].code = c

\* The types, and that every address is one of a unit made, and comes with its handle.
Typed(cs, f, rs, ls) ==
    /\ cs \in Seq(Unit) /\ f \in [Names -> Entry] /\ rs \in Seq(Activation) /\ ls \in [Engines -> SUBSET Nat]
    /\ \A c \in 1..Len(cs) : cs[c].loc \in 0..Len(cs)
    /\ \A n \in Names, e \in Engines : f[n].addr[e] = f[n].handle[e] /\ f[n].handle[e] \in 0..Len(cs)
    /\ \A i \in DOMAIN rs : rs[i].code \in 1..Len(cs)
    /\ \A e \in Engines : \A c \in ls[e] : c \in 1..Len(cs) /\ cs[c].jit = e /\ InC(e)

\* Of two initialisations the inner one is of the later unit.
Ordered(rs) ==
    \A i, j \in DOMAIN rs : i < j /\ rs[i].kind = "init" /\ rs[j].kind = "init" => rs[i].code < rs[j].code

\* The location of a unit that is being initialised, and has compiled nothing for its engine, is
\* registered last, and no handle has taken it.
Fresh(cs, rs, ls) ==
    \A c \in 1..Len(cs) :
        InitOf(rs, c) /\ ~cs[c].spoiled /\ InC(cs[c].jit) =>
            /\ c \in ls[cs[c].jit]
            /\ \A d \in 1..Len(cs) : cs[d].loc # c /\ (cs[d].jit = cs[c].jit => d <= c)

\* Any other location registered is its own handle's.
Owned(cs, rs, ls) ==
    \A e \in Engines : \A c \in ls[e] : cs[c].spoiled \/ InitOf(rs, c) \/ cs[c].loc = c

Ready(cs, f, rs, ls) == Typed(cs, f, rs, ls) /\ Ordered(rs) /\ Fresh(cs, rs, ls) /\ Owned(cs, rs, ls)

\* Locations are those of code that is held by h.
Alive(cs, h, ls) == \A e \in Engines : \A c \in ls[e] : cs[c].spoiled \/ c \in h

RegInv == Ready(code, fn, runs, locs) /\ Alive(code, HeldCode, locs)
-----------------------------------------------------------------------------
(* Sequences, and the greatest number of a set.                            *)

LEMMA MaxOf ==
    ASSUME NEW n \in Nat, NEW S \in SUBSET (0..n), S # {}
    PROVE  Max(S) \in S /\ \A y \in S : y <= Max(S)
<1> DEFINE T == {n - x : x \in S}
<1>1. T \subseteq Nat /\ T # {}
  <2>1. \A x \in S : n - x \in Nat
    OBVIOUS
  <2>2. QED
    BY <2>1
<1>2. \E x \in T : \A y \in T : ~(<<y, x>> \in OpToRel(<, Nat))
  BY <1>1, NatLessThanWellFounded, WFMin
<1>3. PICK m \in T : \A y \in T : ~(<<y, m>> \in OpToRel(<, Nat))
  BY <1>2
<1>4. \A y \in T : ~(y < m)
  BY <1>1, <1>3 DEF OpToRel
<1>5. PICK x \in S : m = n - x
  OBVIOUS
<1>6. \A y \in S : x >= y
  <2> SUFFICES ASSUME NEW y \in S PROVE x >= y
    OBVIOUS
  <2>1. ~(n - y < n - x)
    BY <1>4, <1>5
  <2>2. QED
    BY <2>1
<1>7. Max(S) \in S /\ \A y \in S : Max(S) >= y
  BY <1>6 DEF Max
<1>8. QED
  BY <1>7

\* The greatest number is the one that is no less than the others.
LEMMA MaxIs ==
    ASSUME NEW n \in Nat, NEW S \in SUBSET (0..n), NEW x \in S, \A y \in S : y <= x
    PROVE  Max(S) = x
<1>1. Max(S) \in S /\ \A y \in S : y <= Max(S)
  BY MaxOf
<1>2. x <= Max(S) /\ Max(S) <= x
  BY <1>1
<1>3. x \in Nat /\ Max(S) \in Nat
  <2>1. S \subseteq Nat
    OBVIOUS
  <2>2. QED
    BY <1>1, <2>1
<1>4. \A a, b \in Nat : a <= b /\ b <= a => a = b
  OBVIOUS
<1>5. QED
  BY <1>2, <1>3, <1>4

LEMMA AppendShape ==
    ASSUME NEW S, NEW s \in Seq(S), NEW x \in S
    PROVE  /\ Len(s) \in Nat /\ DOMAIN s = 1..Len(s)
           /\ Append(s, x) \in Seq(S) /\ Len(Append(s, x)) = Len(s) + 1 /\ DOMAIN Append(s, x) = 1..(Len(s) + 1)
           /\ \A i \in 1..Len(s) : Append(s, x)[i] = s[i]
           /\ Append(s, x)[Len(s) + 1] = x
BY AppendProperties, LenProperties

LEMMA FrontShape ==
    ASSUME NEW S, NEW s \in Seq(S), s # <<>>
    PROVE  /\ Len(s) \in Nat \ {0} /\ DOMAIN s = 1..Len(s) /\ Last(s) = s[Len(s)] /\ Last(s) \in S
           /\ Front(s) \in Seq(S) /\ Len(Front(s)) = Len(s) - 1 /\ DOMAIN Front(s) = 1..(Len(s) - 1)
           /\ \A i \in 1..(Len(s) - 1) : Front(s)[i] = s[i]
<1>1. Len(s) \in Nat \ {0} /\ DOMAIN s = 1..Len(s)
  BY EmptySeq, LenProperties
<1>2. \A i \in 1..Len(s) : s[i] \in S
  BY ElementOfSeq
<1>3. PICK n \in Nat : Len(s) = n + 1
  <2>1. \A k \in Nat \ {0} : \E n \in Nat : k = n + 1
    <3>1. \A k \in Nat \ {0} : k - 1 \in Nat /\ k = k - 1 + 1
      OBVIOUS
    <3>2. QED
      BY <3>1
  <2>2. QED
    BY <1>1, <2>1
<1>4. \A i \in 1..n : s[i] \in S
  BY <1>2, <1>3
<1>5. /\ SubSeq(s, 1, n) \in Seq(S)
      /\ Len(SubSeq(s, 1, n)) = IF 1 <= n THEN n - 1 + 1 ELSE 0
      /\ \A i \in 1..(n - 1 + 1) : SubSeq(s, 1, n)[i] = s[1 + i - 1]
  BY <1>4, SubSeqProperties
<1>6. Len(s) - 1 = n /\ Front(s) = SubSeq(s, 1, n)
  BY <1>3 DEF Front
<1>7. Len(SubSeq(s, 1, n)) = n /\ \A i \in 1..n : SubSeq(s, 1, n)[i] = s[i]
  BY <1>5
<1>8. DOMAIN SubSeq(s, 1, n) = 1..n
  BY <1>5, <1>7, LenProperties
<1>9. Last(s) = s[Len(s)] /\ Last(s) \in S
  BY <1>1, <1>2 DEF Last
<1>10. QED
  BY <1>1, <1>5, <1>6, <1>7, <1>8, <1>9

-----------------------------------------------------------------------------
(* What runs.                                                              *)

\* One more call or initialisation.
LEMMA PushRun ==
    ASSUME NEW rs \in Seq(Activation), NEW r \in Activation
    PROVE  /\ \A c : InitOf(Append(rs, r), c) <=> InitOf(rs, c) \/ (r.kind = "init" /\ r.code = c)
           /\ Ordered(rs) /\ (r.kind = "init" => \A i \in DOMAIN rs : rs[i].code < r.code) => Ordered(Append(rs, r))
           /\ \A n \in Nat : (\A i \in DOMAIN rs : rs[i].code \in 1..n) /\ r.code \in 1..n =>
                 \A i \in DOMAIN Append(rs, r) : Append(rs, r)[i].code \in 1..n
<1> DEFINE n == Len(rs)
           t == Append(rs, r)
<1>1. /\ n \in Nat /\ DOMAIN rs = 1..n /\ DOMAIN t = 1..(n + 1) /\ t[n + 1] = r
      /\ \A i \in 1..n : t[i] = rs[i]
  BY AppendShape
<1> HIDE DEF n, t
<1>2. \A i \in 1..(n + 1) : i \in 1..n \/ i = n + 1
  BY <1>1
<1>3. n + 1 \in 1..(n + 1) /\ \A i \in 1..n : i \in 1..(n + 1) /\ i < n + 1
  BY <1>1
<1>4. \A c : InitOf(t, c) <=> InitOf(rs, c) \/ (r.kind = "init" /\ r.code = c)
  BY <1>1, <1>2, <1>3 DEF InitOf
<1>5. ASSUME Ordered(rs), r.kind = "init" => \A i \in DOMAIN rs : rs[i].code < r.code PROVE Ordered(t)
  <2> SUFFICES ASSUME NEW i \in 1..(n + 1), NEW j \in 1..(n + 1), i < j, t[i].kind = "init", t[j].kind = "init"
               PROVE  t[i].code < t[j].code
    BY <1>1 DEF Ordered
  <2>1. i \in 1..n
    BY <1>1
  <2>2. CASE j \in 1..n
    BY <1>1, <1>5, <2>1, <2>2 DEF Ordered
  <2>3. CASE j = n + 1
    BY <1>1, <1>5, <2>1, <2>3
  <2>4. QED
    BY <1>2, <2>2, <2>3
<1>6. ASSUME NEW k \in Nat, \A i \in DOMAIN rs : rs[i].code \in 1..k, r.code \in 1..k
      PROVE  \A i \in DOMAIN t : t[i].code \in 1..k
  BY <1>1, <1>2, <1>6
<1>7. QED
  BY <1>4, <1>5, <1>6 DEF t

\* One less.
LEMMA PopRun ==
    ASSUME NEW rs \in Seq(Activation), rs # <<>>, Ordered(rs)
    PROVE  /\ Front(rs) \in Seq(Activation) /\ Ordered(Front(rs)) /\ Last(rs) \in Activation
           /\ \A c : InitOf(Front(rs), c) => InitOf(rs, c)
           /\ \A c : InitOf(rs, c) => InitOf(Front(rs), c) \/ (Last(rs).kind = "init" /\ Last(rs).code = c)
           /\ Last(rs).kind = "init" => InitOf(rs, Last(rs).code)
           /\ Last(rs).kind = "init" => \A c : InitOf(Front(rs), c) => c < Last(rs).code
           /\ \A i \in DOMAIN Front(rs) : i \in DOMAIN rs /\ Front(rs)[i] = rs[i]
           /\ \E i \in DOMAIN rs : Last(rs) = rs[i]
<1> DEFINE t == Front(rs)
           l == Last(rs)
<1>1. PICK n \in Nat : Len(rs) = n + 1
  BY FrontShape
<1>2. /\ DOMAIN rs = 1..(n + 1) /\ l = rs[n + 1] /\ l \in Activation
      /\ t \in Seq(Activation) /\ DOMAIN t = 1..n /\ \A i \in 1..n : t[i] = rs[i]
  <2>1. Len(rs) - 1 = n
    BY <1>1
  <2>2. QED
    BY <1>1, <2>1, FrontShape
<1> HIDE DEF t, l
<1>3. (\A i \in 1..(n + 1) : i \in 1..n \/ i = n + 1) /\ n + 1 \in 1..(n + 1)
  OBVIOUS
<1>4. \A i \in 1..n : i \in 1..(n + 1) /\ i < n + 1
  OBVIOUS
<1>5. Ordered(t)
  BY <1>2, <1>4 DEF Ordered
<1>6. \A c : InitOf(t, c) => InitOf(rs, c)
  BY <1>2, <1>4 DEF InitOf
<1>7. \A c : InitOf(rs, c) => InitOf(t, c) \/ (l.kind = "init" /\ l.code = c)
  BY <1>2, <1>3 DEF InitOf
<1>8. l.kind = "init" => InitOf(rs, l.code)
  BY <1>2, <1>3 DEF InitOf
<1>9. l.kind = "init" => \A c : InitOf(t, c) => c < l.code
  BY <1>2, <1>3, <1>4 DEF InitOf, Ordered
<1>10. (\A i \in DOMAIN t : i \in DOMAIN rs /\ t[i] = rs[i]) /\ (\E i \in DOMAIN rs : l = rs[i])
  BY <1>2, <1>3, <1>4
<1>11. QED
  BY <1>2, <1>5, <1>6, <1>7, <1>8, <1>9, <1>10 DEF t, l
-----------------------------------------------------------------------------
(* The release of what nobody shares any more.                             *)

\* The locations that are left when code that h held goes, unless an entry or a running call holds it.
Released(cs, f, rs, ls, h) ==
    [e \in Engines |-> ls[e] \ {cs[c].loc : c \in (h \ HeldBy(f, rs)) \ {0}}]

LEMMA ReleaseKeeps ==
    ASSUME NEW cs, NEW f, NEW rs, NEW ls, NEW h, Ready(cs, f, rs, ls),
           Len(cs) \in Nat, h \subseteq 0..Len(cs), Alive(cs, h \cup HeldBy(f, rs), ls)
    PROVE  Ready(cs, f, rs, Released(cs, f, rs, ls, h)) /\ Alive(cs, HeldBy(f, rs), Released(cs, f, rs, ls, h))
<1> DEFINE gone == (h \ HeldBy(f, rs)) \ {0}
           ret == {cs[c].loc : c \in gone}
           l2 == Released(cs, f, rs, ls, h)
<1>1. \A e \in Engines : l2[e] = ls[e] \ ret
  BY DEF Released
<1>2. l2 \in [Engines -> SUBSET Nat]
  BY DEF Released, Ready, Typed
<1>3. gone \subseteq 1..Len(cs)
  <2>1. \A x \in 0..Len(cs) : x # 0 => x \in 1..Len(cs)
    OBVIOUS
  <2>2. QED
    BY <2>1
<1>4. \A c \in ret : \E d \in 1..Len(cs) : c = cs[d].loc
  BY <1>3
<1>5. \A c \in gone : cs[c].loc \in ret
  OBVIOUS
<1>6. \A c \in 1..Len(cs) : c \in h => c \in HeldBy(f, rs) \/ c \in gone
  OBVIOUS
<1> HIDE DEF l2, ret, gone
<1>7. Typed(cs, f, rs, l2)
  BY <1>1, <1>2 DEF Ready, Typed
<1>8. Fresh(cs, rs, l2)
  <2> SUFFICES ASSUME NEW c \in 1..Len(cs), InitOf(rs, c), ~cs[c].spoiled, InC(cs[c].jit)
               PROVE  /\ c \in l2[cs[c].jit]
                      /\ \A d \in 1..Len(cs) : cs[d].loc # c /\ (cs[d].jit = cs[c].jit => d <= c)
    BY DEF Fresh
  <2>1. /\ c \in ls[cs[c].jit]
        /\ \A d \in 1..Len(cs) : cs[d].loc # c /\ (cs[d].jit = cs[c].jit => d <= c)
    BY DEF Ready, Fresh
  <2>2. c \notin ret
    BY <1>4, <2>1
  <2>3. cs[c].jit \in Engines
    <3>1. cs \in Seq(Unit)
      BY DEF Ready, Typed
    <3>2. cs[c] \in Unit
      BY <3>1, ElementOfSeq
    <3>3. QED
      BY <3>2 DEF Unit
  <2>4. QED
    BY <1>1, <2>1, <2>2, <2>3
<1>9. Owned(cs, rs, l2)
  BY <1>1 DEF Ready, Owned
<1>10. Alive(cs, HeldBy(f, rs), l2)
  <2> SUFFICES ASSUME NEW e \in Engines, NEW c \in l2[e], ~cs[c].spoiled PROVE c \in HeldBy(f, rs)
    BY DEF Alive
  <2>1. c \in ls[e] /\ c \notin ret
    BY <1>1
  <2>2. c \in 1..Len(cs)
    BY <2>1 DEF Ready, Typed
  <2>3. c \in h \/ c \in HeldBy(f, rs)
    BY <2>1 DEF Alive
  <2>4. InitOf(rs, c) \/ cs[c].loc = c
    BY <2>1 DEF Ready, Owned
  <2>5. InitOf(rs, c) => c \in HeldBy(f, rs)
    BY DEF InitOf, HeldBy
  <2>6. c \in gone => cs[c].loc # c
    BY <1>5, <2>1
  <2>7. QED
    BY <1>6, <2>2, <2>3, <2>4, <2>5, <2>6
<1>11. QED
  BY <1>7, <1>8, <1>9, <1>10 DEF Ready, l2

\* Code that is held is code that was made.
LEMMA HeldMade ==
    ASSUME NEW cs, NEW f, NEW rs, NEW ls, Typed(cs, f, rs, ls)
    PROVE  Len(cs) \in Nat /\ HeldBy(f, rs) \subseteq 0..Len(cs)
<1>1. Len(cs) \in Nat
  BY LenProperties DEF Typed
<1>2. \A i \in DOMAIN rs : rs[i].code \in 0..Len(cs)
  BY <1>1 DEF Typed
<1>3. \A n \in Names, e \in Engines : f[n].handle[e] \in 0..Len(cs)
  BY DEF Typed
<1>4. QED
  BY <1>1, <1>2, <1>3 DEF HeldBy

\* A step keeps the invariant if what it changes is Ready.
LEMMA BecomeKeeps ==
    ASSUME RegInv, NEW cs, NEW f, NEW rs, NEW ls, Become(cs, f, rs, ls), Ready(cs, f, rs, ls),
           Len(code) <= Len(cs), Alive(cs, HeldCode \cup HeldBy(f, rs), ls)
    PROVE  RegInv'
<1>1. code' = cs /\ fn' = f /\ runs' = rs
  BY DEF Become
<1>2. locs' = Released(cs, f, rs, ls, HeldCode)
  BY DEF Become, Released
<1>3. Len(code) \in Nat /\ HeldCode \subseteq 0..Len(code)
  BY HeldMade DEF RegInv, Ready, HeldCode
<1>4. Len(cs) \in Nat
  BY HeldMade DEF Ready
<1>5. HeldCode \subseteq 0..Len(cs)
  <2>1. \A x \in 0..Len(code) : x \in 0..Len(cs)
    BY <1>3, <1>4
  <2>2. QED
    BY <1>3, <2>1
<1>6. /\ Ready(cs, f, rs, Released(cs, f, rs, ls, HeldCode))
      /\ Alive(cs, HeldBy(f, rs), Released(cs, f, rs, ls, HeldCode))
  BY <1>4, <1>5, ReleaseKeeps
<1>7. HeldCode' = HeldBy(f, rs)
  BY <1>1 DEF HeldCode, HeldBy
<1>8. QED
  BY <1>1, <1>2, <1>6, <1>7 DEF RegInv
-----------------------------------------------------------------------------
(* A unit is loaded.                                                       *)

\* The units made, those of s spoiled if e is an engine of C code.
Shadowed(cs, e, s) ==
    [d \in DOMAIN cs |-> IF InC(e) /\ d \in s THEN [cs[d] EXCEPT !.spoiled = TRUE] ELSE cs[d]]

\* The unit of engine e that LoadUnit appends, and the initialisation that it pushes.
NewUnit(e) == [jit |-> e, loc |-> 0, spoiled |-> FALSE]
NewInit(c, names, rest) == [kind |-> "init", code |-> c, names |-> names, rest |-> rest]

LEMMA UnitAt ==
    ASSUME NEW cs \in Seq(Unit)
    PROVE  /\ Len(cs) \in Nat /\ DOMAIN cs = 1..Len(cs)
           /\ \A c \in 1..Len(cs) :
                 cs[c] \in Unit /\ cs[c].jit \in Engines /\ cs[c].loc \in Nat /\ cs[c].spoiled \in BOOLEAN
<1>1. Len(cs) \in Nat /\ DOMAIN cs = 1..Len(cs)
  BY LenProperties
<1>2. \A c \in 1..Len(cs) : cs[c] \in Unit
  BY ElementOfSeq
<1>3. QED
  BY <1>1, <1>2 DEF Unit

LEMMA ShadowedShape ==
    ASSUME NEW cs \in Seq(Unit), NEW e, NEW s
    PROVE  /\ Shadowed(cs, e, s) \in Seq(Unit) /\ Len(Shadowed(cs, e, s)) = Len(cs)
           /\ \A c \in 1..Len(cs) :
                 /\ Shadowed(cs, e, s)[c].jit = cs[c].jit
                 /\ Shadowed(cs, e, s)[c].loc = cs[c].loc
                 /\ cs[c].spoiled => Shadowed(cs, e, s)[c].spoiled
                 /\ InC(e) /\ c \in s => Shadowed(cs, e, s)[c].spoiled
<1> DEFINE n == Len(cs)
           t == Shadowed(cs, e, s)
<1>1. n \in Nat /\ DOMAIN cs = 1..n /\ \A c \in 1..n : cs[c] \in Unit
  BY UnitAt
<1>2. \A c \in 1..n : t[c] = IF InC(e) /\ c \in s THEN [cs[c] EXCEPT !.spoiled = TRUE] ELSE cs[c]
  BY <1>1 DEF Shadowed
<1>3. \A c \in 1..n : [cs[c] EXCEPT !.spoiled = TRUE] \in Unit
  BY <1>1 DEF Unit
<1>4. t \in [1..n -> Unit]
  BY <1>1, <1>3 DEF Shadowed
<1>5. t \in Seq(Unit) /\ Len(t) = n
  BY <1>1, <1>4, LenProperties, SeqDef
<1>6. \A c \in 1..n : t[c].jit = cs[c].jit /\ t[c].loc = cs[c].loc
  BY <1>1, <1>2 DEF Unit
<1>7. \A c \in 1..n : (cs[c].spoiled => t[c].spoiled) /\ (InC(e) /\ c \in s => t[c].spoiled)
  BY <1>1, <1>2 DEF Unit
<1>8. QED
  BY <1>5, <1>6, <1>7

\* What is made when a unit is loaded: every unit as it was, but for more that are spoiled, and the new one.
LEMMA LoadedUnits ==
    ASSUME NEW cs \in Seq(Unit), NEW e \in Engines, NEW s
    PROVE  LET t == Append(Shadowed(cs, e, s), NewUnit(e))
               n == Len(cs)
           IN  /\ t \in Seq(Unit) /\ Len(t) = n + 1 /\ n \in Nat
               /\ \A c \in 1..n :
                     /\ t[c].jit = cs[c].jit /\ t[c].loc = cs[c].loc
                     /\ cs[c].spoiled => t[c].spoiled
                     /\ InC(e) /\ c \in s => t[c].spoiled
               /\ t[n + 1].jit = e /\ t[n + 1].loc = 0
<1> DEFINE sh == Shadowed(cs, e, s)
           u == NewUnit(e)
           t == Append(sh, u)
           n == Len(cs)
<1>1. /\ sh \in Seq(Unit) /\ Len(sh) = n
      /\ \A c \in 1..n : /\ sh[c].jit = cs[c].jit /\ sh[c].loc = cs[c].loc
                         /\ cs[c].spoiled => sh[c].spoiled
                         /\ InC(e) /\ c \in s => sh[c].spoiled
  BY ShadowedShape
<1>2. u \in Unit /\ u.jit = e /\ u.loc = 0
  BY DEF NewUnit, Unit
<1>3. n \in Nat
  BY UnitAt
<1> HIDE DEF sh, u, n
<1>4. t \in Seq(Unit) /\ Len(t) = n + 1 /\ t[n + 1] = u /\ \A c \in 1..n : t[c] = sh[c]
  BY <1>1, <1>2, AppendShape
<1> HIDE DEF t
<1>5. /\ t \in Seq(Unit) /\ Len(t) = n + 1 /\ n \in Nat
      /\ \A c \in 1..n :
            /\ t[c].jit = cs[c].jit /\ t[c].loc = cs[c].loc
            /\ cs[c].spoiled => t[c].spoiled
            /\ InC(e) /\ c \in s => t[c].spoiled
      /\ t[n + 1].jit = e /\ t[n + 1].loc = 0
  BY <1>1, <1>2, <1>3, <1>4
<1>6. QED
  BY <1>5 DEF t, sh, u, n

LEMMA LoadKeeps ==
    ASSUME RegInv, NEW names \in SUBSET Names, NEW plan \in Seq(Engines), plan # <<>>, NEW below, NEW made,
           LoadUnit(names, plan, below, made), Ready(made, fn, below, locs), Len(made) = Len(code),
           \A d \in 1..Len(code) : code[d].spoiled => made[d].spoiled,
           \A d \in 1..Len(code) :
               InitOf(below, d) /\ InC(Head(plan)) /\ made[d].jit = Head(plan) => d \in Initialising(Head(plan))
    PROVE  RegInv'
<1> DEFINE e == Head(plan)
           n == Len(made)
           c == Len(made) + 1
           cs == Append(Shadowed(made, e, Initialising(e)), NewUnit(e))
           f == [m \in Names |-> IF m \in names \cup {InitName} THEN Merge(fn[m], e, c) ELSE fn[m]]
           r == NewInit(c, names, Tail(plan))
           rs == Append(below, r)
           ls == [locs EXCEPT ![e] = IF InC(e) THEN @ \cup {c} ELSE @]
<1>1. e \in Engines /\ Tail(plan) \in Seq(Engines)
  BY HeadTailProperties
<1>2. Become(cs, f, rs, ls)
  BY DEF LoadUnit, Shadowed, NewUnit, NewInit
<1>3. made \in Seq(Unit) /\ below \in Seq(Activation)
  BY DEF Ready, Typed
<1>4. /\ cs \in Seq(Unit) /\ Len(cs) = n + 1 /\ n \in Nat
      /\ \A d \in 1..n :
            /\ cs[d].jit = made[d].jit /\ cs[d].loc = made[d].loc
            /\ made[d].spoiled => cs[d].spoiled
            /\ InC(e) /\ d \in Initialising(e) => cs[d].spoiled
      /\ cs[n + 1].jit = e /\ cs[n + 1].loc = 0
  BY <1>1, <1>3, LoadedUnits
<1>5. c = n + 1 /\ c \in Nat /\ c \in 1..c /\ c # 0 /\ c \notin 0..n
  BY <1>4
<1>6. r \in Activation /\ r.kind = "init" /\ r.code = c
  BY <1>1, <1>5 DEF NewInit, Activation
<1> HIDE DEF cs, r, e, n
<1>7. /\ \A d : InitOf(rs, d) <=> InitOf(below, d) \/ d = c
      /\ rs \in Seq(Activation) /\ \E i \in DOMAIN rs : rs[i].code = c
  <2>1. rs \in Seq(Activation) /\ DOMAIN rs = 1..(Len(below) + 1) /\ rs[Len(below) + 1] = r /\ Len(below) \in Nat
    BY <1>3, <1>6, AppendShape
  <2>2. Len(below) + 1 \in DOMAIN rs
    BY <2>1
  <2>3. \A d : InitOf(rs, d) <=> InitOf(below, d) \/ (r.kind = "init" /\ r.code = d)
    BY <1>3, <1>6, PushRun
  <2>4. QED
    BY <1>6, <2>1, <2>2, <2>3
<1>8. \A i \in DOMAIN below : below[i].code \in 1..n
  BY DEF Ready, Typed, n
<1>9. Ordered(rs) /\ \A i \in DOMAIN rs : rs[i].code \in 1..c
  <2>1. \A x \in 1..n : x < c /\ x \in 1..c
    BY <1>4, <1>5
  <2>2. \A i \in DOMAIN below : below[i].code < r.code
    BY <1>6, <1>8, <2>1
  <2>3. Ordered(rs)
    BY <1>3, <1>6, <2>2, PushRun DEF Ready
  <2>4. \A i \in DOMAIN below : below[i].code \in 1..c
    BY <1>8, <2>1
  <2>5. QED
    BY <1>3, <1>5, <1>6, <2>3, <2>4, PushRun
<1>10. \A d \in 1..c : d \in 1..n \/ d = c
  BY <1>4, <1>5
<1>11. /\ ls \in [Engines -> SUBSET Nat]
       /\ \A x \in Engines : \A d \in ls[x] : d \in locs[x] \/ (d = c /\ x = e /\ InC(e))
       /\ \A x \in Engines : x # e => ls[x] = locs[x]
       /\ InC(e) => c \in ls[e]
  <2>1. locs \in [Engines -> SUBSET Nat]
    BY DEF Ready, Typed
  <2>2. QED
    BY <1>1, <1>5, <2>1
<1> HIDE DEF ls, rs, c
<1>12. /\ f \in [Names -> Entry]
       /\ \A m \in Names, x \in Engines : f[m].addr[x] = f[m].handle[x] /\ f[m].handle[x] \in 0..c
  <2>1. /\ fn \in [Names -> Entry]
        /\ \A m \in Names, x \in Engines : fn[m].addr[x] = fn[m].handle[x] /\ fn[m].handle[x] \in 0..n
    BY DEF Ready, Typed, n
  <2>2. \A x \in 0..n : x \in 0..c
    BY <1>4, <1>5
  <2>3. ASSUME NEW m \in Names
        PROVE  /\ Merge(fn[m], e, c) \in Entry
               /\ \A x \in Engines : /\ Merge(fn[m], e, c).addr[x] = Merge(fn[m], e, c).handle[x]
                                     /\ Merge(fn[m], e, c).handle[x] \in {fn[m].handle[x], c}
    <3>1. fn[m] \in Entry /\ \A x \in Engines : fn[m].addr[x] = fn[m].handle[x]
      BY <2>1
    <3>2. QED
      BY <1>1, <1>5, <3>1 DEF Merge, Entry
  <2>4. c \in 0..c
    BY <1>5
  <2>5. QED
    BY <2>1, <2>2, <2>3, <2>4
<1> HIDE DEF f
<1>13. Typed(cs, f, rs, ls)
  <2>1. \A d \in 1..Len(cs) : cs[d].loc \in 0..Len(cs)
    <3>1. \A d \in 1..n : made[d].loc \in 0..n
      BY DEF Ready, Typed, n
    <3>2. \A x \in 0..n : x \in 0..c
      BY <1>4, <1>5
    <3>3. Len(cs) = c /\ 0 \in 0..c
      BY <1>4, <1>5
    <3>4. QED
      BY <1>4, <1>5, <1>10, <3>1, <3>2, <3>3
  <2>2. \A x \in Engines : \A d \in ls[x] : d \in 1..Len(cs) /\ cs[d].jit = x /\ InC(x)
    <3> SUFFICES ASSUME NEW x \in Engines, NEW d \in ls[x] PROVE d \in 1..c /\ cs[d].jit = x /\ InC(x)
      BY <1>4, <1>5
    <3>1. CASE d \in locs[x]
      <4>1. d \in 1..n /\ made[d].jit = x /\ InC(x)
        BY <3>1 DEF Ready, Typed, n
      <4>2. d \in 1..c
        BY <1>4, <1>5, <4>1
      <4>3. QED
        BY <1>4, <4>1, <4>2
    <3>2. CASE d = c /\ x = e /\ InC(e)
      BY <1>4, <1>5, <3>2
    <3>3. QED
      BY <1>11, <3>1, <3>2
  <2>3. Len(cs) = c
    BY <1>4, <1>5
  <2>4. QED
    BY <1>4, <1>7, <1>9, <1>11, <1>12, <2>1, <2>2, <2>3 DEF Typed
<1>14. Fresh(cs, rs, ls)
  <2> SUFFICES ASSUME NEW d \in 1..c, InitOf(rs, d), ~cs[d].spoiled, InC(cs[d].jit)
               PROVE  /\ d \in ls[cs[d].jit]
                      /\ \A x \in 1..c : cs[x].loc # d /\ (cs[x].jit = cs[d].jit => x <= d)
    BY <1>4, <1>5 DEF Fresh
  <2>1. CASE d = c
    <3>1. \A x \in 1..n : cs[x].loc # c
      <4>1. \A x \in 1..n : made[x].loc \in 0..n
        BY DEF Ready, Typed, n
      <4>2. QED
        BY <1>4, <1>5, <4>1
    <3>2. \A x \in 1..c : cs[x].loc # c
      BY <1>4, <1>5, <1>10, <3>1
    <3>3. \A x \in 1..c : x <= c
      BY <1>5
    <3>4. cs[c].jit = e
      BY <1>4, <1>5
    <3>5. QED
      BY <1>11, <2>1, <3>2, <3>3, <3>4
  <2>2. CASE d \in 1..n
    <3>1. d # c /\ d # 0
      BY <1>4, <1>5, <2>2
    <3>2. InitOf(below, d)
      BY <1>7, <3>1
    <3>3. cs[d].jit = made[d].jit /\ ~made[d].spoiled
      BY <1>4, <2>2
    <3>4. cs[d].jit # e
      <4> SUFFICES ASSUME cs[d].jit = e PROVE FALSE
        OBVIOUS
      <4>1. d \in Initialising(e)
        BY <2>2, <3>2, <3>3 DEF n, e
      <4>2. QED
        BY <1>4, <2>2, <4>1
    <3>5. /\ d \in locs[made[d].jit]
          /\ \A x \in 1..n : made[x].loc # d /\ (made[x].jit = made[d].jit => x <= d)
      BY <2>2, <3>2, <3>3 DEF Ready, Fresh, n
    <3>6. cs[d].jit \in Engines
      BY <1>3, <2>2, <3>3, UnitAt DEF n
    <3>7. d \in ls[cs[d].jit]
      BY <1>11, <3>3, <3>4, <3>5, <3>6
    <3>8. \A x \in 1..n : cs[x].loc # d /\ (cs[x].jit = cs[d].jit => x <= d)
      BY <1>4, <3>3, <3>5
    <3>9. cs[c].loc # d /\ cs[c].jit # cs[d].jit
      BY <1>4, <1>5, <3>1, <3>4
    <3>10. QED
      BY <1>10, <3>7, <3>8, <3>9
  <2>3. QED
    BY <1>10, <2>1, <2>2
<1>15. Owned(cs, rs, ls)
  <2> SUFFICES ASSUME NEW x \in Engines, NEW d \in ls[x] PROVE cs[d].spoiled \/ InitOf(rs, d) \/ cs[d].loc = d
    BY DEF Owned
  <2>1. CASE d = c
    BY <1>7, <2>1
  <2>2. CASE d \in locs[x]
    <3>1. d \in 1..n
      BY <2>2 DEF Ready, Typed, n
    <3>2. made[d].spoiled \/ InitOf(below, d) \/ made[d].loc = d
      BY <2>2 DEF Ready, Owned
    <3>3. QED
      BY <1>4, <1>7, <3>1, <3>2
  <2>3. QED
    BY <1>11, <2>1, <2>2
<1>16. Alive(cs, HeldCode \cup HeldBy(f, rs), ls)
  <2> SUFFICES ASSUME NEW x \in Engines, NEW d \in ls[x] PROVE cs[d].spoiled \/ d \in HeldCode \/ d \in HeldBy(f, rs)
    BY DEF Alive
  <2>1. CASE d = c
    BY <1>7, <2>1 DEF HeldBy
  <2>2. CASE d \in locs[x]
    <3>1. d \in 1..n /\ d \in 1..Len(code)
      BY <2>2 DEF Ready, Typed, n
    <3>2. code[d].spoiled \/ d \in HeldCode
      BY <2>2 DEF RegInv, Alive
    <3>3. QED
      BY <1>4, <3>1, <3>2
  <2>3. QED
    BY <1>11, <2>1, <2>2
<1>17. Len(code) <= Len(cs)
  BY <1>4 DEF n
<1>18. Ready(cs, f, rs, ls)
  BY <1>9, <1>13, <1>14, <1>15 DEF Ready
<1>19. QED
  BY <1>2, <1>16, <1>17, <1>18, BecomeKeeps-----------------------------------------------------------------------------
(* An initialisation ends.                                                 *)

\* The units made, when the handle of a C unit has taken its location.
Taken ==
    IF InC(code[Run.code].jit)
    THEN [code EXCEPT ![Run.code].loc = LocTaken(code[Run.code].jit)]
    ELSE code

\* The units made, when the init has thrown.
Thrown == [code EXCEPT ![Run.code].spoiled = TRUE]

\* What runs is of units made; what is left when the innermost returns, too.
LEMMA RunMade ==
    ASSUME RegInv, runs # <<>>
    PROVE  /\ code \in Seq(Unit) /\ Len(code) \in Nat /\ DOMAIN code = 1..Len(code) /\ Run.code \in 1..Len(code)
           /\ Run \in Activation /\ runs \in Seq(Activation) /\ Front(runs) \in Seq(Activation) /\ Ordered(Front(runs))
           /\ \A i \in DOMAIN Front(runs) : Front(runs)[i].code \in 1..Len(code)
<1>1. /\ runs \in Seq(Activation) /\ Ordered(runs) /\ code \in Seq(Unit)
      /\ \A i \in DOMAIN runs : runs[i].code \in 1..Len(code)
  BY DEF RegInv, Ready, Typed
<1>2. Len(code) \in Nat /\ DOMAIN code = 1..Len(code)
  BY <1>1, UnitAt
<1>3. /\ Front(runs) \in Seq(Activation) /\ Ordered(Front(runs)) /\ Last(runs) \in Activation
      /\ \A i \in DOMAIN Front(runs) : i \in DOMAIN runs /\ Front(runs)[i] = runs[i]
      /\ \E i \in DOMAIN runs : Last(runs) = runs[i]
  BY <1>1, PopRun
<1>4. QED
  BY <1>1, <1>2, <1>3 DEF Run

\* The location taken is one of the engine's; that of the unit, if it has compiled nothing for its engine.
LEMMA LocTakenIs ==
    ASSUME RegInv, OnTop("init"), InC(code[Run.code].jit)
    PROVE  /\ LocTaken(code[Run.code].jit) \in 0..Len(code)
           /\ LocTaken(code[Run.code].jit) # 0 => code[LocTaken(code[Run.code].jit)].jit = code[Run.code].jit
           /\ ~code[Run.code].spoiled => LocTaken(code[Run.code].jit) = Run.code
<1> DEFINE n == Len(code)
           k == Run.code
           e == code[k].jit
<1>1. n \in Nat /\ k \in 1..n /\ e \in Engines
  BY RunMade, UnitAt DEF OnTop
<1>2. \A c \in locs[e] : c \in 1..n /\ code[c].jit = e
  BY <1>1 DEF RegInv, Ready, Typed
<1>3. locs[e] \in SUBSET (0..n)
  <2>1. \A c \in 1..n : c \in 0..n
    OBVIOUS
  <2>2. QED
    BY <1>2, <2>1
<1>4. InitOf(runs, k)
  <2>1. runs \in Seq(Activation) /\ Ordered(runs)
    BY DEF RegInv, Ready, Typed
  <2>2. QED
    BY <2>1, PopRun DEF Run, OnTop
<1>5. ~code[k].spoiled => k \in locs[e] /\ \A d \in 1..n : code[d].jit = e => d <= k
  BY <1>1, <1>4 DEF RegInv, Ready, Fresh
<1>6. 0 \in 0..n
  BY <1>1
<1> HIDE DEF n, e, k
<1>7. locs[e] # {} => Max(locs[e]) \in locs[e]
  BY <1>1, <1>3, MaxOf
<1>8. ~code[k].spoiled => Max(locs[e]) = k
  <2> SUFFICES ASSUME ~code[k].spoiled PROVE Max(locs[e]) = k
    OBVIOUS
  <2>1. k \in locs[e] /\ \A y \in locs[e] : y <= k
    BY <1>2, <1>5
  <2>2. QED
    BY <1>1, <1>3, <2>1, MaxIs
<1>9. LocTaken(e) \in 0..n /\ (LocTaken(e) # 0 => code[LocTaken(e)].jit = e)
  BY <1>2, <1>3, <1>6, <1>7 DEF LocTaken
<1>10. ~code[k].spoiled => LocTaken(e) = k
  BY <1>5, <1>8 DEF LocTaken
<1>11. QED
  BY <1>9, <1>10 DEF n, e, k

LEMMA TakenShape ==
    ASSUME RegInv, OnTop("init")
    PROVE  /\ Taken \in Seq(Unit) /\ Len(Taken) = Len(code)
           /\ \A d \in 1..Len(code) :
                 /\ Taken[d].jit = code[d].jit /\ Taken[d].spoiled = code[d].spoiled
                 /\ d # Run.code \/ ~InC(code[Run.code].jit) => Taken[d].loc = code[d].loc
                 /\ d = Run.code /\ InC(code[Run.code].jit) => Taken[d].loc = LocTaken(code[Run.code].jit)
                 /\ Taken[d].loc \in 0..Len(code)
<1> DEFINE n == Len(code)
           k == Run.code
           e == code[k].jit
           l == LocTaken(e)
<1>1. code \in Seq(Unit) /\ n \in Nat /\ DOMAIN code = 1..n /\ k \in 1..n
  BY RunMade DEF OnTop
<1>2. \A d \in 1..n : code[d] \in Unit /\ code[d].loc \in 0..n
  BY <1>1, UnitAt DEF RegInv, Ready, Typed
<1>3. CASE ~InC(e)
  BY <1>1, <1>2, <1>3 DEF Taken
<1>4. CASE InC(e)
  <2>1. l \in 0..n
    BY <1>4, LocTakenIs
  <2>2. l \in Nat
    BY <1>1, <2>1
  <2>3. Taken = [code EXCEPT ![k].loc = l]
    BY <1>4 DEF Taken
  <2> HIDE DEF l, k, n
  <2>4. /\ \A d \in 1..n : d # k => Taken[d] = code[d]
        /\ Taken[k] = [code[k] EXCEPT !.loc = l] /\ DOMAIN Taken = 1..n
    BY <1>1, <2>3
  <2>5. /\ Taken[k].loc = l /\ Taken[k].jit = code[k].jit /\ Taken[k].spoiled = code[k].spoiled
        /\ Taken[k] \in Unit
    BY <1>1, <1>2, <2>2, <2>4 DEF Unit
  <2>6. Taken \in [1..n -> Unit]
    BY <1>1, <1>2, <2>2, <2>3, <2>4, <2>5
  <2>7. Taken \in Seq(Unit) /\ Len(Taken) = n
    BY <1>1, <2>6, LenProperties, SeqDef
  <2>8. \A d \in 1..n : /\ Taken[d].jit = code[d].jit /\ Taken[d].spoiled = code[d].spoiled
                        /\ d # k => Taken[d].loc = code[d].loc
                        /\ d = k => Taken[d].loc = l
                        /\ Taken[d].loc \in 0..n
    BY <1>2, <2>1, <2>4, <2>5
  <2>9. QED
    BY <1>4, <2>7, <2>8 DEF l, k, n
<1>5. QED
  BY <1>3, <1>4

LEMMA TakenReady ==
    ASSUME RegInv, OnTop("init")
    PROVE  Ready(Taken, fn, Front(runs), locs)
<1> DEFINE n == Len(code)
           k == Run.code
           e == code[k].jit
           t == Front(runs)
<1>1. /\ code \in Seq(Unit) /\ n \in Nat /\ k \in 1..n
      /\ t \in Seq(Activation) /\ Ordered(t) /\ \A i \in DOMAIN t : t[i].code \in 1..n
  BY RunMade DEF OnTop
<1>2. /\ Taken \in Seq(Unit) /\ Len(Taken) = n
      /\ \A d \in 1..n : /\ Taken[d].jit = code[d].jit /\ Taken[d].spoiled = code[d].spoiled
                         /\ d # k \/ ~InC(e) => Taken[d].loc = code[d].loc
                         /\ d = k /\ InC(e) => Taken[d].loc = LocTaken(e)
                         /\ Taken[d].loc \in 0..n
  BY TakenShape
<1>3. InC(e) => /\ LocTaken(e) # 0 => code[LocTaken(e)].jit = e
                /\ ~code[k].spoiled => LocTaken(e) = k
  BY LocTakenIs
<1>4. /\ \A c : InitOf(t, c) => InitOf(runs, c) /\ c < k
      /\ \A c : InitOf(runs, c) => InitOf(t, c) \/ k = c
  <2>1. runs \in Seq(Activation) /\ Ordered(runs)
    BY DEF RegInv, Ready, Typed
  <2>2. QED
    BY <2>1, PopRun DEF Run, OnTop
<1>5. \A x \in Engines : \A c \in locs[x] : c \in 1..n /\ code[c].jit = x /\ InC(x)
  BY DEF RegInv, Ready, Typed
<1> HIDE DEF n, k, e, t
<1>6. Typed(Taken, fn, t, locs)
  <2>1. /\ fn \in [Names -> Entry] /\ locs \in [Engines -> SUBSET Nat]
        /\ \A m \in Names, x \in Engines : fn[m].addr[x] = fn[m].handle[x] /\ fn[m].handle[x] \in 0..n
    BY DEF RegInv, Ready, Typed, n
  <2>2. \A x \in Engines : \A c \in locs[x] : c \in 1..Len(Taken) /\ Taken[c].jit = x /\ InC(x)
    BY <1>2, <1>5
  <2>3. QED
    BY <1>1, <1>2, <2>1, <2>2 DEF Typed
<1>7. Fresh(Taken, t, locs)
  <2> SUFFICES ASSUME NEW d \in 1..n, InitOf(t, d), ~Taken[d].spoiled, InC(Taken[d].jit)
               PROVE  /\ d \in locs[Taken[d].jit]
                      /\ \A x \in 1..n : Taken[x].loc # d /\ (Taken[x].jit = Taken[d].jit => x <= d)
    BY <1>2 DEF Fresh
  <2>1. /\ d \in locs[code[d].jit]
        /\ \A x \in 1..n : code[x].loc # d /\ (code[x].jit = code[d].jit => x <= d)
    BY <1>2, <1>4 DEF RegInv, Ready, Fresh, n
  <2>2. d < k /\ ~(k <= d) /\ d # 0
    <3>1. d < k
      BY <1>4
    <3>2. QED
      BY <1>1, <3>1
  <2>3. code[d].jit # code[k].jit
    BY <1>1, <2>1, <2>2
  <2>4. InC(e) => LocTaken(e) # d
    BY <1>3, <2>2, <2>3 DEF e
  <2>5. \A x \in 1..n : Taken[x].loc # d
    BY <1>2, <2>1, <2>4
  <2>6. QED
    BY <1>2, <2>1, <2>5
<1>8. Owned(Taken, t, locs)
  <2> SUFFICES ASSUME NEW x \in Engines, NEW c \in locs[x], ~Taken[c].spoiled
               PROVE  InitOf(t, c) \/ Taken[c].loc = c
    BY DEF Owned
  <2>1. c \in 1..n /\ code[c].jit = x /\ InC(x) /\ ~code[c].spoiled
    BY <1>2, <1>5
  <2>2. InitOf(runs, c) \/ code[c].loc = c
    BY <2>1 DEF RegInv, Ready, Owned
  <2>3. CASE c = k
    BY <1>2, <1>3, <2>1, <2>3 DEF e
  <2>4. CASE c # k
    BY <1>2, <1>4, <2>1, <2>2, <2>4
  <2>5. QED
    BY <2>3, <2>4
<1>9. QED
  BY <1>1, <1>6, <1>7, <1>8 DEF Ready, t

LEMMA ThrownReady ==
    ASSUME RegInv, OnTop("init")
    PROVE  /\ Ready(Thrown, fn, Front(runs), locs) /\ Len(Thrown) = Len(code)
           /\ \A d \in 1..Len(code) : code[d].spoiled => Thrown[d].spoiled
<1> DEFINE n == Len(code)
           k == Run.code
           t == Front(runs)
<1>1. /\ code \in Seq(Unit) /\ n \in Nat /\ DOMAIN code = 1..n /\ k \in 1..n
      /\ t \in Seq(Activation) /\ Ordered(t) /\ \A i \in DOMAIN t : t[i].code \in 1..n
  BY RunMade DEF OnTop
<1>2. \A d \in 1..n : code[d] \in Unit /\ code[d].loc \in 0..n
  BY <1>1, UnitAt DEF RegInv, Ready, Typed
<1>3. Thrown = [code EXCEPT ![k].spoiled = TRUE]
  BY DEF Thrown
<1>4. /\ \A c : InitOf(t, c) => InitOf(runs, c)
      /\ \A c : InitOf(runs, c) => InitOf(t, c) \/ k = c
  <2>1. runs \in Seq(Activation) /\ Ordered(runs)
    BY DEF RegInv, Ready, Typed
  <2>2. QED
    BY <2>1, PopRun DEF Run, OnTop
<1> HIDE DEF n, k, t
<1>5. /\ \A d \in 1..n : d # k => Thrown[d] = code[d]
      /\ Thrown[k] = [code[k] EXCEPT !.spoiled = TRUE] /\ DOMAIN Thrown = 1..n
  BY <1>1, <1>3
<1>6. /\ Thrown[k].loc = code[k].loc /\ Thrown[k].jit = code[k].jit /\ Thrown[k].spoiled /\ Thrown[k] \in Unit
  BY <1>1, <1>2, <1>5 DEF Unit
<1>7. Thrown \in [1..n -> Unit]
  BY <1>1, <1>2, <1>3, <1>5, <1>6
<1>8. Thrown \in Seq(Unit) /\ Len(Thrown) = n
  BY <1>1, <1>7, LenProperties, SeqDef
<1>9. \A d \in 1..n : /\ Thrown[d].jit = code[d].jit /\ Thrown[d].loc = code[d].loc
                      /\ code[d].spoiled => Thrown[d].spoiled
                      /\ ~Thrown[d].spoiled => d # k
  BY <1>5, <1>6
<1>10. Typed(Thrown, fn, t, locs)
  <2>1. /\ fn \in [Names -> Entry] /\ locs \in [Engines -> SUBSET Nat]
        /\ \A m \in Names, x \in Engines : fn[m].addr[x] = fn[m].handle[x] /\ fn[m].handle[x] \in 0..n
        /\ \A x \in Engines : \A c \in locs[x] : c \in 1..n /\ code[c].jit = x /\ InC(x)
    BY DEF RegInv, Ready, Typed, n
  <2>2. QED
    BY <1>1, <1>2, <1>8, <1>9, <2>1 DEF Typed
<1>11. Fresh(Thrown, t, locs)
  BY <1>4, <1>8, <1>9 DEF RegInv, Ready, Fresh, n
<1>12. Owned(Thrown, t, locs)
  <2> SUFFICES ASSUME NEW x \in Engines, NEW c \in locs[x], ~Thrown[c].spoiled
               PROVE  InitOf(t, c) \/ Thrown[c].loc = c
    BY DEF Owned
  <2>1. c \in 1..n
    BY DEF RegInv, Ready, Typed, n
  <2>2. code[c].spoiled \/ InitOf(runs, c) \/ code[c].loc = c
    BY DEF RegInv, Ready, Owned
  <2>3. QED
    BY <1>4, <1>9, <2>1, <2>2
<1>13. QED
  BY <1>1, <1>8, <1>9, <1>10, <1>11, <1>12 DEF Ready, t, n-----------------------------------------------------------------------------
(* The steps.                                                              *)

LEMMA TypesOf ==
    ASSUME RegInv
    PROVE  /\ code \in Seq(Unit) /\ runs \in Seq(Activation) /\ Len(code) \in Nat
           /\ Ready(code, fn, runs, locs)
BY UnitAt DEF RegInv, Ready, Typed

\* The units that Initialising names are those that InitOf finds.
LEMMA InitialisingIs ==
    ASSUME NEW e, NEW d, InitOf(runs, d), code[d].jit = e
    PROVE  d \in Initialising(e)
BY DEF InitOf, Initialising

\* A step that makes nothing, and leaves the entries and the locations to the release.
LEMMA RunsChange ==
    ASSUME RegInv, NEW cs, NEW rs, Become(cs, fn, rs, locs), Ready(cs, fn, rs, locs), Len(cs) = Len(code),
           \A d \in 1..Len(code) : code[d].spoiled => cs[d].spoiled
    PROVE  RegInv'
<1>1. Len(code) <= Len(cs)
  <2>1. Len(code) \in Nat
    BY TypesOf
  <2>2. \A x \in Nat : x <= x
    OBVIOUS
  <2>3. QED
    BY <2>1, <2>2
<1>2. Alive(cs, HeldCode \cup HeldBy(fn, rs), locs)
  <2>1. \A e \in Engines : \A c \in locs[e] : c \in 1..Len(code) /\ (code[c].spoiled \/ c \in HeldCode)
    BY DEF RegInv, Ready, Typed, Alive
  <2>2. QED
    BY <2>1 DEF Alive
<1>3. QED
  BY <1>1, <1>2, BecomeKeeps

LEMMA CompileFileKeeps ==
    ASSUME RegInv, NEW names \in SUBSET Names, NEW plan \in Seq(Engines), plan # <<>>, CompileFile(names, plan)
    PROVE  RegInv'
<1>1. LoadUnit(names, plan, runs, code)
  BY DEF CompileFile
<1>2. Ready(code, fn, runs, locs)
  BY TypesOf
<1>3. \A d \in 1..Len(code) :
          InitOf(runs, d) /\ InC(Head(plan)) /\ code[d].jit = Head(plan) => d \in Initialising(Head(plan))
  BY InitialisingIs
<1>4. QED
  BY <1>1, <1>2, <1>3, LoadKeeps

LEMMA CallByNameKeeps ==
    ASSUME RegInv, NEW n \in Names, NEW e \in Engines, CallByNameImpl(n, e)
    PROVE  RegInv'
<1> DEFINE r == [kind |-> "call", code |-> fn[n].handle[e], names |-> {}, rest |-> <<>>]
           rs == Append(runs, r)
<1>1. Become(code, fn, rs, locs)
  BY DEF CallByNameImpl
<1>2. fn[n].handle[e] \in 1..Len(code)
  <2>1. fn[n].handle[e] # 0 /\ fn[n].handle[e] \in 0..Len(code) /\ Len(code) \in Nat
    BY TypesOf DEF CallByNameImpl, RegInv, Ready, Typed
  <2>2. \A m \in Nat : \A x \in 0..m : x # 0 => x \in 1..m
    OBVIOUS
  <2>3. QED
    BY <2>1, <2>2
<1>3. Len(code) \in Nat /\ runs \in Seq(Activation)
  BY TypesOf
<1>4. fn[n].handle[e] \in Nat
  <2>1. \A x \in 1..Len(code) : x \in Nat
    OBVIOUS
  <2>2. QED
    BY <1>2, <2>1
<1>5. r \in Activation /\ r.kind # "init" /\ r.code \in 1..Len(code)
  <2>1. <<>> \in Seq(Engines) /\ {} \in SUBSET Names
    OBVIOUS
  <2>2. QED
    BY <1>2, <1>4, <2>1 DEF Activation
<1> HIDE DEF r
<1>6. /\ \A c : InitOf(rs, c) <=> InitOf(runs, c)
      /\ Ordered(runs) => Ordered(rs)
      /\ (\A i \in DOMAIN runs : runs[i].code \in 1..Len(code)) => \A i \in DOMAIN rs : rs[i].code \in 1..Len(code)
  BY <1>3, <1>5, PushRun
<1>7. rs \in Seq(Activation)
  BY <1>3, <1>5, AppendShape
<1> HIDE DEF rs
<1>8. Ready(code, fn, rs, locs)
  <2>1. Typed(code, fn, rs, locs)
    BY <1>6, <1>7 DEF RegInv, Ready, Typed
  <2>2. Ordered(rs)
    BY <1>6 DEF RegInv, Ready
  <2>3. Fresh(code, rs, locs)
    BY <1>6 DEF RegInv, Ready, Fresh
  <2>4. Owned(code, rs, locs)
    BY <1>6 DEF RegInv, Ready, Owned
  <2>5. QED
    BY <2>1, <2>2, <2>3, <2>4 DEF Ready
<1>9. QED
  BY <1>1, <1>8, RunsChange

LEMMA EndCallKeeps ==
    ASSUME RegInv, EndCall
    PROVE  RegInv'
<1> DEFINE t == Front(runs)
<1>1. Become(code, fn, t, locs) /\ runs # <<>> /\ Last(runs).kind = "call"
  BY DEF EndCall, OnTop, Run
<1>2. t \in Seq(Activation) /\ Ordered(t) /\ \A i \in DOMAIN t : t[i].code \in 1..Len(code)
  BY <1>1, RunMade
<1>3. \A c : InitOf(t, c) <=> InitOf(runs, c)
  <2>1. runs \in Seq(Activation) /\ Ordered(runs)
    BY DEF RegInv, Ready, Typed
  <2>2. QED
    BY <1>1, <2>1, PopRun
<1> HIDE DEF t
<1>4. Ready(code, fn, t, locs)
  <2>1. Typed(code, fn, t, locs)
    BY <1>2 DEF RegInv, Ready, Typed
  <2>2. Fresh(code, t, locs)
    BY <1>3 DEF RegInv, Ready, Fresh
  <2>3. Owned(code, t, locs)
    BY <1>3 DEF RegInv, Ready, Owned
  <2>4. QED
    BY <1>2, <2>1, <2>2, <2>3 DEF Ready
<1>5. QED
  BY <1>1, <1>4, RunsChange

LEMMA EndInitKeeps ==
    ASSUME RegInv, EndInit
    PROVE  RegInv'
<1>1. /\ OnTop("init")
      /\ \/ Become(Taken, fn, Front(runs), locs)
         \/ Run.rest # <<>> /\ LoadUnit(Run.names, Run.rest, Front(runs), Taken)
  BY DEF EndInit, Taken
<1>2. Ready(Taken, fn, Front(runs), locs)
  BY <1>1, TakenReady
<1>3. Len(Taken) = Len(code) /\ \A d \in 1..Len(code) : Taken[d].spoiled = code[d].spoiled /\ Taken[d].jit = code[d].jit
  BY <1>1, TakenShape
<1>4. CASE Become(Taken, fn, Front(runs), locs)
  BY <1>2, <1>3, <1>4, RunsChange
<1>5. CASE Run.rest # <<>> /\ LoadUnit(Run.names, Run.rest, Front(runs), Taken)
  <2>1. Run.names \in SUBSET Names /\ Run.rest \in Seq(Engines)
    BY <1>1, RunMade DEF OnTop, Activation
  <2>2. \A d : InitOf(Front(runs), d) => InitOf(runs, d)
    BY <1>1, TypesOf, PopRun DEF RegInv, Ready, OnTop
  <2>3. \A d \in 1..Len(code) : InitOf(Front(runs), d) /\ InC(Head(Run.rest)) /\ Taken[d].jit = Head(Run.rest)
                                   => d \in Initialising(Head(Run.rest))
    BY <1>3, <2>2, InitialisingIs
  <2>4. QED
    BY <1>2, <1>3, <1>5, <2>1, <2>3, LoadKeeps
<1>6. QED
  BY <1>1, <1>4, <1>5

LEMMA InitThrowsKeeps ==
    ASSUME RegInv, InitThrows
    PROVE  RegInv'
<1>1. OnTop("init") /\ Become(Thrown, fn, Front(runs), locs)
  BY DEF InitThrows, Thrown
<1>2. /\ Ready(Thrown, fn, Front(runs), locs) /\ Len(Thrown) = Len(code)
      /\ \A d \in 1..Len(code) : code[d].spoiled => Thrown[d].spoiled
  BY <1>1, ThrownReady
<1>3. QED
  BY <1>1, <1>2, RunsChange
-----------------------------------------------------------------------------
(* The invariant, and what it says of code.                                *)

\* Of a plan, as of what is left of it when an engine is done, every member is an engine.
LEMMA PlanEngines ==
    ASSUME PlansAssumption, NEW p \in Plans
    PROVE  p \in Seq(Engines) /\ p # <<>>
<1>1. p \in Seq(Range(p)) /\ p # <<>>
  BY DEF PlansAssumption
<1>2. Range(p) \subseteq Engines
  BY DEF Engines
<1>3. p \in Seq(Engines)
  <2>1. Len(p) \in Nat /\ DOMAIN p = 1..Len(p) /\ \A i \in 1..Len(p) : p[i] \in Range(p)
    BY <1>1, LenProperties, ElementOfSeq
  <2>2. p \in [1..Len(p) -> Engines]
    <3>1. p \in [1..Len(p) -> Range(p)]
      BY <1>1, LenProperties
    <3>2. QED
      BY <1>2, <3>1
  <2>3. QED
    BY <2>1, <2>2, SeqDef
<1>4. QED
  BY <1>1, <1>3

LEMMA InitKeeps == RegInit => RegInv
<1> SUFFICES ASSUME RegInit PROVE RegInv
  OBVIOUS
<1>1. code = <<>> /\ runs = <<>> /\ fn = [n \in Names |-> NoFn] /\ locs = [e \in Engines |-> {}]
  BY DEF RegInit
<1>2. code \in Seq(Unit) /\ runs \in Seq(Activation) /\ Len(code) = 0 /\ DOMAIN runs = {}
  BY <1>1
<1>3. NoFn \in Entry /\ \A e \in Engines : NoFn.addr[e] = 0 /\ NoFn.handle[e] = 0
  BY DEF NoFn, Entry
<1>4. Typed(code, fn, runs, locs)
  <2>1. fn \in [Names -> Entry] /\ locs \in [Engines -> SUBSET Nat] /\ \A c \in 1..Len(code) : FALSE
    BY <1>1, <1>2, <1>3
  <2>2. \A n \in Names, e \in Engines : fn[n].addr[e] = fn[n].handle[e] /\ fn[n].handle[e] \in 0..Len(code)
    BY <1>1, <1>2, <1>3
  <2>3. QED
    BY <1>1, <1>2, <2>1, <2>2 DEF Typed
<1>5. Ordered(runs)
  BY <1>2 DEF Ordered
<1>6. Fresh(code, runs, locs)
  BY <1>2 DEF Fresh
<1>7. Owned(code, runs, locs) /\ Alive(code, HeldCode, locs)
  BY <1>1 DEF Owned, Alive
<1>8. QED
  BY <1>4, <1>5, <1>6, <1>7 DEF RegInv, Ready

\* Whatever is compiled, called, returns and throws in whatever order, what the registry holds is sound.
THEOREM RegInvariant ==
    ASSUME PlansAssumption
    PROVE  RegSpec => []RegInv
<1>1. RegInit => RegInv
  BY InitKeeps
<1>2. RegInv /\ [RegNext]_regVars => RegInv'
  <2> SUFFICES ASSUME RegInv, [RegNext]_regVars PROVE RegInv'
    OBVIOUS
  <2>1. ASSUME NEW names \in Files, NEW plan \in Plans, CompileFile(names, plan) PROVE RegInv'
    <3>1. names \in SUBSET Names
      BY DEF Names
    <3>2. QED
      BY <2>1, <3>1, PlanEngines, CompileFileKeeps
  <2>2. ASSUME NEW n \in Names, NEW e \in Engines, CallByNameImpl(n, e) PROVE RegInv'
    BY <2>2, CallByNameKeeps
  <2>3. ASSUME EndCall PROVE RegInv'
    BY <2>3, EndCallKeeps
  <2>4. ASSUME EndInit PROVE RegInv'
    BY <2>4, EndInitKeeps
  <2>5. ASSUME InitThrows PROVE RegInv'
    BY <2>5, InitThrowsKeeps
  <2>6. ASSUME UNCHANGED regVars PROVE RegInv'
    <3>1. code' = code /\ fn' = fn /\ locs' = locs /\ runs' = runs
      BY <2>6 DEF regVars
    <3>2. HeldCode' = HeldCode
      BY <3>1 DEF HeldCode, HeldBy
    <3>3. QED
      BY <3>1, <3>2 DEF RegInv
  <2>7. QED
    BY <2>1, <2>2, <2>3, <2>4, <2>5, <2>6 DEF RegNext
<1>3. QED
  BY <1>1, <1>2, PTL DEF RegSpec

\* An address that a name has is of code that somebody holds, and a location that the State writes to is
\* of code that somebody holds, unless the unit's init threw or compiled another unit for its engine.
THEOREM CodeAlwaysAlive ==
    ASSUME PlansAssumption
    PROVE  RegSpec => []CodeAlive
<1>1. RegInv => CodeAlive
  <2> SUFFICES ASSUME RegInv PROVE CodeAlive
    OBVIOUS
  <2>1. \A n \in Names, e \in Engines : fn[n].addr[e] \in HeldCode
    BY DEF RegInv, Ready, Typed, HeldCode, HeldBy
  <2>2. \A e \in Engines : \A c \in locs[e] : c \in HeldCode \/ code[c].spoiled
    BY DEF RegInv, Alive
  <2>3. QED
    BY <2>1, <2>2 DEF CodeAlive
<1>2. QED
  BY <1>1, RegInvariant, PTL
=============================================================================
