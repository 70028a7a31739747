---------------------------- MODULE LuaPattern ----------------------------
(***************************************************************************)
(* Lua patterns: the matcher of lua_pattern.cpp, which keeps one array of  *)
(* captures and repairs it when it backtracks, and the functions built on  *)
(* it (string.find, match, gmatch, gsub).  The second half of the module   *)
(* says what Lua 5.4 makes of a pattern: all the ways to match, in order   *)
(* of preference, each with captures of its own.                           *)
(*                                                                         *)
(* A text is a sequence of characters, a position is 1 for the first.      *)
(***************************************************************************)
EXTENDS Naming, Integers, Sequences, SequencesExt

CONSTANTS Chars,       \* the characters
          Ord,         \* [Chars -> Nat]: their codes
          Alphas,      \* the letters of Chars
          Nul,         \* the character of code 0
          MaxCaptures, \* kMaxCaptures
          MaxDepth,    \* kMaxCallDepth
          Subjects, Patterns, Inits, Repls, Limits,   \* the arguments tried
          MaxYields    \* calls of one gmatch iterator

VARIABLES job,    \* the call made, or NoJob
          prev,   \* GMatchState.prev: where the last match ended, or First
          out     \* what came back: one outcome, or those of the iterator so far

CapUnfinished == -1
CapPosition == -2
NoMatch == -1      \* a null pointer
Raised == -2       \* an exception
First == 0         \* SIZE_MAX, "no match yet"
Unlimited == -9    \* gsub without its fourth argument

Digits == <<"0", "1", "2", "3", "4", "5">>
Digit(n) == Digits[n + 1]
DigitOf == [c \in {Digits[i] : i \in DOMAIN Digits} |-> CHOOSE n \in 0..5 : Digit(n) = c]

At(t, i) == IF i <= Len(t) THEN t[i] ELSE "end"

------------------------------------------------------------------------------
(* The matcher. *)

Hit(e, caps) == [e |-> e, caps |-> caps]
Miss(caps) == [e |-> NoMatch, caps |-> caps]
Throw(caps) == [e |-> Raised, caps |-> caps]

\* %a, %d, %z, their complements, and any other character for itself.
MatchClass(c, cl) ==
    CASE cl = "a" -> c \in Alphas
      [] cl = "A" -> c \notin Alphas
      [] cl = "d" -> c \in DOMAIN DigitOf
      [] cl = "z" -> c = Nul
      [] OTHER -> cl = c

RECURSIVE MatchSet(_, _, _, _), ClassEndFrom(_, _)

\* The do-while of SingleMatchByte: a member is tested before the "]" is looked for.
MatchSet(c, pat, q, sig) ==
    LET range == q + 2 <= Len(pat) /\ pat[q + 1] = "-" /\ pat[q + 2] # "]"
    IN  Given(CASE At(pat, q) = "%" -> q + 1 <= Len(pat) /\ MatchClass(c, pat[q + 1])
                [] At(pat, q) # "%" /\ range -> Ord[pat[q]] <= Ord[c] /\ Ord[c] <= Ord[pat[q + 2]]
                [] OTHER -> c = At(pat, q), LAMBDA in :
        Given(q + (CASE At(pat, q) = "%" -> 2 [] At(pat, q) # "%" /\ range -> 3 [] OTHER -> 1), LAMBDA next :
        IF in THEN sig
        ELSE IF next <= Len(pat) /\ pat[next] # "]" THEN MatchSet(c, pat, next, sig)
        ELSE ~sig))

SingleMatchByte(c, pat, p) ==
    CASE pat[p] = "%" -> MatchClass(c, pat[p + 1])
      [] pat[p] = "." -> TRUE
      [] pat[p] = "[" -> IF At(pat, p + 1) = "^" THEN MatchSet(c, pat, p + 2, FALSE) ELSE MatchSet(c, pat, p + 1, TRUE)
      [] OTHER -> c = pat[p]

SingleMatch(M, s, p) == s <= Len(M.src) /\ SingleMatchByte(M.src[s], M.pat, p)

\* The loop of ClassEnd over the members of a set; Raised for a set that is not closed.
ClassEndFrom(pat, q) ==
    CASE q > Len(pat) -> Raised
      [] At(pat, q) = "]" -> q + 1
      [] At(pat, q) = "%" -> IF q + 1 > Len(pat) THEN Raised ELSE ClassEndFrom(pat, q + 2)
      [] OTHER -> ClassEndFrom(pat, q + 1)

\* Where the item at p ends.
ClassEnd(pat, p) ==
    CASE pat[p] = "%" -> IF p < Len(pat) THEN p + 2 ELSE Raised
      [] pat[p] = "[" ->
           LET q == IF At(pat, p + 1) = "^" THEN p + 2 ELSE p + 1
           IN ClassEndFrom(pat, IF At(pat, q) = "]" THEN q + 1 ELSE q)
      [] OTHER -> p + 1

\* The end of the balanced text that starts at s; the nesting is counted from q on.
RECURSIVE BalanceFrom(_, _, _, _, _)
BalanceFrom(src, q, b, e, cont) ==
    CASE q > Len(src) -> NoMatch
      [] At(src, q) = e -> IF cont = 1 THEN q + 1 ELSE BalanceFrom(src, q + 1, b, e, cont - 1)
      [] At(src, q) = b /\ b # e -> BalanceFrom(src, q + 1, b, e, cont + 1)
      [] OTHER -> BalanceFrom(src, q + 1, b, e, cont)

MatchBalance(M, s, b, e) == IF At(M.src, s) # b THEN NoMatch ELSE BalanceFrom(M.src, s + 1, b, e, 1)

\* A back reference: to a position it is satisfied only there.
MatchCapture(M, s, i, caps) ==
    CASE i = 0 \/ i > Len(caps) -> Raised
      [] i \in 1..Len(caps) ->
           LET c == caps[i]
           IN CASE c.len = CapUnfinished -> Raised
                [] c.len = CapPosition -> IF s = c.init THEN s ELSE NoMatch
                [] OTHER ->
                     IF Len(M.src) + 1 - s >= c.len
                        /\ SubSeq(M.src, c.init, c.init + c.len - 1) = SubSeq(M.src, s, s + c.len - 1)
                     THEN s + c.len ELSE NoMatch

RestoreCapsNever(snap, now) == now

\* What the captures are after a branch that failed: what they were before it.
RestoreCaps(snap, now) == snap

RECURSIVE Match(_, _, _, _, _), MaxExpand(_, _, _, _, _, _), MinExpand(_, _, _, _, _, _)

StartCapture(M, s, after, what, caps, depth) ==
    IF Len(caps) >= MaxCaptures THEN Throw(caps)
    ELSE Match(M, s, after, Append(caps, [init |-> s, len |-> what]), depth + 1)

EndCapture(M, s, after, caps, depth) ==
    LET open == {i \in DOMAIN caps : caps[i].len = CapUnfinished}
        i == CHOOSE i \in open : \A j \in open : j <= i
    IN IF open = {} THEN Throw(caps)
       ELSE Match(M, s, after, [caps EXCEPT ![i].len = s - caps[i].init], depth + 1)

\* Greedy repetition, i characters more: the longest first, back by one after each failure.
MaxExpand(M, s, ep, i, caps, depth) ==
    LET r == Match(M, s + i, ep + 1, caps, depth + 1)
    IN CASE r.e # NoMatch -> r
         [] r.e = NoMatch /\ i = 0 -> Miss(RestoreCaps(caps, r.caps))
         [] OTHER -> MaxExpand(M, s, ep, i - 1, RestoreCaps(caps, r.caps), depth)

\* Lazy repetition: the rest of the pattern first, one character more after each failure.
MinExpand(M, s, p, ep, caps, depth) ==
    LET r == Match(M, s, ep + 1, caps, depth + 1)
        back == RestoreCaps(caps, r.caps)
    IN CASE r.e # NoMatch -> r
         [] r.e = NoMatch /\ SingleMatch(M, s, p) -> MinExpand(M, s + 1, p, ep, back, depth)
         [] OTHER -> Miss(back)

\* How often the single item at p matches from s on.
Run(M, s, p) == CHOOSE i \in 0..Len(M.src) :
                    /\ \A k \in 0..(i - 1) : SingleMatch(M, s + k, p)
                    /\ ~SingleMatch(M, s + i, p)

\* A single character, with its suffix.
Simple(M, s, p, caps, depth) ==
    Given(ClassEnd(M.pat, p), LAMBDA ep :
    LET suffix == At(M.pat, ep)
    IN  CASE ep = Raised -> Throw(caps)
          [] ep # Raised /\ ~SingleMatch(M, s, p) ->
               IF suffix \in {"*", "?", "-"} THEN Match(M, s, ep + 1, caps, depth) ELSE Miss(caps)
          [] OTHER ->
               CASE suffix = "?" ->
                      LET r == Match(M, s + 1, ep + 1, caps, depth + 1)
                      IN IF r.e # NoMatch THEN r ELSE Match(M, s, ep + 1, RestoreCaps(caps, r.caps), depth)
                 [] suffix = "+" -> MaxExpand(M, s + 1, ep, Run(M, s + 1, p), caps, depth)
                 [] suffix = "*" -> MaxExpand(M, s, ep, Run(M, s, p), caps, depth)
                 [] suffix = "-" -> MinExpand(M, s, p, ep, caps, depth)
                 [] OTHER -> Match(M, s + 1, ep, caps, depth))

\* The frontier: the character before s is outside the set, the one at s inside.
Frontier(M, s, p) ==
    LET before == IF s = 1 THEN Nul ELSE M.src[s - 1]
        here == IF s > Len(M.src) THEN Nul ELSE M.src[s]
    IN ~SingleMatchByte(before, M.pat, p) /\ SingleMatchByte(here, M.pat, p)

\* The switch of Match, from its label init on.
Item(M, s, p, caps, depth) ==
    LET c == At(M.pat, p)
        d == At(M.pat, p + 1)
        Then(e, rest) == IF e >= 0 THEN Match(M, e, rest, caps, depth) ELSE [e |-> e, caps |-> caps]
    IN CASE p > Len(M.pat) -> Hit(s, caps)
         [] c = "(" -> IF d = ")" THEN StartCapture(M, s, p + 2, CapPosition, caps, depth)
                       ELSE StartCapture(M, s, p + 1, CapUnfinished, caps, depth)
         [] c = ")" -> EndCapture(M, s, p + 1, caps, depth)
         [] c = "$" /\ p = Len(M.pat) -> IF s > Len(M.src) THEN Hit(s, caps) ELSE Miss(caps)
         [] c = "%" /\ d = "b" ->
              Then(IF p + 3 > Len(M.pat) THEN Raised ELSE MatchBalance(M, s, M.pat[p + 2], M.pat[p + 3]), p + 4)
         [] c = "%" /\ d = "f" ->
              IF At(M.pat, p + 2) # "[" \/ ClassEnd(M.pat, p + 2) = Raised THEN Throw(caps)
              ELSE Then(IF Frontier(M, s, p + 2) THEN s ELSE NoMatch, ClassEnd(M.pat, p + 2))
         [] c = "%" /\ d \in DOMAIN DigitOf -> Then(MatchCapture(M, s, DigitOf[d], caps), p + 2)
         [] OTHER -> Simple(M, s, p, caps, depth)

\* A jump to init stays at its depth, where the check of the depth has been passed.
Match(M, s, p, caps, depth) == IF depth > MaxDepth THEN Throw(caps) ELSE Item(M, s, p, caps, depth)

\* RunAt: one attempt at one position.
RunAt(src, pat, start) ==
    [b |-> start] @@ Match([src |-> src, pat |-> pat], start, 1, <<>>, 1)

Anchored(pat) == At(pat, 1) = "^"

\* MatchAt strips a caret (gmatch asks it not to).
MatchAt(src, pat, start, caretIsAnchor) ==
    RunAt(src, IF caretIsAnchor /\ Anchored(pat) THEN Tail(pat) ELSE pat, start)

Nothing == [b |-> 0, e |-> NoMatch, caps |-> <<>>]

\* The first position from start on where an attempt does not fail.
RECURSIVE Scan(_, _, _)
Scan(src, pat, pos) ==
    IF pos > Len(src) + 1 THEN Nothing
    ELSE Given(RunAt(src, pat, pos), LAMBDA r : IF r.e = NoMatch THEN Scan(src, pat, pos + 1) ELSE r)

Search(src, pat, start) ==
    IF Anchored(pat) THEN RunAt(src, Tail(pat), start) ELSE Scan(src, pat, start)

------------------------------------------------------------------------------
(* The functions of the string library. *)

\* An outcome: values, nil or an error.
Values(vs) == [k |-> "values", vs |-> vs]
NilResult == [k |-> "nil", vs |-> <<>>]
Error == [k |-> "error", vs |-> <<>>]
Number(n) == [k |-> "number", n |-> n, s |-> <<>>]
Text(t) == [k |-> "text", n |-> 0, s |-> t]

Unfinished(caps) == \E i \in DOMAIN caps : caps[i].len = CapUnfinished
Slice(src, c) == SubSeq(src, c.init, c.init + c.len - 1)
CaptureToCVar(src, c) == IF c.len = CapPosition THEN Number(c.init) ELSE Text(Slice(src, c))
CaptureToLuaString(src, c) == IF c.len = CapPosition THEN <<Digit(c.init)>> ELSE Slice(src, c)
Whole(src, m) == SubSeq(src, m.b, m.e - 1)
Captures(src, caps) == [i \in DOMAIN caps |-> CaptureToCVar(src, caps[i])]

BuildFindResult(src, m) ==
    IF Unfinished(m.caps) THEN Error ELSE Values(<<Number(m.b), Number(m.e - 1)>> \o Captures(src, m.caps))

\* The captures, or the whole match when the pattern has none (match, gmatch and the arguments of gsub's function).
CapturesOrWhole(src, m) ==
    IF Unfinished(m.caps) THEN Error
    ELSE Values(IF m.caps = <<>> THEN <<Text(Whole(src, m))>> ELSE Captures(src, m.caps))

\* LuaPosRelat, then the clamp to 1.
NormalizePos(init, len) ==
    LET at == IF init >= 0 THEN init ELSE IF -init > len THEN 0 ELSE len + init + 1 IN IF at < 1 THEN 1 ELSE at

Outcome(r, Result(_)) == CASE r.e = NoMatch -> NilResult [] r.e = Raised -> Error [] OTHER -> Result(r)

\* string.find; plain looks for the text itself.
Find(src, pat, init, plain) ==
    LET start == NormalizePos(init, Len(src))
        at == {i \in start..(Len(src) + 1 - Len(pat)) : SubSeq(src, i, i + Len(pat) - 1) = pat}
        first == CHOOSE i \in at : \A j \in at : i <= j
    IN CASE start > Len(src) + 1 -> NilResult
         [] start <= Len(src) + 1 /\ plain ->
              IF at = {} THEN NilResult ELSE Values(<<Number(first), Number(first + Len(pat) - 1)>>)
         [] OTHER -> Outcome(Search(src, pat, start), LAMBDA r : BuildFindResult(src, r))

\* string.match.
MatchFn(src, pat, init) ==
    LET start == NormalizePos(init, Len(src))
    IN IF start > Len(src) + 1 THEN NilResult
       ELSE Outcome(Search(src, pat, start), LAMBDA r : CapturesOrWhole(src, r))

\* Keys of a replacement table are passed as C strings: cut at the first zero.
TableKey(t) ==
    LET zeros == {i \in DOMAIN t : t[i] = Nul}
    IN IF zeros = {} THEN t ELSE SubSeq(t, 1, (CHOOSE i \in zeros : \A j \in zeros : i <= j) - 1)

\* What a replacement string stands for, from its i-th character on: [k, s].
RECURSIVE Expand(_, _, _, _)
Expand(src, m, repl, i) ==
    LET c == At(repl, i + 1)
        More(piece, next) ==
            LET r == Expand(src, m, repl, next) IN IF r.k = "error" THEN r ELSE [k |-> "text", s |-> piece \o r.s]
        Bad == [k |-> "error", s |-> <<>>]
    IN CASE i > Len(repl) -> [k |-> "text", s |-> <<>>]
         [] At(repl, i) # "%" /\ i <= Len(repl) -> More(<<repl[i]>>, i + 1)
         [] OTHER ->
              CASE c = "%" -> More(<<"%">>, i + 2)
                [] c = "0" -> More(Whole(src, m), i + 2)
                [] c \in DOMAIN DigitOf \ {"0"} ->
                     IF DigitOf[c] > Len(m.caps) THEN Bad
                     ELSE More(CaptureToLuaString(src, m.caps[DigitOf[c]]), i + 2)
                [] OTHER -> Bad

\* The value a replacement function returned, or a replacement table holds.
Chosen(v) ==
    CASE v.k \in {"nil", "false"} -> [k |-> "keep", s |-> <<>>]
      [] v.k \in {"true", "table"} -> [k |-> "error", s |-> <<>>]
      [] OTHER -> [k |-> "text", s |-> v.s]

\* A replacement is a string, a table (a set of keys, all with one value) or a function (a value for its first argument).
Lookup(repl, key) == IF key \in repl.keys THEN repl.v ELSE [k |-> "nil", s |-> <<>>]

Replacement(src, m, repl) ==
    LET first == CapturesOrWhole(src, m).vs[1]
    IN CASE repl.k = "string" -> Expand(src, m, repl.s, 1)
         [] repl.k = "function" -> Chosen(Lookup(repl, first))
         [] repl.k = "table" -> Chosen(Lookup(repl, IF first.k = "number" THEN first ELSE Text(TableKey(first.s))))

\* The inner loop of gsub: the next match from trial on that is not an empty one right after the match before it.
RECURSIVE NextMatch(_, _, _, _, _)
NextMatch(src, pat, trial, prevEnd, anchored) ==
    IF trial > Len(src) + 1 THEN Nothing
    ELSE Given(MatchAt(src, pat, trial, TRUE), LAMBDA m :
         LET skip == m.e = NoMatch \/ (m.e = m.b /\ m.b = prevEnd)
         IN  CASE ~skip -> m
               [] skip /\ anchored -> Nothing
               [] OTHER -> NextMatch(src, pat, trial + 1, prevEnd, anchored))

\* The outer loop: st holds result, copied (first character not copied yet), from, prevEnd and count.
RECURSIVE GsubFrom(_, _, _, _, _, _)
GsubFrom(src, pat, repl, max, anchored, st) ==
    Given(NextMatch(src, pat, st.from, st.prevEnd, anchored), LAMBDA m :
    LET r == Replacement(src, m, repl)
        text == IF r.k = "keep" THEN Whole(src, m) ELSE r.s
        empty == m.e = m.b
        kept == IF empty /\ m.b <= Len(src) THEN <<src[m.b]>> ELSE <<>>
        next == [result |-> st.result \o SubSeq(src, st.copied, m.b - 1) \o text \o kept,
                 copied |-> m.e + Len(kept), from |-> IF empty THEN m.e + 1 ELSE m.e,
                 prevEnd |-> m.e, count |-> st.count + 1]
        Done(x) == Values(<<Text(x.result \o SubSeq(src, x.copied, Len(src))), Number(x.count)>>)
    IN  CASE st.count >= max \/ st.from > Len(src) + 1 -> Done(st)
          [] OTHER ->
               CASE m.e = NoMatch -> Done(st)
                 [] m.e = Raised -> Error
                 [] OTHER ->
                      IF Unfinished(m.caps) \/ r.k = "error" THEN Error
                      ELSE IF anchored THEN Done(next)
                      ELSE GsubFrom(src, pat, repl, max, anchored, next))

\* string.gsub: it strips the caret itself, and MatchAt strips another.
Gsub(src, pat, repl, max) ==
    GsubFrom(src, IF Anchored(pat) THEN Tail(pat) ELSE pat, repl, IF max = Unlimited THEN Len(src) + 1 ELSE max, Anchored(pat),
             [result |-> <<>>, copied |-> 1, from |-> 1, prevEnd |-> First, count |-> 0])

\* One call of the iterator of gmatch: [r, prev].  The caret is a character; the mark of the end is that of the beginning.
RECURSIVE GMatchIterator(_, _, _, _)
GMatchIterator(src, pat, pos, last) ==
    IF pos > Len(src) + 1 THEN [r |-> NilResult, prev |-> First]
    ELSE Given(MatchAt(src, pat, pos, FALSE), LAMBDA m :
         CASE m.e = Raised -> [r |-> Error, prev |-> last]
           [] m.e >= 0 /\ (m.e # pos \/ pos # last) -> [r |-> CapturesOrWhole(src, m), prev |-> m.e]
           [] OTHER -> GMatchIterator(src, pat, pos + 1, last))

------------------------------------------------------------------------------
(* The calls. *)

Call(fn, s, p) == [fn |-> fn, s |-> s, p |-> p, init |-> 1, plain |-> FALSE, repl |-> [k |-> "-"], max |-> 0]
NoJob == Call("-", <<>>, <<>>)

PatternInit == job = NoJob /\ prev = First /\ out = <<>>

CallFind ==
    /\ job = NoJob
    /\ \E s \in Subjects, p \in Patterns, i \in Inits, plain \in BOOLEAN :
           /\ job' = [Call("find", s, p) EXCEPT !.init = i, !.plain = plain]
           /\ out' = <<Find(s, p, i, plain)>>
    /\ UNCHANGED prev

CallMatch ==
    /\ job = NoJob
    /\ \E s \in Subjects, p \in Patterns, i \in Inits :
           /\ job' = [Call("match", s, p) EXCEPT !.init = i]
           /\ out' = <<MatchFn(s, p, i)>>
    /\ UNCHANGED prev

CallGsub ==
    /\ job = NoJob
    /\ \E s \in Subjects, p \in Patterns, r \in Repls, n \in Limits :
           /\ job' = [Call("gsub", s, p) EXCEPT !.repl = r, !.max = n]
           /\ out' = <<Gsub(s, p, r, n)>>
    /\ UNCHANGED prev

CallGmatch ==
    /\ job = NoJob
    /\ \E s \in Subjects, p \in Patterns : job' = Call("gmatch", s, p)
    /\ UNCHANGED <<prev, out>>

\* A call of the iterator; an error ends the script's use of it.
Iterate ==
    /\ job.fn = "gmatch" /\ Len(out) < MaxYields
    /\ out # <<>> => Last(out) # Error
    /\ \E n \in {GMatchIterator(job.s, job.p, IF prev = First THEN 1 ELSE prev, prev)} :
           out' = Append(out, n.r) /\ prev' = n.prev
    /\ UNCHANGED job

PatternNext == CallFind \/ CallMatch \/ CallGsub \/ CallGmatch \/ Iterate

------------------------------------------------------------------------------
(* What Lua 5.4 says: the ways to match, in order of preference. *)

\* The characters a set stands for; its members are pat[q..e].
RECURSIVE Members(_, _, _)
Members(pat, q, e) ==
    CASE q > e -> {}
      [] q <= e /\ At(pat, q) = "%" -> {c \in Chars : MatchClass(c, At(pat, q + 1))} \cup Members(pat, q + 2, e)
      [] q + 2 <= e /\ At(pat, q) # "%" /\ At(pat, q + 1) = "-" ->
           {c \in Chars : Ord[pat[q]] <= Ord[c] /\ Ord[c] <= Ord[pat[q + 2]]} \cup Members(pat, q + 3, e)
      [] OTHER -> {pat[q]} \cup Members(pat, q + 1, e)

\* The characters the item pat[p..e - 1] stands for.
Denotes(pat, p, e) ==
    CASE pat[p] = "%" -> {c \in Chars : MatchClass(c, pat[p + 1])}
      [] pat[p] = "." -> Chars
      [] pat[p] = "[" -> IF pat[p + 1] = "^" THEN Chars \ Members(pat, p + 2, e - 2) ELSE Members(pat, p + 1, e - 2)
      [] OTHER -> {pat[p]}

FlattenWays(ws) == FoldLeft(\o, <<>>, ws)

RECURSIVE Ways(_, _, _, _, _)
Ways(src, pat, s, p, caps) ==
    LET c == At(pat, p)
        d == At(pat, p + 1)
        Go(s1, p1) == Ways(src, pat, s1, p1, caps)
        open == {i \in DOMAIN caps : caps[i].len = CapUnfinished}
        inner == CHOOSE i \in open : \A j \in open : j <= i
        bad == <<Throw(caps)>>
    IN  Given(ClassEnd(pat, p), LAMBDA ep :
        LET fits(n) == s + n <= Len(src) + 1 /\ \A i \in 0..(n - 1) : src[s + i] \in Denotes(pat, p, ep)
        IN  Given(CHOOSE n \in 0..Len(src) : fits(n) /\ ~fits(n + 1), LAMBDA most :
            LET suffix == At(pat, ep)
                closes == {q \in s..Len(src) :
                               /\ At(src, s) = pat[p + 2] /\ q > s /\ src[q] = pat[p + 3]
                               /\ LET opened == Cardinality({i \in s..q : src[i] = pat[p + 2]})
                                      closed == Cardinality({i \in s..q : src[i] = pat[p + 3]})
                                  IN pat[p + 2] = pat[p + 3] \/ opened = closed}
            IN  Given(ClassEnd(pat, p + 2), LAMBDA set :
                LET inSet(i) == (IF i \in DOMAIN src THEN src[i] ELSE Nul) \in Denotes(pat, p + 2, set)
                IN  CASE p > Len(pat) -> <<Hit(s, caps)>>
                      [] c = "(" -> IF Len(caps) >= MaxCaptures THEN bad
                                    ELSE IF d = ")" THEN Ways(src, pat, s, p + 2, Append(caps, [init |-> s, len |-> CapPosition]))
                                    ELSE Ways(src, pat, s, p + 1, Append(caps, [init |-> s, len |-> CapUnfinished]))
                      [] c = ")" -> IF open = {} THEN bad
                                    ELSE Ways(src, pat, s, p + 1, [caps EXCEPT ![inner].len = s - caps[inner].init])
                      [] c = "$" /\ p = Len(pat) -> IF s > Len(src) THEN <<Hit(s, caps)>> ELSE <<>>
                      [] c = "%" /\ d = "b" ->
                           IF p + 3 > Len(pat) THEN bad
                           ELSE IF closes = {} THEN <<>> ELSE Go((CHOOSE q \in closes : \A r \in closes : q <= r) + 1, p + 4)
                      [] c = "%" /\ d = "f" ->
                           IF At(pat, p + 2) # "[" \/ set = Raised THEN bad
                           ELSE IF ~inSet(s - 1) /\ inSet(s) THEN Go(s, set) ELSE <<>>
                      [] c = "%" /\ d \in DOMAIN DigitOf ->
                           LET i == DigitOf[d]
                           IN IF i \notin DOMAIN caps THEN bad
                              ELSE IF caps[i].len = CapUnfinished THEN bad
                              ELSE IF caps[i].len = CapPosition THEN <<>>
                              ELSE IF s + caps[i].len <= Len(src) + 1 /\ SubSeq(src, s, s + caps[i].len - 1) = Slice(src, caps[i])
                                   THEN Go(s + caps[i].len, p + 2) ELSE <<>>
                      [] OTHER ->
                           CASE ep = Raised -> bad
                             [] ep # Raised /\ suffix = "*" -> FlattenWays([i \in 1..(most + 1) |-> Go(s + most + 1 - i, ep + 1)])
                             [] ep # Raised /\ suffix = "+" -> FlattenWays([i \in 1..most |-> Go(s + most + 1 - i, ep + 1)])
                             [] ep # Raised /\ suffix = "-" -> FlattenWays([i \in 1..(most + 1) |-> Go(s + i - 1, ep + 1)])
                             [] ep # Raised /\ suffix = "?" -> (IF fits(1) THEN Go(s + 1, ep + 1) ELSE <<>>) \o Go(s, ep + 1)
                             [] OTHER -> IF fits(1) THEN Go(s + 1, ep) ELSE <<>>)))

\* The match at position s: the preferred way, and an error when that comes first.
LuaMatch(src, pat, s) ==
    Given(Ways(src, pat, s, 1, <<>>), LAMBDA ways :
    IF ways = <<>> THEN Nothing ELSE [b |-> s] @@ ways[1])

\* The matches a left-to-right scan from s makes; a match may not end where the one before it ended.
RECURSIVE LuaMatches(_, _, _, _)
LuaMatches(src, pat, s, last) ==
    IF s > Len(src) + 1 THEN <<>>
    ELSE Given(LuaMatch(src, pat, s), LAMBDA m :
         CASE m.e = Raised -> <<m>>
           [] m.e >= 0 /\ m.e # last -> <<m>> \o LuaMatches(src, pat, m.e, m.e)
           [] OTHER -> LuaMatches(src, pat, s + 1, last))

LuaSearch(src, pat, start) ==
    IF Anchored(pat) THEN LuaMatch(src, Tail(pat), start)
    ELSE Given({s \in start..(Len(src) + 1) : LuaMatch(src, pat, s).e # NoMatch}, LAMBDA hits :
         IF hits = {} THEN Nothing ELSE LuaMatch(src, pat, CHOOSE s \in hits : \A r \in hits : s <= r))

\* The i-th capture as it is used: the first of none is the whole match, and one that does not exist or is not finished is
\* an error only now.
LuaCapture(src, m, i) ==
    CASE i \in DOMAIN m.caps -> IF m.caps[i].len = CapUnfinished THEN [Text(<<>>) EXCEPT !.k = "error"] ELSE CaptureToCVar(src, m.caps[i])
      [] i = 1 /\ m.caps = <<>> -> Text(Whole(src, m))
      [] OTHER -> [Text(<<>>) EXCEPT !.k = "error"]

\* A replacement string: of the "%" in a row, every second one is escaped by the one before.
LuaExpand(src, m, repl) ==
    LET row(i) == CHOOSE n \in 0..(i - 1) : /\ \A j \in (i - n)..(i - 1) : repl[j] = "%"
                                           /\ n < i - 1 => repl[i - n - 1] # "%"
        escapes == {i \in DOMAIN repl : repl[i] = "%" /\ row(i) % 2 = 0}
        asText(v) == IF v.k = "number" THEN Text(<<Digit(v.n)>>) ELSE v
        piece(i) ==
            LET d == At(repl, i + 1)
            IN  CASE i \in escapes /\ d = "%" -> Text(<<"%">>)
                  [] i \in escapes /\ d = "0" -> Text(Whole(src, m))
                  [] i \in escapes /\ d \in DOMAIN DigitOf \ {"0"} -> asText(LuaCapture(src, m, DigitOf[d]))
                  [] i \in escapes /\ d \notin DOMAIN DigitOf \cup {"%"} -> [Text(<<>>) EXCEPT !.k = "error"]
                  [] OTHER -> IF i - 1 \in escapes THEN Text(<<>>) ELSE Text(<<repl[i]>>)
    IN  IF \E i \in DOMAIN repl : piece(i).k = "error" THEN [k |-> "error", s |-> <<>>]
        ELSE [k |-> "text", s |-> FlattenWays([i \in DOMAIN repl |-> piece(i).s])]

\* A string reads the captures it names, a table is asked for the first, a function is given all.
LuaReplacement(src, m, repl) ==
    LET first == LuaCapture(src, m, 1)
    IN  CASE repl.k = "string" -> LuaExpand(src, m, repl.s)
          [] repl.k # "string" /\ (first.k = "error" \/ (repl.k = "function" /\ Unfinished(m.caps))) -> [k |-> "error", s |-> <<>>]
          [] OTHER -> Chosen(Lookup(repl, first))

\* gsub: the matches replaced where they are, the rest as it was.
LuaGsub(src, pat, repl, max) ==
    Given(IF Anchored(pat) THEN LET m == LuaMatch(src, Tail(pat), 1) IN IF m.e = NoMatch THEN <<>> ELSE <<m>>
          ELSE LuaMatches(src, pat, 1, First), LAMBDA all :
    LET ms == IF max = Unlimited THEN all ELSE SubSeq(all, 1, IF max < Len(all) THEN max ELSE Len(all))
        with == [i \in DOMAIN ms |-> IF ms[i].e = Raised THEN [k |-> "error", s |-> <<>>] ELSE LuaReplacement(src, ms[i], repl)]
        piece(i) == LET from == IF i = 1 THEN 1 ELSE ms[i - 1].e
                    IN SubSeq(src, from, ms[i].b - 1) \o (IF with[i].k = "keep" THEN Whole(src, ms[i]) ELSE with[i].s)
        tail == SubSeq(src, IF ms = <<>> THEN 1 ELSE Last(ms).e, Len(src))
    IN  IF \E i \in DOMAIN ms : with[i].k = "error" THEN Error
        ELSE Values(<<Text(FlattenWays([i \in DOMAIN ms |-> piece(i)]) \o tail), Number(Len(ms))>>))

\* The first n results of a gmatch iterator: after the last match it gives nil for good.
LuaGmatch(src, pat, n) ==
    Given(LuaMatches(src, pat, 1, First), LAMBDA ms :
    [i \in 1..n |-> IF i > Len(ms) THEN NilResult ELSE IF ms[i].e = Raised THEN Error ELSE CapturesOrWhole(src, ms[i])])

\* A text as a pattern that matches it alone.
Escaped(t) == FlattenWays([i \in DOMAIN t |-> IF t[i] \in Alphas \cup DOMAIN DigitOf THEN <<t[i]>> ELSE <<"%", t[i]>>])

\* find takes a pattern without special characters for a text.
Specials == {"^", "$", "*", "+", "?", ".", "(", "[", "%", "-"}
NoSpecials(pat) == \A i \in DOMAIN pat : pat[i] \notin Specials

Lua ==
    LET start == NormalizePos(job.init, Len(job.s))
        pat == IF job.plain \/ (job.fn = "find" /\ NoSpecials(job.p)) THEN Escaped(job.p) ELSE job.p
        Searched(Result(_)) == IF start > Len(job.s) + 1 THEN NilResult
                               ELSE Outcome(LuaSearch(job.s, pat, start), Result)
    IN CASE job.fn = "find" -> <<Searched(LAMBDA r : BuildFindResult(job.s, r))>>
         [] job.fn = "match" -> <<Searched(LAMBDA r : CapturesOrWhole(job.s, r))>>
         [] job.fn = "gsub" -> <<LuaGsub(job.s, job.p, job.repl, job.max)>>
         [] OTHER -> LuaGmatch(job.s, job.p, Len(out))

HasPart(t, u) == \E i \in 0..(Len(t) - Len(u)) : SubSeq(t, i + 1, i + Len(u)) = u
Times(t, c) == Cardinality({i \in DOMAIN t : t[i] = c})

\* Where this library is not Lua's, against README.md:181 (each clause with the lines that make it so).
KnownDifference ==
    \/ job.fn = "gsub" /\ IsPrefix(<<"^", "^">>, job.p)               \* a second caret is an anchor too (native_string.cpp:1528, 1547)
    \/ /\ HasPart(job.p, <<"(", ")">>)                                \* a back reference to a position matches there
       /\ \E d \in {"1", "2"} : HasPart(job.p, <<"%", d>>)             \* (lua_pattern.cpp:251)
    \/ HasPart(job.p, <<"[">>) /\ HasPart(job.p, <<"-", "%">>)         \* a set ends at the first "]" after "-%" (lua_pattern.cpp:311-340)
    \/ job.repl.k = "table" /\ HasPart(job.s, <<Nul>>)                \* keys are cut at a zero (native_string.cpp:1609, 1613)
    \/ /\ job.fn = "gsub" /\ job.repl.k = "string" /\ out = <<Error>> \* %1 without captures is an error, not the whole match
       /\ HasPart(job.repl.s, <<"%", "1">>) /\ Times(job.p, "(") = 0   \* (native_string.cpp:1640)
    \/ /\ job.fn = "gsub" /\ job.repl.k # "function"                  \* an unfinished capture is an error though nothing uses it
       /\ out = <<Error>> /\ Times(job.p, "(") > Times(job.p, ")")     \* (native_string.cpp:1561)
    \/ /\ job.fn = "gmatch"                                          \* the iterator starts again after its nil (native_string.cpp:675, 700)
       /\ \E i \in 1..(Len(out) - 1) : out[i] = NilResult
    \/ /\ job.fn = "find" /\ out = <<Error>>                          \* a lone ")" is not taken for a text (native_string.cpp:1411)
       /\ NoSpecials(job.p) /\ HasPart(job.p, <<")">>)

(* find, match, gmatch and gsub give what Lua gives, but for the differences listed: although the matcher has one array of
   captures, which every branch it tries writes and RestoreCaps repairs (lua_pattern.cpp:61-67), a match has the captures of
   the way that succeeded, and gsub and the iterator visit each match once, empty ones included, without standing still
   (native_string.cpp:674-699, 1538-1655). *)
PatternsAsLua == job # NoJob /\ ~KnownDifference => out = Lua
=============================================================================
