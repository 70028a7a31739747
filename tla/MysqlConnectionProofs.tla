----------------------- MODULE MysqlConnectionProofs -----------------------
(***************************************************************************)
(* Proofs about MysqlConnection, for every client, in three layers.         *)
(* HandleInv: what is waited for fits the state of the connection; results *)
(* are there while they are given out.  FlowInv: a client that waits has   *)
(* one request under way.  OwnInv: the slots say what became of that       *)
(* request; with PreparesReturn, each request is answered once, with that. *)
(* A ping may be in flight anywhere: requests start over it.               *)
(***************************************************************************)
EXTENDS MysqlConnection, SequenceTheorems, TLAPS

Work == {"Query", "Store", "Next", "StmtPrepare", "StmtExecute"}

\* What is waited for is what the state says.
HandleOK(c) ==
    /\ c.st = "Ready" => c.op \in {"None", "Ping"}
    /\ c.st = "Querying" => c.op \in Work /\ c.for \in Requests
    /\ c.ev => c.open
    /\ c.ev /\ c.op \in Work => c.st = "Querying"
    /\ c.ev /\ c.op = "Ping" => c.st = "Ready"
    /\ c.ev /\ c.op = "Connect" => c.st = "Connecting"

HandleInv == TypeOK /\ HandleOK(conn)

Unanswered(iss, ans) == {r \in iss : ans[r] = <<>>}

\* A client that waits has one request unanswered, and every callback was called at most once.
OneByOne(iss, ans) ==
    /\ \A r, s \in Unanswered(iss, ans) : r = s
    /\ \A r \in Requests : Len(ans[r]) <= 1 /\ (r \notin iss => ans[r] = <<>>)

\* That request is in the queue, on the handle, or in the pending result slot, and not in two of them.
Flow(c, iss, ans) ==
    /\ OneByOne(iss, ans)
    /\ c.queue # <<>> =>
          /\ Len(c.queue) = 1 /\ Head(c.queue) \in Unanswered(iss, ans)
          /\ c.pres = FALSE /\ c.st # "Querying"
    /\ c.st = "Querying" => c.for \in Unanswered(iss, ans) /\ c.cb = c.for /\ c.pres = FALSE
    /\ c.pres => c.cb \in Unanswered(iss, ans)

FlowInv == HandleInv /\ (~client.overlap => Flow(conn, issued, answers))

\* What the callback of r is to be told.
Expected(outcome, r) ==
    IF outcome[r] # "ok" THEN "err" ELSE IF r \in Prepares THEN "stmt" ELSE "ok"

Recorded(outcome, iss, ins, ans) ==
    /\ \A r \in Requests \ iss : outcome[r] = "none"
    /\ \A r \in Requests \ ins : \A i \in DOMAIN ans[r] : ans[r][i] = Expected(outcome, r)

\* The slots say of that request what became of it. In the result callback run, which clears them, they are another's.
Own(c, p, run, iss, ins, ans) ==
    /\ Recorded(c.outcome, iss, ins, ans)
    /\ c.queue # <<>> => c.outcome[Head(c.queue)] = "none"
    /\ c.st = "Querying" =>
          c.outcome[c.for] = "none" /\ c.pstmt = FALSE /\ (c.for \in Prepares <=> c.op = "StmtPrepare")
    /\ c.pres /\ c.cb \notin ins =>
          /\ c.perr <=> c.outcome[c.cb] # "ok"
          /\ ~c.perr => (c.pstmt <=> c.cb \in Prepares)
    /\ c.pres /\ p = "result_cb" => c.cb \in ins
    /\ c.pstmt => c.cb \in Prepares /\ c.cb \in Unanswered(iss, ans)
    /\ c.dstmt = "no" \/ (c.dstmt = "now" /\ p = "result_cb" /\ run \in Prepares)

OwnInv == FlowInv /\ (~client.overlap => Own(conn, pc, running, issued, inside, answers))

-----------------------------------------------------------------------------
(* What the operations do to a connection: c before, d afterwards.         *)

Base(c, d) ==
    /\ d.cb = c.cb /\ d.queue = c.queue /\ d.dstmt = c.dstmt
    /\ d.perr = c.perr /\ d.pstmt = c.pstmt /\ d.outcome = c.outcome
    /\ d.pres => c.pres

\* Nothing becomes of any request, and no operation begins.
Quiet(c, d) ==
    /\ Base(c, d)
    /\ d.st = "Querying" => c.st = "Querying" /\ d.for = c.for /\ d.op = c.op

Handle(c, d) == d.open = c.open /\ d.for = c.for /\ d.st = c.st /\ d.op = c.op /\ d.ev = c.ev

\* Request r is refused.
Refused(c, d, r) ==
    /\ Handle(c, d)
    /\ d.cb = c.cb /\ d.queue = c.queue /\ d.dstmt = c.dstmt /\ d.pstmt = c.pstmt
    /\ d.pres = TRUE /\ d.perr = TRUE /\ d.outcome = [c.outcome EXCEPT ![r] = "err"]

\* It waits in the queue.
Queued(c, d, r) ==
    /\ Handle(c, d)
    /\ Base([c EXCEPT !.queue = Append(@, r)], d)

\* The handle works on it; prep says whether it is a prepare.
Begun(c, d, r, prep) ==
    /\ Base(c, d)
    /\ d.open = c.open /\ d.for = r /\ d.st = "Querying" /\ d.op \in Work
    /\ (d.op = "StmtPrepare") = prep

\* The handle is done with it.
Ended(c, d, r, prep) ==
    /\ d.cb = c.cb /\ d.queue = c.queue /\ d.dstmt = c.dstmt
    /\ d.for = r /\ d.st = "Ready" /\ d.op = "None" /\ (d.ev => c.ev) /\ d.open = c.open /\ d.pres = TRUE
    /\ \/ d.perr = TRUE /\ d.pstmt = c.pstmt /\ d.outcome = [c.outcome EXCEPT ![r] = "err"]
       \/ d.perr = FALSE /\ prep = FALSE /\ d.pstmt = c.pstmt /\ d.outcome = [c.outcome EXCEPT ![r] = "ok"]
       \/ d.perr = FALSE /\ prep = TRUE /\ d.pstmt = TRUE /\ d.outcome = [c.outcome EXCEPT ![r] = "ok"]

Worked(c, d, r, prep) == Begun(c, d, r, prep) \/ Ended(c, d, r, prep)

\* A query, or an operation on statements, that a script calls.
Taken(c, d, r, prep) ==
    \/ Refused(c, d, r)
    \/ r \in Queries /\ Queued(c, d, r)
    \/ c.open /\ c.st = "Ready" /\ Worked(c, d, r, prep)

\* An operation that serves no request.
Aside(c, d) ==
    /\ Quiet(c, d) /\ d.for = c.for /\ d.ev = FALSE
    /\ \/ d.st = c.st /\ d.op = c.op
       \/ d.st \in {"Ready", "Error"} /\ d.op = "None"

LEMMA FailGives ==
    ASSUME NEW c \in ConnType, c.for \in Requests, NEW prep \in BOOLEAN
    PROVE  Fail(c) \in ConnType /\ Ended(c, Fail(c), c.for, prep)
<1>1. Fail(c) \in ConnType
  BY DEF Fail, Refuse, ConnType
<1>2. Ended(c, Fail(c), c.for, prep)
  BY DEF Fail, Refuse, ConnType, Ended
<1>3. QED
  BY <1>1, <1>2

LEMMA OkGives ==
    ASSUME NEW c \in ConnType, c.for \in Requests
    PROVE  FinishQueryOk(c) \in ConnType /\ Ended(c, FinishQueryOk(c), c.for, FALSE)
<1>1. FinishQueryOk(c) \in ConnType
  BY DEF FinishQueryOk, ConnType
<1>2. Ended(c, FinishQueryOk(c), c.for, FALSE)
  BY DEF FinishQueryOk, ConnType, Ended
<1>3. QED
  BY <1>1, <1>2

LEMMA PreparedGives ==
    ASSUME NEW c \in ConnType, c.for \in Requests
    PROVE  Prepared(c) \in ConnType /\ Ended(c, Prepared(c), c.for, TRUE)
<1>1. Prepared(c) \in ConnType
  <2>1. c.nextId + 1 \in Nat /\ c.stmts \cup {c.nextId} \in SUBSET Nat
    BY DEF ConnType
  <2>2. QED
    BY <2>1 DEF Prepared, ConnType
<1>2. Ended(c, Prepared(c), c.for, TRUE)
  BY DEF Prepared, ConnType, Ended
<1>3. QED
  BY <1>1, <1>2

LEMMA ArmGives ==
    ASSUME NEW c \in ConnType, c.st = "Querying", NEW op \in Work, NEW prep \in BOOLEAN, (op = "StmtPrepare") = prep
    PROVE  Arm(c, op) \in ConnType /\ Begun(c, Arm(c, op), c.for, prep)
<1>1. Arm(c, op) \in ConnType
  BY DEF Arm, ConnType, Work
<1>2. Begun(c, Arm(c, op), c.for, prep)
  BY DEF Arm, ConnType, Begun, Base, Work
<1>3. QED
  BY <1>1, <1>2

LEMMA Through ==
    ASSUME NEW c, NEW e, NEW d, NEW r, NEW prep, Base(c, e), e.open = c.open, e.ev => c.ev, Worked(e, d, r, prep)
    PROVE  Worked(c, d, r, prep)
BY DEF Worked, Begun, Ended, Base

LEMMA StoreLastGives ==
    ASSUME NEW c \in ConnType, c.for \in Requests, c.st = "Querying", NEW d \in StoreLast(c)
    PROVE  d \in ConnType /\ Worked(c, d, c.for, FALSE)
<1> DEFINE e == [c EXCEPT !.nres = @ + 1]
<1>1. e \in ConnType /\ e.for = c.for /\ e.open = c.open /\ e.ev = c.ev /\ Base(c, e)
  BY DEF ConnType, Base
<1>2. FinishQueryOk(e) \in ConnType /\ Worked(c, FinishQueryOk(e), c.for, FALSE)
  <2>1. FinishQueryOk(e) \in ConnType /\ Ended(e, FinishQueryOk(e), c.for, FALSE)
    <3> HIDE DEF e
    <3>1. QED
      BY <1>1, OkGives
  <2>2. Worked(e, FinishQueryOk(e), c.for, FALSE)
    BY <2>1 DEF Worked
  <2>3. QED
    BY <1>1, <2>1, <2>2, Through
<1>3. Arm(c, "Store") \in ConnType /\ Worked(c, Arm(c, "Store"), c.for, FALSE)
  BY ArmGives DEF Worked, Work
<1>4. Fail(c) \in ConnType /\ Worked(c, Fail(c), c.for, FALSE)
  BY FailGives DEF Worked
<1>5. d = Arm(c, "Store") \/ d = FinishQueryOk(e) \/ d = Fail(c)
  BY DEF StoreLast, Failures
<1>6. QED
  BY <1>2, <1>3, <1>4, <1>5

LEMMA StoredGives ==
    ASSUME NEW c \in ConnType, c.for \in Requests, c.st = "Querying", NEW d \in Stored(c)
    PROVE  d \in ConnType /\ Worked(c, d, c.for, FALSE)
<1> DEFINE e == [c EXCEPT !.nres = @ + 1]
<1>1. e \in ConnType /\ e.for = c.for /\ e.st = c.st /\ e.open = c.open /\ e.ev = c.ev /\ Base(c, e)
  BY DEF ConnType, Base
<1>2. d = FinishQueryOk(e) \/ d = Arm(e, "Next") \/ d = Fail(e) \/ d \in StoreLast(e)
  BY DEF Stored, Failures
<1>3. d \in ConnType /\ Worked(e, d, c.for, FALSE)
  <2> HIDE DEF e
  <2>1. CASE d = FinishQueryOk(e)
    BY <1>1, <2>1, OkGives DEF Worked
  <2>2. CASE d = Arm(e, "Next")
    BY <1>1, <2>2, ArmGives DEF Worked, Work
  <2>3. CASE d = Fail(e)
    BY <1>1, <2>3, FailGives DEF Worked
  <2>4. CASE d \in StoreLast(e)
    BY <1>1, <2>4, StoreLastGives
  <2>5. QED
    BY <1>2, <2>1, <2>2, <2>3, <2>4
<1>4. QED
  BY <1>1, <1>3, Through

LEMMA StartStoreGives ==
    ASSUME NEW c \in ConnType, c.for \in Requests, c.st = "Querying", NEW d \in StartStore(c)
    PROVE  d \in ConnType /\ Worked(c, d, c.for, FALSE)
<1>1. CASE d = Arm(c, "Store")
  BY <1>1, ArmGives DEF Worked, Work
<1>2. CASE d = Fail(c)
  BY <1>2, FailGives DEF Worked
<1>3. CASE d \in Stored(c)
  BY <1>3, StoredGives
<1>4. QED
  BY <1>1, <1>2, <1>3 DEF StartStore, Failures

LEMMA QueryGives ==
    ASSUME NEW c \in ConnType, NEW r \in Queries, NEW d \in Query(c, r)
    PROVE  d \in ConnType /\ Taken(c, d, r, FALSE)
<1>1. CASE ~c.open \/ c.closing
  <2>1. d = Refuse(c, r)
    BY <1>1 DEF Query
  <2>2. d \in ConnType
    BY <2>1 DEF Refuse, ConnType, Requests
  <2>3. Refused(c, d, r)
    BY <2>1 DEF Refuse, ConnType, Refused, Handle
  <2>4. QED
    BY <2>2, <2>3 DEF Taken
<1>2. CASE ~(~c.open \/ c.closing) /\ NotUsable(c)
  <2>1. d = [c EXCEPT !.queue = Append(@, r)]
    BY <1>2 DEF Query
  <2>2. Append(c.queue, r) \in Seq(Queries)
    BY DEF ConnType
  <2>3. d \in ConnType
    BY <2>1, <2>2 DEF ConnType
  <2>4. Queued(c, d, r)
    BY <2>1 DEF ConnType, Queued, Handle, Base
  <2>5. QED
    BY <2>3, <2>4 DEF Taken
<1>3. CASE c.open /\ ~c.closing /\ ~NotUsable(c)
  <2> DEFINE e == [c EXCEPT !.st = "Querying", !.nres = 0, !.for = r]
  <2>1. e \in ConnType /\ e.st = "Querying" /\ e.for = r /\ r \in Requests /\ e.open = c.open /\ e.ev = c.ev /\ Base(c, e)
    BY DEF ConnType, Base, Requests
  <2>2. d = Arm(e, "Query") \/ d = Fail(e) \/ d \in StartStore(e)
    BY <1>3 DEF Query, Failures
  <2>3. d \in ConnType /\ Worked(e, d, r, FALSE)
    <3> HIDE DEF e
    <3>1. CASE d = Arm(e, "Query")
      BY <2>1, <3>1, ArmGives DEF Worked, Work
    <3>2. CASE d = Fail(e)
      BY <2>1, <3>2, FailGives DEF Worked
    <3>3. CASE d \in StartStore(e)
      BY <2>1, <3>3, StartStoreGives
    <3>4. QED
      BY <2>2, <3>1, <3>2, <3>3
  <2>4. Worked(c, d, r, FALSE)
    BY <2>1, <2>3, Through
  <2>5. QED
    BY <1>3, <2>3, <2>4 DEF Taken, NotUsable
<1>4. QED
  BY <1>1, <1>2, <1>3 DEF ConnType

LEMMA StmtPrepareGives ==
    ASSUME NEW c \in ConnType, NEW r \in Prepares, NEW d \in StmtPrepare(c, r)
    PROVE  d \in ConnType /\ Taken(c, d, r, TRUE)
<1>1. CASE d = Refuse(c, r)
  <2>1. d \in ConnType
    BY <1>1 DEF Refuse, ConnType, Requests
  <2>2. Refused(c, d, r)
    BY <1>1 DEF Refuse, ConnType, Refused, Handle
  <2>3. QED
    BY <2>1, <2>2 DEF Taken
<1>2. CASE c.open /\ ~c.closing /\ ~NotUsable(c) /\ d # Refuse(c, r)
  <2> DEFINE e == [c EXCEPT !.st = "Querying", !.for = r]
  <2>1. e \in ConnType /\ e.st = "Querying" /\ e.for = r /\ r \in Requests /\ e.open = c.open /\ e.ev = c.ev /\ Base(c, e)
    BY DEF ConnType, Base, Requests
  <2>2. d = Arm(e, "StmtPrepare") \/ d = Prepared(e) \/ d = Fail(e)
    BY <1>2 DEF StmtPrepare, Failures, EarlyFailures
  <2>3. d \in ConnType /\ Worked(e, d, r, TRUE)
    <3> HIDE DEF e
    <3>1. CASE d = Arm(e, "StmtPrepare")
      BY <2>1, <3>1, ArmGives DEF Worked, Work
    <3>2. CASE d = Prepared(e)
      BY <2>1, <3>2, PreparedGives DEF Worked
    <3>3. CASE d = Fail(e)
      BY <2>1, <3>3, FailGives DEF Worked
    <3>4. QED
      BY <2>2, <3>1, <3>2, <3>3
  <2>4. Worked(c, d, r, TRUE)
    BY <2>1, <2>3, Through
  <2>5. QED
    BY <1>2, <2>3, <2>4 DEF Taken, NotUsable
<1>3. QED
  BY <1>1, <1>2 DEF StmtPrepare, ConnType

\* A statement is executed and has answered.
LEMMA ExecutedGives ==
    ASSUME NEW c \in ConnType, c.for \in Requests
    PROVE  LET d == FinishQueryOk([c EXCEPT !.nres = 1])
           IN  d \in ConnType /\ Worked(c, d, c.for, FALSE)
<1> DEFINE e == [c EXCEPT !.nres = 1]
           d == FinishQueryOk(e)
<1>1. e \in ConnType /\ e.for = c.for /\ e.open = c.open /\ e.ev = c.ev /\ Base(c, e)
  BY DEF ConnType, Base
<1>2. d \in ConnType /\ Worked(e, d, c.for, FALSE)
  <2> HIDE DEF e
  <2>1. QED
    BY <1>1, OkGives DEF Worked
<1> HIDE DEF d
<1>3. Worked(c, d, c.for, FALSE)
  BY <1>1, <1>2, Through
<1>4. QED
  BY <1>2, <1>3 DEF d

LEMMA StmtExecuteGives ==
    ASSUME NEW c \in ConnType, NEW r \in Executes, NEW id, NEW d \in StmtExecute(c, r, id)
    PROVE  d \in ConnType /\ Taken(c, d, r, FALSE)
<1> DEFINE before == [c EXCEPT !.nres = 0]
<1>1. CASE d = Refuse(c, r) \/ d = Refuse(before, r)
  <2>1. CASE d = Refuse(c, r)
    <3>1. d \in ConnType
      BY <2>1 DEF Refuse, ConnType, Requests
    <3>2. Refused(c, d, r)
      BY <2>1 DEF Refuse, ConnType, Refused, Handle
    <3>3. QED
      BY <3>1, <3>2 DEF Taken
  <2>2. CASE d = Refuse(before, r)
    <3>1. before \in ConnType /\ Refused(c, [c EXCEPT !.nres = 0, !.perr = TRUE, !.pres = TRUE, !.outcome[r] = "err"], r)
      BY DEF ConnType, Refused, Handle
    <3>2. d = [c EXCEPT !.nres = 0, !.perr = TRUE, !.pres = TRUE, !.outcome[r] = "err"]
      BY <2>2 DEF Refuse, ConnType
    <3>3. d \in ConnType
      BY <3>2 DEF ConnType, Requests
    <3>4. QED
      BY <3>1, <3>2, <3>3 DEF Taken
  <2>3. QED
    BY <1>1, <2>1, <2>2
<1>2. CASE c.open /\ ~c.closing /\ ~NotUsable(c) /\ id \in c.stmts /\ d # Refuse(before, r)
  <2> DEFINE e == [c EXCEPT !.st = "Querying", !.nres = 0, !.exec = id, !.for = r]
  <2>1. e \in ConnType /\ e.st = "Querying" /\ e.for = r /\ r \in Requests /\ e.open = c.open /\ e.ev = c.ev /\ Base(c, e)
    <3>1. id \in Nat
      BY <1>2 DEF ConnType
    <3>2. QED
      BY <3>1 DEF ConnType, Base, Requests
  <2>2. d = Arm(e, "StmtExecute") \/ d = FinishQueryOk([e EXCEPT !.nres = 1]) \/ d = Fail(e)
    BY <1>2 DEF StmtExecute, Failures, EarlyFailures
  <2>3. d \in ConnType /\ Worked(e, d, r, FALSE)
    <3> HIDE DEF e
    <3>1. CASE d = Arm(e, "StmtExecute")
      BY <2>1, <3>1, ArmGives DEF Worked, Work
    <3>2. CASE d = FinishQueryOk([e EXCEPT !.nres = 1])
      BY <2>1, <3>2, ExecutedGives
    <3>3. CASE d = Fail(e)
      BY <2>1, <3>3, FailGives DEF Worked
    <3>4. QED
      BY <2>2, <3>1, <3>2, <3>3
  <2>4. Worked(c, d, r, FALSE)
    BY <2>1, <2>3, Through
  <2>5. QED
    BY <1>2, <2>3, <2>4 DEF Taken, NotUsable
<1>3. QED
  BY <1>1, <1>2 DEF StmtExecute, ConnType

LEMMA FinishConnectGives ==
    ASSUME NEW c \in ConnType, NEW d \in {FinishConnect(c, TRUE), FinishConnect(c, FALSE)}
    PROVE  d \in ConnType /\ Base(c, d) /\ d.st \in {"Ready", "Error"} /\ d.op = "None" /\ d.ev = FALSE /\ d.for = c.for
<1>1. CASE d = FinishConnect(c, TRUE)
  <2>1. d \in ConnType
    BY <1>1 DEF FinishConnect, ConnType
  <2>2. QED
    BY <1>1, <2>1 DEF FinishConnect, ConnType, Base
<1>2. CASE d = FinishConnect(c, FALSE)
  <2>1. d \in ConnType
    BY <1>2 DEF FinishConnect, ConnType
  <2>2. QED
    BY <1>2, <2>1 DEF FinishConnect, ConnType, Base
<1>3. QED
  BY <1>1, <1>2

LEMMA PingDoneGives ==
    ASSUME NEW c \in ConnType, c.st = "Ready", NEW d \in {PingDone(c, TRUE), PingDone(c, FALSE)}
    PROVE  d \in ConnType /\ Base(c, d) /\ d.st \in {"Ready", "Error"} /\ d.op = "None" /\ (d.ev => c.ev) /\ d.open = c.open /\ d.for = c.for
<1>1. CASE d = PingDone(c, TRUE)
  <2>1. d \in ConnType
    BY <1>1 DEF PingDone, ConnType
  <2>2. QED
    BY <1>1, <2>1 DEF PingDone, ConnType, Base
<1>2. CASE d = PingDone(c, FALSE)
  <2>1. d \in ConnType
    BY <1>2 DEF PingDone, ConnType
  <2>2. QED
    BY <1>2, <2>1 DEF PingDone, ConnType, Base
<1>3. QED
  BY <1>1, <1>2

LEMMA ConnectGives ==
    ASSUME NEW d \in ConnectOutcomes(Fresh)
    PROVE  d \in ConnType /\ HandleOK(d) /\ Quiet(Fresh, d) /\ d.op # "Ping"
<1>1. Fresh \in ConnType
  <2>1. <<>> \in Seq(Queries)
    OBVIOUS
  <2>2. QED
    BY <2>1 DEF Fresh, ConnType
<1> DEFINE e == [Teardown(Fresh) EXCEPT !.closing = FALSE, !.open = TRUE, !.st = "Connecting", !.nres = 0, !.nextId = 1]
<1>2. e \in ConnType /\ Base(Fresh, e) /\ e.st = "Connecting" /\ e.open
  BY <1>1 DEF Teardown, ConnType, Base
<1>3. CASE d = [Teardown(Fresh) EXCEPT !.st = "Error", !.pconn = "err"]
  <2>1. d \in ConnType /\ Base(Fresh, d) /\ d.st = "Error" /\ d.ev = FALSE /\ d.op = Fresh.op
    BY <1>1, <1>3 DEF Teardown, ConnType, Base
  <2>2. QED
    BY <2>1 DEF HandleOK, Quiet, Fresh
<1>4. CASE d = Arm(e, "Connect")
  <2>1. d \in ConnType /\ Base(e, d) /\ d.st = "Connecting" /\ d.op = "Connect" /\ d.open
    <3> HIDE DEF e
    <3>1. QED
      BY <1>2, <1>4 DEF Arm, ConnType, Base
  <2>2. QED
    BY <1>2, <2>1 DEF HandleOK, Quiet, Base, Work
<1>5. CASE d = FinishConnect(e, TRUE) \/ d = FinishConnect(e, FALSE)
  <2>1. d \in ConnType /\ Base(e, d) /\ d.st \in {"Ready", "Error"} /\ d.op = "None" /\ d.ev = FALSE
    <3> HIDE DEF e
    <3>1. QED
      <4>1. d \in {FinishConnect(e, TRUE), FinishConnect(e, FALSE)}
        BY <1>5
      <4>2. QED
        BY <1>2, <4>1, FinishConnectGives
  <2>2. QED
    BY <1>2, <2>1 DEF HandleOK, Quiet, Base
<1>6. QED
  BY <1>3, <1>4, <1>5 DEF ConnectOutcomes

LEMMA PingGives ==
    ASSUME NEW c \in ConnType, HandleOK(c), NEW d \in Ping(c)
    PROVE  d \in ConnType /\ HandleOK(d) /\ Quiet(c, d) /\ d.for = c.for /\ (d.op = "Ping" => c.op \in {"None", "Ping"})
<1>1. CASE d = c
  BY <1>1 DEF Quiet, Base
<1>2. CASE c.open /\ c.st = "Ready" /\ d = Arm(c, "Ping")
  <2>1. d \in ConnType /\ Base(c, d) /\ d.st = "Ready" /\ d.op = "Ping" /\ d.open /\ d.for = c.for
    BY <1>2 DEF Arm, ConnType, Base
  <2>2. QED
    BY <1>2, <2>1 DEF HandleOK, Quiet, Work
<1>3. CASE d \in {PingDone(c, TRUE), PingDone(c, FALSE)} /\ c.st = "Ready"
  <2>1. d \in ConnType /\ Base(c, d) /\ d.st \in {"Ready", "Error"} /\ d.op = "None" /\ (d.ev => c.ev) /\ d.open = c.open /\ d.for = c.for
    BY <1>3, PingDoneGives
  <2>2. QED
    BY <2>1 DEF HandleOK, Quiet, Work
<1>4. QED
  BY <1>1, <1>2, <1>3 DEF Ping, NotUsable, ConnType

LEMMA ClosedGives ==
    ASSUME NEW c \in ConnType
    PROVE  /\ Closed(c) \in ConnType /\ HandleOK(Closed(c))
           /\ Quiet(c, Closed(c)) /\ Closed(c).op = c.op /\ Closed(c).for = c.for
<1> DEFINE d == Closed(c)
<1>0. d \in ConnType
  BY DEF Closed, Teardown, ConnType
<1>1. Base(c, d) /\ d.st = "Idle" /\ d.op = c.op /\ d.ev = FALSE /\ d.for = c.for
  BY DEF Closed, Teardown, ConnType, Base
<1> HIDE DEF d
<1>2. HandleOK(d) /\ Quiet(c, d)
  BY <1>1 DEF HandleOK, Quiet
<1>3. QED
  BY <1>0, <1>1, <1>2 DEF d

LEMMA ContinueGives ==
    ASSUME NEW c \in ConnType, HandleOK(c), c.ev, NEW d \in Continue(c)
    PROVE  /\ d \in ConnType
           /\ \/ Aside(c, d)
              \/ c.st = "Querying" /\ c.for \in Requests /\ Worked(c, d, c.for, c.op = "StmtPrepare")
<1> DEFINE e == [c EXCEPT !.ev = FALSE]
<1>1. /\ e \in ConnType /\ e.for = c.for /\ e.open = c.open /\ e.st = c.st /\ e.op = c.op /\ e.ev = FALSE
      /\ e.exec = c.exec /\ e.stmts = c.stmts /\ Base(c, e)
  BY DEF ConnType, Base
<1>2. c.open
  BY DEF HandleOK
<1>3. CASE d = e
  <2> HIDE DEF e
  <2>1. Aside(c, d)
    BY <1>1, <1>3 DEF Aside, Quiet
  <2>2. QED
    BY <1>1, <1>3, <2>1
<1>4. ASSUME d \in ConnType, Base(e, d), d.st \in {"Ready", "Error"}, d.op = "None", d.ev = FALSE, d.for = e.for
      PROVE  Aside(c, d)
  BY <1>1, <1>4 DEF Aside, Quiet, Base
<1>5. CASE c.op \in Work /\ d # e
  <2>1. c.st = "Querying" /\ c.for \in Requests
    BY <1>5 DEF HandleOK
  <2>2. d = Fail(e) => d \in ConnType /\ Worked(e, d, c.for, c.op = "StmtPrepare")
    <3> HIDE DEF e
    <3>1. QED
      BY <1>1, <2>1, FailGives DEF Worked
  <2>3. CASE c.op = "Query"
    <3>1. d = Fail(e) \/ d \in StartStore(e)
      BY <1>2, <2>3 DEF Continue
    <3>2. d \in ConnType /\ Worked(e, d, c.for, c.op = "StmtPrepare")
      <4> HIDE DEF e
      <4>1. QED
        BY <1>1, <2>1, <2>2, <2>3, <3>1, StartStoreGives
    <3>3. QED
      BY <1>1, <2>1, <3>2, Through
  <2>4. CASE c.op = "Store"
    <3>1. d = Fail(e) \/ d \in Stored(e)
      BY <1>2, <2>4 DEF Continue
    <3>2. d \in ConnType /\ Worked(e, d, c.for, c.op = "StmtPrepare")
      <4> HIDE DEF e
      <4>1. QED
        BY <1>1, <2>1, <2>2, <2>4, <3>1, StoredGives
    <3>3. QED
      BY <1>1, <2>1, <3>2, Through
  <2>5. CASE c.op = "Next"
    <3>1. d = Fail(e) \/ d \in StoreLast(e)
      BY <1>2, <2>5 DEF Continue
    <3>2. d \in ConnType /\ Worked(e, d, c.for, c.op = "StmtPrepare")
      <4> HIDE DEF e
      <4>1. QED
        BY <1>1, <2>1, <2>2, <2>5, <3>1, StoreLastGives
    <3>3. QED
      BY <1>1, <2>1, <3>2, Through
  <2>6. CASE c.op = "StmtPrepare"
    <3>1. d = Fail(e) \/ d = Prepared(e)
      BY <1>2, <2>6 DEF Continue
    <3>2. d \in ConnType /\ Worked(e, d, c.for, c.op = "StmtPrepare")
      <4> HIDE DEF e
      <4>1. QED
        BY <1>1, <2>1, <2>2, <2>6, <3>1, PreparedGives DEF Worked
    <3>3. QED
      BY <1>1, <2>1, <3>2, Through
  <2>7. CASE c.op = "StmtExecute"
    <3>1. d = Fail(e) \/ d = FinishQueryOk([e EXCEPT !.nres = 1])
      BY <1>2, <1>5, <2>7 DEF Continue
    <3>2. d \in ConnType /\ Worked(e, d, c.for, c.op = "StmtPrepare")
      <4> HIDE DEF e
      <4>1. QED
        BY <1>1, <2>1, <2>2, <2>7, <3>1, ExecutedGives
    <3>3. QED
      BY <1>1, <2>1, <3>2, Through
  <2>8. QED
    BY <1>5, <2>3, <2>4, <2>5, <2>6, <2>7 DEF Work
<1>6. CASE c.op = "Connect"
  <2>1. d = FinishConnect(e, TRUE) \/ d = FinishConnect(e, FALSE)
    BY <1>2, <1>6 DEF Continue
  <2>2. d \in ConnType /\ Base(e, d) /\ d.st \in {"Ready", "Error"} /\ d.op = "None" /\ d.ev = FALSE /\ d.for = e.for
    <3> HIDE DEF e
    <3>1. QED
      <4>1. d \in {FinishConnect(e, TRUE), FinishConnect(e, FALSE)}
        BY <2>1
      <4>2. QED
        BY <1>1, <4>1, FinishConnectGives
  <2>3. QED
    BY <1>4, <2>2
<1>7. CASE c.op = "Ping"
  <2>1. c.st = "Ready"
    BY <1>7 DEF HandleOK
  <2>2. d = PingDone(e, TRUE) \/ d = PingDone(e, FALSE)
    BY <1>2, <1>7 DEF Continue
  <2>3. d \in ConnType /\ Base(e, d) /\ d.st \in {"Ready", "Error"} /\ d.op = "None" /\ d.ev = FALSE /\ d.for = e.for
    <3> HIDE DEF e
    <3>1. QED
      <4>1. d \in {PingDone(e, TRUE), PingDone(e, FALSE)}
        BY <2>2
      <4>2. e \in ConnType /\ e.st = "Ready"
        BY <1>1, <2>1
      <4>3. d \in ConnType /\ Base(e, d) /\ d.st \in {"Ready", "Error"} /\ d.op = "None" /\ (d.ev => e.ev) /\ d.for = e.for
        BY <4>1, <4>2, PingDoneGives
      <4>4. d.ev = FALSE
        BY <1>1, <4>3 DEF ConnType
      <4>5. QED
        BY <4>3, <4>4
  <2>4. QED
    BY <1>4, <2>3
<1>8. CASE c.op = "None"
  BY <1>2, <1>3, <1>8 DEF Continue
<1>9. QED
  BY <1>3, <1>5, <1>6, <1>7, <1>8 DEF ConnType, Work

-----------------------------------------------------------------------------
(* What the actions do to the connection.                                  *)

\* A method made request r, and MaybeReleaseOwnedConn may have closed the connection after it.
Called(r, prep) ==
    /\ \E d \in ConnType :
          /\ Taken([conn EXCEPT !.cb = r], d, r, prep)
          /\ Quiet(d, conn') /\ conn'.op = d.op /\ conn'.for = d.for
    /\ conn' \in ConnType /\ HandleOK(conn') /\ (conn'.op = "Ping" => conn.op = "Ping")
    /\ pc' = pc \/ (pc = "out" /\ pc' = "close_drain")

\* No request began or ended.
Calm == conn' \in ConnType /\ HandleOK(conn') /\ Quiet(conn, conn') /\ conn'.for = conn.for

LEMMA TakenHandle ==
    ASSUME NEW c \in ConnType, NEW d \in ConnType, NEW r \in Requests, NEW prep, HandleOK(c), Taken(c, d, r, prep)
    PROVE  HandleOK(d) /\ (d.op = "Ping" => c.op = "Ping")
<1>1. CASE Handle(c, d)
  BY <1>1 DEF HandleOK, Handle
<1>2. CASE c.open /\ Begun(c, d, r, prep)
  BY <1>2 DEF HandleOK, Begun, Work
<1>3. CASE Ended(c, d, r, prep)
  BY <1>3 DEF HandleOK, Ended, Work
<1>4. QED
  BY <1>1, <1>2, <1>3 DEF Taken, Refused, Queued, Worked

LEMMA AfterMethodGives ==
    ASSUME NEW c \in ConnType, HandleOK(c), AfterMethod(c)
    PROVE  /\ conn' \in ConnType /\ HandleOK(conn') /\ Quiet(c, conn') /\ conn'.op = c.op /\ conn'.for = c.for
           /\ pc' = pc \/ (pc = "out" /\ pc' = "close_drain")
<1>1. CASE pc = "out" /\ c.closing
  BY <1>1, ClosedGives DEF AfterMethod
<1>2. CASE ~(pc = "out" /\ c.closing)
  BY <1>2 DEF AfterMethod, Quiet, Base
<1>3. QED
  BY <1>1, <1>2

LEMMA MethodGives ==
    ASSUME HandleInv, NEW r \in Requests, NEW prep,
           NEW d \in ConnType, Taken([conn EXCEPT !.cb = r], d, r, prep), AfterMethod(d)
    PROVE  Called(r, prep)
<1> DEFINE e == [conn EXCEPT !.cb = r]
<1>1. e \in ConnType /\ HandleOK(e) /\ e.op = conn.op
  <2>1. conn \in ConnType /\ HandleOK(conn)
    BY DEF HandleInv, TypeOK
  <2>2. e \in ConnType /\ Handle(conn, e)
    BY <2>1 DEF ConnType, Handle
  <2>3. QED
    BY <2>1, <2>2 DEF Handle, HandleOK
<1>2. HandleOK(d) /\ (d.op = "Ping" => e.op = "Ping")
  <2> HIDE DEF e
  <2>1. Taken(e, d, r, prep)
    BY DEF e
  <2>2. QED
    BY <1>1, <2>1, TakenHandle
<1>3. QED
  BY <1>1, <1>2, AfterMethodGives DEF Called

LEMMA ConnQueryGives ==
    ASSUME HandleInv, NEW r \in Queries, ConnQuery(r)
    PROVE  Called(r, FALSE)
<1> DEFINE e == [conn EXCEPT !.cb = r]
<1>1. e \in ConnType /\ r \in Requests
  BY DEF HandleInv, TypeOK, ConnType, Requests
<1>2. PICK d \in Query(e, r) : AfterMethod(d)
  BY DEF ConnQuery
<1>3. d \in ConnType /\ Taken(e, d, r, FALSE)
  <2> HIDE DEF e
  <2>1. QED
    BY <1>1, QueryGives
<1>4. QED
  BY <1>1, <1>2, <1>3, MethodGives

LEMMA ConnStmtPrepareGives ==
    ASSUME HandleInv, NEW r \in Prepares, ConnStmtPrepare(r)
    PROVE  Called(r, TRUE)
<1> DEFINE e == [conn EXCEPT !.cb = r]
<1>1. e \in ConnType /\ r \in Requests
  BY DEF HandleInv, TypeOK, ConnType, Requests
<1>2. PICK d \in StmtPrepare(e, r) : AfterMethod(d)
  BY DEF ConnStmtPrepare
<1>3. d \in ConnType /\ Taken(e, d, r, TRUE)
  <2> HIDE DEF e
  <2>1. QED
    BY <1>1, StmtPrepareGives
<1>4. QED
  BY <1>1, <1>2, <1>3, MethodGives

LEMMA ConnStmtExecuteGives ==
    ASSUME HandleInv, NEW r \in Executes, NEW id \in Ids, ConnStmtExecute(r, id)
    PROVE  Called(r, FALSE)
<1> DEFINE e == [conn EXCEPT !.cb = r]
<1>1. e \in ConnType /\ r \in Requests
  BY DEF HandleInv, TypeOK, ConnType, Requests
<1>2. PICK d \in StmtExecute(e, r, id) : AfterMethod(d)
  BY DEF ConnStmtExecute
<1>3. d \in ConnType /\ Taken(e, d, r, FALSE)
  <2> HIDE DEF e
  <2>1. QED
    BY <1>1, StmtExecuteGives
<1>4. QED
  BY <1>1, <1>2, <1>3, MethodGives

\* A Continue, if the event came.
LEMMA TickPollGives ==
    ASSUME HandleInv, TickPoll
    PROVE  /\ conn' \in ConnType /\ HandleOK(conn') /\ (conn'.op = "Ping" => conn.op = "Ping")
           /\ \/ Calm
              \/ conn.st = "Querying" /\ conn.for \in Requests /\ Worked(conn, conn', conn.for, conn.op = "StmtPrepare")
<1>1. conn \in ConnType /\ HandleOK(conn)
  BY DEF HandleInv, TypeOK
<1>2. CASE conn' = conn
  BY <1>1, <1>2 DEF Calm, Quiet, Base
<1>3. CASE conn.ev /\ conn' \in Continue(conn)
  <2>1. /\ conn' \in ConnType
        /\ \/ Aside(conn, conn')
           \/ conn.st = "Querying" /\ conn.for \in Requests /\ Worked(conn, conn', conn.for, conn.op = "StmtPrepare")
    BY <1>1, <1>3, ContinueGives
  <2>2. CASE Aside(conn, conn')
    <3>1. HandleOK(conn') /\ (conn'.op = "Ping" => conn.op = "Ping")
      BY <1>1, <2>2 DEF Aside, HandleOK
    <3>2. QED
      BY <2>1, <2>2, <3>1 DEF Aside, Calm
  <2>3. CASE conn.st = "Querying" /\ conn.for \in Requests /\ Worked(conn, conn', conn.for, conn.op = "StmtPrepare")
    <3>1. HandleOK(conn') /\ conn'.op # "Ping"
      BY <1>1, <1>3, <2>3 DEF Worked, Begun, Ended, HandleOK, Work
    <3>2. QED
      BY <2>1, <2>3, <3>1
  <2>4. QED
    BY <2>1, <2>2, <2>3
<1>4. QED
  BY <1>2, <1>3 DEF TickPoll

\* The query at the head of the queue begins.
LEMMA DrainGives ==
    ASSUME HandleInv, TickDrain, conn.queue # <<>>, ~Terminal(conn), ~NotUsable(conn)
    PROVE  LET h == Head(conn.queue)
               e == [conn EXCEPT !.queue = Tail(@), !.cb = h]
           IN  /\ h \in Queries /\ e \in ConnType /\ HandleOK(e)
               /\ conn' \in ConnType /\ HandleOK(conn') /\ Taken(e, conn', h, FALSE)
               /\ (conn'.op = "Ping" => conn.op = "Ping")
<1> DEFINE h == Head(conn.queue)
           e == [conn EXCEPT !.queue = Tail(@), !.cb = h]
<1>1. h \in Queries /\ Tail(conn.queue) \in Seq(Queries)
  BY DEF HandleInv, TypeOK, ConnType
<1>2. e \in ConnType /\ HandleOK(e) /\ e.op = conn.op
  <2>1. conn \in ConnType /\ HandleOK(conn) /\ h \in Requests
    BY <1>1 DEF HandleInv, TypeOK, Requests
  <2>2. e \in ConnType /\ Handle(conn, e)
    BY <1>1, <2>1 DEF ConnType, Handle
  <2>3. QED
    BY <2>1, <2>2 DEF Handle, HandleOK
<1>3. conn' \in Query(e, h)
  BY DEF TickDrain
<1>4. conn' \in ConnType /\ Taken(e, conn', h, FALSE)
  <2> HIDE DEF e, h
  <2>1. QED
    BY <1>1, <1>2, <1>3, QueryGives
<1>5. HandleOK(conn') /\ (conn'.op = "Ping" => e.op = "Ping")
  <2> HIDE DEF e, h
  <2>1. h \in Requests
    BY <1>1 DEF Requests
  <2>2. QED
    BY <1>2, <1>4, <2>1, TakenHandle
<1>6. QED
  BY <1>1, <1>2, <1>4, <1>5

\* TickTimeout, TickConnect, TickRelease, the server, and the methods that make no request.
LEMMA OtherCalm ==
    ASSUME HandleInv,
           \/ TickTimeout \/ TickConnect \/ TickRelease \/ ServerAnswers \/ ConnPing \/ ConnClose
           \/ \E id \in Ids : ConnStmtClose(id)
    PROVE  Calm /\ (conn'.op = "Ping" => conn.op \in {"None", "Ping"})
<1>1. conn \in ConnType /\ HandleOK(conn)
  BY DEF HandleInv, TypeOK
<1> DEFINE Plain(d) == d \in ConnType /\ Base(conn, d) /\ Handle(conn, d)
<1>2. ASSUME Plain(conn')
      PROVE  Calm /\ (conn'.op = "Ping" => conn.op = "Ping")
  BY <1>1, <1>2 DEF Calm, Quiet, Handle, HandleOK
<1>3. Plain(conn)
  BY <1>1 DEF Base, Handle
<1>4. CASE TickTimeout
  <2> DEFINE e == [conn EXCEPT !.st = "Error", !.pconn = "err"]
  <2>1. e \in ConnType /\ Base(conn, e) /\ e.st = "Error" /\ e.op = conn.op /\ e.for = conn.for
    BY <1>1 DEF ConnType, Base
  <2>2. conn' = Teardown(e)
    BY <1>4 DEF TickTimeout
  <2> HIDE DEF e
  <2>3. /\ conn' \in ConnType
        /\ Base(conn, conn') /\ conn'.st = "Error" /\ conn'.op = conn.op /\ conn'.for = conn.for /\ conn'.ev = FALSE
    <3>1. conn' \in ConnType
      BY <2>1, <2>2 DEF Teardown, ConnType
    <3>2. QED
      BY <2>1, <2>2, <3>1 DEF Teardown, ConnType, Base
  <2>4. QED
    BY <2>3 DEF Calm, Quiet, HandleOK
<1>5. CASE TickConnect
  <2>1. CASE conn' = conn
    BY <1>2, <1>3, <2>1
  <2>2. CASE conn' = [conn EXCEPT !.pconn = "no"]
    <3>1. Plain(conn')
      BY <1>1, <2>2 DEF ConnType, Base, Handle
    <3>2. QED
      BY <1>2, <3>1
  <2>3. QED
    BY <1>5, <2>1, <2>2 DEF TickConnect
<1>6. CASE TickRelease
  <2>1. CASE conn' = conn
    BY <1>2, <1>3, <2>1
  <2>2. CASE conn' = Closed(conn)
    BY <1>1, <2>2, ClosedGives DEF Calm
  <2>3. QED
    BY <1>6, <2>1, <2>2 DEF TickRelease
<1>7. CASE ServerAnswers
  BY <1>2, <1>3, <1>7 DEF ServerAnswers
<1>8. CASE ConnPing
  <2>1. conn' \in Ping(conn)
    BY <1>8 DEF ConnPing
  <2>2. QED
    BY <1>1, <2>1, PingGives DEF Calm
<1>9. CASE ConnClose
  <2>1. CASE conn' = Closed(conn)
    BY <1>1, <2>1, ClosedGives DEF Calm
  <2>2. CASE conn' = RequestClose(conn)
    <3>1. Plain(conn')
      BY <1>1, <2>2 DEF RequestClose, ConnType, Base, Handle
    <3>2. QED
      BY <1>2, <3>1
  <2>3. QED
    BY <1>9, <2>1, <2>2 DEF ConnClose
<1>10. CASE \E id \in Ids : ConnStmtClose(id)
  <2>1. PICK id \in Ids : ConnStmtClose(id)
    BY <1>10
  <2> DEFINE e == [conn EXCEPT !.stmts = @ \ {id}]
  <2>2. e \in ConnType /\ Base(conn, e) /\ Handle(conn, e)
    BY <1>1 DEF ConnType, Base, Handle
  <2>3. AfterMethod(e)
    BY <2>1 DEF ConnStmtClose
  <2> HIDE DEF e
  <2>4. HandleOK(e)
    BY <1>1, <2>2 DEF Handle, HandleOK
  <2>5. conn' \in ConnType /\ HandleOK(conn') /\ Quiet(e, conn') /\ conn'.op = e.op /\ conn'.for = e.for
    BY <2>2, <2>3, <2>4, AfterMethodGives
  <2>6. QED
    BY <2>2, <2>5 DEF Calm, Quiet, Base, Handle
<1>11. QED
  BY <1>4, <1>5, <1>6, <1>7, <1>8, <1>9, <1>10

\* The rest of Tick and Close changes what it gives to callbacks, not the handle.
LEMMA GivingHandle ==
    ASSUME HandleInv,
           \/ TickResult \/ CloseDrain \/ CallbackReturns \/ CallbackThrows
           \/ TickDrain /\ ~(conn.queue # <<>> /\ ~Terminal(conn) /\ ~NotUsable(conn))
    PROVE  conn' \in ConnType /\ Handle(conn, conn') /\ HandleOK(conn')
<1>1. conn \in ConnType /\ HandleOK(conn)
  BY DEF HandleInv, TypeOK
<1>2. conn' \in ConnType /\ Handle(conn, conn')
  <2>1. CASE conn' = conn
    BY <1>1, <2>1 DEF Handle
  <2>2. CASE conn' = [conn EXCEPT !.queue = Tail(@)] /\ conn.queue # <<>>
    <3>1. Tail(conn.queue) \in Seq(Queries)
      BY <1>1, <2>2 DEF ConnType
    <3>2. QED
      BY <1>1, <2>2, <3>1 DEF ConnType, Handle
  <2>3. CASE TickResult
    <3>1. conn' = TakeResult(conn) \/ conn' = conn
      BY <2>3 DEF TickResult
    <3>2. ASSUME conn' = TakeResult(conn)
          PROVE  conn' \in ConnType
      <4> DEFINE later == IF conn.pstmt /\ ~conn.perr THEN "now" ELSE conn.dstmt
      <4>1. later \in {"no", "now", "left"}
        BY <1>1 DEF ConnType
      <4>2. conn' = [conn EXCEPT !.pres = FALSE, !.pstmt = FALSE, !.dstmt = later]
        BY <1>1, <3>2 DEF TakeResult, ConnType
      <4> HIDE DEF later
      <4>3. QED
        BY <1>1, <4>1, <4>2 DEF ConnType
    <3>3. ASSUME conn' = TakeResult(conn)
          PROVE  Handle(conn, conn')
      BY <1>1, <3>3 DEF TakeResult, ConnType, Handle
    <3>4. QED
      BY <2>1, <3>1, <3>2, <3>3
  <2>4. CASE CallbackReturns
    <3>1. conn' = AfterResult(conn) \/ conn' = conn
      BY <2>4 DEF CallbackReturns
    <3>2. ASSUME conn' = AfterResult(conn)
          PROVE  conn' \in ConnType
      <4> DEFINE later == IF conn.dstmt = "now" THEN "no" ELSE conn.dstmt
      <4>1. later \in {"no", "now", "left"}
        BY <1>1 DEF ConnType
      <4>2. conn' = [conn EXCEPT !.perr = FALSE, !.nres = 0, !.dstmt = later]
        BY <1>1, <3>2 DEF AfterResult, ConnType
      <4> HIDE DEF later
      <4>3. QED
        BY <1>1, <4>1, <4>2 DEF ConnType
    <3>3. ASSUME conn' = AfterResult(conn)
          PROVE  Handle(conn, conn')
      BY <1>1, <3>3 DEF AfterResult, ConnType, Handle
    <3>4. QED
      BY <2>1, <3>1, <3>2, <3>3
  <2>5. CASE CallbackThrows
    <3>1. conn' = [conn EXCEPT !.dstmt = IF @ = "now" THEN "left" ELSE @]
      BY <2>5 DEF CallbackThrows
    <3>2. conn' \in ConnType
      BY <1>1, <3>1 DEF ConnType
    <3>3. QED
      BY <1>1, <3>1, <3>2 DEF ConnType, Handle
  <2>6. CASE TickDrain /\ ~(conn.queue # <<>> /\ ~Terminal(conn) /\ ~NotUsable(conn))
    BY <2>1, <2>2, <2>6 DEF TickDrain
  <2>7. CASE CloseDrain
    BY <2>1, <2>2, <2>7 DEF CloseDrain
  <2>8. QED
    BY <2>3, <2>4, <2>5, <2>6, <2>7
<1>3. QED
  BY <1>1, <1>2 DEF Handle, HandleOK

-----------------------------------------------------------------------------
(* The types, and what is waited for.                                      *)

LEMMA GiveTypes ==
    ASSUME TypeOK, NEW r \in Requests \cup {NoReq}, NEW a \in {"ok", "err", "stmt"}, Give(r, a)
    PROVE  running' \in Requests \cup {NoReq} /\ answers' \in [Requests -> Seq({"ok", "err", "stmt"})]
<1>1. CASE r = NoReq
  BY <1>1 DEF Give, TypeOK
<1>2. CASE r # NoReq
  <2>1. answers \in [Requests -> Seq({"ok", "err", "stmt"})] /\ r \in Requests
    BY <1>2 DEF TypeOK
  <2>2. Append(answers[r], a) \in Seq({"ok", "err", "stmt"})
    BY <2>1
  <2>3. answers' = [answers EXCEPT ![r] = Append(answers[r], a)] /\ running' = r
    BY <1>2 DEF Give
  <2>4. QED
    BY <2>1, <2>2, <2>3
<1>3. QED
  BY <1>1, <1>2

LEMMA HandleNext ==
    ASSUME HandleInv, [Next]_vars
    PROVE  HandleInv'
<1>1. TypeOK /\ conn \in ConnType /\ HandleOK(conn)
  BY DEF HandleInv, TypeOK
<1> DEFINE Pcs == {"out", "connect", "result", "drain", "release", "close_drain",
                   "connect_cb", "result_cb", "drain_cb", "close_cb"}
           Kept == conn' \in ConnType /\ HandleOK(conn')
           Rest == /\ pc' \in Pcs /\ running' \in Requests \cup {NoReq} /\ left' \in Nat /\ arrived' \in BOOLEAN
                   /\ inside' \subseteq issued' /\ issued' \subseteq Requests
                   /\ answers' \in [Requests -> Seq({"ok", "err", "stmt"})]
<1>2. client' = client
  BY DEF Next, vars
<1>3. ASSUME Kept, Rest PROVE HandleInv'
  BY <1>1, <1>2, <1>3 DEF HandleInv, TypeOK
<1>4. /\ pc \in Pcs /\ running \in Requests \cup {NoReq} /\ left \in Nat /\ arrived \in BOOLEAN
      /\ inside \subseteq issued /\ issued \subseteq Requests
      /\ answers \in [Requests -> Seq({"ok", "err", "stmt"})]
  BY <1>1 DEF TypeOK
<1>5. ASSUME NEW r \in Requests, NEW prep, Issue(r), Called(r, prep), arrived' \in BOOLEAN
      PROVE  HandleInv'
  <2>1. Kept /\ pc' \in Pcs
    BY <1>1, <1>4, <1>5 DEF Called
  <2>2. Rest
    BY <1>4, <1>5, <2>1 DEF Issue
  <2>3. QED
    BY <1>3, <2>1, <2>2
<1>6. ASSUME Handle(conn, conn'), conn' \in ConnType, HandleOK(conn') PROVE Kept
  BY <1>1, <1>6 DEF Handle
<1>7. CASE TickPoll
  <2>1. Kept
    BY <1>1, <1>7, TickPollGives DEF HandleInv
  <2>2. Rest
    BY <1>4, <1>7 DEF TickPoll, Step, NoCallback
  <2>3. QED
    BY <1>3, <2>1, <2>2
<1>8. CASE \/ TickTimeout \/ TickConnect \/ TickRelease \/ ServerAnswers \/ ConnPing \/ ConnClose
           \/ \E id \in Ids : ConnStmtClose(id)
  <2>1. Kept
    BY <1>1, <1>8, OtherCalm DEF Calm
  <2>2. CASE TickConnect
    <3>1. running' \in Requests \cup {NoReq} /\ answers' \in [Requests -> Seq({"ok", "err", "stmt"})]
      BY <1>1, <1>4, <2>2, GiveTypes DEF TickConnect
    <3>2. Rest
      BY <1>4, <2>2, <3>1 DEF TickConnect
    <3>3. QED
      BY <1>3, <2>1, <3>2
  <2>3. CASE TickTimeout \/ TickRelease \/ ServerAnswers
    <3>1. Rest
      BY <1>4, <2>3 DEF TickTimeout, TickRelease, ServerAnswers, Step, NoCallback
    <3>2. QED
      BY <1>3, <2>1, <3>1
  <2>4. CASE ConnPing \/ ConnClose
    <3>1. Rest
      BY <1>4, <2>4 DEF ConnPing, ConnClose, KeepArrived
    <3>2. QED
      BY <1>3, <2>1, <3>1
  <2>5. CASE \E id \in Ids : ConnStmtClose(id)
    <3>1. Rest
      BY <1>4, <2>5 DEF ConnStmtClose, AfterMethod
    <3>2. QED
      BY <1>3, <2>1, <3>1
  <2>6. QED
    BY <1>8, <2>2, <2>3, <2>4, <2>5
<1>9. CASE TickResult
  <2>1. Kept
    BY <1>6, <1>9, GivingHandle
  <2>2. conn.cb \in Requests \cup {NoReq} /\ Answer(conn) \in {"ok", "err", "stmt"} /\ conn.nres \in Nat
    BY <1>1 DEF ConnType, Answer
  <2>3. running' \in Requests \cup {NoReq} /\ answers' \in [Requests -> Seq({"ok", "err", "stmt"})]
    <3>1. CASE UNCHANGED <<running, answers>>
      BY <1>4, <3>1
    <3>2. CASE Give(conn.cb, Answer(conn))
      BY <1>1, <2>2, <3>2, GiveTypes
    <3>3. QED
      BY <1>9, <3>1, <3>2 DEF TickResult
  <2>4. left' \in Nat
    BY <1>4, <1>9, <2>2 DEF TickResult
  <2>5. Rest
    BY <1>4, <1>9, <2>3, <2>4 DEF TickResult
  <2>6. QED
    BY <1>3, <2>1, <2>5
<1>10. CASE TickDrain
  <2>1. conn.queue # <<>> => Head(conn.queue) \in Requests \cup {NoReq}
    BY <1>1 DEF ConnType, Requests
  <2>2. running' \in Requests \cup {NoReq} /\ answers' \in [Requests -> Seq({"ok", "err", "stmt"})]
    <3>1. CASE UNCHANGED <<running, answers>>
      BY <1>4, <3>1
    <3>2. CASE conn.queue # <<>> /\ Give(Head(conn.queue), "err")
      BY <1>1, <2>1, <3>2, GiveTypes
    <3>3. QED
      BY <1>10, <3>1, <3>2 DEF TickDrain
  <2>3. Rest
    BY <1>4, <1>10, <2>2 DEF TickDrain, KeepArrived
  <2>4. CASE conn.queue # <<>> /\ ~Terminal(conn) /\ ~NotUsable(conn)
    <3>1. Kept
      BY <1>1, <1>10, <2>4, DrainGives
    <3>2. QED
      BY <1>3, <2>3, <3>1
  <2>5. CASE ~(conn.queue # <<>> /\ ~Terminal(conn) /\ ~NotUsable(conn))
    <3>1. Kept
      BY <1>6, <1>10, <2>5, GivingHandle
    <3>2. QED
      BY <1>3, <2>3, <3>1
  <2>6. QED
    BY <2>4, <2>5
<1>11. CASE CloseDrain
  <2>1. Kept
    BY <1>6, <1>11, GivingHandle
  <2>2. conn.queue # <<>> => Head(conn.queue) \in Requests \cup {NoReq}
    BY <1>1 DEF ConnType, Requests
  <2>3. running' \in Requests \cup {NoReq} /\ answers' \in [Requests -> Seq({"ok", "err", "stmt"})]
    <3>1. CASE UNCHANGED <<running, answers>>
      BY <1>4, <3>1
    <3>2. CASE conn.queue # <<>> /\ Give(Head(conn.queue), "err")
      BY <1>1, <2>2, <3>2, GiveTypes
    <3>3. QED
      BY <1>11, <3>1, <3>2 DEF CloseDrain
  <2>4. Rest
    BY <1>4, <1>11, <2>3 DEF CloseDrain
  <2>5. QED
    BY <1>3, <2>1, <2>4
<1>12. CASE CallbackReturns \/ CallbackThrows
  <2>1. Kept
    BY <1>6, <1>12, GivingHandle
  <2>2. Rest
    BY <1>4, <1>12 DEF CallbackReturns, CallbackThrows, Step
  <2>3. QED
    BY <1>3, <2>1, <2>2
<1>13. CASE \E r \in Queries : ConnQuery(r)
  <2>1. PICK r \in Queries : ConnQuery(r)
    BY <1>13
  <2>2. r \in Requests /\ Issue(r) /\ arrived' \in BOOLEAN
    BY <1>4, <2>1 DEF ConnQuery, KeepArrived, Requests
  <2>3. QED
    BY <1>5, <2>1, <2>2, ConnQueryGives
<1>14. CASE \E r \in Prepares : ConnStmtPrepare(r)
  <2>1. PICK r \in Prepares : ConnStmtPrepare(r)
    BY <1>14
  <2>2. r \in Requests /\ Issue(r) /\ arrived' \in BOOLEAN
    BY <1>4, <2>1 DEF ConnStmtPrepare, KeepArrived, Requests
  <2>3. QED
    BY <1>5, <2>1, <2>2, ConnStmtPrepareGives
<1>15. CASE \E r \in Executes, id \in Ids : ConnStmtExecute(r, id)
  <2>1. PICK r \in Executes, id \in Ids : ConnStmtExecute(r, id)
    BY <1>15
  <2>2. r \in Requests /\ Issue(r) /\ arrived' \in BOOLEAN
    BY <1>4, <2>1 DEF ConnStmtExecute, KeepArrived, Requests
  <2>3. QED
    BY <1>5, <2>1, <2>2, ConnStmtExecuteGives
<1>16. CASE UNCHANGED vars
  BY <1>1, <1>3, <1>4, <1>16 DEF vars
<1>17. QED
  BY <1>7, <1>8, <1>9, <1>10, <1>11, <1>12, <1>13, <1>14, <1>15, <1>16 DEF Next, TickStep, Client

LEMMA HandleInit ==
    ASSUME Init
    PROVE  HandleInv
<1>1. conn \in ConnType /\ HandleOK(conn)
  BY ConnectGives DEF Init
<1>2. [r \in Requests |-> <<>>] \in [Requests -> Seq({"ok", "err", "stmt"})]
  OBVIOUS
<1>3. TypeOK
  BY <1>1, <1>2 DEF Init, TypeOK
<1>4. QED
  BY <1>1, <1>3 DEF HandleInv

\* What a connection waits for is what its state says, and only a query, a statement or a ping uses the handle.
THEOREM HandleInvariant == Spec => []HandleInv
<1>1. Init => HandleInv
  BY HandleInit
<1>2. HandleInv /\ [Next]_vars => HandleInv'
  BY HandleNext
<1>3. QED
  BY <1>1, <1>2, PTL DEF Spec

-----------------------------------------------------------------------------
(* The result sets that a callback is given.                               *)

LEMMA StableNext ==
    ASSUME HandleInv, ResultsStable, [Next]_vars
    PROVE  ResultsStable'
<1>1. conn \in ConnType /\ left \in Nat
  BY DEF HandleInv, TypeOK
<1>2. SUFFICES ASSUME pc' = "result_cb", left' > 0
               PROVE  conn'.nres > left'
  BY DEF ResultsStable
<1>3. ASSUME pc = "result_cb", left' = left, conn'.nres = conn.nres
      PROVE  conn'.nres > left'
  BY <1>2, <1>3 DEF ResultsStable
<1>4. CASE TickResult
  <2>1. /\ conn.pres /\ conn' = TakeResult(conn)
        /\ left' = IF Answer(conn) = "ok" /\ conn.nres > 1 THEN conn.nres - 1 ELSE 0
    BY <1>2, <1>4 DEF TickResult
  <2>2. conn'.nres = conn.nres /\ conn.nres \in Nat
    BY <1>1, <2>1 DEF TakeResult, ConnType
  <2>3. left' = conn.nres - 1
    BY <1>2, <2>1
  <2>4. QED
    BY <2>2, <2>3
<1>5. CASE CallbackReturns
  <2>1. pc = "result_cb" /\ left > 0 /\ left' = left - 1 /\ conn' = conn
    BY <1>2, <1>5 DEF CallbackReturns, Step
  <2>2. conn.nres > left /\ conn.nres \in Nat
    BY <1>1, <2>1 DEF ResultsStable, ConnType
  <2>3. QED
    BY <1>1, <2>1, <2>2
<1>6. CASE ConnPing
  <2>1. pc' = pc /\ left' = left /\ conn' \in Ping(conn)
    BY <1>6 DEF ConnPing
  <2>2. conn'.nres = conn.nres
    BY <1>1, <2>1 DEF Ping, PingDone, Arm, ConnType
  <2>3. QED
    BY <1>2, <1>3, <2>1, <2>2
<1>7. CASE ConnClose
  <2>1. pc = "result_cb" /\ left' = left /\ conn' = RequestClose(conn)
    BY <1>2, <1>7 DEF ConnClose
  <2>2. QED
    BY <1>1, <1>3, <2>1 DEF RequestClose, ConnType
<1>8. CASE \E id \in Ids : ConnStmtClose(id)
  <2>1. PICK id \in Ids : ConnStmtClose(id)
    BY <1>8
  <2>2. pc = "result_cb" /\ left' = left /\ conn' = [conn EXCEPT !.stmts = @ \ {id}]
    BY <1>2, <2>1 DEF ConnStmtClose, AfterMethod
  <2>3. QED
    BY <1>1, <1>3, <2>2 DEF ConnType
<1>9. CASE \/ \E r \in Queries : ConnQuery(r)
           \/ \E r \in Prepares : ConnStmtPrepare(r)
           \/ \E r \in Executes, id \in Ids : ConnStmtExecute(r, id)
  <2>1. left = 0 /\ left' = left
    BY <1>9 DEF ConnQuery, ConnStmtPrepare, ConnStmtExecute, Issue
  <2>2. QED
    BY <1>2, <2>1
<1>10. CASE ServerAnswers
  BY <1>2, <1>3, <1>10 DEF ServerAnswers
<1>11. CASE UNCHANGED vars
  BY <1>2, <1>3, <1>11 DEF vars
<1>12. CASE TickTimeout \/ TickPoll \/ TickConnect \/ TickDrain \/ TickRelease \/ CloseDrain \/ CallbackThrows
  BY <1>2, <1>12 DEF TickTimeout, TickPoll, TickConnect, TickDrain, TickRelease, CloseDrain, CallbackThrows, Step
<1>13. QED
  BY <1>4, <1>5, <1>6, <1>7, <1>8, <1>9, <1>10, <1>11, <1>12 DEF Next, TickStep, Client

\* Whatever scripts do inside a result callback, closing the connection and pings included, the result sets it is
\* still to be given are there (DispatchCallbackWithResult).
THEOREM ResultsAlwaysStable == Spec => []ResultsStable
<1>1. Init => ResultsStable
  BY DEF Init, ResultsStable
<1>2. HandleInv /\ ResultsStable /\ [Next]_vars => ResultsStable'
  BY StableNext
<1>3. QED
  BY <1>1, <1>2, HandleInvariant, PTL DEF Spec

-----------------------------------------------------------------------------
(* A client that waits: where its request is.                              *)

LEMMA FlowKept ==
    ASSUME NEW c, NEW d, NEW iss, NEW ans, Flow(c, iss, ans), Quiet(c, d)
    PROVE  Flow(d, iss, ans)
BY DEF Flow, Quiet, Base

\* Request r, the only one unanswered, is nowhere yet, or on the handle, and an operation takes it.
LEMMA FlowTaken ==
    ASSUME NEW c \in ConnType, NEW d \in ConnType, NEW r \in Requests, NEW prep, NEW iss, NEW ans,
           OneByOne(iss, ans), r \in Unanswered(iss, ans),
           c.queue = <<>>, c.pres = FALSE, c.cb = r,
           \/ c.st # "Querying" /\ Taken(c, d, r, prep)
           \/ Worked(c, d, r, prep)
    PROVE  Flow(d, iss, ans)
<1>1. CASE Refused(c, d, r) /\ c.st # "Querying"
  BY <1>1 DEF Flow, Refused, Handle
<1>2. CASE Queued(c, d, r) /\ c.st # "Querying" /\ r \in Queries
  <2>1. d.queue = Append(<<>>, r) /\ d.cb = r /\ d.st = c.st /\ d.op = c.op /\ d.pres = FALSE
    BY <1>2 DEF Queued, Base, Handle, ConnType
  <2>2. Len(d.queue) = 1 /\ Head(d.queue) = r
    BY <2>1
  <2>3. QED
    BY <1>2, <2>1, <2>2 DEF Flow
<1>3. CASE Begun(c, d, r, prep)
  BY <1>3 DEF Flow, Begun, Base, Work
<1>4. CASE Ended(c, d, r, prep)
  BY <1>4 DEF Flow, Ended
<1>5. QED
  BY <1>1, <1>2, <1>3, <1>4 DEF Taken, Worked

\* r is answered.
LEMMA AnsweredOne ==
    ASSUME NEW iss \in SUBSET Requests, NEW ans \in [Requests -> Seq({"ok", "err", "stmt"})],
           OneByOne(iss, ans), NEW r \in Unanswered(iss, ans), NEW a \in {"ok", "err", "stmt"}
    PROVE  LET later == [ans EXCEPT ![r] = Append(@, a)]
           IN  /\ Unanswered(iss, later) = {} /\ OneByOne(iss, later)
               /\ later[r] = <<a>> /\ \A s \in Requests \ {r} : later[s] = ans[s]
<1> DEFINE later == [ans EXCEPT ![r] = Append(@, a)]
<1>1. r \in Requests /\ ans[r] = <<>> /\ r \in iss
  BY DEF Unanswered
<1>2. Append(<<>>, a) = <<a>> /\ <<a>> # <<>> /\ Len(<<a>>) = 1
  OBVIOUS
<1>3. later[r] = <<a>> /\ \A s \in Requests \ {r} : later[s] = ans[s]
  BY <1>1, <1>2
<1> HIDE DEF later
<1>4. Unanswered(iss, later) = {}
  <2>1. ASSUME NEW s \in iss, later[s] = <<>> PROVE FALSE
    <3>1. s # r
      BY <1>2, <1>3, <2>1
    <3>2. s \in Unanswered(iss, ans)
      BY <1>3, <2>1, <3>1 DEF Unanswered
    <3>3. QED
      BY <3>1, <3>2 DEF OneByOne
  <2>2. QED
    BY <2>1 DEF Unanswered
<1>5. OneByOne(iss, later)
  <2>1. ASSUME NEW s \in Requests
        PROVE  Len(later[s]) <= 1 /\ (s \notin iss => later[s] = <<>>)
    <3>1. CASE s = r
      <4>1. later[s] = <<a>> /\ s \in iss
        BY <1>1, <1>3, <3>1
      <4>2. Len(later[s]) = 1
        BY <1>2, <4>1
      <4>3. QED
        BY <4>1, <4>2
    <3>2. CASE s # r
      BY <1>3, <3>2 DEF OneByOne
    <3>3. QED
      BY <3>1, <3>2
  <2>2. QED
    BY <1>4, <2>1 DEF OneByOne
<1>6. QED
  BY <1>3, <1>4, <1>5 DEF later

\* A client that waits makes request r: nothing else is under way.
LEMMA IssueAlone ==
    ASSUME HandleInv, ~client.overlap, Flow(conn, issued, answers), NEW r \in Requests, Issue(r)
    PROVE  /\ Unanswered(issued, answers) = {} /\ r \notin issued /\ answers[r] = <<>>
           /\ Unanswered(issued', answers') = {r} /\ OneByOne(issued', answers')
           /\ conn.queue = <<>> /\ conn.pres = FALSE /\ conn.st # "Querying"
<1>1. Unanswered(issued, answers) = {}
  BY DEF Issue, Disciplined, Outstanding, Unanswered
<1>2. r \notin issued /\ issued' = issued \cup {r} /\ answers' = answers
  BY DEF Issue
<1>3. answers[r] = <<>>
  BY <1>2 DEF Flow, OneByOne
<1>4. Unanswered(issued', answers') = {r}
  BY <1>1, <1>2, <1>3 DEF Unanswered
<1>5. OneByOne(issued', answers')
  BY <1>2, <1>4 DEF Flow, OneByOne
<1>6. conn.queue = <<>> /\ conn.pres = FALSE /\ conn.st # "Querying"
  BY <1>1 DEF Flow, HandleInv, TypeOK, ConnType
<1>7. QED
  BY <1>1, <1>2, <1>3, <1>4, <1>5, <1>6

LEMMA FlowCalled ==
    ASSUME HandleInv, ~client.overlap, Flow(conn, issued, answers),
           NEW r \in Requests, NEW prep, Issue(r), Called(r, prep)
    PROVE  Flow(conn', issued', answers')
<1> DEFINE e == [conn EXCEPT !.cb = r]
           iss == issued'
           ans == answers'
<1>1. PICK d \in ConnType : Taken(e, d, r, prep) /\ Quiet(d, conn')
  BY DEF Called
<1>2. /\ e \in ConnType /\ e.queue = <<>> /\ e.pres = FALSE /\ e.cb = r /\ e.st # "Querying"
  <2>1. conn.queue = <<>> /\ conn.pres = FALSE /\ conn.st # "Querying"
    BY IssueAlone
  <2>2. conn \in ConnType
    BY DEF HandleInv, TypeOK
  <2>3. QED
    BY <2>1, <2>2 DEF ConnType
<1>3. OneByOne(iss, ans) /\ r \in Unanswered(iss, ans)
  BY IssueAlone
<1> HIDE DEF e, iss, ans
<1>4. Flow(d, iss, ans)
  BY <1>1, <1>2, <1>3, FlowTaken
<1>5. Flow(conn', iss, ans)
  BY <1>1, <1>4, FlowKept
<1>6. QED
  BY <1>5 DEF iss, ans

\* The request r is given its answer, and nothing else is under way.
LEMMA FlowGiven ==
    ASSUME HandleInv, Flow(conn, issued, answers), NEW r \in Unanswered(issued, answers), NEW a \in {"ok", "err", "stmt"},
           Give(r, a), issued' = issued,
           NEW d, d.queue = <<>>, d.st # "Querying", d.pres = FALSE
    PROVE  /\ Flow(d, issued', answers') /\ Unanswered(issued', answers') = {}
           /\ answers'[r] = <<a>> /\ \A s \in Requests \ {r} : answers'[s] = answers[s]
<1>1. /\ r \in Requests /\ r # NoReq
      /\ issued \in SUBSET Requests /\ answers \in [Requests -> Seq({"ok", "err", "stmt"})] /\ OneByOne(issued, answers)
  BY RequestsAssumption DEF HandleInv, TypeOK, Flow, Unanswered
<1>2. answers' = [answers EXCEPT ![r] = Append(@, a)]
  BY <1>1 DEF Give
<1>3. /\ Unanswered(issued, answers') = {} /\ OneByOne(issued, answers')
      /\ answers'[r] = <<a>> /\ \A s \in Requests \ {r} : answers'[s] = answers[s]
  BY <1>1, <1>2, AnsweredOne
<1>4. QED
  BY <1>3 DEF Flow

\* The answer given by the step is that of the one request under way.
LEMMA DrainFlow ==
    ASSUME HandleInv, Flow(conn, issued, answers), conn.queue # <<>>
    PROVE  LET h == Head(conn.queue)
           IN  /\ h \in Queries /\ h \in Unanswered(issued, answers) /\ Tail(conn.queue) = <<>>
               /\ conn.st # "Querying" /\ conn.pres = FALSE
<1>1. conn.queue \in Seq(Queries)
  BY DEF HandleInv, TypeOK, ConnType
<1>2. Len(conn.queue) = 1 /\ Head(conn.queue) \in Unanswered(issued, answers) /\ conn.st # "Querying" /\ conn.pres = FALSE
  BY DEF Flow
<1>3. Tail(conn.queue) \in Seq(Queries) /\ Len(Tail(conn.queue)) = 0
  BY <1>1, <1>2
<1>4. Tail(conn.queue) = <<>>
  BY <1>3, EmptySeq
<1>5. Head(conn.queue) \in Queries
  BY <1>1
<1>6. QED
  BY <1>2, <1>4, <1>5

LEMMA FlowNext ==
    ASSUME FlowInv, [Next]_vars
    PROVE  FlowInv'
<1>1. HandleInv /\ HandleInv' /\ client' = client
  BY HandleNext DEF FlowInv, Next, vars
<1>2. SUFFICES ASSUME ~client.overlap
               PROVE  Flow(conn', issued', answers')
  BY <1>1 DEF FlowInv
<1>3. Flow(conn, issued, answers)
  BY <1>2 DEF FlowInv
<1>4. conn \in ConnType
  BY <1>1 DEF HandleInv, TypeOK
<1>5. CASE TickPoll
  <2>1. issued' = issued /\ answers' = answers
    BY <1>5 DEF TickPoll, NoCallback
  <2>2. CASE Calm
    BY <1>3, <2>1, <2>2, FlowKept DEF Calm
  <2>3. CASE conn.st = "Querying" /\ conn.for \in Requests /\ Worked(conn, conn', conn.for, conn.op = "StmtPrepare")
    <3>1. conn.queue = <<>> /\ conn.pres = FALSE /\ conn.cb = conn.for /\ conn.for \in Unanswered(issued, answers)
      BY <1>3, <2>3 DEF Flow
    <3>2. OneByOne(issued, answers)
      BY <1>3 DEF Flow
    <3>3. conn' \in ConnType
      BY <1>1 DEF HandleInv, TypeOK
    <3>4. Flow(conn', issued, answers)
      BY <1>4, <2>3, <3>1, <3>2, <3>3, FlowTaken
    <3>5. QED
      BY <2>1, <3>4
  <2>4. QED
    BY <1>1, <1>5, <2>2, <2>3, TickPollGives
<1>6. CASE \/ TickTimeout \/ TickConnect \/ TickRelease \/ ServerAnswers \/ ConnPing \/ ConnClose
           \/ \E id \in Ids : ConnStmtClose(id)
  <2>1. issued' = issued /\ answers' = answers
    BY <1>6 DEF TickTimeout, TickConnect, TickRelease, ServerAnswers, ConnPing, ConnClose, ConnStmtClose, NoCallback, Give
  <2>2. Quiet(conn, conn')
    BY <1>1, <1>6, OtherCalm DEF Calm
  <2>3. Flow(conn', issued, answers)
    BY <1>3, <2>2, FlowKept
  <2>4. QED
    BY <2>1, <2>3
<1>7. ASSUME conn.queue # <<>>, issued' = issued, Give(Head(conn.queue), "err"), conn' = [conn EXCEPT !.queue = Tail(@)]
      PROVE  Flow(conn', issued', answers')
  <2>1. /\ Head(conn.queue) \in Unanswered(issued, answers) /\ Tail(conn.queue) = <<>>
        /\ conn.st # "Querying" /\ conn.pres = FALSE
    BY <1>1, <1>3, <1>7, DrainFlow
  <2>2. conn'.queue = <<>> /\ conn'.st # "Querying" /\ conn'.pres = FALSE
    BY <1>4, <1>7, <2>1 DEF ConnType
  <2>3. QED
    BY <1>1, <1>3, <1>7, <2>1, <2>2, FlowGiven
<1>8. ASSUME conn' = conn, issued' = issued, answers' = answers
      PROVE  Flow(conn', issued', answers')
  BY <1>3, <1>8
<1>9. CASE TickResult
  <2>1. issued' = issued
    BY <1>9 DEF TickResult
  <2>2. CASE conn.pres
    <3>1. /\ conn.cb \in Unanswered(issued, answers) /\ conn.queue = <<>> /\ conn.st # "Querying"
      BY <1>3, <2>2 DEF Flow
    <3>2. Give(conn.cb, Answer(conn)) /\ conn' = TakeResult(conn)
      BY <1>9, <2>2 DEF TickResult
    <3>3. Answer(conn) \in {"ok", "err", "stmt"}
      BY DEF Answer
    <3>4. conn'.queue = <<>> /\ conn'.st # "Querying" /\ conn'.pres = FALSE
      BY <1>4, <3>1, <3>2 DEF TakeResult, ConnType
    <3>5. QED
      BY <1>1, <1>3, <2>1, <3>1, <3>2, <3>3, <3>4, FlowGiven
  <2>3. CASE ~conn.pres
    BY <1>8, <1>9, <2>1, <2>3 DEF TickResult
  <2>4. QED
    BY <2>2, <2>3
<1>10. CASE TickDrain
  <2>1. issued' = issued
    BY <1>10 DEF TickDrain
  <2>2. CASE conn.queue # <<>> /\ Terminal(conn)
    BY <1>7, <1>10, <2>1, <2>2 DEF TickDrain
  <2>3. CASE conn.queue # <<>> /\ ~Terminal(conn) /\ ~NotUsable(conn)
    <3> DEFINE h == Head(conn.queue)
               e == [conn EXCEPT !.queue = Tail(@), !.cb = h]
    <3>1. answers' = answers
      BY <1>10, <2>3 DEF TickDrain
    <3>2. h \in Queries /\ e \in ConnType /\ conn' \in ConnType /\ Taken(e, conn', h, FALSE)
      BY <1>1, <1>10, <2>3, DrainGives
    <3>3. /\ h \in Unanswered(issued, answers) /\ Tail(conn.queue) = <<>>
          /\ conn.st # "Querying" /\ conn.pres = FALSE
      BY <1>1, <1>3, <2>3, DrainFlow
    <3>4. e.queue = <<>> /\ e.st # "Querying" /\ e.pres = FALSE /\ e.cb = h
      BY <1>4, <3>3 DEF ConnType
    <3>5. OneByOne(issued, answers) /\ h \in Requests
      BY <1>3, <3>2 DEF Flow, Requests
    <3> HIDE DEF e, h
    <3>6. Flow(conn', issued, answers)
      BY <3>2, <3>3, <3>4, <3>5, FlowTaken
    <3>7. QED
      BY <2>1, <3>1, <3>6
  <2>4. CASE conn.queue = <<>> \/ (~Terminal(conn) /\ NotUsable(conn))
    <3>1. conn' = conn /\ answers' = answers
      BY <1>10, <2>4 DEF TickDrain
    <3>2. QED
      BY <1>8, <2>1, <3>1
  <2>5. QED
    BY <2>2, <2>3, <2>4
<1>11. CASE CloseDrain
  <2>1. CASE conn.queue = <<>>
    BY <1>8, <1>11, <2>1 DEF CloseDrain
  <2>2. CASE conn.queue # <<>>
    BY <1>7, <1>11, <2>2 DEF CloseDrain
  <2>3. QED
    BY <2>1, <2>2
<1>12. CASE CallbackReturns
  <2>1. issued' = issued /\ answers' = answers
    BY <1>12 DEF CallbackReturns
  <2>2. CASE conn' = AfterResult(conn)
    <3>1. Flow(conn', issued, answers)
      BY <1>3, <1>4, <2>2 DEF AfterResult, ConnType, Flow
    <3>2. QED
      BY <2>1, <3>1
  <2>3. QED
    BY <1>8, <1>12, <2>1, <2>2 DEF CallbackReturns
<1>13. CASE CallbackThrows
  <2>1. issued' = issued /\ answers' = answers /\ conn' = [conn EXCEPT !.dstmt = IF @ = "now" THEN "left" ELSE @]
    BY <1>13 DEF CallbackThrows
  <2>2. Flow(conn', issued, answers)
    BY <1>3, <1>4, <2>1 DEF ConnType, Flow
  <2>3. QED
    BY <2>1, <2>2
<1>14. CASE \E r \in Queries : ConnQuery(r)
  <2>1. PICK r \in Queries : ConnQuery(r)
    BY <1>14
  <2>2. r \in Requests /\ Issue(r)
    BY <2>1 DEF ConnQuery, Requests
  <2>3. QED
    BY <1>1, <1>2, <1>3, <2>1, <2>2, ConnQueryGives, FlowCalled
<1>15. CASE \E r \in Prepares : ConnStmtPrepare(r)
  <2>1. PICK r \in Prepares : ConnStmtPrepare(r)
    BY <1>15
  <2>2. r \in Requests /\ Issue(r)
    BY <2>1 DEF ConnStmtPrepare, Requests
  <2>3. QED
    BY <1>1, <1>2, <1>3, <2>1, <2>2, ConnStmtPrepareGives, FlowCalled
<1>16. CASE \E r \in Executes, id \in Ids : ConnStmtExecute(r, id)
  <2>1. PICK r \in Executes, id \in Ids : ConnStmtExecute(r, id)
    BY <1>16
  <2>2. r \in Requests /\ Issue(r)
    BY <2>1 DEF ConnStmtExecute, Requests
  <2>3. QED
    BY <1>1, <1>2, <1>3, <2>1, <2>2, ConnStmtExecuteGives, FlowCalled
<1>17. CASE UNCHANGED vars
  BY <1>8, <1>17 DEF vars
<1>18. QED
  BY <1>5, <1>6, <1>9, <1>10, <1>11, <1>12, <1>13, <1>14, <1>15, <1>16, <1>17 DEF Next, TickStep, Client

\* A client that waits has one request under way at most, wherever it is, and the pending slot, the callback slot and the
\* handle are that request's.
THEOREM FlowInvariant == Spec => []FlowInv
<1>1. ASSUME Init PROVE Flow(conn, issued, answers)
  <2>1. issued = {} /\ answers = [r \in Requests |-> <<>>]
    BY <1>1 DEF Init
  <2>2. Unanswered(issued, answers) = {}
    BY <2>1 DEF Unanswered
  <2>3. \A r \in Requests : answers[r] = <<>> /\ Len(answers[r]) <= 1
    <3>1. Len(<<>>) <= 1
      OBVIOUS
    <3>2. QED
      BY <2>1, <3>1
  <2>4. OneByOne(issued, answers)
    BY <2>2, <2>3 DEF OneByOne
  <2>5. Flow(Fresh, issued, answers)
    BY <2>2, <2>4 DEF Flow, Fresh
  <2>6. Quiet(Fresh, conn)
    BY <1>1, ConnectGives DEF Init
  <2>7. QED
    BY <2>5, <2>6, FlowKept
<1>2. Init => FlowInv
  BY <1>1, HandleInit DEF FlowInv
<1>3. FlowInv /\ [Next]_vars => FlowInv'
  BY FlowNext
<1>4. QED
  BY <1>2, <1>3, PTL DEF Spec

-----------------------------------------------------------------------------
(* One request at a time on the handle.                                    *)

LEMMA TakenFor ==
    ASSUME NEW c, NEW d, NEW r, NEW prep, Taken(c, d, r, prep)
    PROVE  d.for = c.for \/ c.st = "Ready"
BY DEF Taken, Refused, Queued, Handle

\* While a request is on the handle the state is not Ready, and only a request or a ping that finds it Ready starts.
LEMMA SingleNext ==
    ASSUME HandleInv, [Next]_vars, OnHandle(conn)
    PROVE  conn'.for = conn.for /\ conn'.op # "Ping"
<1>1. HandleInv /\ HandleOK(conn) /\ conn \in ConnType /\ conn.st # "Ready" /\ conn.op # "Ping" /\ conn.op # "None"
  BY DEF HandleInv, TypeOK, HandleOK, OnHandle
<1>2. ASSUME NEW r \in Requests, NEW prep, Called(r, prep)
      PROVE  conn'.for = conn.for /\ conn'.op # "Ping"
  <2> DEFINE e == [conn EXCEPT !.cb = r]
  <2>1. PICK d \in ConnType : Taken(e, d, r, prep) /\ conn'.for = d.for
    BY <1>2 DEF Called
  <2>2. e.for = conn.for /\ e.st = conn.st
    BY <1>1 DEF ConnType
  <2>3. conn'.op # "Ping"
    BY <1>1, <1>2 DEF Called
  <2> HIDE DEF e
  <2>4. QED
    BY <1>1, <2>1, <2>2, <2>3, TakenFor
<1>3. CASE TickDrain /\ conn.queue # <<>> /\ ~Terminal(conn) /\ ~NotUsable(conn)
  BY <1>1, <1>3 DEF NotUsable
<1>4. CASE TickPoll
  BY <1>1, <1>4, TickPollGives DEF Calm, Worked, Begun, Ended
<1>5. CASE \/ TickTimeout \/ TickConnect \/ TickRelease \/ ServerAnswers \/ ConnPing \/ ConnClose
           \/ \E id \in Ids : ConnStmtClose(id)
  BY <1>1, <1>5, OtherCalm DEF Calm
<1>6. CASE \/ TickResult \/ CloseDrain \/ CallbackReturns \/ CallbackThrows
           \/ TickDrain /\ ~(conn.queue # <<>> /\ ~Terminal(conn) /\ ~NotUsable(conn))
  BY <1>1, <1>6, GivingHandle DEF Handle
<1>7. CASE \E r \in Queries : ConnQuery(r)
  <2>1. PICK r \in Queries : ConnQuery(r)
    BY <1>7
  <2>2. r \in Requests
    BY DEF Requests
  <2>3. QED
    BY <1>1, <1>2, <2>1, <2>2, ConnQueryGives
<1>8. CASE \E r \in Prepares : ConnStmtPrepare(r)
  <2>1. PICK r \in Prepares : ConnStmtPrepare(r)
    BY <1>8
  <2>2. r \in Requests
    BY DEF Requests
  <2>3. QED
    BY <1>1, <1>2, <2>1, <2>2, ConnStmtPrepareGives
<1>9. CASE \E r \in Executes, id \in Ids : ConnStmtExecute(r, id)
  <2>1. PICK r \in Executes, id \in Ids : ConnStmtExecute(r, id)
    BY <1>9
  <2>2. r \in Requests
    BY DEF Requests
  <2>3. QED
    BY <1>1, <1>2, <2>1, <2>2, ConnStmtExecuteGives
<1>10. CASE UNCHANGED vars
  BY <1>1, <1>10 DEF vars
<1>11. QED
  BY <1>3, <1>4, <1>5, <1>6, <1>7, <1>8, <1>9, <1>10 DEF Next, TickStep, Client

\* However requests and pings overlap, are queued, and are made in callbacks: while libmariadb works on a request, from its
\* first packet to its last result set, neither another request nor a ping begins on the handle. No client is excluded; a
\* ping in flight is not protected from the request that follows it, and the theorem does not say so.
THEOREM HandleServesOne == Spec => SingleFlight
<1>1. HandleInv /\ [Next]_vars => [OnHandle(conn) => conn'.for = conn.for /\ conn'.op # "Ping"]_vars
  BY SingleNext
<1>2. QED
  BY <1>1, HandleInvariant, PTL DEF Spec, SingleFlight

-----------------------------------------------------------------------------
(* A client that waits: what its request is told.                          *)

LEMMA OwnKept ==
    ASSUME NEW c, NEW d, NEW p, NEW later, NEW run, NEW next, NEW iss, NEW ins, NEW ans,
           Own(c, p, run, iss, ins, ans), Quiet(c, d),
           (later = "result_cb") <=> (p = "result_cb"),
           p = "result_cb" => next = run
    PROVE  Own(d, later, next, iss, ins, ans)
BY DEF Own, Quiet, Base

\* What becomes of a request that was not answered changes no record.
LEMMA RecordedUpdate ==
    ASSUME NEW outcome \in [Requests -> {"none", "ok", "err"}], NEW iss, NEW ins, NEW ans, NEW r \in Requests, NEW x,
           Recorded(outcome, iss, ins, ans), r \in Unanswered(iss, ans)
    PROVE  /\ Recorded([outcome EXCEPT ![r] = x], iss, ins, ans)
           /\ [outcome EXCEPT ![r] = x][r] = x
<1> DEFINE new == [outcome EXCEPT ![r] = x]
<1>1. new[r] = x /\ \A s \in Requests \ {r} : new[s] = outcome[s]
  OBVIOUS
<1>2. r \in iss /\ ans[r] = <<>> /\ DOMAIN <<>> = {}
  BY DEF Unanswered
<1> HIDE DEF new
<1>3. \A s \in Requests \ iss : new[s] = "none"
  BY <1>1, <1>2 DEF Recorded
<1>4. ASSUME NEW s \in Requests \ ins, NEW i \in DOMAIN ans[s]
      PROVE  ans[s][i] = Expected(new, s)
  <2>1. s # r
    BY <1>2, <1>4
  <2>2. new[s] = outcome[s]
    BY <1>1, <2>1
  <2>3. QED
    BY <2>2 DEF Recorded, Expected
<1>5. QED
  BY <1>1, <1>3, <1>4 DEF Recorded, new

LEMMA OwnTaken ==
    ASSUME NEW c \in ConnType, NEW d \in ConnType, NEW r \in Requests, NEW prep \in BOOLEAN, prep <=> r \in Prepares,
           NEW p, NEW run, NEW iss, NEW ins, NEW ans,
           Recorded(c.outcome, iss, ins, ans), r \in Unanswered(iss, ans), c.outcome[r] = "none",
           c.dstmt = "no" \/ (c.dstmt = "now" /\ p = "result_cb" /\ run \in Prepares),
           p = "result_cb" => r \in ins,
           c.queue = <<>>, c.pres = FALSE, c.pstmt = FALSE, c.cb = r,
           \/ c.st # "Querying" /\ Taken(c, d, r, prep)
           \/ Worked(c, d, r, prep)
    PROVE  Own(d, p, run, iss, ins, ans)
<1>1. c.outcome \in [Requests -> {"none", "ok", "err"}]
  BY DEF ConnType
<1>2. \A x : Recorded([c.outcome EXCEPT ![r] = x], iss, ins, ans) /\ [c.outcome EXCEPT ![r] = x][r] = x
  BY <1>1, RecordedUpdate
<1>3. ASSUME d.outcome = [c.outcome EXCEPT ![r] = "err"] /\ d.perr = TRUE /\ d.pstmt = FALSE
      PROVE  Recorded(d.outcome, iss, ins, ans) /\ d.outcome[r] # "ok" /\ d.perr = TRUE /\ d.pstmt = FALSE
  BY <1>2, <1>3
<1>4. CASE Refused(c, d, r) /\ c.st # "Querying"
  <2>1. /\ d.cb = r /\ d.queue = <<>> /\ d.dstmt = c.dstmt /\ d.st # "Querying"
        /\ d.perr = TRUE /\ d.pstmt = FALSE /\ d.outcome = [c.outcome EXCEPT ![r] = "err"]
    BY <1>4 DEF Refused, Handle
  <2>2. Recorded(d.outcome, iss, ins, ans) /\ d.outcome[r] # "ok"
    BY <1>3, <2>1
  <2>3. QED
    BY <2>1, <2>2 DEF Own
<1>5. CASE Queued(c, d, r) /\ c.st # "Querying" /\ r \in Queries
  <2>1. /\ d.queue = Append(<<>>, r) /\ d.cb = r /\ d.st = c.st /\ d.pres = FALSE
        /\ d.dstmt = c.dstmt /\ d.pstmt = FALSE /\ d.outcome = c.outcome
    BY <1>5 DEF Queued, Base, Handle, ConnType
  <2>2. Head(d.queue) = r
    BY <2>1
  <2>3. QED
    BY <1>5, <2>1, <2>2 DEF Own
<1>6. CASE Begun(c, d, r, prep)
  <2>1. /\ d.queue = <<>> /\ d.cb = r /\ d.for = r /\ (d.op = "StmtPrepare") = prep /\ d.pres = FALSE
        /\ d.dstmt = c.dstmt /\ d.pstmt = FALSE /\ d.outcome = c.outcome
    BY <1>6 DEF Begun, Base, ConnType
  <2>2. r \in Prepares <=> d.op = "StmtPrepare"
    BY <2>1
  <2>3. QED
    BY <2>1, <2>2 DEF Own
<1>7. CASE Ended(c, d, r, prep)
  <2>1. d.queue = <<>> /\ d.cb = r /\ d.st = "Ready" /\ d.pres = TRUE /\ d.dstmt = c.dstmt
    BY <1>7 DEF Ended
  <2>2. CASE d.perr = TRUE /\ d.pstmt = c.pstmt /\ d.outcome = [c.outcome EXCEPT ![r] = "err"]
    <3>1. Recorded(d.outcome, iss, ins, ans) /\ d.outcome[r] # "ok" /\ d.pstmt = FALSE
      BY <1>3, <2>2
    <3>2. QED
      BY <2>1, <2>2, <3>1 DEF Own
  <2>3. CASE d.perr = FALSE /\ d.pstmt = prep /\ d.outcome = [c.outcome EXCEPT ![r] = "ok"]
    <3>1. Recorded(d.outcome, iss, ins, ans) /\ d.outcome[r] = "ok"
      BY <1>2, <2>3
    <3>2. QED
      BY <2>1, <2>3, <3>1 DEF Own
  <2>4. QED
    BY <1>7, <2>2, <2>3 DEF Ended
<1>8. QED
  BY <1>4, <1>5, <1>6, <1>7 DEF Taken, Worked

LEMMA OwnCalled ==
    ASSUME HandleInv, ~client.overlap, Flow(conn, issued, answers),
           Own(conn, pc, running, issued, inside, answers),
           NEW r \in Requests, NEW prep \in BOOLEAN, prep <=> r \in Prepares, Issue(r), Called(r, prep)
    PROVE  Own(conn', pc', running', issued', inside', answers')
<1> DEFINE e == [conn EXCEPT !.cb = r]
           p == pc
           run == running
           iss == issued'
           ins == inside'
           ans == answers'
<1>1. PICK d \in ConnType : Taken(e, d, r, prep) /\ Quiet(d, conn') /\ conn'.op = d.op
  BY DEF Called
<1>2. conn \in ConnType
  BY DEF HandleInv, TypeOK
<1>3. /\ Unanswered(issued, answers) = {} /\ r \notin issued /\ Unanswered(iss, ans) = {r}
      /\ conn.queue = <<>> /\ conn.pres = FALSE /\ conn.st # "Querying"
  BY IssueAlone
<1>4. /\ issued' = issued \cup {r} /\ answers' = answers /\ running' = running
      /\ inside \subseteq inside' /\ (pc = "result_cb" => r \in inside')
  BY DEF Issue
<1>5. Recorded(conn.outcome, issued, inside, answers)
  BY DEF Own
<1>6. conn.outcome[r] = "none" /\ Recorded(conn.outcome, iss, ins, ans)
  BY <1>3, <1>4, <1>5 DEF Recorded
<1>7. conn.pstmt = FALSE
  <2>1. ~conn.pstmt
    BY <1>3 DEF Own
  <2>2. QED
    BY <1>2, <2>1 DEF ConnType
<1>8. /\ e \in ConnType /\ e.queue = <<>> /\ e.pres = FALSE /\ e.pstmt = FALSE /\ e.cb = r /\ e.st # "Querying"
      /\ e.outcome = conn.outcome /\ e.dstmt = conn.dstmt
  BY <1>2, <1>3, <1>7 DEF ConnType
<1>9. /\ e.dstmt = "no" \/ (e.dstmt = "now" /\ p = "result_cb" /\ run \in Prepares)
      /\ p = "result_cb" => r \in ins
  BY <1>4, <1>8 DEF Own
<1>10. (pc' = "result_cb") <=> (p = "result_cb")
  BY DEF Called
<1>11. running' = run /\ Recorded(e.outcome, iss, ins, ans) /\ e.outcome[r] = "none" /\ r \in Unanswered(iss, ans)
  BY <1>3, <1>4, <1>6, <1>8
<1> HIDE DEF e, p, run, iss, ins, ans
<1>12. Own(d, p, run, iss, ins, ans)
  BY <1>1, <1>8, <1>9, <1>11, OwnTaken
<1>13. Own(conn', pc', running', iss, ins, ans)
  BY <1>1, <1>10, <1>11, <1>12, OwnKept
<1>14. QED
  BY <1>13 DEF iss, ins, ans

LEMMA OwnGiven ==
    ASSUME HandleInv, Flow(conn, issued, answers), Recorded(conn.outcome, issued, inside, answers),
           NEW r \in Unanswered(issued, answers), NEW a \in {"ok", "err", "stmt"},
           r \notin inside => a = Expected(conn.outcome, r),
           Give(r, a), issued' = issued, inside' = inside,
           NEW d, NEW p, NEW run,
           d.queue = <<>>, d.st # "Querying", d.pres = FALSE, d.pstmt = FALSE, d.outcome = conn.outcome,
           d.dstmt = "no" \/ (d.dstmt = "now" /\ p = "result_cb" /\ run \in Prepares)
    PROVE  Own(d, p, run, issued', inside', answers')
<1>1. answers'[r] = <<a>> /\ \A s \in Requests \ {r} : answers'[s] = answers[s]
  BY FlowGiven
<1>2. DOMAIN <<a>> = {1} /\ <<a>>[1] = a
  OBVIOUS
<1>3. ASSUME NEW s \in Requests \ inside, NEW i \in DOMAIN answers'[s]
      PROVE  answers'[s][i] = Expected(conn.outcome, s)
  <2>1. CASE s = r
    BY <1>1, <1>2, <1>3, <2>1
  <2>2. CASE s # r
    <3>1. answers'[s] = answers[s]
      BY <1>1, <2>2
    <3>2. QED
      BY <1>3, <3>1 DEF Recorded
  <2>3. QED
    BY <2>1, <2>2
<1>4. Recorded(d.outcome, issued', inside', answers')
  BY <1>3 DEF Recorded
<1>5. QED
  BY <1>4 DEF Own

\* A query at the head of the queue has no statement id, and nothing became of it yet.
LEMMA DrainOwn ==
    ASSUME HandleInv, Flow(conn, issued, answers), conn.queue # <<>>,
           Own(conn, pc, running, issued, inside, answers)
    PROVE  /\ conn.pstmt = FALSE /\ conn.outcome[Head(conn.queue)] = "none"
           /\ Expected(conn.outcome, Head(conn.queue)) = "err"
<1>1. Head(conn.queue) \in Queries /\ Head(conn.queue) \in Unanswered(issued, answers)
  BY DrainFlow
<1>2. ~conn.pstmt
  <2>1. ASSUME conn.pstmt PROVE FALSE
    <3>1. conn.cb \in Prepares /\ conn.cb \in Unanswered(issued, answers)
      BY <2>1 DEF Own
    <3>2. conn.cb = Head(conn.queue)
      BY <1>1, <3>1 DEF Flow, OneByOne
    <3>3. QED
      BY <1>1, <3>1, <3>2, RequestsAssumption
  <2>2. QED
    BY <2>1
<1>3. conn.pstmt = FALSE
  BY <1>2 DEF HandleInv, TypeOK, ConnType
<1>4. conn.outcome[Head(conn.queue)] = "none"
  BY DEF Own
<1>5. QED
  BY <1>3, <1>4 DEF Expected

\* The callback of a stmt_prepare does not throw: dispatch_stmt_id_ would stay set (mysql_connection.cpp:718).
PreparesReturn == \A c \in Clients : ~c.overlap => c.throwing \cap Prepares = {}

LEMMA OwnNext ==
    ASSUME PreparesReturn, OwnInv, [Next]_vars
    PROVE  OwnInv'
<1>1. FlowInv /\ FlowInv' /\ HandleInv /\ HandleInv' /\ client' = client
  BY FlowNext DEF OwnInv, FlowInv, Next, vars
<1>2. SUFFICES ASSUME ~client.overlap
               PROVE  Own(conn', pc', running', issued', inside', answers')
  BY <1>1 DEF OwnInv
<1>3. Flow(conn, issued, answers) /\ Own(conn, pc, running, issued, inside, answers)
  BY <1>1, <1>2 DEF OwnInv, FlowInv
<1>4. conn \in ConnType /\ client \in Clients /\ conn' \in ConnType
  BY <1>1 DEF HandleInv, TypeOK
<1>5. Recorded(conn.outcome, issued, inside, answers)
  BY <1>3 DEF Own
<1>6. pc # "result_cb" => conn.dstmt = "no"
  BY <1>3 DEF Own
<1>7. ASSUME Quiet(conn, conn'), (pc' = "result_cb") <=> (pc = "result_cb"), pc = "result_cb" => running' = running,
             issued' = issued, inside' = inside, answers' = answers
      PROVE  Own(conn', pc', running', issued', inside', answers')
  BY <1>3, <1>7, OwnKept
<1>8. Quiet(conn, conn)
  BY DEF Quiet, Base
<1>9. CASE TickPoll
  <2>1. pc = "out" /\ pc' = "connect" /\ running' = running /\ issued' = issued /\ inside' = inside /\ answers' = answers
    BY <1>9 DEF TickPoll, NoCallback, Step
  <2>2. CASE Calm
    BY <1>7, <2>1, <2>2 DEF Calm
  <2>3. CASE conn.st = "Querying" /\ conn.for \in Requests /\ Worked(conn, conn', conn.for, conn.op = "StmtPrepare")
    <3> DEFINE prep == conn.op = "StmtPrepare"
    <3>1. conn.queue = <<>> /\ conn.pres = FALSE /\ conn.cb = conn.for /\ conn.for \in Unanswered(issued, answers)
      BY <1>3, <2>3 DEF Flow
    <3>2. conn.outcome[conn.for] = "none" /\ conn.pstmt = FALSE /\ (prep <=> conn.for \in Prepares)
      BY <1>3, <2>3 DEF Own
    <3>3. conn.dstmt = "no" /\ prep \in BOOLEAN /\ Worked(conn, conn', conn.for, prep)
      BY <1>6, <2>1, <2>3
    <3> HIDE DEF prep
    <3>4. Own(conn', "connect", running, issued, inside, answers)
      BY <1>4, <1>5, <2>3, <3>1, <3>2, <3>3, OwnTaken
    <3>5. QED
      BY <2>1, <3>4
  <2>4. QED
    BY <1>1, <1>9, <2>2, <2>3, TickPollGives
<1>10. CASE \/ TickTimeout \/ TickConnect \/ TickRelease \/ ServerAnswers \/ ConnPing \/ ConnClose
            \/ \E id \in Ids : ConnStmtClose(id)
  <2>1. issued' = issued /\ inside' = inside /\ answers' = answers
    BY <1>10 DEF TickTimeout, TickConnect, TickRelease, ServerAnswers, ConnPing, ConnClose, ConnStmtClose, NoCallback, Give
  <2>2. Quiet(conn, conn')
    BY <1>1, <1>10, OtherCalm DEF Calm
  <2>3. ((pc' = "result_cb") <=> (pc = "result_cb")) /\ (pc = "result_cb" => running' = running)
    BY <1>10 DEF TickTimeout, TickConnect, TickRelease, ServerAnswers, ConnPing, ConnClose, ConnStmtClose, AfterMethod, NoCallback,
         Step
  <2>4. QED
    BY <1>7, <2>1, <2>2, <2>3
<1>11. ASSUME conn.queue # <<>>, pc # "result_cb", pc' # "result_cb", issued' = issued, inside' = inside,
              Give(Head(conn.queue), "err"), conn' = [conn EXCEPT !.queue = Tail(@)]
       PROVE  Own(conn', pc', running', issued', inside', answers')
  <2>1. /\ Head(conn.queue) \in Unanswered(issued, answers) /\ Tail(conn.queue) = <<>>
        /\ conn.st # "Querying" /\ conn.pres = FALSE
    BY <1>1, <1>3, <1>11, DrainFlow
  <2>2. conn.pstmt = FALSE /\ Expected(conn.outcome, Head(conn.queue)) = "err"
    BY <1>1, <1>3, <1>11, DrainOwn
  <2>3. /\ conn'.queue = <<>> /\ conn'.st # "Querying" /\ conn'.pres = FALSE /\ conn'.pstmt = FALSE
        /\ conn'.outcome = conn.outcome /\ conn'.dstmt = "no"
    BY <1>4, <1>6, <1>11, <2>1, <2>2 DEF ConnType
  <2>4. QED
    BY <1>1, <1>3, <1>5, <1>11, <2>1, <2>2, <2>3, OwnGiven
<1>12. CASE TickResult
  <2>1. pc = "result" /\ issued' = issued /\ inside' = inside
    BY <1>12 DEF TickResult
  <2>2. CASE conn.pres
    <3>1. /\ conn.cb \in Unanswered(issued, answers) /\ conn.queue = <<>> /\ conn.st # "Querying"
      BY <1>3, <2>2 DEF Flow
    <3>2. /\ pc' = "result_cb" /\ Give(conn.cb, Answer(conn)) /\ conn' = TakeResult(conn)
      BY <1>12, <2>2 DEF TickResult
    <3>3. Answer(conn) \in {"ok", "err", "stmt"}
      BY DEF Answer
    <3>4. /\ conn'.queue = <<>> /\ conn'.st # "Querying" /\ conn'.pres = FALSE /\ conn'.pstmt = FALSE
          /\ conn'.outcome = conn.outcome /\ conn'.dstmt = IF conn.pstmt /\ ~conn.perr THEN "now" ELSE conn.dstmt
      BY <1>4, <3>1, <3>2 DEF TakeResult, ConnType
    <3>5. running' = conn.cb /\ conn.dstmt = "no"
      BY <1>6, <2>1, <3>2 DEF Give
    <3>6. conn.pstmt => conn.cb \in Prepares
      BY <1>3 DEF Own
    <3>7. conn'.dstmt = "no" \/ (conn'.dstmt = "now" /\ pc' = "result_cb" /\ running' \in Prepares)
      BY <3>2, <3>4, <3>5, <3>6
    <3>8. conn.cb \notin inside => Answer(conn) = Expected(conn.outcome, conn.cb)
      <4>1. conn.cb \notin inside => /\ conn.perr <=> conn.outcome[conn.cb] # "ok"
                                     /\ ~conn.perr => (conn.pstmt <=> conn.cb \in Prepares)
        BY <1>3, <2>2 DEF Own
      <4>2. QED
        BY <3>5, <4>1 DEF Answer, Expected
    <3>9. QED
      BY <1>1, <1>3, <1>5, <2>1, <3>1, <3>2, <3>3, <3>4, <3>7, <3>8, OwnGiven
  <2>3. CASE ~conn.pres
    BY <1>7, <1>8, <1>12, <2>1, <2>3 DEF TickResult
  <2>4. QED
    BY <2>2, <2>3
<1>13. CASE TickDrain
  <2>1. pc = "drain" /\ pc' # "result_cb" /\ issued' = issued /\ inside' = inside
    BY <1>13 DEF TickDrain
  <2>2. CASE conn.queue # <<>> /\ Terminal(conn)
    BY <1>11, <1>13, <2>1, <2>2 DEF TickDrain
  <2>3. CASE conn.queue # <<>> /\ ~Terminal(conn) /\ ~NotUsable(conn)
    <3> DEFINE h == Head(conn.queue)
               e == [conn EXCEPT !.queue = Tail(@), !.cb = h]
    <3>1. answers' = answers /\ pc' = "release" /\ running' = running
      BY <1>13, <2>3 DEF TickDrain
    <3>2. h \in Queries /\ e \in ConnType /\ Taken(e, conn', h, FALSE)
      BY <1>1, <1>13, <2>3, DrainGives
    <3>3. /\ h \in Unanswered(issued, answers) /\ Tail(conn.queue) = <<>>
          /\ conn.st # "Querying" /\ conn.pres = FALSE
      BY <1>1, <1>3, <2>3, DrainFlow
    <3>4. conn.pstmt = FALSE /\ conn.outcome[h] = "none"
      BY <1>1, <1>3, <2>3, DrainOwn
    <3>5. /\ e.queue = <<>> /\ e.st # "Querying" /\ e.pres = FALSE /\ e.pstmt = FALSE /\ e.cb = h
          /\ e.outcome = conn.outcome /\ e.dstmt = conn.dstmt
      BY <1>4, <3>3, <3>4 DEF ConnType
    <3>6. h \in Requests /\ (FALSE <=> h \in Prepares) /\ e.dstmt = "no"
      BY <1>6, <2>1, <3>2, <3>5, RequestsAssumption DEF Requests
    <3> HIDE DEF e, h
    <3>7. Own(conn', "release", running, issued, inside, answers)
      BY <1>4, <1>5, <3>2, <3>3, <3>4, <3>5, <3>6, OwnTaken
    <3>8. QED
      BY <2>1, <3>1, <3>7
  <2>4. CASE conn.queue = <<>> \/ (~Terminal(conn) /\ NotUsable(conn))
    <3>1. conn' = conn /\ answers' = answers
      BY <1>13, <2>4 DEF TickDrain
    <3>2. QED
      BY <1>7, <1>8, <2>1, <3>1
  <2>5. QED
    BY <2>2, <2>3, <2>4
<1>14. CASE CloseDrain
  <2>1. pc = "close_drain" /\ pc' # "result_cb" /\ issued' = issued /\ inside' = inside
    BY <1>14 DEF CloseDrain
  <2>2. CASE conn.queue = <<>>
    BY <1>7, <1>8, <1>14, <2>1, <2>2 DEF CloseDrain
  <2>3. CASE conn.queue # <<>>
    BY <1>11, <1>14, <2>1, <2>3 DEF CloseDrain
  <2>4. QED
    BY <2>2, <2>3
<1>15. CASE CallbackReturns
  <2>1. issued' = issued /\ inside' = inside /\ answers' = answers /\ running' = running
    BY <1>15 DEF CallbackReturns
  <2>2. CASE pc = "result_cb" /\ pc' = "drain" /\ conn' = AfterResult(conn)
    <3>1. conn'.dstmt = "no"
      BY <1>3, <1>4, <2>2 DEF AfterResult, ConnType, Own
    <3>2. /\ conn'.outcome = conn.outcome /\ conn'.queue = conn.queue /\ conn'.st = conn.st /\ conn'.for = conn.for
          /\ conn'.op = conn.op /\ conn'.pstmt = conn.pstmt /\ conn'.pres = conn.pres /\ conn'.cb = conn.cb
      BY <1>4, <2>2 DEF AfterResult, ConnType
    <3>3. conn.pres => conn.cb \in inside
      BY <1>3, <2>2 DEF Own
    <3>4. Own(conn', "drain", running, issued, inside, answers)
      BY <1>3, <3>1, <3>2, <3>3 DEF Own
    <3>5. QED
      BY <2>1, <2>2, <3>4
  <2>3. CASE conn' = conn /\ ((pc' = "result_cb") <=> (pc = "result_cb"))
    BY <1>7, <1>8, <2>1, <2>3
  <2>4. QED
    BY <1>15, <2>2, <2>3 DEF CallbackReturns, Step
<1>16. CASE CallbackThrows
  <2>1. /\ issued' = issued /\ inside' = inside /\ answers' = answers /\ running' = running /\ pc' = "out"
        /\ running \in client.throwing /\ conn' = [conn EXCEPT !.dstmt = IF @ = "now" THEN "left" ELSE @]
    BY <1>16 DEF CallbackThrows
  <2>2. conn.dstmt = "no"
    <3>1. running \notin Prepares
      BY <1>2, <1>4, <2>1 DEF PreparesReturn
    <3>2. QED
      BY <1>3, <3>1 DEF Own
  <2>3. conn' = conn
    BY <1>4, <2>1, <2>2 DEF ConnType
  <2>4. Own(conn, "out", running, issued, inside, answers)
    BY <1>3, <2>2 DEF Own
  <2>5. QED
    BY <2>1, <2>3, <2>4
<1>17. CASE \E r \in Queries : ConnQuery(r)
  <2>1. PICK r \in Queries : ConnQuery(r)
    BY <1>17
  <2>2. r \in Requests /\ Issue(r) /\ (FALSE <=> r \in Prepares)
    BY <2>1, RequestsAssumption DEF ConnQuery, Requests
  <2>3. Called(r, FALSE)
    BY <1>1, <2>1, ConnQueryGives
  <2>4. QED
    BY <1>1, <1>2, <1>3, <2>2, <2>3, OwnCalled
<1>18. CASE \E r \in Prepares : ConnStmtPrepare(r)
  <2>1. PICK r \in Prepares : ConnStmtPrepare(r)
    BY <1>18
  <2>2. r \in Requests /\ Issue(r) /\ (TRUE <=> r \in Prepares)
    BY <2>1 DEF ConnStmtPrepare, Requests
  <2>3. Called(r, TRUE)
    BY <1>1, <2>1, ConnStmtPrepareGives
  <2>4. QED
    BY <1>1, <1>2, <1>3, <2>2, <2>3, OwnCalled
<1>19. CASE \E r \in Executes, id \in Ids : ConnStmtExecute(r, id)
  <2>1. PICK r \in Executes, id \in Ids : ConnStmtExecute(r, id)
    BY <1>19
  <2>2. r \in Requests /\ Issue(r) /\ (FALSE <=> r \in Prepares)
    BY <2>1, RequestsAssumption DEF ConnStmtExecute, Requests
  <2>3. Called(r, FALSE)
    BY <1>1, <2>1, ConnStmtExecuteGives
  <2>4. QED
    BY <1>1, <1>2, <1>3, <2>2, <2>3, OwnCalled
<1>20. CASE UNCHANGED vars
  BY <1>7, <1>8, <1>20 DEF vars
<1>21. QED
  BY <1>9, <1>10, <1>12, <1>13, <1>14, <1>15, <1>16, <1>17, <1>18, <1>19, <1>20 DEF Next, TickStep, Client

\* For a client that waits, the slots of the connection always say what became of its own request.
THEOREM OwnInvariant ==
    ASSUME PreparesReturn
    PROVE  Spec => []OwnInv
<1>1. ASSUME Init PROVE Own(conn, pc, running, issued, inside, answers)
  <2>1. /\ pc = "out" /\ running = NoReq /\ issued = {} /\ inside = {} /\ answers = [r \in Requests |-> <<>>]
    BY <1>1 DEF Init
  <2>2. DOMAIN <<>> = {}
    OBVIOUS
  <2>3. \A r \in Requests : answers[r] = <<>> /\ Fresh.outcome[r] = "none"
    BY <2>1 DEF Fresh
  <2>4. Recorded(Fresh.outcome, issued, inside, answers)
    BY <2>2, <2>3 DEF Recorded
  <2>5. Own(Fresh, pc, running, issued, inside, answers)
    BY <2>1, <2>4 DEF Own, Fresh
  <2>6. Quiet(Fresh, conn)
    BY <1>1, ConnectGives DEF Init
  <2>7. QED
    BY <2>5, <2>6, OwnKept
<1>2. Spec => []FlowInv
  BY FlowInvariant
<1>3. FlowInv /\ Init => OwnInv
  BY <1>1 DEF OwnInv
<1>4. OwnInv /\ [Next]_vars => OwnInv'
  BY OwnNext
<1>5. QED
  BY <1>2, <1>3, <1>4, PTL DEF Spec

\* A client that waits for each answer gets at most one for each request, and it is what became of that request: an error
\* exactly if it failed, a statement id exactly if it was a prepare that succeeded. Requests made in the callback of another
\* are excepted from the second part (AnswersOwn).
THEOREM AnswersAlwaysOwnOnce ==
    ASSUME PreparesReturn
    PROVE  Spec => []AnswersOwnOnce
<1>1. OwnInv => AnswersOwnOnce
  <2>1. SUFFICES ASSUME OwnInv, ~client.overlap
                 PROVE  AtMostOnce /\ AnswersOwn
    BY DEF AnswersOwnOnce
  <2>2. Flow(conn, issued, answers) /\ Own(conn, pc, running, issued, inside, answers)
    BY <2>1 DEF OwnInv, FlowInv
  <2>3. AtMostOnce
    BY <2>2 DEF AtMostOnce, Flow, OneByOne
  <2>4. AnswersOwn
    BY <2>2 DEF AnswersOwn, Own, Recorded, Expected
  <2>5. QED
    BY <2>3, <2>4
<1>2. QED
  BY <1>1, OwnInvariant, PTL
=============================================================================
