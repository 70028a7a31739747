-------------------------- MODULE MysqlConnection --------------------------
(***************************************************************************)
(* One MysqlConnection (native/mysql/mysql_connection.cpp) behind the Lua  *)
(* object that mysql.connect returns (native_mysql.cpp): an asynchronous   *)
(* client driven by Tick, with one result callback slot, one pending       *)
(* result slot and a queue of queries.                                     *)
(*                                                                         *)
(* Tick is not atomic: it dispatches Lua callbacks, which may use the      *)
(* connection again, close it, or throw.  pc says where it is.             *)
(*                                                                         *)
(* A request stands for one call of query, stmt_prepare or stmt_execute    *)
(* and for the callback given with it.  SQL, rows and error texts are left *)
(* out; that a request succeeded or failed is not.                         *)
(***************************************************************************)
EXTENDS Integers, Sequences, FiniteSets

CONSTANTS
    Queries, Prepares, Executes,  \* the requests, each made one time at most
    Clients                       \* what scripts may do: see ClientType

Requests == Queries \cup Prepares \cup Executes
NoReq == "none"
Ids == 1..Cardinality(Prepares)   \* statement ids

ClientType ==
    [requests : SUBSET Requests,
     overlap  : BOOLEAN,   \* may it make a request before the last one is answered?
     inside   : SUBSET {"connect_cb", "result_cb", "drain_cb", "close_cb"},
                           \* the callbacks (values of pc) inside which it may use the connection
     close    : BOOLEAN,   \* may it close the connection?
     ping     : BOOLEAN,   \* may it ping?
     sync     : BOOLEAN,   \* can libmariadb fail an operation without waiting?
     throwing : SUBSET (Requests \cup {NoReq}),
                           \* the requests whose callback may throw; NoReq is the connect callback
     results  : 1..2]      \* bound: result sets of one query

ASSUME RequestsAssumption ==
    /\ Clients \subseteq ClientType
    /\ NoReq \notin Requests
    /\ Queries \cap Prepares = {} /\ Queries \cap Executes = {} /\ Prepares \cap Executes = {}

VARIABLES
    client,    \* what the script does; never changes
    conn,      \* the fields of the MysqlConnection: see Fresh
    pc,        \* where Tick or Close is; "out": no C++ code of the connection runs
    running,   \* the request whose callback runs, NoReq for the connect callback
    left,      \* result sets still to be given to that callback
    arrived,   \* the server has answered what wait_ev_ waits for
    issued,    \* history: the requests made
    inside,    \* history: those made inside the callback of another
    answers    \* history: what each request's callback was given, in order

vars == <<client, conn, pc, running, left, arrived, issued, inside, answers>>

\* A MysqlConnection as constructed.  for and outcome are history: the request that the
\* operation on the handle serves, and how each request really ended.
Fresh ==
    [open     |-> FALSE,    \* mysql_ # nullptr
     st       |-> "Idle",   \* state_
     ready    |-> FALSE,    \* ready_
     op       |-> "None",   \* wait_op_
     ev       |-> FALSE,    \* wait_ev_ is pending
     cb       |-> NoReq,    \* result_cb_
     queue    |-> <<>>,     \* queued_queries_
     pconn    |-> "no",     \* pending_connect_, and whether pending_connect_err_ is set
     pres     |-> FALSE,    \* pending_result_
     perr     |-> FALSE,    \* pending_result_err_ is set
     nres     |-> 0,        \* pending_results_.size()
     pstmt    |-> FALSE,    \* has_pending_stmt_id_
     dstmt    |-> "no",     \* dispatch_stmt_id_ # 0: set by this Tick ("now") or left by another
     stmts    |-> {},       \* prepared_statements_
     nextId   |-> 1,        \* next_stmt_id_
     exec     |-> 0,        \* pending_exec_stmt_id_
     closing  |-> FALSE,    \* close_pending_
     for      |-> NoReq,
     outcome  |-> [r \in Requests |-> "none"]]

-----------------------------------------------------------------------------
(* Operations, as the set of connections each may leave behind.            *)

Teardown(c) == [c EXCEPT !.ev = FALSE, !.stmts = {}, !.open = FALSE, !.ready = FALSE]

Arm(c, op) == [c EXCEPT !.op = op, !.ev = TRUE]

\* The pending result slot takes an error, and the request ends in one.
Refuse(c, r) == [c EXCEPT !.perr = TRUE, !.pres = TRUE, !.outcome[r] = "err"]

\* An operation on the handle fails.  Where it fails at once, the event of a ping that it
\* has overtaken stays armed.
Fail(c) == [Refuse(c, c.for) EXCEPT !.st = "Ready", !.op = "None"]

\* Mutant: a success does not clear the error that an earlier request left behind.
FinishQueryOkKeepsError(c) ==
    [c EXCEPT !.op = "None", !.ev = FALSE, !.pres = TRUE, !.st = "Ready", !.outcome[c.for] = "ok"]

\* A query or an execute is done.
FinishQueryOk(c) ==
    [c EXCEPT !.op = "None", !.ev = FALSE, !.perr = FALSE, !.pres = TRUE,
              !.st = "Ready", !.outcome[c.for] = "ok"]

FinishConnect(c, ok) ==
    IF ok THEN [c EXCEPT !.op = "None", !.ev = FALSE, !.st = "Ready", !.ready = TRUE, !.pconn = "ok"]
          ELSE [c EXCEPT !.op = "None", !.ev = FALSE, !.st = "Error", !.pconn = "err"]

\* Connect on a fresh object; mysql_init may fail, and the answer may already be there.
ConnectOutcomes(c) ==
    LET d == [Teardown(c) EXCEPT !.closing = FALSE, !.open = TRUE, !.st = "Connecting",
                                 !.nres = 0, !.nextId = 1]
    IN {[Teardown(c) EXCEPT !.st = "Error", !.pconn = "err"],
        Arm(d, "Connect"), FinishConnect(d, TRUE), FinishConnect(d, FALSE)}

Failures(c) == IF client.sync THEN {Fail(c)} ELSE {}

\* libmariadb refuses before the operation starts: the handle and its wait stay as they are.
EarlyFailures(c, r) == IF client.sync THEN {Refuse(c, r)} ELSE {}

\* The last result set of a query is read: it is stored, or that waits or fails.
StoreLast(c) ==
    {Arm(c, "Store"), FinishQueryOk([c EXCEPT !.nres = @ + 1])} \cup Failures(c)

\* A result set has been stored: the query is done, or there is one more result set.
Stored(c) ==
    LET d == [c EXCEPT !.nres = @ + 1]
    IN {FinishQueryOk(d)} \cup
       (IF d.nres < client.results THEN {Arm(d, "Next")} \cup Failures(d) \cup StoreLast(d) ELSE {})

StartStore(c) == {Arm(c, "Store")} \cup Failures(c) \cup Stored(c)

\* Mutant: a query on a handle that is not free starts at once instead of being queued.
NotUsableDead(c) == ~c.ready

\* The handle is not free for another query: Query puts it in the queue.
NotUsable(c) == c.st # "Ready" \/ ~c.ready

Query(c, r) ==
    IF ~c.open \/ c.closing THEN {Refuse(c, r)}
    ELSE IF NotUsable(c) THEN {[c EXCEPT !.queue = Append(@, r)]}
    ELSE LET d == [c EXCEPT !.st = "Querying", !.nres = 0, !.for = r]
         IN {Arm(d, "Query")} \cup Failures(d) \cup StartStore(d)

\* A statement was prepared: its id waits to be given to the callback.
Prepared(c) ==
    [c EXCEPT !.stmts = @ \cup {c.nextId}, !.nextId = @ + 1, !.pstmt = TRUE, !.perr = FALSE,
              !.pres = TRUE, !.st = "Ready", !.op = "None", !.outcome[c.for] = "ok"]

StmtPrepare(c, r) ==
    IF ~c.open \/ c.closing \/ NotUsable(c) THEN {Refuse(c, r)}
    ELSE LET d == [c EXCEPT !.st = "Querying", !.for = r]
         IN {Arm(d, "StmtPrepare"), Prepared(d)} \cup Failures(d) \cup EarlyFailures(c, r)

StmtExecute(c, r, id) ==
    IF ~c.open \/ c.closing \/ NotUsable(c) \/ id \notin c.stmts THEN {Refuse(c, r)}
    ELSE LET d == [c EXCEPT !.st = "Querying", !.nres = 0, !.exec = id, !.for = r]
         IN {Arm(d, "StmtExecute"), FinishQueryOk([d EXCEPT !.nres = 1])} \cup Failures(d)
            \cup EarlyFailures([c EXCEPT !.nres = 0], r)

PingDone(c, ok) ==
    IF ok THEN [c EXCEPT !.op = "None"]
          ELSE [c EXCEPT !.op = "None", !.st = "Error", !.ready = FALSE]

\* A ping leaves st as it is: the next request, or the next ping, starts over it.
Ping(c) ==
    IF c.closing \/ ~c.open \/ NotUsable(c) THEN {c}
    ELSE {Arm(c, "Ping"), PingDone(c, TRUE), PingDone(c, FALSE)}

\* Close, up to the queries that it still has to answer.
Closed(c) ==
    [Teardown(c) EXCEPT !.st = "Idle", !.pconn = "no", !.pres = FALSE, !.nres = 0, !.nextId = 1]

\* Continue: the event that was waited for has come.  When the statement was closed in
\* the meantime nothing happens at all.
Continue(c) ==
    LET d == [c EXCEPT !.ev = FALSE]
    IN CASE ~c.open -> {d}
         [] c.op = "Connect"     -> {FinishConnect(d, TRUE), FinishConnect(d, FALSE)}
         [] c.op = "Query"       -> {Fail(d)} \cup StartStore(d)
         [] c.op = "Store"       -> {Fail(d)} \cup Stored(d)
         [] c.op = "Next"        -> {Fail(d)} \cup StoreLast(d)
         [] c.op = "Ping"        -> {PingDone(d, TRUE), PingDone(d, FALSE)}
         [] c.op = "StmtPrepare" -> {Fail(d), Prepared(d)}
         [] c.op = "StmtExecute" -> IF c.exec \in c.stmts
                                    THEN {Fail(d), FinishQueryOk([d EXCEPT !.nres = 1])}
                                    ELSE {d}
         [] OTHER -> {d}

-----------------------------------------------------------------------------
(* The client: calls of the Lua methods, from outside or inside callbacks. *)

InCb == pc \in {"connect_cb", "result_cb", "drain_cb", "close_cb"}

Init ==
    /\ client \in Clients
    /\ conn \in ConnectOutcomes(Fresh)
    /\ pc = "out"
    /\ running = NoReq
    /\ left = 0
    /\ arrived = FALSE
    /\ issued = {}
    /\ inside = {}
    /\ answers = [r \in Requests |-> <<>>]

ClientRuns == pc \in {"out"} \cup client.inside

Outstanding == {r \in issued : answers[r] = <<>>}

\* A client that waits for each answer, with all its result sets.  The end of a ping is
\* not told to anybody, so no client waits for it.
Disciplined == client.overlap \/ Outstanding = {}

\* A method called at tick depth 0 ends with MaybeReleaseOwnedConn.
AfterMethod(c) ==
    IF pc = "out" /\ c.closing
    THEN conn' = Closed(c) /\ pc' = "close_drain"
    ELSE conn' = c /\ UNCHANGED pc

Issue(r) ==
    /\ ClientRuns
    /\ Disciplined
    /\ r \in client.requests \ issued
    /\ left = 0
    /\ issued' = issued \cup {r}
    /\ inside' = IF pc = "result_cb" THEN inside \cup {r} ELSE inside
    /\ UNCHANGED <<running, left, answers>>

\* Whether an event that has arrived is still waited for after c replaces conn.
KeepArrived(c) == arrived' = (arrived /\ c.ev /\ c.op \in {conn.op, "None"})

ConnQuery(r) ==
    /\ Issue(r)
    /\ \E c \in Query([conn EXCEPT !.cb = r], r) : AfterMethod(c) /\ KeepArrived(c)

ConnStmtPrepare(r) ==
    /\ Issue(r)
    /\ conn.ready
    /\ \E c \in StmtPrepare([conn EXCEPT !.cb = r], r) : AfterMethod(c) /\ KeepArrived(c)

ConnStmtExecute(r, id) ==
    /\ Issue(r)
    /\ conn.ready
    /\ \E c \in StmtExecute([conn EXCEPT !.cb = r], r, id) : AfterMethod(c) /\ KeepArrived(c)

ConnStmtClose(id) ==
    /\ ClientRuns
    /\ Disciplined
    /\ conn.ready
    /\ id \in conn.stmts
    /\ AfterMethod([conn EXCEPT !.stmts = @ \ {id}])
    /\ UNCHANGED <<running, left, arrived, issued, inside, answers>>

ConnPing ==
    /\ client.ping
    /\ ClientRuns
    /\ conn.ready
    /\ \E c \in Ping(conn) : conn' = c /\ KeepArrived(c)
    /\ UNCHANGED <<pc, running, left, issued, inside, answers>>

\* Mutant: close inside a callback closes at once.
RequestCloseNow(c) == Closed(c)

RequestClose(c) == [c EXCEPT !.closing = TRUE]

\* conn:close(): at once when no callback runs, otherwise when Tick is over.
ConnClose ==
    /\ client.close
    /\ pc = "out" \/ InCb
    /\ IF pc = "out"
       THEN conn' = Closed(conn) /\ pc' = "close_drain" /\ arrived' = FALSE
       ELSE conn' = RequestClose(conn) /\ UNCHANGED <<pc, arrived>>
    /\ UNCHANGED <<running, left, issued, inside, answers>>

\* The server answers (external).
ServerAnswers ==
    /\ conn.ev /\ ~arrived
    /\ arrived' = TRUE
    /\ UNCHANGED <<conn, pc, running, left, issued, inside, answers>>

-----------------------------------------------------------------------------
(* Tick, in the steps between which callbacks run.                         *)

Step(from, to) == pc = from /\ pc' = to

Give(r, a) ==
    /\ running' = r
    /\ answers' = IF r = NoReq THEN answers ELSE [answers EXCEPT ![r] = Append(@, a)]

NoCallback == UNCHANGED <<running, left, issued, inside, answers>>

\* runtime.tick: the connect timeout, then Poll, which runs Continue when its event came.
TickTimeout ==
    /\ Step("out", "connect")
    /\ conn.st = "Connecting"
    /\ conn' = Teardown([conn EXCEPT !.st = "Error", !.pconn = "err"])
    /\ arrived' = FALSE
    /\ NoCallback

TickPoll ==
    /\ Step("out", "connect")
    /\ IF conn.ev /\ arrived THEN conn' \in Continue(conn) ELSE conn' = conn
    /\ arrived' = FALSE
    /\ NoCallback

TickConnect ==
    /\ pc = "connect"
    /\ IF conn.pconn = "no"
       THEN pc' = "result" /\ UNCHANGED <<conn, running, answers>>
       ELSE pc' = "connect_cb" /\ conn' = [conn EXCEPT !.pconn = "no"] /\ Give(NoReq, "ok")
    /\ UNCHANGED <<left, arrived, issued, inside>>

\* What the callback is given: an error, a statement id, or results.
Answer(c) == IF c.perr THEN "err" ELSE IF c.pstmt \/ c.dstmt # "no" THEN "stmt" ELSE "ok"

\* Tick empties the pending result slot before it dispatches.
TakeResult(c) ==
    [c EXCEPT !.pres = FALSE, !.pstmt = FALSE,
              !.dstmt = IF c.pstmt /\ ~c.perr THEN "now" ELSE @]

TickResult ==
    /\ pc = "result"
    /\ IF ~conn.pres
       THEN pc' = "drain" /\ UNCHANGED <<conn, running, left, answers>>
       ELSE /\ pc' = "result_cb"
            /\ conn' = TakeResult(conn)
            /\ left' = IF Answer(conn) = "ok" /\ conn.nres > 1 THEN conn.nres - 1 ELSE 0
            /\ Give(conn.cb, Answer(conn))
    /\ UNCHANGED <<arrived, issued, inside>>

\* Mutant: the queue is drained only when the connection is usable.
TerminalNever(c) == FALSE

\* DrainQueryQueue: on a dead connection every queued query is answered with an error;
\* on a usable one the next query starts.
Terminal(c) == c.st \in {"Error", "Idle"}

TickDrain ==
    /\ pc = "drain"
    /\ \/ /\ conn.queue # <<>> /\ Terminal(conn)
          /\ pc' = "drain_cb"
          /\ conn' = [conn EXCEPT !.queue = Tail(@)]
          /\ Give(Head(conn.queue), "err")
          /\ UNCHANGED arrived
       \/ /\ conn.queue # <<>> /\ ~Terminal(conn) /\ ~NotUsable(conn)
          /\ pc' = "release"
          /\ \E c \in Query([conn EXCEPT !.queue = Tail(@), !.cb = Head(conn.queue)], Head(conn.queue)) :
                conn' = c /\ KeepArrived(c)
          /\ UNCHANGED <<running, answers>>
       \/ /\ conn.queue = <<>> \/ (~Terminal(conn) /\ NotUsable(conn))
          /\ pc' = "release"
          /\ UNCHANGED <<conn, running, answers, arrived>>
    /\ UNCHANGED <<left, issued, inside>>

\* MaybeReleaseOwnedConn after Tick.
TickRelease ==
    /\ pc = "release"
    /\ IF conn.closing
       THEN conn' = Closed(conn) /\ pc' = "close_drain" /\ arrived' = FALSE
       ELSE pc' = "out" /\ UNCHANGED <<conn, arrived>>
    /\ NoCallback

\* Close answers what is in the queue; close_pending_ stays set.
CloseDrain ==
    /\ pc = "close_drain"
    /\ IF conn.queue = <<>>
       THEN pc' = "out" /\ UNCHANGED <<conn, running, answers>>
       ELSE pc' = "close_cb" /\ conn' = [conn EXCEPT !.queue = Tail(@)] /\ Give(Head(conn.queue), "err")
    /\ UNCHANGED <<left, arrived, issued, inside>>

\* What Tick clears when the result callback has returned.
AfterResult(c) ==
    [c EXCEPT !.perr = FALSE, !.nres = 0, !.dstmt = IF @ = "now" THEN "no" ELSE @]

CallbackReturns ==
    \/ /\ pc = "result_cb" /\ left > 0 /\ ~conn.closing
       /\ left' = left - 1
       /\ UNCHANGED <<conn, pc, running, arrived, issued, inside, answers>>
    \/ /\ pc = "result_cb" /\ (left = 0 \/ conn.closing)
       /\ pc' = "drain"
       /\ conn' = AfterResult(conn)
       /\ left' = 0
       /\ UNCHANGED <<running, arrived, issued, inside, answers>>
    \/ /\ \/ Step("connect_cb", "result")
          \/ Step("drain_cb", "drain")
          \/ Step("close_cb", "close_drain")
       /\ UNCHANGED <<conn, running, left, arrived, issued, inside, answers>>

\* An error in a callback leaves Tick or Close where it is.
CallbackThrows ==
    /\ InCb
    /\ running \in client.throwing
    /\ pc' = "out"
    /\ left' = 0
    /\ conn' = [conn EXCEPT !.dstmt = IF @ = "now" THEN "left" ELSE @]
    /\ UNCHANGED <<running, arrived, issued, inside, answers>>

TickStep ==
    \/ TickPoll \/ TickConnect \/ TickResult \/ TickDrain \/ TickRelease
    \/ CloseDrain \/ CallbackReturns

Client ==
    \/ \E r \in Queries : ConnQuery(r)
    \/ \E r \in Prepares : ConnStmtPrepare(r)
    \/ \E r \in Executes, id \in Ids : ConnStmtExecute(r, id)
    \/ \E id \in Ids : ConnStmtClose(id)
    \/ ConnPing
    \/ ConnClose

Next ==
    /\ \/ TickStep
       \/ TickTimeout
       \/ CallbackThrows
       \/ ServerAnswers
       \/ Client
    /\ UNCHANGED client

\* The host keeps calling runtime.tick, callbacks return, and the server answers.
Fairness == WF_vars(TickStep /\ UNCHANGED client) /\ WF_vars(ServerAnswers /\ UNCHANGED client)

Spec == Init /\ [][Next]_vars /\ Fairness

-----------------------------------------------------------------------------

\* The state variables have their types.
ConnType ==
    [open : BOOLEAN, ready : BOOLEAN, ev : BOOLEAN, pres : BOOLEAN, perr : BOOLEAN, pstmt : BOOLEAN, closing : BOOLEAN,
     st : {"Idle", "Connecting", "Ready", "Querying", "Error"},
     op : {"None", "Connect", "Query", "Store", "Next", "Ping", "StmtPrepare", "StmtExecute"},
     cb : Requests \cup {NoReq}, for : Requests \cup {NoReq}, queue : Seq(Queries),
     pconn : {"no", "ok", "err"}, dstmt : {"no", "now", "left"}, nres : Nat,
     stmts : SUBSET Nat, nextId : Nat, exec : Nat,
     outcome : [Requests -> {"none", "ok", "err"}]]

TypeOK ==
    /\ client \in Clients
    /\ conn \in ConnType
    /\ pc \in {"out", "connect", "result", "drain", "release", "close_drain",
               "connect_cb", "result_cb", "drain_cb", "close_cb"}
    /\ running \in Requests \cup {NoReq}
    /\ left \in Nat
    /\ arrived \in BOOLEAN
    /\ inside \subseteq issued /\ issued \subseteq Requests
    /\ answers \in [Requests -> Seq({"ok", "err", "stmt"})]

\* A request's callback fires at most once (mysql_connection.cpp:214,
\* native/README.md:614).  The result sets of one query count as one answer.
AtMostOnce == \A r \in Requests : Len(answers[r]) <= 1

\* A callback is told what became of its own request: an error exactly when that request
\* failed, and a statement id exactly when it was a prepare that succeeded.  This is about
\* requests that are not made inside the callback of another.
AnswersOwn ==
    \A r \in Requests \ inside : \A i \in DOMAIN answers[r] :
        answers[r][i] = IF conn.outcome[r] # "ok" THEN "err"
                        ELSE IF r \in Prepares THEN "stmt" ELSE "ok"

\* What a client that waits for each answer is promised: one for each request, and what
\* became of that request (native/README.md:614-618).
AnswersOwnOnce == ~client.overlap => AtMostOnce /\ AnswersOwn

\* The MYSQL handle carries one operation at a time.  While a request's operation is on
\* it, from its first packet to its last result set, neither another request nor a ping
\* starts over it, whatever callbacks, timeouts and closes do (the tests of state_ and
\* ready_ in Query, StmtPrepare, StmtExecute and Ping).  A ping is the exception: Ping leaves state_ Ready
\* (mysql_connection.cpp:502), so that a request may start while one is in flight.
OnHandle(c) == c.op \notin {"None", "Ping"}

SingleFlight ==
    [][OnHandle(conn) => conn'.for = conn.for /\ conn'.op # "Ping"]_vars

\* The result sets still to be given to a callback are still there: a close inside the
\* callback has not freed them under the loop of DispatchCallbackWithResult (892-896).
ResultsStable == (pc = "result_cb" /\ left > 0) => conn.nres > left

\* A request is done with when it is answered, or when the client has closed the
\* connection (native/README.md:614-618).
Answered(r) == answers[r] # <<>> \/ conn.closing \/ conn.st = "Idle"

\* A client that waits gets every answer, unless the connection is closed.
AllAnsweredInTurn == \A r \in Requests : (r \in issued /\ ~client.overlap) ~> Answered(r)
=============================================================================
