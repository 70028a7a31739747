----------------------------- MODULE MysqlPool -----------------------------
(***************************************************************************)
(* The mysql connection pool (native/mysql/mysql_connection_pool.cpp) and  *)
(* its library (native_mysql_pool.cpp): connections that are leased to the *)
(* script one at a time, checked, pinged and reconnected by Tick.          *)
(*                                                                         *)
(* A connection is what MysqlConnection models, here reduced to whether it *)
(* is up, the work it has (queries in flight and queued), whether a ping   *)
(* is in flight and whether its Tick runs a callback.  Clocks are left     *)
(* out: any wait may be over.                                              *)
(*                                                                         *)
(* Close, Reap and the check hold mutex_ while they close connections one  *)
(* by one, and closing one calls the callbacks of its queue: a callback    *)
(* that uses the pool waits for its own thread.                            *)
(***************************************************************************)
EXTENDS Integers, FiniteSets, SequencesExt

CONSTANTS PoolSize,        \* pool_size
          MaxRetries,  \* max_retries
          MaxLeases,   \* bound: leases ever made
          MaxWork      \* bound: queries ever made

VARIABLES pool,     \* closed_ and round_robin_
          mutex,    \* mutex_: the operation that holds it, the entry it has come to, whether it is closing that, and
                    \* whether a callback of that runs; or "stuck", locked by the thread that has it
          entry,    \* pool_: each entry and its connection
          lease,    \* the NativeObjects that acquire and with made: conn (0: zeroed), auto_release
          withs,    \* the pool:with call that is running its function, if any: [lease, conn]
          tick,     \* TickAll: the phase, what it still has to tick, and the connection whose callback runs (0: none)
          asked,    \* history: queries made
          dangling  \* history: a freed connection was ticked

poolVars == <<pool, mutex, entry, lease, withs, tick, asked, dangling>>

Entries == 1..PoolSize
Leases == 1..MaxLeases

NewConn == [st |-> "connecting", use |-> FALSE, healthy |-> FALSE, retry |-> 0, work |-> 0, ping |-> FALSE, depth |-> 0]
Outside == [at |-> "out", left |-> <<>>, conn |-> 0]
Unlocked == [op |-> "free", at |-> 1, closing |-> FALSE, cb |-> FALSE]
NoLease == [conn |-> 0, auto |-> FALSE, new |-> TRUE]

PoolInit ==
    /\ pool = [closed |-> FALSE, rr |-> 1] /\ mutex = Unlocked
    /\ entry = [i \in Entries |-> NewConn]
    /\ lease = [w \in Leases |-> NoLease]
    /\ withs = <<>> /\ tick = Outside /\ asked = 0 /\ dangling = FALSE

\* The script runs and nothing holds the mutex: in the host, in the function of a pool:with, or in a callback of a tick.
Idle == mutex.op = "free"
Running == Idle /\ (tick.conn # 0 \/ tick.at = "out")

-----------------------------------------------------------------------------
(* The library.                                                            *)

Free(e) == ~e.use /\ e.healthy /\ e.st = "up"

\* Mutant: the use of an entry is not looked at.
AcquireShared == {i \in Entries : entry[i].healthy /\ entry[i].st = "up"}

\* The connections Acquire can choose from, round robin.
Acquire == {i \in Entries : Free(entry[i])}

FirstFrom(s) ==
    LET rank(i) == (i + PoolSize - pool.rr) % PoolSize
    IN  CHOOSE i \in s : \A j \in s : rank(i) <= rank(j)

\* AcquireConnObject for lease w; nil if the pool is closed or has no connection.
AcquireConnObject(w) ==
    /\ ~pool.closed /\ Acquire # {}
    /\ lease[w].new /\ \A v \in Leases : v < w => ~lease[v].new
    /\ LET i == FirstFrom(Acquire)
       IN  /\ entry' = [entry EXCEPT ![i].use = TRUE]
           /\ pool' = [pool EXCEPT !.rr = (i % PoolSize) + 1]
           /\ lease' = [lease EXCEPT ![w] = [conn |-> i, auto |-> FALSE, new |-> FALSE]]

PoolAcquire ==
    /\ Running /\ \E w \in Leases : AcquireConnObject(w)
    /\ UNCHANGED <<mutex, withs, tick, asked, dangling>>

PoolWith ==
    /\ Idle /\ tick.at = "out" /\ withs = <<>>
    /\ \E w \in Leases : AcquireConnObject(w) /\ withs' = <<[lease |-> w, conn |-> FirstFrom(Acquire)]>>
    /\ UNCHANGED <<mutex, tick, asked, dangling>>

\* DetachAcquiredWrapper: the connection goes back to the pool, if the lease still has it.
Detached(es, ls, w) == <<IF ls[w].conn = 0 THEN es ELSE [es EXCEPT ![ls[w].conn].use = FALSE],
                         [ls EXCEPT ![w].conn = 0, ![w].auto = FALSE]>>
Detach(w) == LET d == Detached(entry, lease, w) IN entry' = d[1] /\ lease' = d[2]

\* pool:release(conn) and conn:close(), with work under way or not.
PoolRelease ==
    /\ Running
    /\ \E w \in Leases : lease[w].conn # 0 /\ Detach(w)
    /\ UNCHANGED <<pool, mutex, withs, tick, asked, dangling>>

HasPendingWork(e) == e.work > 0 \/ e.ping \/ e.st = "connecting"

\* The function of pool:with returned or threw. The guard looks at the connection it was made with: what has
\* work, be it a ping of the pool, is released by a later tick.
LeaseGuard ==
    /\ Idle /\ tick.at = "out" /\ withs # <<>>
    /\ LET g == Last(withs)
       IN  IF HasPendingWork(entry[g.conn]) THEN lease' = [lease EXCEPT ![g.lease].auto = TRUE] /\ UNCHANGED entry
           ELSE Detach(g.lease)
    /\ withs' = <<>>
    /\ UNCHANGED <<pool, mutex, tick, asked, dangling>>

\* conn:query on a leased connection: what starts, starts over a ping, whose answer is not waited for any more. It does
\* not lock the mutex.
Queried(e) == [e EXCEPT !.work = @ + 1, !.ping = @ /\ ~(e.st = "up" /\ e.work = 0)]
ConnQuery ==
    /\ (Running \/ mutex.cb) /\ asked < MaxWork
    /\ \E w \in Leases :
          /\ lease[w].conn # 0
          /\ entry' = [entry EXCEPT ![lease[w].conn] = Queried(@)]
    /\ asked' = asked + 1
    /\ UNCHANGED <<pool, mutex, lease, withs, tick, dangling>>

\* pool:close(): the leases lose their connections (they are not released), and the connections are closed.
Locks(op) == mutex' = [Unlocked EXCEPT !.op = op]
PoolClose ==
    /\ Running
    /\ lease' = [w \in Leases |-> [lease[w] EXCEPT !.conn = 0]]
    /\ pool' = [pool EXCEPT !.closed = TRUE]
    /\ Locks("close")
    /\ UNCHANGED <<entry, withs, tick, asked, dangling>>

-----------------------------------------------------------------------------
(* Under the mutex: entry by entry.                                        *)

\* On to the next entry; after the last one the mutex is released.
Onward == mutex' = IF mutex.at = PoolSize THEN Unlocked ELSE [mutex EXCEPT !.at = @ + 1, !.closing = FALSE]
At(e) == entry' = [entry EXCEPT ![mutex.at] = e]

\* MysqlConnection::Close drops the query in flight and calls the callbacks of the queue; either may be all there is.
Torn(e, queued) == [e EXCEPT !.st = "down", !.ping = FALSE, !.work = queued]
CloseEntry(e) ==
    /\ mutex' = [mutex EXCEPT !.closing = TRUE]
    /\ \E dropped \in 0..(IF e.st = "up" /\ e.work > 0 THEN 1 ELSE 0) : At(Torn(e, e.work - dropped))

\* Close and Reap: a connection whose Tick is on the stack is freed by a later Reap.
Frees ==
    /\ mutex.op \in {"close", "reap"} /\ ~mutex.closing
    /\ LET e == entry[mutex.at]
       IN  IF e.st = "freed" \/ e.depth > 0 THEN Onward /\ UNCHANGED entry ELSE CloseEntry(e)
    /\ UNCHANGED <<pool, lease, withs, tick, asked, dangling>>

\* The check of an entry: its health, and the heartbeat of one that is idle, a ping that stays in flight or breaks the
\* connection at once (Ping refuses while a query is in flight, but not while its result waits to be delivered; the
\* model does not tell the two apart). One that is down and not in use connects anew, at most max_retries times, after a backoff.
Checked(e) == [e EXCEPT !.healthy = (e.st = "up"), !.retry = IF e.st = "up" \/ e.healthy THEN 0 ELSE @]
TryReconnect(e) == e.st = "down" /\ ~e.use /\ Checked(e).retry < MaxRetries
SendHeartbeat(e) == IF e.st = "up" /\ ~e.use THEN {[e EXCEPT !.ping = TRUE], [e EXCEPT !.st = "down"]} ELSE {}

CheckEntry ==
    /\ mutex.op = "check" /\ ~mutex.closing
    /\ LET e == entry[mutex.at]
       IN  \/ TryReconnect(e) /\ CloseEntry([Checked(e) EXCEPT !.retry = @ + 1])
           \/ (~TryReconnect(e) \/ Checked(e).retry > 0) /\ Onward /\ \E f \in {Checked(e)} \cup SendHeartbeat(Checked(e)) : At(f)
    /\ UNCHANGED <<pool, lease, withs, tick, asked, dangling>>

\* The next callback of the queue; after the last one the connection is freed, or starts to connect.
DrainQueryQueue ==
    /\ mutex.closing /\ ~mutex.cb
    /\ LET e == entry[mutex.at]
       IN  IF e.work > 0 THEN mutex' = [mutex EXCEPT !.cb = TRUE] /\ At([e EXCEPT !.work = @ - 1])
           ELSE Onward /\ At([e EXCEPT !.st = IF mutex.op = "check" THEN "connecting" ELSE "freed"])
    /\ UNCHANGED <<pool, lease, withs, tick, asked, dangling>>

DrainReturns ==
    /\ mutex.cb /\ mutex' = [mutex EXCEPT !.cb = FALSE]
    /\ UNCHANGED <<pool, entry, lease, withs, tick, asked, dangling>>

\* An error of such a callback gives the mutex up; a close returns it to its caller, the rest ends runtime.tick.
DrainThrows ==
    /\ mutex.cb /\ mutex' = Unlocked
    /\ tick' = IF mutex.op = "close" THEN tick ELSE Outside
    /\ UNCHANGED <<pool, entry, lease, withs, asked, dangling>>

\* acquire, with, release, stats or close in such a callback.
LocksItselfOut ==
    /\ mutex.cb /\ mutex' = [Unlocked EXCEPT !.op = "stuck"]
    /\ UNCHANGED <<pool, entry, lease, withs, tick, asked, dangling>>

UnderMutex == Frees \/ CheckEntry \/ DrainQueryQueue \/ DrainReturns

-----------------------------------------------------------------------------
(* runtime.tick: the pool's Tick, then the leased connections' Tick.       *)

\* Reap: once no Tick is on the stack, the connections of a closed pool are freed.
Reap(es) ==
    IF pool.closed /\ \A i \in Entries : es[i].depth = 0 THEN Locks("reap") ELSE UNCHANGED mutex

LeaseTicks == [at |-> "lease", left |-> [w \in Leases |-> w], conn |-> 0]

TickPool ==
    /\ Idle /\ tick = Outside /\ withs = <<>>
    /\ Reap(entry)
    /\ tick' = IF pool.closed THEN LeaseTicks ELSE [Outside EXCEPT !.at = "pool", !.left = [i \in Entries |-> i]]
    /\ UNCHANGED <<pool, entry, lease, withs, asked, dangling>>

\* The connection that is ticked next: an entry's, or that of a lease, if it still has one.
Ticked == IF tick.at = "pool" THEN Head(tick.left) ELSE lease[Head(tick.left)].conn

\* Mutant: only a connection that is up is given back.
MaybeReleaseUp(w, es) == lease[w].auto /\ es[lease[w].conn].st = "up" /\ ~HasPendingWork(es[lease[w].conn])

\* MaybeReleasePooledConn: the connection of a pool:with that is over and has no work left is given back.
MaybeReleasePooledConn(w, es) == lease[w].auto /\ ~HasPendingWork(es[lease[w].conn])

\* After a connection's Tick: the pool goes on to the next; a lease is released and a closed pool reaped.
Ticks(es) ==
    /\ tick' = [tick EXCEPT !.left = Tail(@), !.conn = 0]
    /\ IF tick.at = "lease" /\ lease[Head(tick.left)].conn # 0 /\ MaybeReleasePooledConn(Head(tick.left), es)
       THEN LET d == Detached(es, lease, Head(tick.left)) IN entry' = d[1] /\ lease' = d[2]
       ELSE entry' = es /\ UNCHANGED lease
    /\ IF tick.at = "lease" THEN Reap(es) ELSE UNCHANGED mutex

\* What Poll does to a connection: it comes up or fails, or its ping is answered or breaks it.
Polled(e) ==
    {e} \cup (IF e.st = "connecting" THEN {[e EXCEPT !.st = "up"], [e EXCEPT !.st = "down"]}
             ELSE IF e.ping THEN {[e EXCEPT !.ping = FALSE], [e EXCEPT !.ping = FALSE, !.st = "down"]} ELSE {})

\* A callback of the connection's Tick starts.
Dispatch(e) == entry' = [entry EXCEPT ![Ticked] = [e EXCEPT !.work = @ - 1, !.depth = 1]]

\* One connection's Tick: Poll, and if it has an answer, the callback of that. One that is down has an error for each.
ConnTick ==
    /\ Idle /\ tick.at # "out" /\ tick.conn = 0 /\ tick.left # <<>> /\ Ticked # 0
    /\ tick.at = "pool" => ~pool.closed
    /\ dangling' = (dangling \/ entry[Ticked].st = "freed")
    /\ \E e \in Polled(entry[Ticked]) :
          \/ ~(e.st = "down" /\ e.work > 0) /\ Ticks([entry EXCEPT ![Ticked] = e])
          \/ e.st \in {"up", "down"} /\ e.work > 0 /\ Dispatch(e) /\ tick' = [tick EXCEPT !.conn = Ticked] /\ UNCHANGED <<mutex, lease>>
    /\ UNCHANGED <<pool, withs, asked>>

\* The next query of the queue starts, over a ping, or its callback is called with the error.
CallbackReturns ==
    /\ Idle /\ tick.conn # 0
    /\ LET e == entry[tick.conn]
       IN  IF e.st = "down" /\ e.work > 0
           THEN entry' = [entry EXCEPT ![tick.conn].work = @ - 1] /\ UNCHANGED <<mutex, lease, tick>>
           ELSE Ticks([entry EXCEPT ![tick.conn].depth = 0, ![tick.conn].ping = @ /\ e.work = 0])
    /\ UNCHANGED <<pool, withs, asked, dangling>>

\* An error of the callback ends runtime.tick.
PoolCallbackThrows ==
    /\ Idle /\ tick.conn # 0
    /\ entry' = [entry EXCEPT ![tick.conn].depth = 0]
    /\ tick' = Outside
    /\ UNCHANGED <<pool, mutex, lease, withs, asked, dangling>>

\* A lease that has no connection (any more).
SkipLease ==
    /\ Idle /\ tick.at = "lease" /\ tick.conn = 0 /\ tick.left # <<>> /\ Ticked = 0
    /\ tick' = [tick EXCEPT !.left = Tail(@)]
    /\ UNCHANGED <<pool, mutex, entry, lease, withs, asked, dangling>>

\* The end of the pool's Tick: the entries are checked; a pool that was closed in a callback is reaped.
PoolTicked ==
    /\ Idle /\ tick.at = "pool" /\ tick.conn = 0 /\ (tick.left = <<>> \/ pool.closed)
    /\ IF pool.closed THEN Reap(entry) ELSE Locks("check")
    /\ tick' = LeaseTicks
    /\ UNCHANGED <<pool, entry, lease, withs, asked, dangling>>

TickReturns ==
    /\ Idle /\ tick.at = "lease" /\ tick.conn = 0 /\ tick.left = <<>>
    /\ tick' = Outside
    /\ UNCHANGED <<pool, mutex, entry, lease, withs, asked, dangling>>

PoolTick == TickPool \/ ConnTick \/ CallbackReturns \/ SkipLease \/ PoolTicked \/ TickReturns \/ LeaseGuard \/ UnderMutex

\* A query or a ping on a leased connection is answered, in the end, with a result or an error.
PoolAnswers ==
    /\ tick.at = "lease" /\ ConnTick
    /\ (tick'.conn # 0) \/ (entry[Ticked].ping /\ ~entry'[Ticked].ping)

PoolErrors == PoolCallbackThrows \/ DrainThrows \/ LocksItselfOut

PoolNext == PoolTick \/ PoolAcquire \/ PoolWith \/ PoolRelease \/ ConnQuery \/ PoolClose \/ PoolErrors

-----------------------------------------------------------------------------

\* A connection is leased to one holder at a time, and a leased connection is marked as in use.
LeaseExclusive ==
    \A v, w \in Leases : lease[v].conn # 0 =>
        /\ entry[lease[v].conn].use
        /\ lease[w].conn = lease[v].conn => v = w

\* The pool never frees a connection whose Tick runs a callback, and never ticks a freed one: close() in a
\* callback waits. (The guard of a pool:with whose function closes the pool does use a freed connection.)
ConnAliveInCallback == ~dangling /\ \A i \in Entries : entry[i].depth > 0 => entry[i].st # "freed"

\* Leases and callbacks that end in any order leave every connection with one holder, and alive while it is used.
LeasesSound == LeaseExclusive /\ ConnAliveInCallback

\* pool:with gives its connection back: once the function is over, its work is answered and a ping of the pool that is
\* in flight is too, the lease ends; unless a callback under the mutex has locked the thread out.
Held == {w \in DOMAIN lease : lease[w].auto /\ lease[w].conn # 0}
WithReturned == (Held # {}) ~> (Held = {} \/ mutex.op = "stuck")
=============================================================================
