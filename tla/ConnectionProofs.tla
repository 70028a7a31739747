-------------------------- MODULE ConnectionProofs --------------------------
(***************************************************************************)
(* Proofs for the connections of three libraries, for any number of them.  *)
(*                                                                         *)
(* MysqlPool: a pool gives each connection to one holder at a time, and    *)
(* ticks and frees only connections that may be.  Sound is a relation      *)
(* between values, not variables, so that a tick, that updates a           *)
(* connection and gives a lease back in one step, can be followed update   *)
(* by update.                                                              *)
(*                                                                         *)
(* RedisConnection: what hiredis has to answer are commands that exist and *)
(* wait, and each callback is called once.  HttpLibrary: a request and a   *)
(* connection of the server are answered once.                             *)
(*                                                                         *)
(* NetFraming: the rings of a connection neither lose nor move a byte.     *)
(***************************************************************************)
EXTENDS MysqlPool, RedisConnection, HttpLibrary, NetFraming, SequenceTheorems, WellFoundedInduction, TLAPS

(***************************************************************************)
(* The mysql pool.                                                         *)
(***************************************************************************)
PoolSpec == PoolInit /\ [][PoolNext]_poolVars

\* native_mysql_pool.cpp:182 sees to it, and MaxLeases is a bound of ours.
PoolAssumption == PoolSize \in Nat \ {0} /\ MaxLeases \in Nat

Conn == [st : {"connecting", "up", "down", "freed"}, use : BOOLEAN, healthy : BOOLEAN, retry : Nat, work : Nat,
         ping : BOOLEAN, depth : {0, 1}]
Lease == [conn : 0..PoolSize, auto : BOOLEAN, new : BOOLEAN]

Mutex == [op : {"free", "close", "reap", "check", "stuck"}, at : Entries, closing : BOOLEAN, cb : BOOLEAN]

\* LeaseExclusive, of any connections and leases.
Exclusive(es, ls) ==
    \A v, w \in Leases : ls[v].conn # 0 =>
        /\ es[ls[v].conn].use
        /\ ls[w].conn = ls[v].conn => v = w

\* Connections es and leases ls of a pool that is closed or not, in the callback of connection cb or of none (0):
\* nothing is leased from a closed pool, only a closed pool has freed anything, and never the one in its callback.
Sound(closed, es, ls, cb) ==
    /\ es \in [Entries -> Conn] /\ ls \in [Leases -> Lease] /\ cb \in {0} \cup Entries
    /\ Exclusive(es, ls)
    /\ closed => \A w \in Leases : ls[w].conn = 0
    /\ \A i \in Entries : es[i].st = "freed" => closed
    /\ \A i \in Entries : es[i].depth = 1 <=> cb = i
    /\ \A i \in Entries : cb = i => es[i].st # "freed"

\* The rest of the state has its types; what a tick still has to do are connections or leases.
Typed ==
    /\ mutex \in Mutex
    /\ pool \in [closed : BOOLEAN, rr : Entries]
    /\ withs \in Seq([lease : Leases, conn : Entries])
    /\ tick.at \in {"out", "pool", "lease"}
    /\ tick \in [at : {"out"}, left : {<<>>}, conn : {0}]
          \cup [at : {"pool"}, left : Seq(Entries), conn : {0} \cup Entries]
          \cup [at : {"lease"}, left : Seq(Leases), conn : {0} \cup Entries]
    /\ tick.conn # 0 => tick.left # <<>>

\* Under the mutex m: a closed pool only is closed and reaped, a reap and a check are steps of a tick, outside of its
\* callbacks, and the connection that is being closed is not the one in its callback.
Guarded(m, closed, cb) ==
    /\ m.op \in {"close", "reap"} => closed
    /\ m.op \in {"reap", "check"} => cb = 0
    /\ m.closing => m.op \in {"close", "reap", "check"} /\ cb # m.at
    /\ m.cb => m.closing

PoolInv == Typed /\ Guarded(mutex, pool.closed, tick.conn) /\ Sound(pool.closed, entry, lease, tick.conn) /\ ~dangling
-----------------------------------------------------------------------------
(* Acquire chooses one of the connections that are free.                   *)

LEMMA LeastExists ==
    ASSUME NEW S, S # {}, NEW f \in [S -> Nat]
    PROVE  \E x \in S : \A y \in S : f[x] <= f[y]
<1> DEFINE T == {f[x] : x \in S}
<1>1. T \subseteq Nat /\ T # {}
  OBVIOUS
<1>2. \E m \in T : \A n \in T : ~(<<n, m>> \in OpToRel(<, Nat))
  BY <1>1, NatLessThanWellFounded, WFMin
<1>3. PICK m \in T : \A n \in T : ~(<<n, m>> \in OpToRel(<, Nat))
  BY <1>2
<1>4. \A n \in T : ~(n < m)
  BY <1>1, <1>3 DEF OpToRel
<1>5. \A n \in T : m <= n
  BY <1>1, <1>4
<1>6. PICK x \in S : m = f[x]
  OBVIOUS
<1>7. \A y \in S : f[x] <= f[y]
  BY <1>5, <1>6
<1>8. QED
  BY <1>7

LEMMA RoundRobin ==
    ASSUME PoolAssumption
    PROVE  /\ \A x \in Int : x % PoolSize \in Nat
           /\ \A i \in Entries : (i % PoolSize) + 1 \in Entries
<1>1. \A x \in Int : x % PoolSize \in 0..(PoolSize - 1)
  BY DEF PoolAssumption
<1>2. \A y \in 0..(PoolSize - 1) : y \in Nat /\ y + 1 \in 1..PoolSize
  BY DEF PoolAssumption
<1>3. \A i \in Entries : i \in Int
  BY DEF Entries
<1>4. QED
  BY <1>1, <1>2, <1>3 DEF Entries

LEMMA FirstFromIs ==
    ASSUME PoolAssumption, Typed, NEW s \in SUBSET Entries, s # {}
    PROVE  FirstFrom(s) \in s
<1> DEFINE rank(i) == (i + PoolSize - pool.rr) % PoolSize
           f == [i \in s |-> rank(i)]
<1>1. pool.rr \in Int /\ PoolSize \in Int /\ \A i \in s : i \in Int
  BY DEF Typed, Entries, PoolAssumption
<1>2. f \in [s -> Nat]
  <2>1. \A i \in s : i + PoolSize - pool.rr \in Int
    BY <1>1
  <2>2. QED
    BY <2>1, RoundRobin
<1> HIDE DEF f
<1>3. \E x \in s : \A y \in s : f[x] <= f[y]
  BY <1>2, LeastExists
<1>4. \E i \in s : \A j \in s : rank(i) <= rank(j)
  BY <1>3 DEF f
<1>5. QED
  BY <1>4 DEF FirstFrom
-----------------------------------------------------------------------------
(* What the operations do to connections and leases.                       *)

\* Connections change, but not their use, and freed is one only of a closed pool, and not in its callback.
LEMMA SoundChange ==
    ASSUME NEW c, NEW es, NEW ls, NEW b, Sound(c, es, ls, b), NEW fs \in [Entries -> Conn], NEW a \in {0} \cup Entries,
           \A i \in Entries : /\ fs[i].use = es[i].use
                              /\ fs[i].st = "freed" => c /\ a # i
                              /\ fs[i].depth = 1 <=> a = i
    PROVE  Sound(c, fs, ls, a)
<1>1. Exclusive(fs, ls)
  <2>1. ls \in [Leases -> Lease] /\ Exclusive(es, ls)
    BY DEF Sound
  <2>2. \A v \in Leases : ls[v].conn # 0 => ls[v].conn \in Entries
    <3>1. \A x \in 0..PoolSize : x # 0 => x \in Entries
      BY DEF Entries
    <3>2. QED
      BY <2>1, <3>1 DEF Lease
  <2>3. QED
    BY <2>1, <2>2 DEF Exclusive
<1>2. QED
  BY <1>1 DEF Sound

\* A lease gives its connection back.
LEMMA DetachSound ==
    ASSUME NEW c, NEW es, NEW ls, NEW b, Sound(c, es, ls, b), NEW w \in Leases, PoolAssumption
    PROVE  Sound(c, Detached(es, ls, w)[1], Detached(es, ls, w)[2], b)
<1> DEFINE fs == Detached(es, ls, w)[1]
           ms == Detached(es, ls, w)[2]
<1>1. /\ fs = IF ls[w].conn = 0 THEN es ELSE [es EXCEPT ![ls[w].conn].use = FALSE]
      /\ ms = [ls EXCEPT ![w].conn = 0, ![w].auto = FALSE]
  BY DEF Detached
<1> HIDE DEF fs, ms
<1>2. es \in [Entries -> Conn] /\ ls \in [Leases -> Lease] /\ Exclusive(es, ls)
  BY DEF Sound
<1>3. \A x \in 0..PoolSize : x # 0 => x \in Entries
  BY DEF Entries
<1>4. /\ ms \in [Leases -> Lease] /\ ms[w].conn = 0
      /\ \A v \in Leases : v # w => ms[v].conn = ls[v].conn
      /\ \A v \in Leases : ls[v].conn = 0 => ms[v].conn = 0
  <2>1. 0 \in 0..PoolSize
    BY DEF PoolAssumption
  <2>2. QED
    BY <1>1, <1>2, <2>1 DEF Lease
<1>5. /\ fs \in [Entries -> Conn]
      /\ \A i \in Entries : /\ fs[i].st = es[i].st /\ fs[i].depth = es[i].depth
                            /\ i # ls[w].conn => fs[i].use = es[i].use
  <2>1. CASE ls[w].conn = 0
    BY <1>1, <1>2, <2>1
  <2>2. CASE ls[w].conn # 0
    <3>1. ls[w].conn \in Entries
      BY <1>2, <1>3, <2>2 DEF Lease
    <3> DEFINE k == ls[w].conn
    <3>2. fs = [es EXCEPT ![k].use = FALSE] /\ k \in Entries
      BY <1>1, <2>2, <3>1
    <3> HIDE DEF k
    <3>3. /\ \A i \in Entries : i # k => fs[i] = es[i]
          /\ fs[k] = [es[k] EXCEPT !.use = FALSE] /\ DOMAIN fs = Entries
      BY <1>2, <3>2
    <3>4. fs[k] \in Conn /\ fs[k].st = es[k].st /\ fs[k].depth = es[k].depth
      <4>1. es[k] \in Conn
        BY <1>2, <3>2
      <4>2. \A e \in Conn : [e EXCEPT !.use = FALSE] \in Conn
        BY DEF Conn
      <4>3. \A e \in Conn : [e EXCEPT !.use = FALSE].st = e.st /\ [e EXCEPT !.use = FALSE].depth = e.depth
        BY DEF Conn
      <4>4. QED
        BY <3>3, <4>1, <4>2, <4>3
    <3>5. fs \in [Entries -> Conn]
      BY <1>2, <3>2, <3>3, <3>4
    <3>6. QED
      BY <3>3, <3>4, <3>5 DEF k
  <2>3. QED
    BY <2>1, <2>2
<1>6. Exclusive(fs, ms)
  <2> SUFFICES ASSUME NEW v \in Leases, NEW u \in Leases, ms[v].conn # 0
               PROVE  fs[ms[v].conn].use /\ (ms[u].conn = ms[v].conn => v = u)
    BY DEF Exclusive
  <2>1. v # w /\ ms[v].conn = ls[v].conn
    BY <1>4
  <2>2. ls[v].conn \in Entries
    BY <1>2, <1>3, <2>1 DEF Lease
  <2>3. es[ls[v].conn].use /\ ls[w].conn # ls[v].conn
    BY <1>2, <2>1 DEF Exclusive
  <2>4. fs[ms[v].conn].use
    BY <1>5, <2>1, <2>2, <2>3
  <2>5. ms[u].conn = ms[v].conn => v = u
    BY <1>2, <1>4, <2>1 DEF Exclusive
  <2>6. QED
    BY <2>4, <2>5
<1>7. Sound(c, fs, ms, b)
  BY <1>4, <1>5, <1>6 DEF Sound
<1>8. QED
  BY <1>7 DEF fs, ms

\* An operation that locks the mutex comes to the first entry.
LEMMA LocksIs ==
    ASSUME PoolAssumption, NEW o \in {"close", "reap", "check"}, NEW c, NEW b, Locks(o),
           o # "check" => c, o # "close" => b = 0
    PROVE  mutex' \in Mutex /\ Guarded(mutex', c, b)
<1>1. mutex' = [op |-> o, at |-> 1, closing |-> FALSE, cb |-> FALSE]
  BY DEF Locks, Unlocked
<1>2. 1 \in Entries
  BY DEF Entries, PoolAssumption
<1>3. QED
  BY <1>1, <1>2 DEF Mutex, Guarded

\* Nobody has the mutex, or nobody has it any more.
LEMMA UnlockedIs ==
    ASSUME PoolAssumption, NEW c, NEW b, NEW m, m = Unlocked
    PROVE  m \in Mutex /\ Guarded(m, c, b)
<1>1. 1 \in Entries
  BY DEF Entries, PoolAssumption
<1>2. QED
  BY <1>1 DEF Mutex, Guarded, Unlocked

LEMMA IdleGuarded ==
    ASSUME NEW c, NEW b, NEW m, Guarded(m, c, b), m.op = "free", NEW d, NEW a
    PROVE  Guarded(m, d, a)
BY DEF Guarded

LEMMA ReapIs ==
    ASSUME PoolAssumption, Typed, Guarded(mutex, pool.closed, tick.conn), Idle, NEW es, Reap(es)
    PROVE  mutex' \in Mutex /\ Guarded(mutex', pool.closed, 0)
<1>1. CASE pool.closed /\ Locks("reap")
  BY <1>1, LocksIs
<1>2. CASE UNCHANGED mutex
  <2>1. mutex \in Mutex /\ mutex.op = "free"
    BY DEF Typed, Idle
  <2>2. Guarded(mutex, pool.closed, 0)
    BY <2>1, IdleGuarded
  <2>3. QED
    BY <1>2, <2>1, <2>2
<1>3. QED
  BY <1>1, <1>2 DEF Reap

\* Detach, as an action.
LEMMA DetachKeeps ==
    ASSUME PoolAssumption, PoolInv, NEW w \in Leases, Detach(w)
    PROVE  Sound(pool.closed, entry', lease', tick.conn)
BY DetachSound DEF PoolInv, Detach

\* A connection's Tick is over: the pool goes on to the next; a lease is given back and a closed pool reaped.
LEMMA TicksKeep ==
    ASSUME PoolAssumption, Typed, Guarded(mutex, pool.closed, tick.conn), Idle, tick.left # <<>>,
           NEW es, Sound(pool.closed, es, lease, 0), Ticks(es), UNCHANGED <<pool, withs>>
    PROVE  Typed' /\ Guarded(mutex', pool.closed, tick'.conn) /\ Sound(pool.closed, entry', lease', tick'.conn)
<1>1. tick' = [tick EXCEPT !.left = Tail(tick.left), !.conn = 0]
  BY DEF Ticks
<1>2. \A S : \A s \in Seq(S) : s # <<>> => Head(s) \in S /\ Tail(s) \in Seq(S)
  BY HeadTailProperties
<1>3. mutex' \in Mutex /\ Guarded(mutex', pool.closed, 0)
  <2>1. CASE Reap(es)
    BY <2>1, ReapIs
  <2>2. CASE UNCHANGED mutex
    <3>1. mutex \in Mutex /\ mutex.op = "free"
      BY DEF Typed, Idle
    <3>2. Guarded(mutex, pool.closed, 0)
      BY <3>1, IdleGuarded
    <3>3. QED
      BY <2>2, <3>1, <3>2
  <2>3. QED
    BY <2>1, <2>2 DEF Ticks
<1>4. tick'.conn = 0 /\ tick'.at = tick.at /\ Typed'
  <2>1. tick.at # "out"
    BY DEF Typed
  <2>2. \/ tick \in [at : {"pool"}, left : Seq(Entries), conn : {0} \cup Entries]
        \/ tick \in [at : {"lease"}, left : Seq(Leases), conn : {0} \cup Entries]
    BY <2>1 DEF Typed
  <2>3. CASE tick \in [at : {"pool"}, left : Seq(Entries), conn : {0} \cup Entries]
    <3>1. Tail(tick.left) \in Seq(Entries)
      BY <1>2, <2>3
    <3>2. tick' \in [at : {"pool"}, left : Seq(Entries), conn : {0} \cup Entries]
      BY <1>1, <2>3, <3>1
    <3>3. QED
      BY <1>3, <1>1, <2>3, <3>2 DEF Typed
  <2>4. CASE tick \in [at : {"lease"}, left : Seq(Leases), conn : {0} \cup Entries]
    <3>1. Tail(tick.left) \in Seq(Leases)
      BY <1>2, <2>4
    <3>2. tick' \in [at : {"lease"}, left : Seq(Leases), conn : {0} \cup Entries]
      BY <1>1, <2>4, <3>1
    <3>3. QED
      BY <1>3, <1>1, <2>4, <3>2 DEF Typed
  <2>5. QED
    BY <2>2, <2>3, <2>4
<1>5. CASE tick.at = "lease" /\ lease[Head(tick.left)].conn # 0 /\ MaybeReleasePooledConn(Head(tick.left), es)
  <2>1. Head(tick.left) \in Leases
    <3>1. tick.left \in Seq(Leases)
      BY <1>5 DEF Typed
    <3>2. QED
      BY <1>2, <3>1
  <2>2. /\ entry' = Detached(es, lease, Head(tick.left))[1]
        /\ lease' = Detached(es, lease, Head(tick.left))[2]
    BY <1>5 DEF Ticks
  <2>3. QED
    BY <1>3, <1>4, <2>1, <2>2, DetachSound
<1>6. CASE ~(tick.at = "lease" /\ lease[Head(tick.left)].conn # 0 /\ MaybeReleasePooledConn(Head(tick.left), es))
  <2>1. entry' = es /\ lease' = lease
    BY <1>6 DEF Ticks
  <2>2. QED
    BY <1>3, <1>4, <2>1
<1>7. QED
  BY <1>4, <1>5, <1>6

-----------------------------------------------------------------------------
(* The steps.                                                              *)

\* One connection changes, but not its use.
LEMMA UpdateSound ==
    ASSUME NEW c, NEW es, NEW ls, NEW b, Sound(c, es, ls, b), NEW k \in Entries, NEW a \in {0, k}, b \in {0, k},
           NEW e \in Conn, e.use = es[k].use, e.st = "freed" => c /\ a # k, e.depth = 1 <=> a = k
    PROVE  Sound(c, [es EXCEPT ![k] = e], ls, a)
<1> DEFINE fs == [es EXCEPT ![k] = e]
<1>1. /\ es \in [Entries -> Conn] /\ \A i \in Entries : es[i].depth = 1 <=> b = i
      /\ \A i \in Entries : es[i].st = "freed" => c
  BY DEF Sound
<1>2. fs \in [Entries -> Conn] /\ fs[k] = e /\ \A i \in Entries : i # k => fs[i] = es[i]
  BY <1>1
<1>3. \A i \in Entries : i # 0
  BY DEF Entries
<1>4. \A i \in Entries : /\ fs[i].use = es[i].use
                         /\ fs[i].st = "freed" => c /\ a # i
                         /\ fs[i].depth = 1 <=> a = i
  BY <1>1, <1>2, <1>3
<1>5. a \in {0} \cup Entries
  OBVIOUS
<1> HIDE DEF fs
<1>6. Sound(c, fs, ls, a)
  BY <1>2, <1>4, <1>5, SoundChange
<1>7. QED
  BY <1>6 DEF fs

LEMMA OneChanges ==
    ASSUME NEW c, NEW es, NEW ls, NEW b, Sound(c, es, ls, b), NEW k \in Entries, NEW e \in Conn,
           e.use = es[k].use, e.depth = es[k].depth, e.st = "freed" => c /\ b # k
    PROVE  Sound(c, [es EXCEPT ![k] = e], ls, b)
<1> DEFINE fs == [es EXCEPT ![k] = e]
<1>1. /\ es \in [Entries -> Conn] /\ b \in {0} \cup Entries
      /\ \A i \in Entries : /\ es[i].depth = 1 <=> b = i
                            /\ es[i].st = "freed" => c
                            /\ b = i => es[i].st # "freed"
  BY DEF Sound
<1>2. fs \in [Entries -> Conn] /\ fs[k] = e /\ \A i \in Entries : i # k => fs[i] = es[i]
  BY <1>1
<1>3. \A i \in Entries : /\ fs[i].use = es[i].use
                         /\ fs[i].st = "freed" => c /\ b # i
                         /\ fs[i].depth = 1 <=> b = i
  BY <1>1, <1>2
<1> HIDE DEF fs
<1>4. Sound(c, fs, ls, b)
  BY <1>1, <1>2, <1>3, SoundChange
<1>5. QED
  BY <1>4 DEF fs

\* A step that has nothing to do with the mutex, while nothing holds it.
LEMMA IdleKeeps ==
    ASSUME PoolInv, Idle, UNCHANGED mutex, NEW d, NEW a
    PROVE  mutex' \in Mutex /\ Guarded(mutex', d, a)
<1>1. mutex \in Mutex /\ mutex.op = "free" /\ Guarded(mutex, pool.closed, tick.conn)
  BY DEF PoolInv, Typed, Idle
<1>2. Guarded(mutex, d, a)
  BY <1>1, IdleGuarded
<1>3. QED
  BY <1>1, <1>2

LEMMA AcquireKeeps ==
    ASSUME PoolAssumption, PoolInv, NEW w \in Leases, AcquireConnObject(w)
    PROVE  /\ Sound(pool'.closed, entry', lease', tick.conn) /\ pool' \in [closed : BOOLEAN, rr : Entries]
           /\ FirstFrom(Acquire) \in Entries
<1> DEFINE i == FirstFrom(Acquire)
<1>1. /\ entry' = [entry EXCEPT ![i].use = TRUE]
      /\ pool' = [pool EXCEPT !.rr = (i % PoolSize) + 1]
      /\ lease' = [lease EXCEPT ![w] = [conn |-> i, auto |-> FALSE, new |-> FALSE]]
      /\ ~pool.closed /\ Acquire # {}
  BY DEF AcquireConnObject
<1>2. i \in Entries /\ Free(entry[i])
  <2>1. Acquire \subseteq Entries
    BY DEF Acquire
  <2>2. FirstFrom(Acquire) \in Acquire
    BY <1>1, <2>1, FirstFromIs DEF PoolInv
  <2>3. QED
    BY <2>2 DEF Acquire
<1> HIDE DEF i
<1>3. pool \in [closed : BOOLEAN, rr : Entries]
  BY DEF PoolInv, Typed
<1>4. pool' \in [closed : BOOLEAN, rr : Entries] /\ pool'.closed = pool.closed
  <2>1. (i % PoolSize) + 1 \in Entries
    BY <1>2, RoundRobin
  <2>2. QED
    BY <1>1, <1>3, <2>1
<1>5. /\ entry \in [Entries -> Conn] /\ lease \in [Leases -> Lease] /\ Exclusive(entry, lease)
      /\ tick.conn \in {0} \cup Entries
      /\ \A k \in Entries : /\ entry[k].st = "freed" => pool.closed
                            /\ entry[k].depth = 1 <=> tick.conn = k
                            /\ tick.conn = k => entry[k].st # "freed"
  BY DEF PoolInv, Sound
<1>6. \A e \in Conn : /\ [e EXCEPT !.use = TRUE] \in Conn /\ [e EXCEPT !.use = TRUE].use
                      /\ [e EXCEPT !.use = TRUE].st = e.st /\ [e EXCEPT !.use = TRUE].depth = e.depth
  BY DEF Conn
<1>7. entry' = [entry EXCEPT ![i] = [entry[i] EXCEPT !.use = TRUE]]
  BY <1>1
<1>8. /\ entry' \in [Entries -> Conn] /\ entry'[i].use /\ \A k \in Entries : entry[k].use => entry'[k].use
      /\ \A k \in Entries : entry'[k].st = entry[k].st /\ entry'[k].depth = entry[k].depth
  BY <1>2, <1>5, <1>6, <1>7
<1>9. \A x \in Entries : x \in 0..PoolSize /\ x # 0
  BY DEF Entries
<1>10. \A x \in 0..PoolSize : x # 0 => x \in Entries
  BY DEF Entries
<1>11. /\ lease' \in [Leases -> Lease] /\ lease'[w].conn = i
       /\ \A v \in Leases : v # w => lease'[v] = lease[v]
  <2>1. i \in 0..PoolSize
    BY <1>2, <1>9
  <2>2. [conn |-> i, auto |-> FALSE, new |-> FALSE] \in Lease
    BY <2>1 DEF Lease
  <2>3. QED
    BY <1>1, <1>5, <2>2
<1>12. \A v \in Leases : lease[v].conn # 0 => lease[v].conn \in Entries /\ entry[lease[v].conn].use /\ lease[v].conn # i
  <2>1. ~entry[i].use
    BY <1>2 DEF Free
  <2>2. \A v \in Leases : lease[v].conn \in 0..PoolSize
    BY <1>5 DEF Lease
  <2>3. QED
    BY <1>5, <1>10, <2>1, <2>2 DEF Exclusive
<1>13. Exclusive(entry', lease')
  <2> SUFFICES ASSUME NEW v \in Leases, NEW u \in Leases, lease'[v].conn # 0
               PROVE  entry'[lease'[v].conn].use /\ (lease'[u].conn = lease'[v].conn => v = u)
    BY DEF Exclusive
  <2>1. CASE v = w
    <3>1. lease'[v].conn = i
      BY <1>11, <2>1
    <3>2. u # w => lease'[u].conn # i
      BY <1>2, <1>9, <1>11, <1>12
    <3>3. QED
      BY <1>8, <2>1, <3>1, <3>2
  <2>2. CASE v # w
    <3>1. lease'[v].conn = lease[v].conn
      BY <1>11, <2>2
    <3>2. entry'[lease'[v].conn].use
      BY <1>8, <1>12, <3>1
    <3>3. u = w => lease'[u].conn # lease'[v].conn
      BY <1>11, <1>12, <3>1
    <3>4. u # w => (lease'[u].conn = lease'[v].conn => v = u)
      BY <1>5, <1>11, <3>1 DEF Exclusive
    <3>5. QED
      BY <3>2, <3>3, <3>4
  <2>3. QED
    BY <2>1, <2>2
<1>14. QED
  BY <1>1, <1>2, <1>4, <1>5, <1>8, <1>11, <1>13 DEF Sound, i

LEMMA AcquireStep ==
    ASSUME PoolAssumption, PoolInv, PoolAcquire \/ PoolWith
    PROVE  PoolInv'
<1>1. PICK w \in Leases : /\ AcquireConnObject(w)
                          /\ withs' = withs \/ withs' = <<[lease |-> w, conn |-> FirstFrom(Acquire)]>>
                          /\ UNCHANGED <<mutex, tick, asked, dangling>>
  BY DEF PoolAcquire, PoolWith
<1>2. /\ Sound(pool'.closed, entry', lease', tick.conn) /\ pool' \in [closed : BOOLEAN, rr : Entries]
      /\ FirstFrom(Acquire) \in Entries
  BY <1>1, AcquireKeeps
<1>3. withs' \in Seq([lease : Leases, conn : Entries])
  <2>1. \A S : \A x \in S : <<x>> \in Seq(S)
    OBVIOUS
  <2>2. [lease |-> w, conn |-> FirstFrom(Acquire)] \in [lease : Leases, conn : Entries]
    BY <1>2
  <2>3. <<[lease |-> w, conn |-> FirstFrom(Acquire)]>> \in Seq([lease : Leases, conn : Entries])
    BY <2>1, <2>2
  <2>4. QED
    BY <1>1, <2>3 DEF PoolInv, Typed
<1>4. mutex' \in Mutex /\ Guarded(mutex', pool'.closed, tick.conn)
  BY <1>1, IdleKeeps DEF PoolAcquire, PoolWith, Running
<1>5. Typed'
  BY <1>1, <1>2, <1>3, <1>4 DEF PoolInv, Typed
<1>6. QED
  BY <1>1, <1>2, <1>4, <1>5 DEF PoolInv

LEMMA ReleaseStep ==
    ASSUME PoolAssumption, PoolInv, PoolRelease
    PROVE  PoolInv'
<1>1. PICK w \in Leases : Detach(w)
  BY DEF PoolRelease
<1>2. Sound(pool.closed, entry', lease', tick.conn)
  BY <1>1, DetachKeeps
<1>3. UNCHANGED <<pool, mutex, withs, tick, asked, dangling>>
  BY DEF PoolRelease
<1>4. mutex' \in Mutex /\ Guarded(mutex', pool.closed, tick.conn)
  BY <1>3, IdleKeeps DEF PoolRelease, Running
<1>5. QED
  BY <1>2, <1>3, <1>4 DEF PoolInv, Typed

LEMMA LeaseGuardStep ==
    ASSUME PoolAssumption, PoolInv, LeaseGuard
    PROVE  PoolInv'
<1> DEFINE g == Last(withs)
<1>1. g \in [lease : Leases, conn : Entries]
  <2>1. withs \in Seq([lease : Leases, conn : Entries]) /\ withs # <<>>
    BY DEF PoolInv, Typed, LeaseGuard
  <2>2. Len(withs) \in 1..Len(withs)
    BY <2>1, EmptySeq, LenProperties
  <2>3. withs[Len(withs)] \in [lease : Leases, conn : Entries]
    BY <2>1, <2>2, ElementOfSeq
  <2>4. QED
    BY <2>3 DEF Last
<1>2. \/ lease' = [lease EXCEPT ![g.lease].auto = TRUE] /\ entry' = entry
      \/ Detach(g.lease)
  BY DEF LeaseGuard
<1>3. UNCHANGED <<pool, mutex, tick, asked, dangling>> /\ withs' = <<>>
  BY DEF LeaseGuard
<1> HIDE DEF g
<1>4. Sound(pool.closed, entry', lease', tick.conn)
  <2>1. CASE Detach(g.lease)
    BY <1>1, <2>1, DetachKeeps
  <2>2. CASE lease' = [lease EXCEPT ![g.lease].auto = TRUE] /\ entry' = entry
    <3>1. lease \in [Leases -> Lease]
      BY DEF PoolInv, Sound
    <3>2. lease' \in [Leases -> Lease] /\ \A v \in Leases : lease'[v].conn = lease[v].conn
      BY <1>1, <2>2, <3>1 DEF Lease
    <3>3. Sound(pool.closed, entry, lease, tick.conn)
      BY DEF PoolInv
    <3>4. Exclusive(entry', lease')
      BY <2>2, <3>2, <3>3 DEF Sound, Exclusive
    <3>5. QED
      BY <2>2, <3>2, <3>3, <3>4 DEF Sound
  <2>3. QED
    BY <1>2, <2>1, <2>2
<1>5. mutex' \in Mutex /\ Guarded(mutex', pool.closed, tick.conn)
  BY <1>3, IdleKeeps DEF LeaseGuard
<1>6. QED
  BY <1>3, <1>4, <1>5 DEF PoolInv, Typed

LEMMA ConnQueryStep ==
    ASSUME PoolAssumption, PoolInv, ConnQuery
    PROVE  PoolInv'
<1>1. PICK w \in Leases : lease[w].conn # 0 /\ entry' = [entry EXCEPT ![lease[w].conn] = Queried(@)]
  BY DEF ConnQuery
<1>2. UNCHANGED <<pool, mutex, lease, withs, tick, dangling>>
  BY DEF ConnQuery
<1> DEFINE k == lease[w].conn
           e == Queried(entry[k])
<1>3. /\ entry \in [Entries -> Conn] /\ lease \in [Leases -> Lease]
      /\ Sound(pool.closed, entry, lease, tick.conn)
      /\ \A i \in Entries : /\ entry[i].st = "freed" => pool.closed
                            /\ tick.conn = i => entry[i].st # "freed"
  BY DEF PoolInv, Sound
<1>4. k \in Entries
  <2>1. k \in 0..PoolSize
    BY <1>3 DEF Lease
  <2>2. QED
    BY <1>1, <2>1 DEF Entries
<1>5. entry' = [entry EXCEPT ![k] = e]
  BY <1>1
<1> HIDE DEF k
<1>6. e \in Conn /\ e.use = entry[k].use /\ e.st = entry[k].st /\ e.depth = entry[k].depth
  <2>1. entry[k] \in Conn
    BY <1>3, <1>4
  <2>2. \A d \in Conn : /\ Queried(d) \in Conn /\ Queried(d).use = d.use
                        /\ Queried(d).st = d.st /\ Queried(d).depth = d.depth
    <3> SUFFICES ASSUME NEW d \in Conn
                 PROVE  /\ Queried(d) \in Conn /\ Queried(d).use = d.use
                        /\ Queried(d).st = d.st /\ Queried(d).depth = d.depth
      OBVIOUS
    <3> DEFINE p == d.ping /\ ~(d.st = "up" /\ d.work = 0)
    <3>1. Queried(d) = [d EXCEPT !.work = d.work + 1, !.ping = p]
      BY DEF Queried
    <3>2. p \in BOOLEAN /\ d.work + 1 \in Nat
      BY DEF Conn
    <3> HIDE DEF p
    <3>3. QED
      BY <3>1, <3>2 DEF Conn
  <2>3. QED
    BY <2>1, <2>2
<1> HIDE DEF e
<1>7. Sound(pool.closed, [entry EXCEPT ![k] = e], lease, tick.conn)
  BY <1>3, <1>4, <1>6, OneChanges
<1>8. Sound(pool.closed, entry', lease, tick.conn)
  BY <1>5, <1>7
<1>9. QED
  BY <1>2, <1>8 DEF PoolInv, Typed

LEMMA PoolCloseStep ==
    ASSUME PoolAssumption, PoolInv, PoolClose
    PROVE  PoolInv'
<1>1. /\ lease' = [w \in Leases |-> [lease[w] EXCEPT !.conn = 0]]
      /\ pool' = [pool EXCEPT !.closed = TRUE]
      /\ Locks("close") /\ UNCHANGED <<entry, withs, tick, asked, dangling>>
  BY DEF PoolClose
<1>2. /\ entry \in [Entries -> Conn] /\ lease \in [Leases -> Lease] /\ tick.conn \in {0} \cup Entries
      /\ \A i \in Entries : /\ entry[i].depth = 1 <=> tick.conn = i
                            /\ tick.conn = i => entry[i].st # "freed"
  BY DEF PoolInv, Sound
<1>3. pool' \in [closed : BOOLEAN, rr : Entries] /\ pool'.closed
  BY <1>1 DEF PoolInv, Typed
<1>4. lease' \in [Leases -> Lease] /\ \A w \in Leases : lease'[w].conn = 0
  <2>1. 0 \in 0..PoolSize
    BY DEF PoolAssumption
  <2>2. QED
    BY <1>1, <1>2, <2>1 DEF Lease
<1>5. mutex' \in Mutex /\ Guarded(mutex', pool'.closed, tick.conn)
  BY <1>1, <1>3, LocksIs
<1>6. Exclusive(entry', lease')
  BY <1>4 DEF Exclusive
<1>7. Sound(pool'.closed, entry', lease', tick.conn)
  BY <1>1, <1>2, <1>3, <1>4, <1>6 DEF Sound
<1>8. QED
  BY <1>1, <1>3, <1>5, <1>7 DEF PoolInv, Typed
-----------------------------------------------------------------------------
(* The steps of a tick.                                                    *)

\* What there is to tick.
LEMMA TickLists ==
    ASSUME PoolAssumption
    PROVE  [i \in Entries |-> i] \in Seq(Entries) /\ [w \in Leases |-> w] \in Seq(Leases)
<1>1. \A n \in Nat : [i \in 1..n |-> i] \in Seq(1..n)
  <2> SUFFICES ASSUME NEW n \in Nat PROVE [i \in 1..n |-> i] \in Seq(1..n)
    OBVIOUS
  <2>1. [i \in 1..n |-> i] \in [1..n -> 1..n]
    OBVIOUS
  <2>2. QED
    BY <2>1, SeqDef
<1>2. QED
  BY <1>1 DEF PoolAssumption, Entries, Leases

\* A tick that has nothing in its callback, and what of it is left are leases or connections.
LEMMA TickTyped ==
    ASSUME PoolAssumption
    PROVE  LeaseTicks.conn = 0 /\ LeaseTicks \in [at : {"lease"}, left : Seq(Leases), conn : {0} \cup Entries]
BY TickLists DEF LeaseTicks

LEMMA TickPoolStep ==
    ASSUME PoolAssumption, PoolInv, TickPool
    PROVE  PoolInv'
<1>1. /\ tick = Outside /\ Idle /\ Reap(entry) /\ UNCHANGED <<pool, entry, lease, withs, asked, dangling>>
      /\ tick' = IF pool.closed THEN LeaseTicks ELSE [Outside EXCEPT !.at = "pool", !.left = [i \in Entries |-> i]]
  BY DEF TickPool
<1>2. tick.conn = 0
  BY <1>1 DEF Outside
<1>3. Sound(pool.closed, entry, lease, 0) /\ mutex' \in Mutex /\ Guarded(mutex', pool.closed, 0)
  BY <1>1, <1>2, ReapIs DEF PoolInv
<1>4. /\ tick'.conn = 0 /\ tick'.at \in {"pool", "lease"}
      /\ tick' \in [at : {"pool"}, left : Seq(Entries), conn : {0} \cup Entries]
             \cup [at : {"lease"}, left : Seq(Leases), conn : {0} \cup Entries]
  <2>1. CASE pool.closed
    BY <1>1, <2>1, TickTyped
  <2>2. CASE ~pool.closed
    <3>1. [i \in Entries |-> i] \in Seq(Entries)
      BY TickLists
    <3>2. tick' = [at |-> "pool", left |-> [i \in Entries |-> i], conn |-> 0]
      BY <1>1, <2>2 DEF Outside
    <3>3. QED
      BY <3>1, <3>2
  <2>3. QED
    BY <2>1, <2>2
<1>5. Typed'
  BY <1>1, <1>3, <1>4 DEF PoolInv, Typed
<1>6. QED
  BY <1>1, <1>3, <1>4, <1>5 DEF PoolInv

LEMMA PolledIs ==
    ASSUME NEW d \in Conn, NEW e \in Polled(d)
    PROVE  /\ e \in Conn /\ e.use = d.use /\ e.depth = d.depth /\ e.work = d.work
           /\ e.st = "freed" => d.st = "freed"
<1>1. \A s \in {"up", "down"} : /\ [d EXCEPT !.st = s] \in Conn /\ [d EXCEPT !.st = s].use = d.use
                                 /\ [d EXCEPT !.st = s].depth = d.depth /\ [d EXCEPT !.st = s].work = d.work
                                 /\ [d EXCEPT !.st = s].st = s
  BY DEF Conn
<1>2. /\ [d EXCEPT !.ping = FALSE] \in Conn /\ [d EXCEPT !.ping = FALSE].use = d.use
      /\ [d EXCEPT !.ping = FALSE].depth = d.depth /\ [d EXCEPT !.ping = FALSE].work = d.work
      /\ [d EXCEPT !.ping = FALSE].st = d.st
  BY DEF Conn
<1>3. /\ [d EXCEPT !.ping = FALSE, !.st = "down"] \in Conn /\ [d EXCEPT !.ping = FALSE, !.st = "down"].use = d.use
      /\ [d EXCEPT !.ping = FALSE, !.st = "down"].depth = d.depth
      /\ [d EXCEPT !.ping = FALSE, !.st = "down"].work = d.work
      /\ [d EXCEPT !.ping = FALSE, !.st = "down"].st = "down"
  BY DEF Conn
<1>4. \/ e = d \/ e = [d EXCEPT !.st = "up"] \/ e = [d EXCEPT !.st = "down"]
      \/ e = [d EXCEPT !.ping = FALSE] \/ e = [d EXCEPT !.ping = FALSE, !.st = "down"]
  BY DEF Polled
<1>5. QED
  BY <1>1, <1>2, <1>3, <1>4

LEMMA ConnTickStep ==
    ASSUME PoolAssumption, PoolInv, ConnTick
    PROVE  PoolInv'
<1> DEFINE k == Ticked
<1>1. /\ Idle /\ tick.at # "out" /\ tick.conn = 0 /\ tick.left # <<>> /\ k # 0
      /\ tick.at = "pool" => ~pool.closed
      /\ dangling' = (dangling \/ entry[k].st = "freed")
      /\ UNCHANGED <<pool, withs, asked>>
  BY DEF ConnTick
<1>2. PICK e \in Polled(entry[k]) :
          \/ Ticks([entry EXCEPT ![k] = e])
          \/ /\ e.st \in {"up", "down"} /\ e.work > 0
             /\ Dispatch(e) /\ tick' = [tick EXCEPT !.conn = k] /\ UNCHANGED <<mutex, lease>>
  BY DEF ConnTick
<1>3. /\ entry \in [Entries -> Conn] /\ lease \in [Leases -> Lease] /\ Sound(pool.closed, entry, lease, 0)
      /\ pool.closed => \A w \in Leases : lease[w].conn = 0
      /\ \A i \in Entries : entry[i].st = "freed" => pool.closed
      /\ \A i \in Entries : entry[i].depth # 1
      /\ Typed /\ ~dangling /\ Guarded(mutex, pool.closed, tick.conn)
  BY <1>1 DEF PoolInv, Sound, Entries
<1>4. k \in Entries /\ ~pool.closed
  <2>1. \/ tick.at = "pool" /\ tick.left \in Seq(Entries)
        \/ tick.at = "lease" /\ tick.left \in Seq(Leases)
    BY <1>1, <1>3 DEF Typed
  <2>2. CASE tick.at = "pool" /\ tick.left \in Seq(Entries)
    BY <1>1, <2>2, HeadTailProperties DEF Ticked
  <2>3. CASE tick.at = "lease" /\ tick.left \in Seq(Leases)
    <3>1. Head(tick.left) \in Leases /\ k = lease[Head(tick.left)].conn
      BY <1>1, <2>3, HeadTailProperties DEF Ticked
    <3>2. k \in 0..PoolSize
      BY <1>3, <3>1 DEF Lease
    <3>3. QED
      BY <1>1, <1>3, <3>1, <3>2 DEF Entries
  <2>4. QED
    BY <2>1, <2>2, <2>3
<1>5. ~dangling'
  BY <1>1, <1>3, <1>4
<1>6. e \in Conn /\ e.use = entry[k].use /\ e.st # "freed" /\ e.depth # 1 /\ k # 0
  <2>1. entry[k] \in Conn /\ entry[k].st # "freed" /\ entry[k].depth # 1
    BY <1>3, <1>4
  <2>2. QED
    BY <1>1, <2>1, PolledIs
<1>7. CASE Ticks([entry EXCEPT ![k] = e])
  <2>1. Sound(pool.closed, [entry EXCEPT ![k] = e], lease, 0)
    BY <1>3, <1>4, <1>6, UpdateSound
  <2>2. \A es : Sound(pool.closed, es, lease, 0) /\ Ticks(es) =>
            Typed' /\ Guarded(mutex', pool.closed, tick'.conn) /\ Sound(pool.closed, entry', lease', tick'.conn)
    BY <1>1, <1>3, TicksKeep
  <2>3. Typed' /\ Guarded(mutex', pool.closed, tick'.conn) /\ Sound(pool.closed, entry', lease', tick'.conn)
    BY <1>7, <2>1, <2>2
  <2>4. QED
    BY <1>1, <1>5, <2>3 DEF PoolInv
<1>8. CASE /\ e.st \in {"up", "down"} /\ e.work > 0
           /\ Dispatch(e) /\ tick' = [tick EXCEPT !.conn = k] /\ UNCHANGED <<mutex, lease>>
  <2> DEFINE f == [e EXCEPT !.work = e.work - 1, !.depth = 1]
  <2>1. f \in Conn /\ f.use = entry[k].use /\ f.st # "freed" /\ f.depth = 1
    <3>1. e.work - 1 \in Nat
      BY <1>6, <1>8 DEF Conn
    <3>2. QED
      BY <1>6, <3>1 DEF Conn
  <2>2. entry' = [entry EXCEPT ![k] = f]
    BY <1>8 DEF Dispatch
  <2> HIDE DEF f, k
  <2>3. Sound(pool.closed, [entry EXCEPT ![k] = f], lease, k)
    BY <1>3, <1>4, <1>6, <2>1, UpdateSound
  <2>4. mutex' \in Mutex /\ Guarded(mutex', pool.closed, k)
    BY <1>1, <1>8, IdleKeeps
  <2>5. tick'.conn = k /\ Typed'
    <3>1. \/ tick \in [at : {"pool"}, left : Seq(Entries), conn : {0} \cup Entries]
          \/ tick \in [at : {"lease"}, left : Seq(Leases), conn : {0} \cup Entries]
      BY <1>1, <1>3 DEF Typed
    <3>2. tick'.conn = k /\ tick'.at = tick.at /\ tick'.left = tick.left /\ tick'.at # "out"
      BY <1>1, <1>8, <3>1
    <3>3. \/ tick' \in [at : {"pool"}, left : Seq(Entries), conn : {0} \cup Entries]
          \/ tick' \in [at : {"lease"}, left : Seq(Leases), conn : {0} \cup Entries]
      BY <1>4, <1>8, <3>1
    <3>4. QED
      BY <1>1, <1>3, <2>4, <3>2, <3>3 DEF Typed
  <2>6. QED
    BY <1>1, <1>5, <1>8, <2>2, <2>3, <2>4, <2>5 DEF PoolInv
<1>9. QED
  BY <1>2, <1>7, <1>8

\* The connection whose callback runs.
LEMMA PoolInCallback ==
    ASSUME PoolInv, tick.conn # 0
    PROVE  /\ tick.conn \in Entries /\ tick.left # <<>>
           /\ entry[tick.conn] \in Conn /\ entry[tick.conn].st # "freed" /\ entry[tick.conn].depth = 1
<1>1. /\ entry \in [Entries -> Conn] /\ tick.conn \in {0} \cup Entries
      /\ \A i \in Entries : (entry[i].depth = 1 <=> tick.conn = i) /\ (tick.conn = i => entry[i].st # "freed")
  BY DEF PoolInv, Sound
<1>2. QED
  BY <1>1 DEF PoolInv, Typed

LEMMA CallbackReturnsStep ==
    ASSUME PoolAssumption, PoolInv, CallbackReturns
    PROVE  PoolInv'
<1> DEFINE k == tick.conn
           e == entry[k]
           f == [e EXCEPT !.work = e.work - 1]
           g == [e EXCEPT !.depth = 0, !.ping = e.ping /\ e.work = 0]
<1>1. Idle /\ k # 0 /\ UNCHANGED <<pool, withs, asked, dangling>>
  BY DEF CallbackReturns
<1>2. \/ e.work > 0 /\ entry' = [entry EXCEPT ![k] = f] /\ UNCHANGED <<mutex, lease, tick>>
      \/ Ticks([entry EXCEPT ![k] = g])
  BY DEF CallbackReturns
<1>3. /\ Sound(pool.closed, entry, lease, k) /\ Typed /\ Guarded(mutex, pool.closed, tick.conn) /\ ~dangling
      /\ k \in Entries /\ tick.left # <<>> /\ e \in Conn /\ e.st # "freed" /\ e.depth = 1
  BY <1>1, PoolInCallback DEF PoolInv
<1> HIDE DEF k, e
<1>4. CASE e.work > 0 /\ entry' = [entry EXCEPT ![k] = f] /\ UNCHANGED <<mutex, lease, tick>>
  <2>1. f \in Conn /\ f.use = e.use /\ f.depth = e.depth /\ f.st # "freed"
    <3>1. e.work - 1 \in Nat
      BY <1>3, <1>4 DEF Conn
    <3>2. QED
      BY <1>3, <3>1 DEF Conn
  <2> HIDE DEF f
  <2>2. Sound(pool.closed, [entry EXCEPT ![k] = f], lease, k)
    BY <1>3, <2>1, OneChanges DEF e
  <2>3. Typed'
    BY <1>1, <1>3, <1>4 DEF Typed
  <2>4. QED
    BY <1>1, <1>3, <1>4, <2>2, <2>3 DEF PoolInv, k
<1>5. CASE Ticks([entry EXCEPT ![k] = g])
  <2>1. g \in Conn /\ g.use = e.use /\ g.st # "freed" /\ g.depth # 1
    <3> DEFINE p == e.ping /\ e.work = 0
    <3>1. p \in BOOLEAN /\ g = [e EXCEPT !.depth = 0, !.ping = p]
      BY <1>3 DEF Conn
    <3> HIDE DEF p, g
    <3>2. g \in Conn
      BY <1>3, <3>1 DEF Conn
    <3>3. g.use = e.use /\ g.st = e.st /\ g.depth = 0
      BY <1>3, <3>1 DEF Conn
    <3>4. QED
      BY <1>3, <3>2, <3>3
  <2> HIDE DEF g
  <2>2. Sound(pool.closed, [entry EXCEPT ![k] = g], lease, 0)
    BY <1>1, <1>3, <2>1, UpdateSound DEF e
  <2>3. \A es : Sound(pool.closed, es, lease, 0) /\ Ticks(es) =>
            Typed' /\ Guarded(mutex', pool.closed, tick'.conn) /\ Sound(pool.closed, entry', lease', tick'.conn)
    BY <1>1, <1>3, TicksKeep
  <2>4. Typed' /\ Guarded(mutex', pool.closed, tick'.conn) /\ Sound(pool.closed, entry', lease', tick'.conn)
    BY <1>5, <2>2, <2>3
  <2>5. QED
    BY <1>1, <1>3, <2>4 DEF PoolInv
<1>6. QED
  BY <1>2, <1>4, <1>5

\* The tick is over, or given up.
LEMMA OutsideTyped == Outside.conn = 0 /\ Outside.at = "out" /\ Outside \in [at : {"out"}, left : {<<>>}, conn : {0}]
BY DEF Outside

LEMMA PoolCallbackThrowsStep ==
    ASSUME PoolAssumption, PoolInv, PoolCallbackThrows
    PROVE  PoolInv'
<1> DEFINE k == tick.conn
           e == entry[k]
           g == [e EXCEPT !.depth = 0]
<1>1. /\ Idle /\ k # 0 /\ entry' = [entry EXCEPT ![k] = g] /\ tick' = Outside
      /\ UNCHANGED <<pool, mutex, lease, withs, dangling>>
  BY DEF PoolCallbackThrows
<1>2. /\ Sound(pool.closed, entry, lease, k) /\ k \in Entries /\ e \in Conn /\ e.st # "freed"
  BY <1>1, PoolInCallback DEF PoolInv
<1> HIDE DEF k, e
<1>3. g \in Conn /\ g.use = e.use /\ g.st # "freed" /\ g.depth # 1
  BY <1>2 DEF Conn
<1> HIDE DEF g
<1>4. Sound(pool.closed, [entry EXCEPT ![k] = g], lease, 0)
  BY <1>1, <1>2, <1>3, UpdateSound DEF e
<1>5. mutex' \in Mutex /\ Guarded(mutex', pool.closed, 0)
  BY <1>1, IdleKeeps
<1>6. Typed' /\ tick'.conn = 0
  BY <1>1, <1>5, OutsideTyped DEF PoolInv, Typed
<1>7. QED
  BY <1>1, <1>4, <1>5, <1>6 DEF PoolInv

LEMMA SkipLeaseStep ==
    ASSUME PoolAssumption, PoolInv, SkipLease
    PROVE  PoolInv'
<1>1. /\ Idle /\ tick.at = "lease" /\ tick.conn = 0 /\ tick.left # <<>>
      /\ tick' = [tick EXCEPT !.left = Tail(tick.left)]
      /\ UNCHANGED <<pool, mutex, entry, lease, withs, asked, dangling>>
  BY DEF SkipLease
<1>2. tick \in [at : {"lease"}, left : Seq(Leases), conn : {0} \cup Entries]
  BY <1>1 DEF PoolInv, Typed
<1>3. Tail(tick.left) \in Seq(Leases)
  BY <1>1, <1>2, HeadTailProperties
<1>4. tick' \in [at : {"lease"}, left : Seq(Leases), conn : {0} \cup Entries] /\ tick'.conn = 0
  BY <1>1, <1>2, <1>3
<1>5. mutex' \in Mutex /\ Guarded(mutex', pool.closed, 0)
  BY <1>1, IdleKeeps
<1>6. Typed'
  BY <1>1, <1>4, <1>5 DEF PoolInv, Typed
<1>7. QED
  BY <1>1, <1>4, <1>5, <1>6 DEF PoolInv

LEMMA PoolTickedStep ==
    ASSUME PoolAssumption, PoolInv, PoolTicked
    PROVE  PoolInv'
<1>1. /\ Idle /\ tick.conn = 0 /\ tick' = LeaseTicks /\ UNCHANGED <<pool, entry, lease, withs, asked, dangling>>
      /\ Reap(entry) \/ Locks("check")
  BY DEF PoolTicked
<1>2. mutex' \in Mutex /\ Guarded(mutex', pool.closed, 0)
  <2>1. CASE Reap(entry)
    BY <1>1, <2>1, ReapIs DEF PoolInv
  <2>2. CASE Locks("check")
    BY <2>2, LocksIs
  <2>3. QED
    BY <1>1, <2>1, <2>2
<1>3. Typed' /\ tick'.conn = 0
  BY <1>1, <1>2, TickTyped DEF PoolInv, Typed
<1>4. QED
  BY <1>1, <1>2, <1>3 DEF PoolInv

LEMMA TickReturnsStep ==
    ASSUME PoolAssumption, PoolInv, TickReturns
    PROVE  PoolInv'
<1>1. Idle /\ tick.conn = 0 /\ tick' = Outside /\ UNCHANGED <<pool, mutex, entry, lease, withs, asked, dangling>>
  BY DEF TickReturns
<1>2. mutex' \in Mutex /\ Guarded(mutex', pool.closed, 0)
  BY <1>1, IdleKeeps
<1>3. Typed' /\ tick'.conn = 0
  BY <1>1, <1>2, OutsideTyped DEF PoolInv, Typed
<1>4. QED
  BY <1>1, <1>2, <1>3 DEF PoolInv
-----------------------------------------------------------------------------
(* The steps under the mutex.                                              *)

LEMMA UnderKeeps ==
    ASSUME PoolInv, mutex' \in Mutex, Guarded(mutex', pool.closed, tick.conn),
           Sound(pool.closed, entry', lease, tick.conn), UNCHANGED <<pool, lease, withs, tick, dangling>>
    PROVE  PoolInv'
<1>1. Typed'
  BY DEF PoolInv, Typed
<1>2. QED
  BY <1>1 DEF PoolInv

LEMMA OnwardKeeps ==
    ASSUME PoolAssumption, mutex \in Mutex, NEW c, NEW b, Guarded(mutex, c, b), ~mutex.cb, Onward
    PROVE  mutex' \in Mutex /\ Guarded(mutex', c, b)
<1>1. CASE mutex.at = PoolSize
  <2>1. mutex' = Unlocked
    BY <1>1 DEF Onward
  <2>2. QED
    BY <2>1, UnlockedIs
<1>2. CASE mutex.at # PoolSize
  <2>1. mutex' = [mutex EXCEPT !.at = mutex.at + 1, !.closing = FALSE] /\ mutex.at + 1 \in Entries
    BY <1>2 DEF Onward, Mutex, Entries, PoolAssumption
  <2>2. QED
    BY <2>1 DEF Mutex, Guarded
<1>3. QED
  BY <1>1, <1>2

\* The entry the mutex has come to.
LEMMA AtIs ==
    ASSUME PoolInv
    PROVE  /\ mutex.at \in Entries /\ entry[mutex.at] \in Conn
           /\ entry[mutex.at].depth # 1 <=> tick.conn # mutex.at
           /\ entry[mutex.at].st = "freed" => pool.closed
<1>1. mutex.at \in Entries
  BY DEF PoolInv, Typed, Mutex
<1>2. QED
  BY <1>1 DEF PoolInv, Sound

LEMMA AtKeeps ==
    ASSUME PoolInv, NEW e \in Conn, At(e), e.use = entry[mutex.at].use, e.depth = entry[mutex.at].depth,
           e.st = "freed" => pool.closed /\ tick.conn # mutex.at
    PROVE  Sound(pool.closed, entry', lease, tick.conn)
<1>1. Sound(pool.closed, entry, lease, tick.conn) /\ mutex.at \in Entries
  BY AtIs DEF PoolInv
<1>2. Sound(pool.closed, [entry EXCEPT ![mutex.at] = e], lease, tick.conn)
  BY <1>1, OneChanges
<1>3. QED
  BY <1>2 DEF At

LEMMA CloseEntryKeeps ==
    ASSUME PoolInv, NEW d \in Conn, d.use = entry[mutex.at].use, d.depth = entry[mutex.at].depth, CloseEntry(d),
           mutex.op \in {"close", "reap", "check"}, ~mutex.closing, tick.conn # mutex.at
    PROVE  mutex' \in Mutex /\ Guarded(mutex', pool.closed, tick.conn) /\ Sound(pool.closed, entry', lease, tick.conn)
<1>1. mutex \in Mutex /\ Guarded(mutex, pool.closed, tick.conn)
  BY DEF PoolInv, Typed
<1>2. mutex' = [mutex EXCEPT !.closing = TRUE]
  BY DEF CloseEntry
<1>3. mutex' \in Mutex /\ Guarded(mutex', pool.closed, tick.conn)
  BY <1>1, <1>2 DEF Mutex, Guarded
<1>4. PICK n \in 0..(IF d.st = "up" /\ d.work > 0 THEN 1 ELSE 0) : At(Torn(d, d.work - n))
  BY DEF CloseEntry
<1>5. d.work - n \in Nat
  BY <1>4 DEF Conn
<1> DEFINE e == Torn(d, d.work - n)
<1>6. e \in Conn /\ e.use = d.use /\ e.depth = d.depth /\ e.st = "down"
  BY <1>5 DEF Torn, Conn
<1> HIDE DEF e
<1>7. Sound(pool.closed, entry', lease, tick.conn)
  <2>1. At(e)
    BY <1>4 DEF e
  <2>2. QED
    BY <1>6, <2>1, AtKeeps
<1>8. QED
  BY <1>3, <1>7

LEMMA FreesStep ==
    ASSUME PoolAssumption, PoolInv, Frees
    PROVE  PoolInv'
<1>1. mutex.op \in {"close", "reap"} /\ ~mutex.closing /\ UNCHANGED <<pool, lease, withs, tick, asked, dangling>>
  BY DEF Frees
<1>2. mutex \in Mutex /\ Guarded(mutex, pool.closed, tick.conn) /\ Sound(pool.closed, entry, lease, tick.conn)
  BY DEF PoolInv, Typed
<1>3. mutex' \in Mutex /\ Guarded(mutex', pool.closed, tick.conn) /\ Sound(pool.closed, entry', lease, tick.conn)
  <2>1. CASE Onward /\ UNCHANGED entry
    BY <1>1, <1>2, <2>1, OnwardKeeps DEF Guarded
  <2>2. CASE ~(entry[mutex.at].depth > 0) /\ CloseEntry(entry[mutex.at])
    <3>1. entry[mutex.at] \in Conn /\ tick.conn # mutex.at
      BY <2>2, AtIs
    <3>2. QED
      BY <1>1, <2>2, <3>1, CloseEntryKeeps
  <2>3. QED
    BY <2>1, <2>2 DEF Frees
<1>4. QED
  BY <1>1, <1>3, UnderKeeps

\* The check of an entry never touches its use, and leaves nothing freed but what was.
LEMMA CheckedIs ==
    ASSUME NEW d \in Conn
    PROVE  /\ \A e \in {Checked(d)} \cup SendHeartbeat(Checked(d)) :
                 e \in Conn /\ e.use = d.use /\ e.depth = d.depth /\ (e.st = "freed" => d.st = "freed")
           /\ \A e \in {[Checked(d) EXCEPT !.retry = @ + 1]} : e \in Conn /\ e.use = d.use /\ e.depth = d.depth
<1> DEFINE c == Checked(d)
<1>1. c \in Conn /\ c.use = d.use /\ c.depth = d.depth /\ c.st = d.st
  <2>1. d.st = "up" \/ d.healthy => 0 \in Nat
    OBVIOUS
  <2>2. QED
    BY <2>1 DEF Checked, Conn
<1>2. SendHeartbeat(c) \subseteq {[c EXCEPT !.ping = TRUE], [c EXCEPT !.st = "down"]}
  BY DEF SendHeartbeat
<1> HIDE DEF c
<1>3. /\ [c EXCEPT !.ping = TRUE] \in Conn /\ [c EXCEPT !.ping = TRUE].use = c.use
      /\ [c EXCEPT !.ping = TRUE].depth = c.depth /\ [c EXCEPT !.ping = TRUE].st = c.st
  BY <1>1 DEF Conn
<1>4. /\ [c EXCEPT !.st = "down"] \in Conn /\ [c EXCEPT !.st = "down"].use = c.use
      /\ [c EXCEPT !.st = "down"].depth = c.depth /\ [c EXCEPT !.st = "down"].st # "freed"
  BY <1>1 DEF Conn
<1>5. [c EXCEPT !.retry = c.retry + 1] \in Conn /\ [c EXCEPT !.retry = c.retry + 1].use = c.use
      /\ [c EXCEPT !.retry = c.retry + 1].depth = c.depth
  BY <1>1 DEF Conn
<1>6. \A e \in {c} \cup SendHeartbeat(c) :
          e \in Conn /\ e.use = d.use /\ e.depth = d.depth /\ (e.st = "freed" => d.st = "freed")
  BY <1>1, <1>2, <1>3, <1>4
<1>7. QED
  BY <1>1, <1>5, <1>6 DEF c

LEMMA CheckEntryStep ==
    ASSUME PoolAssumption, PoolInv, CheckEntry
    PROVE  PoolInv'
<1> DEFINE d == entry[mutex.at]
<1>1. mutex.op = "check" /\ ~mutex.closing /\ UNCHANGED <<pool, lease, withs, tick, asked, dangling>>
  BY DEF CheckEntry
<1>2. mutex \in Mutex /\ Guarded(mutex, pool.closed, tick.conn)
  BY DEF PoolInv, Typed
<1>3. /\ mutex.at \in Entries /\ d \in Conn /\ tick.conn # mutex.at
      /\ d.st = "freed" => pool.closed
  <2>1. tick.conn = 0
    BY <1>1, <1>2 DEF Guarded
  <2>2. QED
    BY <2>1, AtIs DEF Entries
<1>4. \/ \E e \in {[Checked(d) EXCEPT !.retry = @ + 1]} : CloseEntry(e)
      \/ Onward /\ \E e \in {Checked(d)} \cup SendHeartbeat(Checked(d)) : At(e)
  BY DEF CheckEntry
<1> HIDE DEF d
<1>5. mutex' \in Mutex /\ Guarded(mutex', pool.closed, tick.conn) /\ Sound(pool.closed, entry', lease, tick.conn)
  <2>1. CASE \E e \in {[Checked(d) EXCEPT !.retry = @ + 1]} : CloseEntry(e)
    <3>1. PICK e \in {[Checked(d) EXCEPT !.retry = @ + 1]} : CloseEntry(e)
      BY <2>1
    <3>2. e \in Conn /\ e.use = d.use /\ e.depth = d.depth
      BY <1>3, <3>1, CheckedIs
    <3> HIDE <3>1
    <3>3. QED
      BY <1>1, <1>3, <3>1, <3>2, CloseEntryKeeps DEF d
  <2>2. CASE Onward /\ \E e \in {Checked(d)} \cup SendHeartbeat(Checked(d)) : At(e)
    <3>1. PICK e \in {Checked(d)} \cup SendHeartbeat(Checked(d)) : At(e)
      BY <2>2
    <3>2. e \in Conn /\ e.use = d.use /\ e.depth = d.depth /\ (e.st = "freed" => d.st = "freed")
      BY <1>3, <3>1, CheckedIs
    <3>3. Sound(pool.closed, entry', lease, tick.conn)
      BY <1>3, <3>1, <3>2, AtKeeps DEF d
    <3>4. mutex' \in Mutex /\ Guarded(mutex', pool.closed, tick.conn)
      BY <1>1, <1>2, <2>2, OnwardKeeps DEF Guarded
    <3>5. QED
      BY <3>3, <3>4
  <2>3. QED
    BY <1>4, <2>1, <2>2
<1>6. QED
  BY <1>1, <1>5, UnderKeeps

LEMMA DrainQueryQueueStep ==
    ASSUME PoolAssumption, PoolInv, DrainQueryQueue
    PROVE  PoolInv'
<1> DEFINE d == entry[mutex.at]
           s == IF mutex.op = "check" THEN "connecting" ELSE "freed"
<1>1. mutex.closing /\ ~mutex.cb /\ UNCHANGED <<pool, lease, withs, tick, asked, dangling>>
  BY DEF DrainQueryQueue
<1>2. mutex \in Mutex /\ Guarded(mutex, pool.closed, tick.conn)
  BY DEF PoolInv, Typed
<1>3. mutex.op \in {"close", "reap", "check"} /\ tick.conn # mutex.at
  BY <1>1, <1>2 DEF Guarded
<1>4. mutex.at \in Entries /\ d \in Conn /\ (d.st = "freed" => pool.closed)
  BY AtIs
<1>5. \/ d.work > 0 /\ mutex' = [mutex EXCEPT !.cb = TRUE] /\ At([d EXCEPT !.work = d.work - 1])
      \/ Onward /\ At([d EXCEPT !.st = s])
  BY DEF DrainQueryQueue
<1>6. s \in {"connecting", "freed"} /\ (s = "freed" => pool.closed)
  BY <1>2, <1>3 DEF Guarded
<1> HIDE DEF d, s
<1>7. CASE d.work > 0 /\ mutex' = [mutex EXCEPT !.cb = TRUE] /\ At([d EXCEPT !.work = d.work - 1])
  <2> DEFINE e == [d EXCEPT !.work = d.work - 1]
  <2>1. e \in Conn /\ e.use = d.use /\ e.depth = d.depth /\ e.st = d.st
    <3>1. d.work - 1 \in Nat
      BY <1>4, <1>7 DEF Conn
    <3>2. QED
      BY <1>4, <3>1 DEF Conn
  <2>2. At(e)
    BY <1>7
  <2> HIDE DEF e
  <2>3. Sound(pool.closed, entry', lease, tick.conn)
    BY <1>3, <1>4, <2>1, <2>2, AtKeeps DEF d
  <2>4. mutex' \in Mutex /\ Guarded(mutex', pool.closed, tick.conn)
    BY <1>1, <1>2, <1>7 DEF Mutex, Guarded
  <2>5. QED
    BY <1>1, <2>3, <2>4, UnderKeeps
<1>8. CASE Onward /\ At([d EXCEPT !.st = s])
  <2> DEFINE e == [d EXCEPT !.st = s]
  <2>1. e \in Conn /\ e.use = d.use /\ e.depth = d.depth /\ e.st = s
    BY <1>4, <1>6 DEF Conn
  <2>2. At(e)
    BY <1>8
  <2> HIDE DEF e
  <2>3. Sound(pool.closed, entry', lease, tick.conn)
    BY <1>3, <1>4, <1>6, <2>1, <2>2, AtKeeps DEF d
  <2>4. mutex' \in Mutex /\ Guarded(mutex', pool.closed, tick.conn)
    BY <1>1, <1>2, <1>8, OnwardKeeps
  <2>5. QED
    BY <1>1, <2>3, <2>4, UnderKeeps
<1>9. QED
  BY <1>5, <1>7, <1>8

LEMMA DrainReturnsStep ==
    ASSUME PoolAssumption, PoolInv, DrainReturns \/ LocksItselfOut
    PROVE  PoolInv'
<1>1. UNCHANGED <<pool, entry, lease, withs, tick, asked, dangling>>
  BY DEF DrainReturns, LocksItselfOut
<1>2. /\ mutex \in Mutex /\ Guarded(mutex, pool.closed, tick.conn) /\ Sound(pool.closed, entry, lease, tick.conn)
  BY DEF PoolInv, Typed
<1>3. mutex' \in Mutex /\ Guarded(mutex', pool.closed, tick.conn)
  <2>1. CASE DrainReturns
    BY <1>2, <2>1 DEF DrainReturns, Mutex, Guarded
  <2>2. CASE LocksItselfOut
    <3>1. mutex' = [op |-> "stuck", at |-> 1, closing |-> FALSE, cb |-> FALSE]
      BY <2>2 DEF LocksItselfOut, Unlocked
    <3>2. 1 \in Entries
      BY DEF Entries, PoolAssumption
    <3>3. QED
      BY <3>1, <3>2 DEF Mutex, Guarded
  <2>3. QED
    BY <2>1, <2>2
<1>4. QED
  BY <1>1, <1>2, <1>3, UnderKeeps

LEMMA DrainThrowsStep ==
    ASSUME PoolAssumption, PoolInv, DrainThrows
    PROVE  PoolInv'
<1>1. /\ mutex.cb /\ mutex' = Unlocked /\ UNCHANGED <<pool, entry, lease, withs, asked, dangling>>
      /\ tick' = IF mutex.op = "close" THEN tick ELSE Outside
  BY DEF DrainThrows
<1>2. Guarded(mutex, pool.closed, tick.conn) /\ Sound(pool.closed, entry, lease, tick.conn)
  BY DEF PoolInv
<1>3. mutex' \in Mutex /\ Guarded(mutex', pool.closed, tick.conn)
  BY <1>1, UnlockedIs
<1>4. CASE mutex.op = "close"
  BY <1>1, <1>2, <1>3, <1>4, UnderKeeps
<1>5. CASE mutex.op # "close"
  <2>1. tick.conn = 0 /\ tick' = Outside
    BY <1>1, <1>2, <1>5 DEF Guarded
  <2>2. Typed' /\ tick'.conn = 0
    BY <1>1, <1>3, <2>1, OutsideTyped DEF PoolInv, Typed
  <2>3. QED
    BY <1>1, <1>2, <1>3, <2>1, <2>2 DEF PoolInv
<1>6. QED
  BY <1>4, <1>5
-----------------------------------------------------------------------------
(* The invariant, and what it says.                                        *)

LEMMA InitSound ==
    ASSUME PoolAssumption, PoolInit
    PROVE  PoolInv
<1>1. /\ pool = [closed |-> FALSE, rr |-> 1] /\ entry = [i \in Entries |-> NewConn]
      /\ lease = [w \in Leases |-> NoLease] /\ withs = <<>> /\ tick = Outside /\ dangling = FALSE
      /\ mutex = Unlocked
  BY DEF PoolInit
<1>2. tick.conn = 0 /\ tick.at = "out" /\ tick \in [at : {"out"}, left : {<<>>}, conn : {0}]
  BY <1>1 DEF Outside
<1>3. 1 \in Entries /\ 0 \in 0..PoolSize /\ \A i \in Entries : i # 0
  BY DEF PoolAssumption, Entries
<1>4. Typed /\ Guarded(mutex, pool.closed, tick.conn)
  <2>1. mutex \in Mutex /\ Guarded(mutex, pool.closed, tick.conn)
    BY <1>1, UnlockedIs
  <2>2. pool \in [closed : BOOLEAN, rr : Entries] /\ withs \in Seq([lease : Leases, conn : Entries])
    BY <1>1, <1>3
  <2>3. QED
    BY <1>2, <2>1, <2>2 DEF Typed
<1>5. NewConn \in Conn /\ NewConn.st = "connecting" /\ NewConn.depth = 0
  BY DEF NewConn, Conn
<1>6. NoLease \in Lease /\ NoLease.conn = 0
  BY <1>3 DEF NoLease, Lease
<1>7. Exclusive(entry, lease)
  BY <1>1, <1>6 DEF Exclusive
<1>8. Sound(pool.closed, entry, lease, tick.conn)
  BY <1>1, <1>2, <1>3, <1>5, <1>6, <1>7 DEF Sound
<1>9. QED
  BY <1>1, <1>4, <1>8 DEF PoolInv

\* Whatever the script does with the pool and its leases, and whatever becomes of the connections.
THEOREM PoolInvariant ==
    ASSUME PoolAssumption
    PROVE  PoolSpec => []PoolInv
<1>1. PoolInit => PoolInv
  BY InitSound
<1>2. PoolInv /\ [PoolNext]_poolVars => PoolInv'
  <2> SUFFICES ASSUME PoolInv, [PoolNext]_poolVars PROVE PoolInv'
    OBVIOUS
  <2>1. CASE PoolAcquire \/ PoolWith
    BY <2>1, AcquireStep
  <2>2. CASE PoolRelease
    BY <2>2, ReleaseStep
  <2>3. CASE ConnQuery
    BY <2>3, ConnQueryStep
  <2>4. CASE PoolClose
    BY <2>4, PoolCloseStep
  <2>5. CASE TickPool
    BY <2>5, TickPoolStep
  <2>6. CASE ConnTick
    BY <2>6, ConnTickStep
  <2>7. CASE CallbackReturns
    BY <2>7, CallbackReturnsStep
  <2>8. CASE SkipLease
    BY <2>8, SkipLeaseStep
  <2>9. CASE PoolTicked
    BY <2>9, PoolTickedStep
  <2>10. CASE TickReturns
    BY <2>10, TickReturnsStep
  <2>11. CASE LeaseGuard
    BY <2>11, LeaseGuardStep
  <2>12. CASE Frees
    BY <2>12, FreesStep
  <2>13. CASE CheckEntry
    BY <2>13, CheckEntryStep
  <2>14. CASE DrainQueryQueue
    BY <2>14, DrainQueryQueueStep
  <2>15. CASE DrainReturns \/ LocksItselfOut
    BY <2>15, DrainReturnsStep
  <2>16. CASE DrainThrows
    BY <2>16, DrainThrowsStep
  <2>17. CASE PoolCallbackThrows
    BY <2>17, PoolCallbackThrowsStep
  <2>18. CASE UNCHANGED poolVars
    BY <2>18 DEF poolVars, PoolInv, Typed
  <2>19. QED
    BY <2>1, <2>2, <2>3, <2>4, <2>5, <2>6, <2>7, <2>8, <2>9, <2>10, <2>11, <2>12, <2>13, <2>14, <2>15, <2>16, <2>17, <2>18
    DEF PoolNext, PoolTick, PoolErrors, UnderMutex
<1>3. QED
  BY <1>1, <1>2, PTL DEF PoolSpec

\* No connection is ever leased to two holders, or leased and free (Acquire, DetachAcquiredWrapper, TryReconnect), close()
\* and Reap never free the connection whose Tick runs a callback, and no tick meets a freed one.
THEOREM LeasesAlwaysSound ==
    ASSUME PoolAssumption
    PROVE  PoolSpec => []LeasesSound
<1>1. PoolInv => LeaseExclusive
  BY DEF PoolInv, Sound, Exclusive, LeaseExclusive
<1>2. PoolInv => ConnAliveInCallback
  <2> SUFFICES ASSUME PoolInv, NEW i \in Entries, entry[i].depth > 0 PROVE entry[i].st # "freed"
    BY DEF ConnAliveInCallback, PoolInv
  <2>1. entry[i] \in Conn
    BY DEF PoolInv, Sound
  <2>2. entry[i].depth = 1
    BY <2>1 DEF Conn
  <2>3. QED
    BY <2>2 DEF PoolInv, Sound
<1>3. PoolInv => LeasesSound
  BY <1>1, <1>2 DEF LeasesSound
<1>4. QED
  BY <1>3, PoolInvariant, PTL

(***************************************************************************)
(* A redis connection.                                                     *)
(***************************************************************************)
\* The behaviours of one redis connection.
RedisSpec == RedisInit /\ [][RedisNext]_redisVars

Cmd == [id : CmdIds, done : BOOLEAN, err : BOOLEAN, cb : BOOLEAN]

\* The connections whose commands are in S.
RcOf(S) == [ac : {"none", "connecting", "open"}, connecting : BOOLEAN, step : 0..3, notified : BOOLEAN, pconn : BOOLEAN,
            err : BOOLEAN, ready : BOOLEAN, closed : BOOLEAN, closing : BOOLEAN, cmds : S, next : Nat \ {0}]

Places == {"out", "poll", "connect_cb", "cmds", "cmd_cb", "release"}
Waiting == Seq(CmdIds \cup {Handshake})
Calls == [CmdIds -> Seq({"ok", "err"})]

RedisTyped ==
    /\ rc \in RcOf(Seq(Cmd)) /\ rpc \in Places /\ cursor \in Nat
    /\ sent \in Waiting /\ got \in Calls /\ connGot \in Nat /\ threw \subseteq CmdIds

\* The commands s have ids of their own, below the next one.
Numbered(s, n) ==
    /\ \A k \in DOMAIN s : s[k].id < n
    /\ \A j, k \in DOMAIN s : s[j].id = s[k].id => j = k

\* What hiredis has in w are commands of s that wait, each once.
InFlight(w, s) ==
    /\ \A p \in DOMAIN w : w[p] # Handshake => \E k \in DOMAIN s : s[k].id = w[p] /\ ~s[k].done
    /\ \A p, q \in DOMAIN w : w[p] # Handshake /\ w[p] = w[q] => p = q

\* The connect callback is due, or was called, only after NotifyConnect, and once.
ConnectedOnce(c, n) ==
    /\ ~c.notified => n = 0 /\ ~c.pconn
    /\ c.pconn => n = 0
    /\ n <= 1

\* A command whose callback is set was not called, unless it is being called (at k) or its callback threw.
CalledOnce(s, n, p, k, g, t) ==
    /\ p = "cmd_cb" => k \in DOMAIN s
    /\ \A j \in DOMAIN s : s[j].cb /\ s[j].id \notin t /\ ~(p = "cmd_cb" /\ j = k) => g[s[j].id] = <<>>
    /\ \A i \in CmdIds : i >= n => g[i] = <<>>
    /\ \A i \in CmdIds : i \notin t => Len(g[i]) <= 1

RedisInv ==
    /\ RedisTyped
    /\ Numbered(rc.cmds, rc.next)
    /\ InFlight(sent, rc.cmds)
    /\ ConnectedOnce(rc, connGot)
    /\ CalledOnce(rc.cmds, rc.next, rpc, cursor, got, threw)

-----------------------------------------------------------------------------

\* NotifyConnect keeps the commands, and says it once.
LEMMA NotifySays ==
    ASSUME NEW S, NEW c \in RcOf(S), NEW err \in BOOLEAN, NEW n \in Nat, ConnectedOnce(c, n)
    PROVE  LET d == NotifyConnect(c, err)
           IN  d \in RcOf(S) /\ d.cmds = c.cmds /\ d.next = c.next /\ d.closing = c.closing /\ ConnectedOnce(d, n)
<1>1. CASE c.notified
  BY <1>1 DEF NotifyConnect
<1>2. CASE ~c.notified
  <2> DEFINE d == [c EXCEPT !.connecting = FALSE, !.notified = TRUE, !.pconn = TRUE, !.err = err, !.ready = ~err]
  <2>1. NotifyConnect(c, err) = d
    BY <1>2 DEF NotifyConnect
  <2>2. (~err) \in BOOLEAN
    OBVIOUS
  <2>3. d \in RcOf(S) /\ d.cmds = c.cmds /\ d.next = c.next /\ d.closing = c.closing /\ d.notified = TRUE
    BY <2>2 DEF RcOf
  <2>4. n = 0
    BY <1>2 DEF ConnectedOnce
  <2>5. ConnectedOnce(d, n)
    BY <2>3, <2>4 DEF ConnectedOnce
  <2> HIDE DEF d
  <2>6. QED
    BY <2>1, <2>3, <2>5
<1>3. QED
  BY <1>1, <1>2

\* Teardown drops the commands.
LEMMA TeardownDrops ==
    ASSUME NEW S, NEW c \in RcOf(S), <<>> \in S, NEW n \in Nat, ConnectedOnce(c, n)
    PROVE  LET d == Teardown(c) IN d \in RcOf(S) /\ d.cmds = <<>> /\ d.next = c.next /\ d.closing = c.closing /\ ConnectedOnce(d, n)
<1> DEFINE d == [c EXCEPT !.closed = TRUE, !.connecting = FALSE, !.ac = "none", !.cmds = <<>>]
<1>1. d \in RcOf(S) /\ d.cmds = <<>> /\ d.next = c.next /\ d.closing = c.closing /\ d.notified = c.notified /\ d.pconn = c.pconn
  BY DEF RcOf
<1>2. ConnectedOnce(d, n)
  BY <1>1 DEF ConnectedOnce
<1>3. Teardown(c) = d
  BY DEF Teardown
<1> HIDE DEF d
<1>4. QED
  BY <1>1, <1>2, <1>3

\* Without commands, nothing waits.
LEMMA NoneLeft ==
    ASSUME NEW n, NEW p, p # "cmd_cb", NEW k, NEW g, NEW t, NEW s, CalledOnce(s, n, p, k, g, t)
    PROVE  Numbered(<<>>, n) /\ InFlight(<<>>, <<>>) /\ CalledOnce(<<>>, n, p, k, g, t)
<1>1. DOMAIN <<>> = {}
  OBVIOUS
<1>2. QED
  BY <1>1 DEF Numbered, InFlight, CalledOnce

\* With nothing sent, nothing is in flight.
LEMMA NoneSent == ASSUME NEW s PROVE InFlight(<<>>, s)
<1>1. DOMAIN <<>> = {}
  OBVIOUS
<1>2. QED
  BY <1>1 DEF InFlight

\* What is in flight without its head, and with a handshake at its end.
LEMMA TailInFlight ==
    ASSUME NEW w \in Waiting, w # <<>>, NEW s, InFlight(w, s)
    PROVE  /\ Tail(w) \in Waiting /\ InFlight(Tail(w), s)
           /\ \A p \in DOMAIN Tail(w) : p + 1 \in DOMAIN w /\ p + 1 # 1 /\ 1 \in DOMAIN w /\ Tail(w)[p] = w[p + 1]
<1>1. Tail(w) \in Waiting /\ Len(w) \in Nat /\ Len(w) > 0 /\ Len(Tail(w)) = Len(w) - 1 /\ DOMAIN w = 1..Len(w)
  BY EmptySeq, HeadTailProperties, LenProperties DEF Waiting
<1>2. DOMAIN Tail(w) = 1..(Len(w) - 1)
  BY <1>1, LenProperties DEF Waiting
<1>3. \A p \in 1..(Len(w) - 1) : Tail(w)[p] = w[p + 1]
  BY <1>1, HeadTailProperties DEF Waiting
<1>4. \A p \in DOMAIN Tail(w) : p + 1 \in DOMAIN w /\ p + 1 # 1 /\ 1 \in DOMAIN w /\ Tail(w)[p] = w[p + 1]
  BY <1>1, <1>2, <1>3
<1>5. ASSUME NEW p \in DOMAIN Tail(w), Tail(w)[p] # Handshake
      PROVE  \E k \in DOMAIN s : s[k].id = Tail(w)[p] /\ ~s[k].done
  BY <1>4, <1>5 DEF InFlight
<1>6. ASSUME NEW p \in DOMAIN Tail(w), NEW q \in DOMAIN Tail(w), Tail(w)[p] # Handshake, Tail(w)[p] = Tail(w)[q]
      PROVE  p = q
  <2>1. p + 1 = q + 1
    BY <1>4, <1>6 DEF InFlight
  <2>2. p \in Int /\ q \in Int
    BY <1>2
  <2>3. QED
    BY <2>1, <2>2
<1>7. InFlight(Tail(w), s)
  BY <1>5, <1>6 DEF InFlight
<1>8. QED
  BY <1>1, <1>4, <1>7

\* A handshake that is sent, too.
LEMMA HandshakeInFlight ==
    ASSUME NEW w \in Waiting, NEW s, InFlight(w, s)
    PROVE  Append(w, Handshake) \in Waiting /\ InFlight(Append(w, Handshake), s)
<1> DEFINE v == Append(w, Handshake)
<1>1. v \in Waiting /\ Len(w) \in Nat /\ DOMAIN w = 1..Len(w) /\ Len(v) = Len(w) + 1
  BY AppendProperties, LenProperties DEF Waiting
<1>2. DOMAIN v = 1..(Len(w) + 1)
  BY <1>1, LenProperties DEF Waiting
<1>3. v[Len(w) + 1] = Handshake /\ \A p \in 1..Len(w) : v[p] = w[p]
  BY AppendProperties DEF Waiting
<1> HIDE DEF v
<1>4. \A p \in DOMAIN v : v[p] # Handshake => p \in DOMAIN w /\ v[p] = w[p]
  <2>1. SUFFICES ASSUME NEW p \in DOMAIN v, v[p] # Handshake PROVE p \in DOMAIN w /\ v[p] = w[p]
    OBVIOUS
  <2>2. p # Len(w) + 1
    BY <2>1, <1>3
  <2>3. p \in 1..Len(w)
    BY <2>2, <1>1, <1>2
  <2>4. QED
    BY <2>3, <1>1, <1>3
<1>5. InFlight(v, s)
  BY <1>4 DEF InFlight
<1>6. QED
  BY <1>1, <1>5 DEF v

\* Commands that change, but not their ids, and get no callback: same numbers and calls.
LEMMA SameCommands ==
    ASSUME NEW s, NEW r, DOMAIN r = DOMAIN s, \A k \in DOMAIN s : r[k].id = s[k].id /\ (r[k].cb => s[k].cb),
           NEW n, NEW p, NEW k, NEW g, NEW t
    PROVE  /\ Numbered(s, n) => Numbered(r, n)
           /\ CalledOnce(s, n, p, k, g, t) => CalledOnce(r, n, p, k, g, t)
<1>1. Numbered(s, n) => Numbered(r, n)
  BY DEF Numbered
<1>2. CalledOnce(s, n, p, k, g, t) => CalledOnce(r, n, p, k, g, t)
  BY DEF CalledOnce
<1>3. QED
  BY <1>1, <1>2

\* What a completion makes of the commands.
LEMMA CompletedCommands ==
    ASSUME NEW c \in RcOf(Seq(Cmd)), NEW ids, NEW err \in BOOLEAN, NEW n \in Nat, ConnectedOnce(c, n)
    PROVE  LET d == Completed(c, ids, err)
           IN  /\ d \in RcOf(Seq(Cmd)) /\ d.next = c.next /\ d.closing = c.closing /\ ConnectedOnce(d, n)
               /\ DOMAIN d.cmds = DOMAIN c.cmds
               /\ \A k \in DOMAIN c.cmds : /\ d.cmds[k].id = c.cmds[k].id /\ d.cmds[k].cb = c.cmds[k].cb
                                           /\ c.cmds[k].id \notin ids => d.cmds[k] = c.cmds[k]
<1> DEFINE s == c.cmds
           r == [i \in DOMAIN s |-> IF s[i].id \in ids THEN [s[i] EXCEPT !.done = TRUE, !.err = err] ELSE s[i]]
           d == [c EXCEPT !.cmds = r]
           S == Seq(Cmd)
<1>1. s \in Seq(Cmd)
  BY DEF RcOf
<1>2. DOMAIN r = DOMAIN s
  OBVIOUS
<1>3. \A k \in DOMAIN s : s[k] \in Cmd
  BY <1>1
<1>4. \A k \in DOMAIN s : r[k] \in Cmd /\ r[k].id = s[k].id /\ r[k].cb = s[k].cb /\ (s[k].id \notin ids => r[k] = s[k])
  BY <1>3 DEF Cmd
<1>5. r \in S
  <2>1. PICK l \in Nat : DOMAIN s = 1..l
    BY <1>1
  <2>2. r \in [1..l -> Cmd]
    BY <2>1, <1>4
  <2>3. QED
    BY <2>1, <2>2, SeqDef DEF S
<1>6. Completed(c, ids, err) = d
  BY DEF Completed
<1>7. c \in RcOf(S)
  OBVIOUS
<1> HIDE DEF r, S
<1>8. d \in RcOf(S) /\ d.cmds = r /\ d.next = c.next /\ d.closing = c.closing /\ d.notified = c.notified /\ d.pconn = c.pconn
  BY <1>5, <1>7 DEF RcOf
<1>9. ConnectedOnce(d, n)
  BY <1>8 DEF ConnectedOnce
<1> HIDE DEF d, s
<1>10. QED
  BY <1>2, <1>4, <1>6, <1>8, <1>9 DEF S, s

\* A command that is sent: it has the next id, and its callback is set.
LEMMA CommandSent ==
    ASSUME NEW s \in Seq(Cmd), NEW n \in Nat \ {0}, n \in CmdIds, NEW w \in Waiting, NEW cmd \in Cmd, cmd.id = n, ~cmd.done,
           Numbered(s, n), InFlight(w, s), NEW p, NEW k \in Nat, NEW g, NEW t, CalledOnce(s, n, p, k, g, t)
    PROVE  /\ Append(s, cmd) \in Seq(Cmd) /\ Numbered(Append(s, cmd), n + 1)
           /\ Append(w, n) \in Waiting /\ InFlight(Append(w, n), Append(s, cmd))
           /\ CalledOnce(Append(s, cmd), n + 1, p, k, g, t)
<1> DEFINE r == Append(s, cmd)
           v == Append(w, n)
<1>0. n # Handshake /\ n \in Int /\ CmdIds \subseteq Int
  BY DEF Handshake, CmdIds
<1>1. /\ r \in Seq(Cmd) /\ Len(s) \in Nat /\ DOMAIN s = 1..Len(s) /\ Len(r) = Len(s) + 1
      /\ r[Len(s) + 1] = cmd /\ \A j \in 1..Len(s) : r[j] = s[j]
  BY AppendProperties, LenProperties
<1>2. DOMAIN r = 1..(Len(s) + 1)
  BY <1>1, LenProperties
<1>3. /\ v \in Waiting /\ Len(w) \in Nat /\ DOMAIN w = 1..Len(w) /\ Len(v) = Len(w) + 1
      /\ v[Len(w) + 1] = n /\ \A j \in 1..Len(w) : v[j] = w[j]
  BY AppendProperties, LenProperties DEF Waiting
<1>4. DOMAIN v = 1..(Len(w) + 1)
  BY <1>3, LenProperties DEF Waiting
<1> HIDE DEF r, v
<1>5. \A j \in DOMAIN r : (j \in DOMAIN s /\ r[j] = s[j]) \/ (j = Len(s) + 1 /\ r[j] = cmd)
  BY <1>1, <1>2
<1>6. \A j \in DOMAIN s : j \in DOMAIN r /\ r[j] = s[j]
  BY <1>1, <1>2
<1>7. \A j \in DOMAIN v : (j \in DOMAIN w /\ v[j] = w[j]) \/ (j = Len(w) + 1 /\ v[j] = n)
  BY <1>3, <1>4
<1>8. \A j \in DOMAIN s : s[j] \in Cmd /\ s[j].id \in CmdIds /\ s[j].id < n /\ s[j].id # n
  <2>1. \A j \in DOMAIN s : s[j] \in Cmd
    BY <1>1
  <2>2. \A j \in DOMAIN s : s[j].id \in CmdIds
    BY <2>1 DEF Cmd
  <2>3. \A j \in DOMAIN s : s[j].id < n
    BY DEF Numbered
  <2>4. \A j \in DOMAIN s : s[j].id # n
    BY <2>2, <2>3, <1>0
  <2>5. QED
    BY <2>1, <2>2, <2>3, <2>4
<1>9. Numbered(r, n + 1)
  <2>1. ASSUME NEW j \in DOMAIN r PROVE r[j].id < n + 1
    <3>1. n < n + 1
      BY <1>0
    <3>2. \A i \in DOMAIN s : s[i].id < n + 1
      <4>1. \A x \in Int : x < n => x < n + 1
        BY <1>0
      <4>2. QED
        BY <4>1, <1>0, <1>8
    <3>3. QED
      BY <3>1, <3>2, <1>5
  <2>2. \A i, j \in DOMAIN r : r[i].id = r[j].id => i = j
    BY <1>5, <1>8 DEF Numbered
  <2>3. QED
    BY <2>1, <2>2 DEF Numbered
<1>10. InFlight(v, r)
  <2>1. ASSUME NEW q \in DOMAIN v, v[q] # Handshake
        PROVE  \E j \in DOMAIN r : r[j].id = v[q] /\ ~r[j].done
    <3>1. CASE q \in DOMAIN w /\ v[q] = w[q]
      <4>1. PICK j \in DOMAIN s : s[j].id = w[q] /\ ~s[j].done
        BY <2>1, <3>1 DEF InFlight
      <4>2. QED
        BY <4>1, <3>1, <1>6
    <3>2. CASE v[q] = n
      <4>1. Len(s) + 1 \in DOMAIN r
        BY <1>1, <1>2
      <4>2. QED
        BY <4>1, <3>2, <1>1
    <3>3. QED
      BY <1>7, <3>1, <3>2
  <2>2. \A q \in DOMAIN w : w[q] # n
    <3>1. ASSUME NEW q \in DOMAIN w, w[q] = n PROVE FALSE
      <4>1. PICK j \in DOMAIN s : s[j].id = n
        BY <3>1, <1>0 DEF InFlight
      <4>2. QED
        BY <4>1, <1>8
    <3>2. QED
      BY <3>1
  <2>3. \A q, z \in DOMAIN v : v[q] # Handshake /\ v[q] = v[z] => q = z
    BY <1>7, <2>2 DEF InFlight
  <2>4. QED
    BY <2>1, <2>3 DEF InFlight
<1>11. CalledOnce(r, n + 1, p, k, g, t)
  <2>1. p = "cmd_cb" => k \in DOMAIN r
    BY <1>6 DEF CalledOnce
  <2>2. g[n] = <<>>
    BY <1>0 DEF CalledOnce
  <2>3. \A j \in DOMAIN r : r[j].cb /\ r[j].id \notin t /\ ~(p = "cmd_cb" /\ j = k) => g[r[j].id] = <<>>
    BY <1>5, <2>2 DEF CalledOnce
  <2>4. \A i \in CmdIds : i >= n + 1 => g[i] = <<>>
    <3>1. \A i \in CmdIds : i >= n + 1 => i >= n
      BY <1>0
    <3>2. QED
      BY <3>1 DEF CalledOnce
  <2>5. QED
    BY <2>1, <2>3, <2>4 DEF CalledOnce
<1>12. QED
  BY <1>1, <1>3, <1>9, <1>10, <1>11 DEF r, v

\* A set of numbers has a least one.
LEMMA LeastNumber ==
    ASSUME NEW S \in SUBSET Nat, S # {}
    PROVE  \E m \in S : \A j \in S : m <= j
<1>1. \E m \in S : \A n \in S : ~(<<n, m>> \in OpToRel(<, Nat))
  BY NatLessThanWellFounded, WFMin
<1>2. PICK m \in S : \A n \in S : ~(<<n, m>> \in OpToRel(<, Nat))
  BY <1>1
<1>3. \A n \in S : ~(n < m)
  BY <1>2 DEF OpToRel
<1>4. \A n \in S : m <= n
  BY <1>3
<1>5. QED
  BY <1>4

\* PopDone drops commands from the front, none of them in flight.
LEMMA PopDoneKeeps ==
    ASSUME NEW s \in Seq(Cmd), NEW n, Numbered(s, n), NEW w, InFlight(w, s),
           NEW p, p # "cmd_cb", NEW k, NEW g, NEW t, CalledOnce(s, n, p, k, g, t)
    PROVE  LET r == PopDone(s)
           IN  r \in Seq(Cmd) /\ Numbered(r, n) /\ InFlight(w, r) /\ CalledOnce(r, n, p, k, g, t)
<1> DEFINE keep == {i \in DOMAIN s : ~(s[i].done /\ ~s[i].cb)}
           r == PopDone(s)
<1>0. Len(s) \in Nat /\ DOMAIN s = 1..Len(s)
  BY LenProperties
<1>1. CASE keep = {}
  <2>1. r = <<>>
    BY <1>1 DEF PopDone
  <2>2. \A q \in DOMAIN w : w[q] = Handshake
    BY <1>1 DEF InFlight
  <2>3. InFlight(w, <<>>)
    BY <2>2 DEF InFlight
  <2>4. <<>> \in Seq(Cmd) /\ Numbered(<<>>, n) /\ CalledOnce(<<>>, n, p, k, g, t)
    BY NoneLeft
  <2> HIDE DEF r
  <2>5. QED
    BY <2>1, <2>3, <2>4 DEF r
<1>2. CASE keep # {}
  <2>1. keep \in SUBSET Nat
    BY <1>0
  <2>2. \E m \in keep : \A j \in keep : m <= j
    BY <2>1, <1>2, LeastNumber
  <2>3. PICK a : a = CHOOSE i \in keep : \A j \in keep : i <= j
    OBVIOUS
  <2>4. a \in keep /\ \A j \in keep : a <= j
    BY <2>2, <2>3
  <2>5. r = SubSeq(s, a, Len(s))
    BY <1>2, <2>3 DEF PopDone
  <2>6. a \in 1..Len(s) /\ a \in Int
    BY <2>4, <1>0
  <2>7. r \in Seq(Cmd) /\ Len(r) = Len(s) - a + 1 /\ \A i \in 1..(Len(s) - a + 1) : r[i] = s[a + i - 1]
    <3>1. a \in 1..(Len(s) + 1) /\ Len(s) \in (a - 1)..Len(s)
      BY <2>6, <1>0
    <3>2. \A i \in 1..Len(s) : s[i] \in Cmd
      BY <1>0
    <3>3. SubSeq(s, a, Len(s)) \in Seq(Cmd)
      BY <2>6, <1>0, <3>2, SubSeqProperties
    <3>4. /\ Len(SubSeq(s, a, Len(s))) = Len(s) - a + 1
          /\ \A i \in 1..(Len(s) - a + 1) : SubSeq(s, a, Len(s))[i] = s[a + i - 1]
      BY <2>6, <1>0, <3>1, SubSeqProperties
    <3>5. QED
      BY <2>5, <3>3, <3>4
  <2>8. DOMAIN r = 1..(Len(s) - a + 1)
    BY <2>7, LenProperties
  <2> HIDE DEF r
  <2>9. \A i \in DOMAIN r : a + i - 1 \in DOMAIN s /\ r[i] = s[a + i - 1]
    BY <1>0, <2>6, <2>7, <2>8
  <2>10. \A j \in DOMAIN s : j >= a => j - a + 1 \in DOMAIN r /\ r[j - a + 1] = s[j]
    <3>1. SUFFICES ASSUME NEW j \in DOMAIN s, j >= a PROVE j - a + 1 \in DOMAIN r /\ r[j - a + 1] = s[j]
      OBVIOUS
    <3>2. j - a + 1 \in 1..(Len(s) - a + 1) /\ a + (j - a + 1) - 1 = j
      BY <3>1, <1>0, <2>6
    <3>3. QED
      BY <3>2, <2>7, <2>8
  <2>11. \A i, j \in DOMAIN r : a + i - 1 = a + j - 1 => i = j
    BY <2>6, <2>8
  <2>12. Numbered(r, n)
    BY <2>9, <2>11 DEF Numbered
  <2>13. InFlight(w, r)
    <3>1. ASSUME NEW q \in DOMAIN w, w[q] # Handshake
          PROVE  \E j \in DOMAIN r : r[j].id = w[q] /\ ~r[j].done
      <4>1. PICK j \in DOMAIN s : s[j].id = w[q] /\ ~s[j].done
        BY <3>1 DEF InFlight
      <4>2. j \in keep
        BY <4>1
      <4>3. j >= a
        BY <4>2, <2>4, <2>6, <1>0
      <4>4. QED
        BY <4>1, <4>3, <2>10
    <3>2. QED
      BY <3>1 DEF InFlight
  <2>14. CalledOnce(r, n, p, k, g, t)
    BY <2>9 DEF CalledOnce
  <2>15. QED
    BY <2>7, <2>12, <2>13, <2>14 DEF r
<1>3. QED
  BY <1>1, <1>2

-----------------------------------------------------------------------------
(* Each operation keeps the invariant.                                     *)

\* The phase of the tick changes, but not into or out of a command's callback, and callbacks throw.
LEMMA PhaseChange ==
    ASSUME NEW s, NEW n, NEW p, NEW k, NEW g, NEW t, CalledOnce(s, n, p, k, g, t),
           NEW q, NEW l, q # "cmd_cb"
    PROVE  p # "cmd_cb" => CalledOnce(s, n, q, l, g, t)
BY DEF CalledOnce

\* The state that a step keeps: nothing else depends on the rest of rc.
LEMMA Unchanged ==
    ASSUME RedisInv, NEW c \in RcOf(Seq(Cmd)), c.cmds = rc.cmds, c.next = rc.next, ConnectedOnce(c, connGot),
           NEW w \in Waiting, InFlight(w, rc.cmds), rc' = c, sent' = w, UNCHANGED <<rpc, cursor, got, connGot, threw>>
    PROVE  RedisInv'
BY DEF RedisInv, RedisTyped

\* What the invariant says of rc, opened once.
LEMMA Opened ==
    ASSUME RedisInv
    PROVE  /\ rc \in RcOf(Seq(Cmd)) /\ rc.cmds \in Seq(Cmd) /\ rc.next \in Nat \ {0} /\ rc.closing \in BOOLEAN
           /\ rc.notified \in BOOLEAN /\ rc.pconn \in BOOLEAN /\ rc.connecting \in BOOLEAN /\ <<>> \in Seq(Cmd) /\ <<>> \in Waiting
BY EmptySeq DEF RedisInv, RedisTyped, RcOf, Waiting

LEMMA InitHolds == ASSUME RedisInit PROVE RedisInv
<1> DEFINE S == Seq(Cmd)
<1>1. <<>> \in S /\ <<>> \in Waiting /\ <<>> \in Seq({"ok", "err"})
  BY EmptySeq DEF Waiting
<1> HIDE DEF S
<1>2. Fresh \in RcOf(S) /\ Fresh.cmds = <<>> /\ Fresh.next = 1 /\ ConnectedOnce(Fresh, 0)
  BY <1>1 DEF Fresh, RcOf, ConnectedOnce
<1>3. ASSUME NEW c \in RcOf(S), c.cmds = <<>>, c.next = 1, ConnectedOnce(c, 0), rc = c PROVE RedisInv
  <2>1. rpc \in Places /\ rpc # "cmd_cb" /\ cursor \in Nat /\ sent = <<>> /\ connGot = 0 /\ connGot \in Nat /\ threw = {}
    BY DEF RedisInit, Places
  <2>2. got \in Calls /\ \A i \in CmdIds : got[i] = <<>>
    BY <1>1 DEF RedisInit, Calls
  <2>3. RedisTyped
    BY <1>1, <1>3, <2>1, <2>2 DEF RedisTyped, S
  <2>4. DOMAIN <<>> = {} /\ Len(<<>>) = 0 /\ 0 <= 1
    BY EmptySeq
  <2>5. \A i \in CmdIds : Len(got[i]) <= 1
    BY <2>2, <2>4
  <2>6. CalledOnce(<<>>, 1, rpc, cursor, got, threw)
    BY <2>1, <2>2, <2>4, <2>5 DEF CalledOnce
  <2>7. Numbered(<<>>, 1) /\ InFlight(<<>>, <<>>)
    BY <2>4 DEF Numbered, InFlight
  <2>8. QED
    BY <1>3, <2>1, <2>3, <2>6, <2>7 DEF RedisInv
<1>4. CASE rc = NotifyConnect(Fresh, TRUE)
  <2> DEFINE d == NotifyConnect(Fresh, TRUE)
  <2>1. d \in RcOf(S) /\ d.cmds = <<>> /\ d.next = 1 /\ ConnectedOnce(d, 0)
    BY <1>2, NotifySays
  <2> HIDE DEF d
  <2>2. QED
    BY <1>3, <1>4, <2>1 DEF d
<1>5. CASE rc = [Fresh EXCEPT !.ac = "connecting", !.connecting = TRUE]
  <2> DEFINE d == [Fresh EXCEPT !.ac = "connecting", !.connecting = TRUE]
  <2>1. d \in RcOf(S) /\ d.cmds = <<>> /\ d.next = 1 /\ d.notified = Fresh.notified /\ d.pconn = Fresh.pconn
    BY <1>2 DEF RcOf
  <2>2. ConnectedOnce(d, 0)
    BY <1>2, <2>1 DEF ConnectedOnce
  <2> HIDE DEF d
  <2>3. QED
    BY <1>3, <1>5, <2>1, <2>2 DEF d
<1>6. QED
  BY <1>4, <1>5 DEF RedisInit

LEMMA CommandStep == ASSUME MaxCmds \in Nat, RedisInv, Command PROVE RedisInv'
<1> DEFINE cmd == [id |-> rc.next, done |-> FALSE, err |-> FALSE, cb |-> TRUE]
           r == Append(rc.cmds, cmd)
           d == [rc EXCEPT !.cmds = r, !.next = rc.next + 1]
           S == Seq(Cmd)
<1>1. rc \in RcOf(S) /\ rc.cmds \in S /\ rc.next \in Nat \ {0} /\ sent \in Waiting
  BY Opened DEF RedisInv, RedisTyped
<1>2. rc.next \in CmdIds
  BY <1>1 DEF Command, CmdIds
<1>3. cmd \in Cmd /\ cmd.id = rc.next /\ ~cmd.done
  BY <1>2 DEF Cmd
<1>4. cursor \in Nat
  BY DEF RedisInv, RedisTyped
<1>5. /\ Numbered(rc.cmds, rc.next) /\ InFlight(sent, rc.cmds)
      /\ CalledOnce(rc.cmds, rc.next, rpc, cursor, got, threw) /\ ConnectedOnce(rc, connGot)
  BY DEF RedisInv
<1> HIDE DEF cmd
<1>6. /\ r \in S /\ Numbered(r, rc.next + 1)
      /\ Append(sent, rc.next) \in Waiting /\ InFlight(Append(sent, rc.next), r)
      /\ CalledOnce(r, rc.next + 1, rpc, cursor, got, threw)
  BY <1>1, <1>2, <1>3, <1>4, <1>5, CommandSent
<1>7. rc' = d /\ sent' = Append(sent, rc.next) /\ UNCHANGED <<rpc, cursor, got, connGot, threw>>
  BY DEF Command, Quiet, cmd
<1>8. rc.next + 1 \in Nat \ {0}
  BY <1>1
<1> HIDE DEF r, S
<1>9. d \in RcOf(S) /\ d.cmds = r /\ d.next = rc.next + 1 /\ d.notified = rc.notified /\ d.pconn = rc.pconn
  BY <1>1, <1>6, <1>8 DEF RcOf
<1>10. ConnectedOnce(d, connGot)
  BY <1>5, <1>9 DEF ConnectedOnce
<1> HIDE DEF d
<1>11. RedisTyped'
  BY <1>6, <1>7, <1>9 DEF RedisInv, RedisTyped, S
<1>12. QED
  BY <1>6, <1>7, <1>9, <1>10, <1>11 DEF RedisInv

\* Teardown, after NotifyConnect, of a connection whose commands are not being called.
LEMMA TornDown ==
    ASSUME RedisInv, rpc # "cmd_cb", NEW q \in Places, q # "cmd_cb", rc' = Teardown(NotifyConnect(rc, TRUE)), sent' = <<>>,
           rpc' = q, cursor' \in Nat, UNCHANGED <<got, connGot, threw>>
    PROVE  RedisInv'
<1> DEFINE c == NotifyConnect(rc, TRUE)
           d == Teardown(c)
           S == Seq(Cmd)
<1>1. rc \in RcOf(S) /\ <<>> \in S /\ <<>> \in Waiting /\ connGot \in Nat /\ ConnectedOnce(rc, connGot)
  BY Opened DEF RedisInv, RedisTyped
<1> HIDE DEF S
<1>2. c \in RcOf(S) /\ c.next = rc.next /\ ConnectedOnce(c, connGot)
  BY <1>1, NotifySays
<1> HIDE DEF c
<1>3. d \in RcOf(S) /\ d.cmds = <<>> /\ d.next = rc.next /\ ConnectedOnce(d, connGot)
  BY <1>1, <1>2, TeardownDrops
<1>4. rc' = d
  BY DEF c
<1> HIDE DEF d
<1>5. CalledOnce(rc.cmds, rc.next, q, cursor', got, threw)
  BY PhaseChange DEF RedisInv
<1>6. Numbered(<<>>, rc.next) /\ InFlight(<<>>, <<>>) /\ CalledOnce(<<>>, rc.next, q, cursor', got, threw)
  BY <1>5, NoneLeft
<1>7. RedisTyped'
  BY <1>1, <1>3, <1>4 DEF RedisInv, RedisTyped, S
<1>8. QED
  BY <1>3, <1>4, <1>6, <1>7 DEF RedisInv

LEMMA CloseStep == ASSUME RedisInv, ConnClose PROVE RedisInv'
<1> DEFINE S == Seq(Cmd)
<1>1. rc \in RcOf(S) /\ connGot \in Nat /\ ConnectedOnce(rc, connGot) /\ sent \in Waiting /\ InFlight(sent, rc.cmds)
  BY DEF RedisInv, RedisTyped
<1>2. UNCHANGED <<rpc, cursor, got, connGot, threw>>
  BY DEF ConnClose, Quiet
<1>3. ASSUME NEW c \in RcOf(S), c.cmds = rc.cmds, c.next = rc.next, ConnectedOnce(c, connGot),
             rc' = [c EXCEPT !.closed = TRUE, !.closing = TRUE], sent' = sent
      PROVE  RedisInv'
  <2> DEFINE d == [c EXCEPT !.closed = TRUE, !.closing = TRUE]
  <2>1. c \in RcOf(S)
    BY <1>3
  <2> HIDE DEF S
  <2>2. d \in RcOf(S) /\ d.cmds = c.cmds /\ d.next = c.next /\ d.notified = c.notified /\ d.pconn = c.pconn
    BY <2>1 DEF RcOf
  <2>3. ConnectedOnce(d, connGot)
    BY <1>3, <2>2 DEF ConnectedOnce
  <2>4. rc' = d
    BY <1>3
  <2> HIDE DEF d
  <2>5. QED
    BY <1>1, <1>2, <1>3, <2>2, <2>3, <2>4, Unchanged DEF S
<1>4. CASE rc' = [rc EXCEPT !.closed = TRUE, !.closing = TRUE] /\ UNCHANGED sent
  BY <1>1, <1>3, <1>4
<1>5. CASE rc' = [NotifyConnect(rc, TRUE) EXCEPT !.closed = TRUE, !.closing = TRUE] /\ UNCHANGED sent
  <2> DEFINE c == NotifyConnect(rc, TRUE)
  <2>1. c \in RcOf(S) /\ c.cmds = rc.cmds /\ c.next = rc.next /\ ConnectedOnce(c, connGot)
    BY <1>1, NotifySays
  <2> HIDE DEF c
  <2>2. rc' = [c EXCEPT !.closed = TRUE, !.closing = TRUE] /\ sent' = sent
    BY <1>5 DEF c
  <2>3. QED
    BY <2>1, <2>2, <1>3
<1>6. CASE rpc = "out" /\ rc' = Teardown(NotifyConnect(rc, TRUE)) /\ sent' = <<>>
  <2>1. "out" \in Places /\ cursor' \in Nat /\ rpc' = "out"
    BY <1>2, <1>6 DEF RedisInv, RedisTyped, Places
  <2>2. QED
    BY <1>2, <1>6, <2>1, TornDown
<1>7. QED
  BY <1>4, <1>5, <1>6 DEF ConnClose

\* d is c with the same commands.
Keeps(d, c, n) == d \in RcOf(Seq(Cmd)) /\ d.cmds = c.cmds /\ d.next = c.next /\ ConnectedOnce(d, n)

\* The fields that only hiredis and the handshake read.
LEMMA FieldsChange ==
    ASSUME NEW n \in Nat, NEW c, Keeps(c, rc, n), NEW a \in {"none", "connecting", "open"}, NEW b \in BOOLEAN, NEW i \in 0..3
    PROVE  /\ Keeps([c EXCEPT !.ac = a], rc, n)
           /\ Keeps([c EXCEPT !.connecting = b], rc, n)
           /\ Keeps([c EXCEPT !.step = i], rc, n)
<1> DEFINE S == Seq(Cmd)
           d == [c EXCEPT !.ac = a]
           e == [c EXCEPT !.connecting = b]
           f == [c EXCEPT !.step = i]
<1>1. c \in RcOf(S)
  BY DEF Keeps
<1> HIDE DEF S
<1>2. d \in RcOf(S) /\ d.cmds = c.cmds /\ d.next = c.next /\ d.notified = c.notified /\ d.pconn = c.pconn
  BY <1>1 DEF RcOf
<1>3. e \in RcOf(S) /\ e.cmds = c.cmds /\ e.next = c.next /\ e.notified = c.notified /\ e.pconn = c.pconn
  BY <1>1 DEF RcOf
<1>4. f \in RcOf(S) /\ f.cmds = c.cmds /\ f.next = c.next /\ f.notified = c.notified /\ f.pconn = c.pconn
  BY <1>1 DEF RcOf
<1> HIDE DEF d, e, f
<1>5. Keeps(d, rc, n) /\ Keeps(e, rc, n) /\ Keeps(f, rc, n)
  BY <1>2, <1>3, <1>4 DEF Keeps, ConnectedOnce, S
<1>6. QED
  BY <1>5 DEF d, e, f

\* NotifyConnect, from any of these.
LEMMA NotifyKeeps ==
    ASSUME NEW n \in Nat, NEW c, Keeps(c, rc, n), NEW err \in BOOLEAN
    PROVE  Keeps(NotifyConnect(c, err), rc, n)
<1> DEFINE d == NotifyConnect(c, err)
<1>1. d \in RcOf(Seq(Cmd)) /\ d.cmds = c.cmds /\ d.next = c.next /\ ConnectedOnce(d, n)
  BY NotifySays DEF Keeps
<1> HIDE DEF d
<1>2. Keeps(d, rc, n)
  BY <1>1 DEF Keeps
<1>3. QED
  BY <1>2 DEF d

LEMMA HandshakeStep == ASSUME NEW c \in RcOf(Seq(Cmd)) PROVE NextHandshake(c) \in 0..3
BY DEF NextHandshake

LEMMA OnConnectStep == ASSUME RedisInv, OnConnect PROVE RedisInv'
<1>1. /\ Keeps(rc, rc, connGot) /\ connGot \in Nat /\ sent \in Waiting /\ InFlight(sent, rc.cmds)
      /\ Append(sent, Handshake) \in Waiting /\ InFlight(Append(sent, Handshake), rc.cmds)
  BY HandshakeInFlight DEF RedisInv, RedisTyped, Keeps
<1>2. UNCHANGED <<rpc, cursor, got, connGot, threw>>
  BY DEF OnConnect, InPoll, Quiet
<1>3. ASSUME NEW c, Keeps(c, rc, connGot), rc' = c, NEW w \in {sent, Append(sent, Handshake)}, sent' = w PROVE RedisInv'
  BY <1>1, <1>2, <1>3, Unchanged DEF Keeps
<1>4. FALSE \in BOOLEAN /\ TRUE \in BOOLEAN /\ 0 \in 0..3
  OBVIOUS
<1>5. CASE rc' = [NotifyConnect([rc EXCEPT !.connecting = FALSE], TRUE) EXCEPT !.ac = "none"] /\ UNCHANGED sent
  <2>1. PICK c : c = [rc EXCEPT !.connecting = FALSE]
    OBVIOUS
  <2>2. PICK d : d = NotifyConnect(c, TRUE)
    OBVIOUS
  <2>3. Keeps(c, rc, connGot)
    BY <1>1, <1>4, <2>1, FieldsChange
  <2>4. Keeps(d, rc, connGot)
    BY <1>1, <1>4, <2>2, <2>3, NotifyKeeps
  <2>5. Keeps([d EXCEPT !.ac = "none"], rc, connGot)
    BY <1>1, <1>4, <2>4, FieldsChange
  <2>6. rc' = [d EXCEPT !.ac = "none"]
    BY <1>5, <2>1, <2>2
  <2>7. QED
    BY <1>3, <1>5, <2>5, <2>6
<1>6. CASE rc' = [rc EXCEPT !.ac = "open", !.step = 0] /\ UNCHANGED sent
  <2>1. PICK c : c = [rc EXCEPT !.ac = "open"]
    OBVIOUS
  <2>2. Keeps(c, rc, connGot)
    BY <1>1, <1>4, <2>1, FieldsChange
  <2>3. Keeps([c EXCEPT !.step = 0], rc, connGot)
    BY <1>1, <1>4, <2>2, FieldsChange
  <2>4. rc' = [c EXCEPT !.step = 0]
    BY <1>6, <2>1
  <2>5. QED
    BY <1>3, <1>6, <2>3, <2>4
<1>7. CASE Issue([rc EXCEPT !.ac = "open"], NextHandshake([rc EXCEPT !.step = 0]))
  <2>1. PICK c : c = [rc EXCEPT !.ac = "open"]
    OBVIOUS
  <2>2. Keeps(c, rc, connGot)
    BY <1>1, <1>4, <2>1, FieldsChange
  <2>3. PICK e : e = [rc EXCEPT !.step = 0]
    OBVIOUS
  <2>4. Keeps(e, rc, connGot)
    BY <1>1, <1>4, <2>3, FieldsChange
  <2>5. NextHandshake(e) \in 0..3
    BY <2>4, HandshakeStep DEF Keeps
  <2>6. PICK i \in 0..3 : i = NextHandshake(e)
    BY <2>5
  <2>7. Keeps([c EXCEPT !.step = i], rc, connGot)
    BY <1>1, <1>4, <2>2, FieldsChange
  <2>8. rc' = [c EXCEPT !.step = i] /\ sent' = Append(sent, Handshake)
    BY <1>7, <2>1, <2>3, <2>6 DEF Issue
  <2>9. QED
    BY <1>3, <2>7, <2>8
<1>8. QED
  BY <1>5, <1>6, <1>7 DEF OnConnect

LEMMA OnHandshakeStep == ASSUME RedisInv, OnHandshake PROVE RedisInv'
<1>1. PICK v : v = Tail(sent)
  OBVIOUS
<1>2. Keeps(rc, rc, connGot) /\ connGot \in Nat /\ v \in Waiting /\ InFlight(v, rc.cmds)
  BY <1>1, TailInFlight DEF OnHandshake, RedisInv, RedisTyped, Keeps
<1>3. Append(v, Handshake) \in Waiting /\ InFlight(Append(v, Handshake), rc.cmds)
  BY <1>2, HandshakeInFlight
<1>4. UNCHANGED <<rpc, cursor, got, connGot, threw>>
  BY DEF OnHandshake, InPoll, Quiet
<1>5. ASSUME NEW c, Keeps(c, rc, connGot), rc' = c, NEW w \in {v, Append(v, Handshake)}, sent' = w PROVE RedisInv'
  BY <1>2, <1>3, <1>4, <1>5, Unchanged DEF Keeps
<1>6. FALSE \in BOOLEAN /\ TRUE \in BOOLEAN /\ 0 \in 0..3
  OBVIOUS
<1>7. ASSUME NEW err \in BOOLEAN, rc' = NotifyConnect([rc EXCEPT !.connecting = FALSE], err), sent' = v PROVE RedisInv'
  <2>1. PICK c : c = [rc EXCEPT !.connecting = FALSE]
    OBVIOUS
  <2>2. Keeps(c, rc, connGot)
    BY <1>2, <1>6, <2>1, FieldsChange
  <2>3. PICK d : d = NotifyConnect(c, err)
    OBVIOUS
  <2>4. Keeps(d, rc, connGot)
    BY <1>2, <2>2, <2>3, NotifyKeeps
  <2>5. QED
    BY <1>5, <1>7, <2>1, <2>3, <2>4
<1>8. CASE UNCHANGED rc /\ sent' = v
  BY <1>2, <1>5, <1>8
<1>9. CASE rc' = [rc EXCEPT !.step = NextHandshake(rc)] /\ sent' = Append(v, Handshake)
  <2>1. NextHandshake(rc) \in 0..3
    BY <1>2, HandshakeStep DEF Keeps
  <2>2. PICK i \in 0..3 : i = NextHandshake(rc)
    BY <2>1
  <2>3. Keeps([rc EXCEPT !.step = i], rc, connGot)
    BY <1>2, FieldsChange
  <2>4. QED
    BY <1>5, <1>9, <2>2, <2>3
<1>10. QED
  BY <1>1, <1>6, <1>7, <1>8, <1>9 DEF OnHandshake

LEMMA OnCommandStep == ASSUME RedisInv, OnCommand PROVE RedisInv'
<1>1. PICK err \in BOOLEAN : rc' = Completed(rc, {Head(sent)}, err)
  BY DEF OnCommand
<1>2. PICK d : d = Completed(rc, {Head(sent)}, err)
  OBVIOUS
<1>3. PICK v : v = Tail(sent)
  OBVIOUS
<1>4. /\ rc \in RcOf(Seq(Cmd)) /\ connGot \in Nat /\ ConnectedOnce(rc, connGot) /\ sent \in Waiting /\ InFlight(sent, rc.cmds)
      /\ Numbered(rc.cmds, rc.next) /\ CalledOnce(rc.cmds, rc.next, rpc, cursor, got, threw)
  BY DEF RedisInv, RedisTyped
<1>5. sent # <<>> /\ Head(sent) = sent[1] /\ Head(sent) # Handshake
  BY DEF OnCommand
<1>6. /\ d \in RcOf(Seq(Cmd)) /\ d.next = rc.next /\ ConnectedOnce(d, connGot)
      /\ DOMAIN d.cmds = DOMAIN rc.cmds
      /\ \A k \in DOMAIN rc.cmds : /\ d.cmds[k].id = rc.cmds[k].id /\ d.cmds[k].cb = rc.cmds[k].cb
                                   /\ rc.cmds[k].id # Head(sent) => d.cmds[k] = rc.cmds[k]
  BY <1>2, <1>4, CompletedCommands
<1>7. /\ v \in Waiting /\ InFlight(v, rc.cmds)
      /\ \A p \in DOMAIN v : p + 1 \in DOMAIN sent /\ p + 1 # 1 /\ 1 \in DOMAIN sent /\ v[p] = sent[p + 1]
  BY <1>3, <1>4, <1>5, TailInFlight
<1>8. \A p \in DOMAIN v : v[p] # Head(sent)
  <2>1. ASSUME NEW p \in DOMAIN v, v[p] = Head(sent) PROVE FALSE
    <3>1. sent[1] # Handshake /\ sent[1] = sent[p + 1]
      BY <1>5, <1>7, <2>1
    <3>2. 1 = p + 1
      BY <1>4, <1>7, <3>1 DEF InFlight
    <3>3. QED
      BY <1>7, <3>2
  <2>2. QED
    BY <2>1
<1>9. InFlight(v, d.cmds)
  <2>1. ASSUME NEW p \in DOMAIN v, v[p] # Handshake
        PROVE  \E k \in DOMAIN d.cmds : d.cmds[k].id = v[p] /\ ~d.cmds[k].done
    <3>1. PICK k \in DOMAIN rc.cmds : rc.cmds[k].id = v[p] /\ ~rc.cmds[k].done
      BY <1>7, <2>1 DEF InFlight
    <3>2. d.cmds[k] = rc.cmds[k]
      BY <1>6, <1>8, <3>1
    <3>3. QED
      BY <1>6, <3>1, <3>2
  <2>2. QED
    BY <1>7, <2>1 DEF InFlight
<1>10. Numbered(d.cmds, d.next) /\ CalledOnce(d.cmds, d.next, rpc, cursor, got, threw)
  BY <1>4, <1>6, SameCommands
<1>11. rc' = d /\ sent' = v /\ UNCHANGED <<rpc, cursor, got, connGot, threw>>
  BY <1>1, <1>2, <1>3 DEF OnCommand, InPoll, Quiet
<1>12. RedisTyped'
  BY <1>6, <1>7, <1>11 DEF RedisInv, RedisTyped
<1>13. QED
  BY <1>6, <1>9, <1>10, <1>11, <1>12 DEF RedisInv

LEMMA OnDisconnectStep == ASSUME RedisInv, OnDisconnect PROVE RedisInv'
<1>1. PICK c : c = Completed(rc, Range(sent), TRUE)
  OBVIOUS
<1>2. PICK d : d = NotifyConnect(c, TRUE)
  OBVIOUS
<1>3. PICK e : e = [d EXCEPT !.ac = "none"]
  OBVIOUS
<1>4. /\ rc \in RcOf(Seq(Cmd)) /\ connGot \in Nat /\ ConnectedOnce(rc, connGot)
      /\ Numbered(rc.cmds, rc.next) /\ CalledOnce(rc.cmds, rc.next, rpc, cursor, got, threw)
  BY DEF RedisInv, RedisTyped
<1>5. /\ c \in RcOf(Seq(Cmd)) /\ c.next = rc.next /\ ConnectedOnce(c, connGot)
      /\ DOMAIN c.cmds = DOMAIN rc.cmds
      /\ \A k \in DOMAIN rc.cmds : c.cmds[k].id = rc.cmds[k].id /\ c.cmds[k].cb = rc.cmds[k].cb
  BY <1>1, <1>4, CompletedCommands
<1>6. d \in RcOf(Seq(Cmd)) /\ d.cmds = c.cmds /\ d.next = c.next /\ ConnectedOnce(d, connGot)
  BY <1>2, <1>4, <1>5, NotifySays
<1>7. e \in RcOf(Seq(Cmd)) /\ e.cmds = d.cmds /\ e.next = d.next /\ ConnectedOnce(e, connGot)
  <2> DEFINE S == Seq(Cmd)
  <2>1. d \in RcOf(S)
    BY <1>6
  <2> HIDE DEF S
  <2>2. e \in RcOf(S) /\ e.cmds = d.cmds /\ e.next = d.next /\ e.notified = d.notified /\ e.pconn = d.pconn
    BY <1>3, <2>1 DEF RcOf
  <2>3. QED
    BY <1>6, <2>2 DEF ConnectedOnce, S
<1>8. Numbered(e.cmds, e.next) /\ CalledOnce(e.cmds, e.next, rpc, cursor, got, threw)
  BY <1>4, <1>5, <1>6, <1>7, SameCommands
<1>9. InFlight(<<>>, e.cmds) /\ <<>> \in Waiting
  BY NoneSent, EmptySeq DEF Waiting
<1>10. rc' = e /\ sent' = <<>> /\ UNCHANGED <<rpc, cursor, got, connGot, threw>>
  BY <1>1, <1>2, <1>3 DEF OnDisconnect, InPoll, Quiet
<1>11. RedisTyped'
  BY <1>7, <1>9, <1>10 DEF RedisInv, RedisTyped
<1>12. QED
  BY <1>7, <1>8, <1>9, <1>10, <1>11 DEF RedisInv

LEMMA PolledStep == ASSUME RedisInv, TickPolled PROVE RedisInv'
<1>1. PICK late \in BOOLEAN :
         LET c == IF late /\ rc.connecting /\ ~rc.notified THEN Teardown(NotifyConnect(rc, TRUE)) ELSE rc
         IN  /\ sent' = IF c = rc THEN sent ELSE <<>>
             /\ IF c.closing THEN rpc' = "release" /\ rc' = c /\ UNCHANGED connGot
                ELSE IF c.pconn THEN rpc' = "connect_cb" /\ rc' = [c EXCEPT !.pconn = FALSE] /\ connGot' = connGot + 1
                ELSE rpc' = "cmds" /\ rc' = c /\ UNCHANGED connGot
  BY DEF TickPolled
<1>2. PICK b : b = NotifyConnect(rc, TRUE)
  OBVIOUS
<1>3. PICK c : c = IF late /\ rc.connecting /\ ~rc.notified THEN Teardown(b) ELSE rc
  OBVIOUS
<1>4. /\ sent' = IF c = rc THEN sent ELSE <<>>
      /\ \/ rpc' = "release" /\ rc' = c /\ UNCHANGED connGot
         \/ c.pconn /\ rpc' = "connect_cb" /\ rc' = [c EXCEPT !.pconn = FALSE] /\ connGot' = connGot + 1
         \/ rpc' = "cmds" /\ rc' = c /\ UNCHANGED connGot
  BY <1>1, <1>2, <1>3
<1>5. cursor' = 0 /\ got' = got /\ threw' = threw /\ rpc = "poll"
  BY DEF TickPolled
<1>6. /\ rc \in RcOf(Seq(Cmd)) /\ connGot \in Nat /\ ConnectedOnce(rc, connGot) /\ sent \in Waiting /\ InFlight(sent, rc.cmds)
      /\ Numbered(rc.cmds, rc.next) /\ CalledOnce(rc.cmds, rc.next, rpc, cursor, got, threw) /\ <<>> \in Seq(Cmd) /\ <<>> \in Waiting
  BY Opened DEF RedisInv, RedisTyped
<1>7. CalledOnce(rc.cmds, rc.next, rpc', 0, got, threw) /\ rpc' # "cmd_cb" /\ rpc' \in Places
  <2>1. rpc' # "cmd_cb" /\ rpc' \in Places
    BY <1>4 DEF Places
  <2>2. rpc # "cmd_cb"
    BY <1>5
  <2>3. QED
    BY <1>6, <2>1, <2>2, PhaseChange
<1>8. /\ c \in RcOf(Seq(Cmd)) /\ c.next = rc.next /\ ConnectedOnce(c, connGot) /\ sent' \in Waiting /\ InFlight(sent', c.cmds)
      /\ Numbered(c.cmds, c.next) /\ CalledOnce(c.cmds, c.next, rpc', 0, got, threw)
  <2>1. CASE c = rc
    BY <1>4, <1>6, <1>7, <2>1
  <2>2. CASE c # rc
    <3>1. c = Teardown(b) /\ sent' = <<>>
      BY <1>3, <1>4, <2>2
    <3>2. b \in RcOf(Seq(Cmd)) /\ b.next = rc.next /\ ConnectedOnce(b, connGot)
      BY <1>2, <1>6, NotifySays
    <3>3. c \in RcOf(Seq(Cmd)) /\ c.cmds = <<>> /\ c.next = b.next /\ ConnectedOnce(c, connGot)
      BY <1>6, <3>1, <3>2, TeardownDrops
    <3>4. Numbered(<<>>, rc.next) /\ InFlight(<<>>, <<>>) /\ CalledOnce(<<>>, rc.next, rpc', 0, got, threw)
      BY <1>7, NoneLeft
    <3>5. QED
      BY <1>6, <3>1, <3>2, <3>3, <3>4
  <2>3. QED
    BY <2>1, <2>2
<1>9. CASE rc' = c /\ UNCHANGED connGot
  <2>1. RedisTyped'
    BY <1>5, <1>6, <1>7, <1>8, <1>9 DEF RedisInv, RedisTyped
  <2>2. QED
    BY <1>5, <1>8, <1>9, <2>1 DEF RedisInv
<1>10. CASE c.pconn /\ rc' = [c EXCEPT !.pconn = FALSE] /\ connGot' = connGot + 1
  <2> DEFINE S == Seq(Cmd)
             d == [c EXCEPT !.pconn = FALSE]
  <2>1. c \in RcOf(S)
    BY <1>8
  <2> HIDE DEF S
  <2>2. d \in RcOf(S) /\ d.cmds = c.cmds /\ d.next = c.next /\ d.notified = c.notified /\ d.pconn = FALSE
    BY <2>1 DEF RcOf
  <2>3. connGot = 0 /\ connGot' = 1 /\ 1 \in Nat
    BY <1>6, <1>8, <1>10 DEF ConnectedOnce
  <2>4. c.notified
    BY <1>8, <1>10 DEF ConnectedOnce
  <2>5. ConnectedOnce(d, 1)
    BY <2>2, <2>4 DEF ConnectedOnce
  <2>6. rc' = d
    BY <1>10
  <2> HIDE DEF d
  <2>7. RedisTyped'
    BY <1>5, <1>6, <1>7, <1>8, <2>2, <2>3, <2>6 DEF RedisInv, RedisTyped, S
  <2>8. QED
    BY <1>5, <1>8, <2>2, <2>3, <2>5, <2>6, <2>7 DEF RedisInv
<1>11. QED
  BY <1>4, <1>9, <1>10

\* A step of the tick that changes its phase only.
LEMMA PhaseStep ==
    ASSUME RedisInv, rpc # "cmd_cb", NEW q \in Places, q # "cmd_cb", rpc' = q,
           UNCHANGED <<rc, cursor, sent, got, connGot, threw>>
    PROVE  RedisInv'
<1>1. CalledOnce(rc.cmds, rc.next, q, cursor, got, threw)
  BY PhaseChange DEF RedisInv
<1>2. QED
  BY <1>1 DEF RedisInv, RedisTyped

LEMMA StartStep == ASSUME RedisInv, TickStart PROVE RedisInv'
<1>1. rpc # "cmd_cb" /\ rpc' = "poll" /\ "poll" \in Places /\ UNCHANGED <<rc, cursor, sent, got, connGot, threw>>
  BY DEF TickStart, Quiet, Places
<1>2. QED
  BY <1>1, PhaseStep

LEMMA ConnectReturnsStep == ASSUME RedisInv, ConnectReturns PROVE RedisInv'
<1>1. /\ rpc # "cmd_cb" /\ rpc' \in {"release", "cmds"} /\ {"release", "cmds"} \subseteq Places
      /\ UNCHANGED <<rc, cursor, sent, got, connGot, threw>>
  BY DEF ConnectReturns, Quiet, Places
<1>2. PICK q \in {"release", "cmds"} : rpc' = q
  BY <1>1
<1>3. QED
  BY <1>1, <1>2, PhaseStep

\* The callback of command i is done with.
LEMMA CallbackCleared ==
    ASSUME NEW c \in RcOf(Seq(Cmd)), NEW i \in DOMAIN c.cmds, NEW n \in Nat, ConnectedOnce(c, n)
    PROVE  LET d == [c EXCEPT !.cmds[i].cb = FALSE]
           IN  /\ d \in RcOf(Seq(Cmd)) /\ d.next = c.next /\ ConnectedOnce(d, n)
               /\ DOMAIN d.cmds = DOMAIN c.cmds
               /\ \A k \in DOMAIN c.cmds : /\ d.cmds[k].id = c.cmds[k].id /\ d.cmds[k].done = c.cmds[k].done
                                           /\ d.cmds[k].cb => c.cmds[k].cb /\ k # i
<1> DEFINE s == c.cmds
           r == [s EXCEPT ![i] = [s[i] EXCEPT !.cb = FALSE]]
           d == [c EXCEPT !.cmds = r]
           S == Seq(Cmd)
<1>1. s \in Seq(Cmd)
  BY DEF RcOf
<1>2. \A k \in DOMAIN s : s[k] \in Cmd
  BY <1>1
<1>3. [s[i] EXCEPT !.cb = FALSE] \in Cmd
  BY <1>2 DEF Cmd
<1>4. r \in S /\ DOMAIN r = DOMAIN s
  BY <1>1, <1>3, ExceptSeq
<1>5. \A k \in DOMAIN s : r[k].id = s[k].id /\ r[k].done = s[k].done /\ (r[k].cb => s[k].cb /\ k # i)
  <2>1. ASSUME NEW k \in DOMAIN s, k # i PROVE r[k] = s[k]
    BY <2>1
  <2>2. r[i] = [s[i] EXCEPT !.cb = FALSE]
    BY <1>1
  <2>3. s[i] \in Cmd
    BY <1>2
  <2>4. r[i].id = s[i].id /\ r[i].done = s[i].done /\ ~r[i].cb
    BY <2>2, <2>3 DEF Cmd
  <2>5. QED
    BY <2>1, <2>4
<1>6. [c EXCEPT !.cmds[i].cb = FALSE] = d
  OBVIOUS
<1> HIDE DEF r, S
<1>7. d \in RcOf(S) /\ d.cmds = r /\ d.next = c.next /\ d.notified = c.notified /\ d.pconn = c.pconn
  BY <1>4 DEF RcOf, S
<1>8. ConnectedOnce(d, n)
  BY <1>7 DEF ConnectedOnce
<1> HIDE DEF d, s
<1>9. QED
  BY <1>4, <1>5, <1>6, <1>7, <1>8 DEF S, s

\* What is in flight waits still, when no command completes.
LEMMA StillInFlight ==
    ASSUME NEW s, NEW r, DOMAIN r = DOMAIN s, \A k \in DOMAIN s : r[k].id = s[k].id /\ r[k].done = s[k].done, NEW w, InFlight(w, s)
    PROVE  InFlight(w, r)
BY DEF InFlight

LEMMA ReturnsStep == ASSUME RedisInv, CmdReturns PROVE RedisInv'
<1>1. /\ rc \in RcOf(Seq(Cmd)) /\ connGot \in Nat /\ ConnectedOnce(rc, connGot) /\ InFlight(sent, rc.cmds)
      /\ Numbered(rc.cmds, rc.next) /\ CalledOnce(rc.cmds, rc.next, rpc, cursor, got, threw)
  BY DEF RedisInv, RedisTyped
<1>2. rpc = "cmd_cb" /\ rpc' = "cmds" /\ rpc' \in Places /\ UNCHANGED <<cursor, sent, got, connGot, threw>>
  BY DEF CmdReturns, Quiet, Places
<1>3. cursor \in DOMAIN rc.cmds
  BY <1>1, <1>2 DEF CalledOnce
<1>4. PICK d : d = [rc EXCEPT !.cmds[cursor].cb = FALSE]
  OBVIOUS
<1>5. /\ d \in RcOf(Seq(Cmd)) /\ d.next = rc.next /\ ConnectedOnce(d, connGot)
      /\ DOMAIN d.cmds = DOMAIN rc.cmds
      /\ \A k \in DOMAIN rc.cmds : /\ d.cmds[k].id = rc.cmds[k].id /\ d.cmds[k].done = rc.cmds[k].done
                                   /\ d.cmds[k].cb => rc.cmds[k].cb /\ k # cursor
  BY <1>1, <1>3, <1>4, CallbackCleared
<1>6. Numbered(d.cmds, d.next)
  BY <1>1, <1>5, SameCommands
<1>7. InFlight(sent, d.cmds)
  BY <1>1, <1>5, StillInFlight
<1>8. CalledOnce(d.cmds, d.next, "cmds", cursor, got, threw)
  <2>1. \A j \in DOMAIN d.cmds : d.cmds[j].cb /\ d.cmds[j].id \notin threw => got[d.cmds[j].id] = <<>>
    BY <1>1, <1>5 DEF CalledOnce
  <2>2. QED
    BY <1>1, <1>5, <2>1 DEF CalledOnce
<1>9. rc' = d
  BY <1>4 DEF CmdReturns
<1>10. RedisTyped'
  BY <1>2, <1>5, <1>9 DEF RedisInv, RedisTyped
<1>11. QED
  BY <1>2, <1>5, <1>6, <1>7, <1>8, <1>9, <1>10 DEF RedisInv

LEMMA DispatchStep == ASSUME RedisInv, DispatchCmd PROVE RedisInv'
<1>1. PICK i : i = CHOOSE j \in ToDispatch : \A k \in ToDispatch : j <= k
  OBVIOUS
<1>2. PICK cmd : cmd = rc.cmds[i]
  OBVIOUS
<1>3. /\ rpc = "cmds" /\ ToDispatch # {} /\ cursor' = i /\ UNCHANGED <<sent, connGot, threw>>
      /\ \/ rc' = [rc EXCEPT !.cmds[i].cb = FALSE] /\ UNCHANGED <<rpc, got>>
         \/ /\ rpc' = "cmd_cb"
            /\ got' = [got EXCEPT ![cmd.id] = IF Len(@) < 2 THEN Append(@, IF cmd.err THEN "err" ELSE "ok") ELSE @]
            /\ UNCHANGED rc
  BY <1>1, <1>2 DEF DispatchCmd
<1>4. /\ rc \in RcOf(Seq(Cmd)) /\ connGot \in Nat /\ ConnectedOnce(rc, connGot) /\ InFlight(sent, rc.cmds) /\ sent \in Waiting
      /\ Numbered(rc.cmds, rc.next) /\ CalledOnce(rc.cmds, rc.next, rpc, cursor, got, threw) /\ got \in Calls /\ threw \subseteq CmdIds
  BY DEF RedisInv, RedisTyped
<1>5. rc.cmds \in Seq(Cmd) /\ DOMAIN rc.cmds \subseteq Nat /\ \A k \in DOMAIN rc.cmds : rc.cmds[k] \in Cmd
  <2>1. rc.cmds \in Seq(Cmd)
    BY <1>4 DEF RcOf
  <2>2. QED
    BY <2>1, LenProperties
<1>6. i \in ToDispatch /\ i \in DOMAIN rc.cmds /\ i \in Nat /\ cmd.cb
  <2>1. ToDispatch \in SUBSET Nat
    BY <1>5 DEF ToDispatch
  <2>2. \E m \in ToDispatch : \A j \in ToDispatch : m <= j
    BY <1>3, <2>1, LeastNumber
  <2>3. i \in ToDispatch
    BY <1>1, <2>2
  <2>4. QED
    BY <1>2, <1>5, <2>3 DEF ToDispatch
<1>7. CASE rc' = [rc EXCEPT !.cmds[i].cb = FALSE] /\ UNCHANGED <<rpc, got>>
  <2>1. PICK d : d = [rc EXCEPT !.cmds[i].cb = FALSE]
    OBVIOUS
  <2>2. /\ d \in RcOf(Seq(Cmd)) /\ d.next = rc.next /\ ConnectedOnce(d, connGot)
        /\ DOMAIN d.cmds = DOMAIN rc.cmds
        /\ \A k \in DOMAIN rc.cmds : /\ d.cmds[k].id = rc.cmds[k].id /\ d.cmds[k].done = rc.cmds[k].done
                                     /\ d.cmds[k].cb => rc.cmds[k].cb /\ k # i
    <3>1. rc \in RcOf(Seq(Cmd)) /\ i \in DOMAIN rc.cmds /\ connGot \in Nat /\ ConnectedOnce(rc, connGot)
      BY <1>4, <1>6
    <3>2. QED
      BY <2>1, <3>1, CallbackCleared
  <2>3. InFlight(sent, d.cmds)
    BY <1>4, <2>2, StillInFlight
  <2>4. CalledOnce(rc.cmds, rc.next, rpc, i, got, threw)
    BY <1>3, <1>4 DEF CalledOnce
  <2>5. Numbered(d.cmds, d.next) /\ CalledOnce(d.cmds, d.next, rpc, i, got, threw)
    BY <1>4, <2>2, <2>4, SameCommands
  <2>6. rc' = d
    BY <1>7, <2>1
  <2>7. RedisTyped'
    BY <1>3, <1>6, <1>7, <2>2, <2>6 DEF RedisInv, RedisTyped
  <2>8. QED
    BY <1>3, <1>7, <2>2, <2>3, <2>5, <2>6, <2>7 DEF RedisInv
<1>8. CASE /\ rpc' = "cmd_cb"
           /\ got' = [got EXCEPT ![cmd.id] = IF Len(@) < 2 THEN Append(@, IF cmd.err THEN "err" ELSE "ok") ELSE @]
           /\ UNCHANGED rc
  <2>1. PICK o : o = cmd.id
    OBVIOUS
  <2>2. o \in CmdIds /\ o = rc.cmds[i].id
    BY <1>2, <1>5, <1>6, <2>1 DEF Cmd
  <2>3. PICK x : x = IF cmd.err THEN "err" ELSE "ok"
    OBVIOUS
  <2>4. PICK y : y = IF Len(got[o]) < 2 THEN Append(got[o], x) ELSE got[o]
    OBVIOUS
  <2>5. got[o] \in Seq({"ok", "err"}) /\ x \in {"ok", "err"}
    BY <1>4, <2>2, <2>3 DEF Calls
  <2>6. y \in Seq({"ok", "err"})
    BY <2>4, <2>5, AppendProperties
  <2>7. got' = [got EXCEPT ![o] = y]
    BY <1>8, <2>1, <2>3, <2>4
  <2>8. got' \in Calls /\ got'[o] = y /\ \A j \in CmdIds : j # o => got'[j] = got[j]
    BY <1>4, <2>2, <2>6, <2>7 DEF Calls
  <2>9. o \notin threw => Len(y) <= 1
    <3>1. SUFFICES ASSUME o \notin threw PROVE Len(y) <= 1
      OBVIOUS
    <3>2. got[o] = <<>>
      BY <1>2, <1>3, <1>4, <1>6, <2>2, <3>1 DEF CalledOnce
    <3>3. Len(got[o]) = 0
      BY <3>2, EmptySeq
    <3>4. y = Append(got[o], x)
      BY <2>4, <3>3
    <3>5. Len(y) = 1
      BY <2>5, <3>3, <3>4, AppendProperties
    <3>6. QED
      BY <3>5
  <2>10. CalledOnce(rc.cmds, rc.next, "cmd_cb", i, got', threw)
    <3>1. \A j \in DOMAIN rc.cmds : j # i => rc.cmds[j].id # o
      BY <1>4, <1>6, <2>2 DEF Numbered
    <3>2. \A j \in DOMAIN rc.cmds : rc.cmds[j].id \in CmdIds
      BY <1>5 DEF Cmd
    <3>3. \A j \in DOMAIN rc.cmds : rc.cmds[j].cb /\ rc.cmds[j].id \notin threw /\ j # i => got'[rc.cmds[j].id] = <<>>
      BY <1>3, <1>4, <2>8, <3>1, <3>2 DEF CalledOnce
    <3>4. \A j \in CmdIds : j >= rc.next => got'[j] = <<>>
      <4>1. ASSUME NEW j \in CmdIds, j >= rc.next PROVE j # o
        <5>1. o < rc.next /\ o \in Int /\ rc.next \in Int
          BY <1>4, <1>6, <2>2 DEF Numbered, CmdIds, RcOf
        <5>2. j \in Int
          BY DEF CmdIds
        <5>3. QED
          BY <4>1, <5>1, <5>2
      <4>2. QED
        BY <1>4, <2>8, <4>1 DEF CalledOnce
    <3>5. \A j \in CmdIds : j \notin threw => Len(got'[j]) <= 1
      BY <1>4, <2>8, <2>9 DEF CalledOnce
    <3>6. QED
      BY <1>6, <3>3, <3>4, <3>5 DEF CalledOnce
  <2>11. RedisTyped'
    BY <1>3, <1>4, <1>6, <1>8, <2>8 DEF RedisInv, RedisTyped, Places
  <2>12. QED
    BY <1>3, <1>4, <1>8, <2>10, <2>11 DEF RedisInv
<1>9. QED
  BY <1>3, <1>7, <1>8

LEMMA ThrowsStep == ASSUME RedisInv, CallbackThrows PROVE RedisInv'
<1>1. /\ InCallback /\ rpc' = "out" /\ "out" \in Places /\ UNCHANGED <<rc, cursor, sent, got, connGot>>
      /\ threw' = IF rpc = "cmd_cb" THEN threw \cup {rc.cmds[cursor].id} ELSE threw
  BY DEF CallbackThrows, Places
<1>2. /\ rc \in RcOf(Seq(Cmd)) /\ threw \subseteq CmdIds /\ CalledOnce(rc.cmds, rc.next, rpc, cursor, got, threw)
  BY DEF RedisInv, RedisTyped
<1>3. CASE rpc = "cmd_cb"
  <2>1. cursor \in DOMAIN rc.cmds
    BY <1>2, <1>3 DEF CalledOnce
  <2>2. rc.cmds \in Seq(Cmd)
    BY <1>2 DEF RcOf
  <2>3. rc.cmds[cursor] \in Cmd
    BY <2>1, <2>2
  <2>4. PICK o \in CmdIds : o = rc.cmds[cursor].id
    BY <2>3 DEF Cmd
  <2>5. threw' = threw \cup {o}
    BY <1>1, <1>3, <2>4
  <2>6. CalledOnce(rc.cmds, rc.next, "out", cursor, got, threw \cup {o})
    <3>1. \A j \in DOMAIN rc.cmds : rc.cmds[j].cb /\ rc.cmds[j].id \notin threw \cup {o} => got[rc.cmds[j].id] = <<>>
      BY <1>2, <2>4 DEF CalledOnce
    <3>2. QED
      BY <1>2, <3>1 DEF CalledOnce
  <2>7. RedisTyped'
    BY <1>1, <1>2, <2>5 DEF RedisInv, RedisTyped
  <2>8. QED
    BY <1>1, <2>5, <2>6, <2>7 DEF RedisInv
<1>4. CASE rpc # "cmd_cb"
  BY <1>1, <1>4, PhaseStep
<1>5. QED
  BY <1>3, <1>4

LEMMA PopsStep == ASSUME RedisInv, TickPops PROVE RedisInv'
<1> DEFINE r == PopDone(rc.cmds)
           d == [rc EXCEPT !.cmds = r]
           S == Seq(Cmd)
<1>1. /\ rc \in RcOf(S) /\ rc.cmds \in Seq(Cmd) /\ connGot \in Nat /\ ConnectedOnce(rc, connGot) /\ InFlight(sent, rc.cmds)
      /\ Numbered(rc.cmds, rc.next) /\ CalledOnce(rc.cmds, rc.next, rpc, cursor, got, threw)
  BY Opened DEF RedisInv, RedisTyped
<1>2. rpc = "cmds" /\ rpc' = "release" /\ "release" \in Places /\ cursor' = 0 /\ UNCHANGED <<sent, got, connGot, threw>> /\ rc' = d
  BY DEF TickPops, Quiet, Places
<1>3. CalledOnce(rc.cmds, rc.next, "release", 0, got, threw)
  BY <1>1, <1>2, PhaseChange
<1>4. r \in S /\ Numbered(r, rc.next) /\ InFlight(sent, r) /\ CalledOnce(r, rc.next, "release", 0, got, threw)
  BY <1>1, <1>3, PopDoneKeeps
<1> HIDE DEF r, S
<1>5. d \in RcOf(S) /\ d.cmds = r /\ d.next = rc.next /\ d.notified = rc.notified /\ d.pconn = rc.pconn
  BY <1>1, <1>4 DEF RcOf
<1>6. ConnectedOnce(d, connGot)
  BY <1>1, <1>5 DEF ConnectedOnce
<1> HIDE DEF d
<1>7. RedisTyped'
  BY <1>2, <1>5 DEF RedisInv, RedisTyped, S
<1>8. QED
  BY <1>2, <1>4, <1>5, <1>6, <1>7 DEF RedisInv

LEMMA RedisReleaseStep == ASSUME RedisInv, TickRelease PROVE RedisInv'
<1>1. rpc # "cmd_cb" /\ rpc' = "out" /\ "out" \in Places /\ UNCHANGED <<cursor, got, connGot, threw>> /\ cursor' \in Nat
  BY DEF TickRelease, Quiet, Places, RedisInv, RedisTyped
<1>2. CASE rc' = Teardown(NotifyConnect(rc, TRUE)) /\ sent' = <<>>
  BY <1>1, <1>2, TornDown
<1>3. CASE UNCHANGED <<rc, sent>>
  BY <1>1, <1>3, PhaseStep
<1>4. QED
  BY <1>2, <1>3 DEF TickRelease

-----------------------------------------------------------------------------

\* Redis connections in every behaviour, for every number of commands and every handshake: RedisInv is inductive.
THEOREM RedisInvariant == ASSUME MaxCmds \in Nat PROVE RedisSpec => []RedisInv
<1>1. RedisInit => RedisInv
  BY InitHolds
<1>2. RedisInv /\ [RedisNext]_redisVars => RedisInv'
  <2>1. SUFFICES ASSUME RedisInv, [RedisNext]_redisVars PROVE RedisInv'
    OBVIOUS
  <2>2. CASE Hiredis
    BY <2>1, <2>2, OnConnectStep, OnHandshakeStep, OnCommandStep, OnDisconnectStep DEF Hiredis
  <2>3. CASE TickStep
    BY <2>1, <2>3, StartStep, PolledStep, ConnectReturnsStep, DispatchStep, ReturnsStep, PopsStep, RedisReleaseStep DEF TickStep
  <2>4. CASE Command
    BY <2>1, <2>4, CommandStep
  <2>5. CASE ConnClose
    BY <2>1, <2>5, CloseStep
  <2>6. CASE CallbackThrows
    BY <2>1, <2>6, ThrowsStep
  <2>7. CASE UNCHANGED redisVars
    BY <2>1, <2>7 DEF redisVars, RedisInv, RedisTyped
  <2>8. QED
    BY <2>1, <2>2, <2>3, <2>4, <2>5, <2>6, <2>7 DEF RedisNext
<1>3. QED
  BY <1>1, <1>2, PTL DEF RedisSpec

\* A command's callback is called once unless it throws, connect's once, and hiredis writes to no command that
\* is gone (the privdata of OnCommandReply is a pointer into cmds_).
THEOREM RedisCallbacksSound == ASSUME MaxCmds \in Nat PROVE RedisSpec => []CallbacksSound
<1>1. RedisInv => CallbacksSound
  <2>1. SUFFICES ASSUME RedisInv PROVE OneCallback /\ NoDangling
    BY DEF CallbacksSound
  <2>2. OneCallback
    BY <2>1 DEF RedisInv, ConnectedOnce, CalledOnce, OneCallback
  <2>3. ASSUME NEW i \in CmdIds, i \in Range(sent) PROVE \E k \in DOMAIN rc.cmds : rc.cmds[k].id = i /\ ~rc.cmds[k].done
    <3>1. PICK p \in DOMAIN sent : sent[p] = i
      BY <2>3 DEF Range
    <3>2. i # Handshake
      BY DEF CmdIds, Handshake
    <3>3. QED
      BY <2>1, <3>1, <3>2 DEF RedisInv, InFlight
  <2>4. QED
    BY <2>2, <2>3 DEF NoDangling
<1>2. QED
  BY <1>1, RedisInvariant, PTL

(***************************************************************************)
(* The http library.                                                       *)
(***************************************************************************)
\* The behaviours of the http library.
HttpSpec == HttpInit /\ [][HttpNext]_httpVars

OpFields == {"st", "bev", "timed", "msg", "all", "recv", "done", "pending", "err", "body", "called"}
ConnFields == {"st", "msg", "recv", "writing", "wrote"}

\* A request: a callback that was called is not due, nor can anything reach it; one that is due has not been called.
ClientSound(o) ==
    /\ o = [f \in OpFields |-> o[f]]
    /\ o.bev \in BOOLEAN /\ o.done \in BOOLEAN /\ o.pending \in BOOLEAN /\ o.called \in {0, 1}
    /\ o.done => ~o.bev
    /\ o.pending => o.done /\ o.called = 0
    /\ o.called = 1 => o.done
    /\ o.st = "none" => ~o.done /\ ~o.bev

\* A connection of the server: what was written was written under writing_.
ServerSound(n) ==
    /\ n = [f \in ConnFields |-> n[f]]
    /\ n.writing \in BOOLEAN /\ n.wrote \in {0, 1}
    /\ n.wrote = 1 => n.writing

HttpInv ==
    /\ op = [c \in Ops |-> op[c]] /\ \A c \in Ops : ClientSound(op[c])
    /\ hconn = [k \in HttpConns |-> hconn[k]] /\ \A k \in HttpConns : ServerSound(hconn[k])

-----------------------------------------------------------------------------
(* Requests.                                                               *)

\* Of a request's fields, these decide.
LEMMA ClientChange ==
    ASSUME NEW o, ClientSound(o), NEW r, r = [f \in OpFields |-> r[f]],
           r.st = o.st \/ r.st # "none", r.bev = o.bev, r.done = o.done, r.pending = o.pending, r.called = o.called
    PROVE  ClientSound(r)
BY DEF ClientSound

\* Finish, of any request.
LEMMA FinishSound ==
    ASSUME NEW o, ClientSound(o), o.st # "none", NEW err, NEW body
    PROVE  ClientSound(Finish(o, err, body))
<1>1. CASE o.done
  BY <1>1 DEF Finish
<1>2. CASE ~o.done
  <2> DEFINE r == [o EXCEPT !.done = TRUE, !.pending = TRUE, !.err = err, !.body = body, !.bev = FALSE, !.msg = <<>>, !.recv = <<>>]
  <2>1. Finish(o, err, body) = r
    BY <1>2 DEF Finish
  <2>2. o = [f \in OpFields |-> o[f]]
    BY DEF ClientSound
  <2>3. r = [f \in OpFields |-> r[f]] /\ r.st = o.st /\ r.bev = FALSE /\ r.done = TRUE /\ r.pending = TRUE /\ r.called = o.called
    BY <2>2 DEF OpFields
  <2> HIDE DEF r
  <2>4. o.called = 0
    BY <1>2 DEF ClientSound
  <2>5. ClientSound(r)
    BY <1>2, <2>3, <2>4 DEF ClientSound
  <2>6. QED
    BY <2>1, <2>5
<1>3. QED
  BY <1>1, <1>2

\* HandleRead, of any request.
LEMMA ReadSound ==
    ASSUME NEW o, ClientSound(o), o.st # "none", NEW n, NEW eof
    PROVE  ClientSound(ClientHandleRead(o, n, eof))
<1>1. PICK recv : recv = o.recv \o SubSeq(o.msg, 1, n)
  OBVIOUS
<1>2. PICK p : p = TryParseHttpMessage(recv, FALSE, eof)
  OBVIOUS
<1>3. PICK rest : rest = SubSeq(o.msg, n + 1, Len(o.msg))
  OBVIOUS
<1> DEFINE read == [o EXCEPT !.recv = recv, !.msg = rest]
<1>4. \/ ClientHandleRead(o, n, eof) = Finish(o, TRUE, <<>>)
      \/ ClientHandleRead(o, n, eof) = Finish(read, FALSE, p.body)
      \/ ClientHandleRead(o, n, eof) = Finish(read, TRUE, <<>>)
      \/ ClientHandleRead(o, n, eof) = read
  <2>1. o = [f \in OpFields |-> o[f]]
    BY DEF ClientSound
  <2>2. [o EXCEPT !.recv = recv, !.msg = SubSeq(@, n + 1, Len(@))] = read
    BY <1>3, <2>1 DEF OpFields
  <2>3. ClientHandleRead(o, n, eof) =
            IF TooLarge(o.recv, n) THEN Finish(o, TRUE, <<>>)
            ELSE IF p.ok THEN Finish(read, FALSE, p.body)
            ELSE IF eof THEN Finish(read, TRUE, <<>>) ELSE read
    BY <1>1, <1>2, <2>2, Zenon DEF ClientHandleRead
  <2> HIDE DEF read
  <2>4. QED
    BY <2>3, Zenon
<1>5. ClientSound(read) /\ read.st # "none"
  <2>1. o = [f \in OpFields |-> o[f]]
    BY DEF ClientSound
  <2>2. /\ read = [f \in OpFields |-> read[f]] /\ read.st = o.st /\ read.bev = o.bev /\ read.done = o.done
        /\ read.pending = o.pending /\ read.called = o.called
    BY <2>1 DEF OpFields
  <2> HIDE DEF read
  <2>3. QED
    BY <2>2, ClientChange
<1> HIDE DEF read
<1>6. ClientSound(Finish(o, TRUE, <<>>)) /\ ClientSound(Finish(read, FALSE, p.body)) /\ ClientSound(Finish(read, TRUE, <<>>))
  BY <1>5, FinishSound
<1>7. QED
  BY <1>4, <1>5, <1>6

\* One request changes, to one that is sound.
LEMMA OneClient ==
    ASSUME HttpInv, NEW c \in Ops, NEW r, ClientSound(r), op' = [op EXCEPT ![c] = r], UNCHANGED hconn
    PROVE  HttpInv'
BY DEF HttpInv

LEMMA StartClientStep == ASSUME HttpInv, NEW c \in Ops, StartClient(c) PROVE HttpInv'
<1>1. PICK o : o = op[c]
  OBVIOUS
<1>2. ClientSound(o) /\ o.st = "none" /\ o = [f \in OpFields |-> o[f]] /\ op = [d \in Ops |-> op[d]]
  BY <1>1 DEF StartClient, HttpInv, ClientSound
<1>3. UNCHANGED hconn
  BY DEF StartClient
<1>4. CASE op' = [op EXCEPT ![c] = Finish([@ EXCEPT !.st = "live"], TRUE, <<>>)]
  <2>1. PICK r : r = [o EXCEPT !.st = "live"]
    OBVIOUS
  <2>2. /\ r = [f \in OpFields |-> r[f]] /\ r.st = "live" /\ r.bev = o.bev /\ r.done = o.done
        /\ r.pending = o.pending /\ r.called = o.called
    BY <1>2, <2>1 DEF OpFields
  <2>3. ClientSound(r) /\ r.st # "none"
    BY <1>2, <2>2, ClientChange
  <2>4. op' = [op EXCEPT ![c] = Finish(r, TRUE, <<>>)]
    BY <1>1, <1>2, <1>4, <2>1, Zenon
  <2>5. ClientSound(Finish(r, TRUE, <<>>))
    BY <2>3, FinishSound
  <2>6. QED
    BY <1>3, <2>4, <2>5, OneClient
<1>5. CASE op' = [op EXCEPT ![c].st = "thrown"]
  <2>1. PICK r : r = [o EXCEPT !.st = "thrown"]
    OBVIOUS
  <2>2. /\ r = [f \in OpFields |-> r[f]] /\ r.st = "thrown" /\ r.bev = o.bev /\ r.done = o.done
        /\ r.pending = o.pending /\ r.called = o.called
    BY <1>2, <2>1 DEF OpFields
  <2>3. ClientSound(r)
    BY <1>2, <2>2, ClientChange
  <2>4. op' = [op EXCEPT ![c] = r]
    BY <1>1, <1>2, <1>5, <2>1
  <2>5. QED
    BY <1>3, <2>3, <2>4, OneClient
<1>6. ASSUME NEW msg \in Responses, NEW timed \in BOOLEAN,
             op' = [op EXCEPT ![c].st = "live", ![c].bev = TRUE, ![c].timed = timed, ![c].msg = msg, ![c].all = msg]
      PROVE  HttpInv'
  <2>1. PICK r : r = [o EXCEPT !.st = "live", !.bev = TRUE, !.timed = timed, !.msg = msg, !.all = msg]
    OBVIOUS
  <2>2. /\ r = [f \in OpFields |-> r[f]] /\ r.st = "live" /\ r.bev = TRUE /\ r.done = o.done
        /\ r.pending = o.pending /\ r.called = o.called
    BY <1>2, <2>1 DEF OpFields
  <2>3. ClientSound(r)
    BY <1>2, <2>2 DEF ClientSound
  <2>4. op' = [op EXCEPT ![c] = r]
    BY <1>1, <1>2, <1>6, <2>1
  <2>5. QED
    BY <1>3, <2>3, <2>4, OneClient
<1>7. QED
  BY <1>4, <1>5, <1>6 DEF StartClient

LEMMA ClientStep ==
    ASSUME HttpInv, NEW c \in Ops, ClientClose(c) \/ DestroyClient(c) \/ ClientIo(c) \/ ClientTimeout(c)
    PROVE  HttpInv'
<1>1. PICK o : o = op[c]
  OBVIOUS
<1>2. ClientSound(o) /\ o = [f \in OpFields |-> o[f]] /\ op = [d \in Ops |-> op[d]]
  BY <1>1 DEF HttpInv, ClientSound
<1>3. UNCHANGED hconn
  BY DEF ClientClose, DestroyClient, ClientIo, ClientTimeout
<1>4. o.st # "none"
  <2>1. CASE o.bev
    BY <1>2, <2>1 DEF ClientSound
  <2>2. CASE o.st = "live"
    BY <2>2
  <2>3. QED
    BY <1>1, <2>1, <2>2 DEF ClientClose, DestroyClient, ClientIo, ClientTimeout
<1>5. ASSUME NEW r, ClientSound(r), op' = [op EXCEPT ![c] = r] PROVE HttpInv'
  BY <1>3, <1>5, OneClient
<1>6. ClientSound(Finish(o, TRUE, <<>>))
  BY <1>2, <1>4, FinishSound
<1>7. CASE op' = [op EXCEPT ![c] = Finish(@, TRUE, <<>>)]
  <2>1. op' = [op EXCEPT ![c] = Finish(o, TRUE, <<>>)]
    BY <1>1, <1>2, <1>7, Zenon
  <2>2. QED
    BY <1>5, <1>6, <2>1
<1>8. CASE DestroyClient(c)
  <2>1. PICK r : r = [o EXCEPT !.st = "gone", !.bev = FALSE, !.msg = <<>>, !.recv = <<>>]
    OBVIOUS
  <2>2. /\ r = [f \in OpFields |-> r[f]] /\ r.st = "gone" /\ r.bev = FALSE /\ r.done = o.done
        /\ r.pending = o.pending /\ r.called = o.called
    BY <1>2, <2>1 DEF OpFields
  <2>3. ClientSound(r)
    BY <1>2, <2>2 DEF ClientSound
  <2>4. op' = [op EXCEPT ![c] = r]
    BY <1>1, <1>2, <1>8, <2>1 DEF DestroyClient
  <2>5. QED
    BY <1>5, <2>3, <2>4
<1>9. ASSUME NEW n, NEW eof, op' = [op EXCEPT ![c] = ClientHandleRead(@, n, eof)] PROVE HttpInv'
  <2>1. op' = [op EXCEPT ![c] = ClientHandleRead(o, n, eof)]
    BY <1>1, <1>2, <1>9, Zenon
  <2>2. ClientSound(ClientHandleRead(o, n, eof))
    BY <1>2, <1>4, ReadSound
  <2>3. QED
    BY <1>5, <2>1, <2>2
<1>10. CASE ClientIo(c)
  <2>1. \/ \E n \in 1..Len(op[c].msg) : op' = [op EXCEPT ![c] = ClientHandleRead(@, n, FALSE)]
        \/ op' = [op EXCEPT ![c] = ClientHandleRead(@, 0, TRUE)]
        \/ op' = [op EXCEPT ![c] = Finish(@, TRUE, <<>>)]
    BY <1>10, Zenon DEF ClientIo
  <2>2. QED
    BY <2>1, <1>7, <1>9
<1>11. CASE ClientClose(c)
  <2>1. op' = [op EXCEPT ![c] = Finish(@, TRUE, <<>>)]
    BY <1>11, Zenon DEF ClientClose
  <2>2. QED
    BY <2>1, <1>7
<1>12. CASE ClientTimeout(c)
  <2>1. op' = [op EXCEPT ![c] = Finish(@, TRUE, <<>>)]
    BY <1>12, Zenon DEF ClientTimeout
  <2>2. QED
    BY <2>1, <1>7
<1>13. QED
  BY <1>8, <1>10, <1>11, <1>12

-----------------------------------------------------------------------------
(* Connections of the server.                                              *)

\* The connections change, each to one that is sound.
LEMMA Connections ==
    ASSUME HttpInv, hconn' = [k \in HttpConns |-> hconn'[k]], \A k \in HttpConns : ServerSound(hconn'[k]), UNCHANGED op
    PROVE  HttpInv'
BY DEF HttpInv

\* The state of a connection changes, or what it has read.
LEMMA ServerChange ==
    ASSUME HttpInv, NEW k, NEW st, NEW msg, NEW recv
    PROVE  LET n == [hconn EXCEPT ![k].st = st, ![k].msg = msg]
               m == [hconn EXCEPT ![k].st = st]
               r == [hconn EXCEPT ![k].recv = recv, ![k].msg = msg]
           IN  /\ n = [j \in HttpConns |-> n[j]] /\ \A j \in HttpConns : ServerSound(n[j])
               /\ m = [j \in HttpConns |-> m[j]] /\ \A j \in HttpConns : ServerSound(m[j])
               /\ r = [j \in HttpConns |-> r[j]] /\ \A j \in HttpConns : ServerSound(r[j])
<1> DEFINE n == [hconn EXCEPT ![k].st = st, ![k].msg = msg]
           m == [hconn EXCEPT ![k].st = st]
           r == [hconn EXCEPT ![k].recv = recv, ![k].msg = msg]
<1>1. hconn = [j \in HttpConns |-> hconn[j]] /\ \A j \in HttpConns : ServerSound(hconn[j]) /\ hconn[j] = [f \in ConnFields |-> hconn[j][f]]
  BY DEF HttpInv, ServerSound
<1>2. n = [j \in HttpConns |-> n[j]] /\ m = [j \in HttpConns |-> m[j]] /\ r = [j \in HttpConns |-> r[j]]
  BY <1>1
<1>3. ASSUME NEW j \in HttpConns PROVE ServerSound(n[j]) /\ ServerSound(m[j]) /\ ServerSound(r[j])
  <2>1. CASE j # k
    <3>1. n[j] = hconn[j] /\ m[j] = hconn[j] /\ r[j] = hconn[j]
      BY <1>1, <2>1
    <3>2. QED
      BY <1>1, <3>1
  <2>2. CASE j = k
    <3>1. PICK o : o = hconn[k]
      OBVIOUS
    <3>2. /\ n[j] = [o EXCEPT !.st = st, !.msg = msg] /\ m[j] = [o EXCEPT !.st = st]
          /\ r[j] = [o EXCEPT !.recv = recv, !.msg = msg]
      BY <1>1, <2>2, <3>1
    <3>3. ServerSound(o) /\ o = [f \in ConnFields |-> o[f]]
      BY <1>1, <2>2, <3>1
    <3>4. ASSUME NEW x, x \in {[o EXCEPT !.st = st, !.msg = msg], [o EXCEPT !.st = st], [o EXCEPT !.recv = recv, !.msg = msg]}
          PROVE  ServerSound(x)
      <4>1. x = [f \in ConnFields |-> x[f]] /\ x.writing = o.writing /\ x.wrote = o.wrote
        BY <3>3, <3>4 DEF ConnFields
      <4>2. QED
        BY <3>3, <4>1 DEF ServerSound
    <3>5. QED
      BY <3>2, <3>4
  <2>3. QED
    BY <2>1, <2>2
<1>4. QED
  BY <1>2, <1>3

\* Reply, to any connection.
LEMMA ReplySound ==
    ASSUME HttpInv, NEW k, NEW bad
    PROVE  LET r == Reply(k, bad) IN r = [j \in HttpConns |-> r[j]] /\ \A j \in HttpConns : ServerSound(r[j])
<1>1. hconn = [j \in HttpConns |-> hconn[j]] /\ \A j \in HttpConns : ServerSound(hconn[j]) /\ hconn[j] = [f \in ConnFields |-> hconn[j][f]]
  BY DEF HttpInv, ServerSound
<1>2. CASE k \notin HttpConns \/ hconn[k].st # "open" \/ hconn[k].writing
  BY <1>1, <1>2 DEF Reply
<1>3. CASE ~(k \notin HttpConns \/ hconn[k].st # "open" \/ hconn[k].writing)
  <2>1. PICK o : o = hconn[k]
    OBVIOUS
  <2>2. PICK w : w = IF bad THEN o.wrote ELSE o.wrote + 1
    OBVIOUS
  <2>3. PICK x : x = [o EXCEPT !.writing = TRUE, !.wrote = w]
    OBVIOUS
  <2>4. Reply(k, bad) = [hconn EXCEPT ![k] = x]
    BY <1>1, <1>3, <2>1, <2>2, <2>3 DEF Reply
  <2>5. ServerSound(o) /\ o = [f \in ConnFields |-> o[f]] /\ ~o.writing
    BY <1>1, <1>3, <2>1
  <2>6. o.wrote = 0 /\ w \in {0, 1}
    BY <2>2, <2>5 DEF ServerSound
  <2>7. x = [f \in ConnFields |-> x[f]] /\ x.writing = TRUE /\ x.wrote = w
    BY <2>3, <2>5 DEF ConnFields
  <2>8. ServerSound(x)
    BY <2>6, <2>7 DEF ServerSound
  <2>9. QED
    BY <1>1, <2>4, <2>8
<1>4. QED
  BY <1>2, <1>3

LEMMA ServerStep ==
    ASSUME HttpInv, NEW k \in HttpConns, ServerAccept(k) \/ ServerIo(k) \/ ServerReply(k)
    PROVE  HttpInv'
<1>1. UNCHANGED op
  BY DEF ServerAccept, ServerIo, ServerReply
<1>2. CASE ServerAccept(k)
  <2>1. PICK msg \in Requests : hconn' = [hconn EXCEPT ![k].st = "open", ![k].msg = msg]
    BY <1>2 DEF ServerAccept
  <2>2. PICK n : n = [hconn EXCEPT ![k].st = "open", ![k].msg = msg]
    OBVIOUS
  <2>3. n = [j \in HttpConns |-> n[j]] /\ \A j \in HttpConns : ServerSound(n[j])
    BY <2>2, ServerChange
  <2>4. QED
    BY <1>1, <2>1, <2>2, <2>3, Connections
<1>3. CASE hconn' = Closed(k)
  <2>1. PICK n : n = [hconn EXCEPT ![k].st = "closed"]
    OBVIOUS
  <2>2. n = [j \in HttpConns |-> n[j]] /\ \A j \in HttpConns : ServerSound(n[j])
    BY <2>1, ServerChange
  <2>3. QED
    BY <1>1, <1>3, <2>1, <2>2, Connections DEF Closed
<1>4. ASSUME NEW n, NEW eof, ServerHandleRead(k, n, eof) PROVE HttpInv'
  <2>1. PICK msg : msg = SubSeq(hconn[k].msg, n + 1, Len(hconn[k].msg))
    OBVIOUS
  <2>2. \A r : [hconn EXCEPT ![k].recv = r, ![k].msg = SubSeq(@, n + 1, Len(@))] = [hconn EXCEPT ![k].recv = r, ![k].msg = msg]
    <3>1. hconn = [j \in HttpConns |-> hconn[j]] /\ hconn[k] = [f \in ConnFields |-> hconn[k][f]]
      BY DEF HttpInv, ServerSound
    <3>2. QED
      BY <2>1, <3>1 DEF ConnFields
  <2>3. hconn' = Closed(k) \/ \E r : hconn' = [hconn EXCEPT ![k].recv = r, ![k].msg = SubSeq(@, n + 1, Len(@))]
    BY <1>4, Zenon DEF ServerHandleRead
  <2>4. CASE hconn' = Closed(k)
    BY <1>3, <2>4
  <2>5. CASE \E r : hconn' = [hconn EXCEPT ![k].recv = r, ![k].msg = SubSeq(@, n + 1, Len(@))]
    <3>1. PICK r : hconn' = [hconn EXCEPT ![k].recv = r, ![k].msg = msg]
      BY <2>2, <2>5
    <3>2. PICK x : x = [hconn EXCEPT ![k].recv = r, ![k].msg = msg]
      OBVIOUS
    <3>3. x = [j \in HttpConns |-> x[j]] /\ \A j \in HttpConns : ServerSound(x[j])
      BY <3>2, ServerChange
    <3>4. QED
      BY <1>1, <3>1, <3>2, <3>3, Connections
  <2>6. QED
    BY <2>3, <2>4, <2>5
<1>5. CASE ServerIo(k)
  BY <1>3, <1>4, <1>5 DEF ServerIo
<1>6. CASE ServerReply(k)
  <2>1. PICK bad \in BOOLEAN : hconn' = Reply(k, bad)
    BY <1>6 DEF ServerReply
  <2>2. PICK r : r = Reply(k, bad)
    OBVIOUS
  <2>3. r = [j \in HttpConns |-> r[j]] /\ \A j \in HttpConns : ServerSound(r[j])
    BY <2>2, ReplySound
  <2>4. QED
    BY <1>1, <2>1, <2>2, <2>3, Connections
<1>7. QED
  BY <1>2, <1>5, <1>6

LEMMA ServerCloseStep == ASSUME HttpInv, ServerClose PROVE HttpInv'
<1>1. ASSUME NEW k \in HttpConns PROVE ServerSound(IF hconn[k].st = "open" THEN [hconn[k] EXCEPT !.st = "closed"] ELSE hconn[k])
  <2>1. PICK o : o = hconn[k]
    OBVIOUS
  <2>2. PICK x : x = [o EXCEPT !.st = "closed"]
    OBVIOUS
  <2>3. ServerSound(o) /\ o = [f \in ConnFields |-> o[f]]
    BY <2>1 DEF HttpInv, ServerSound
  <2>4. x = [f \in ConnFields |-> x[f]] /\ x.writing = o.writing /\ x.wrote = o.wrote
    BY <2>2, <2>3 DEF ConnFields
  <2>5. ServerSound(x)
    BY <2>3, <2>4 DEF ServerSound
  <2>6. QED
    BY <2>1, <2>2, <2>3, <2>5
<1>2. UNCHANGED op /\ hconn' = [k \in HttpConns |-> IF hconn[k].st = "open" THEN [hconn[k] EXCEPT !.st = "closed"] ELSE hconn[k]]
  BY DEF ServerClose
<1>3. \A k \in HttpConns : ServerSound(hconn'[k])
  BY <1>1, <1>2
<1>4. hconn' = [k \in HttpConns |-> hconn'[k]]
  BY <1>2
<1>5. QED
  BY <1>2, <1>3, <1>4, Connections

-----------------------------------------------------------------------------
(* TickAll.                                                                *)

LEMMA PollStep == ASSUME HttpInv, PollReturns PROVE HttpInv'
<1>1. UNCHANGED hconn /\ op = [d \in Ops |-> op[d]]
  BY DEF PollReturns, HttpInv
<1>2. CASE UNCHANGED op
  BY <1>1, <1>2 DEF HttpInv
<1>3. CASE loop.at # "server" /\ ~UNCHANGED op
  <2>1. PICK c : c = Head(loop.left)
    OBVIOUS
  <2>2. op[c].pending /\ op' = [op EXCEPT ![c].pending = FALSE, ![c].called = @ + 1]
    BY <1>3, <2>1 DEF PollReturns
  <2>3. c \in Ops
    BY <1>1, <1>3, <2>2
  <2>4. PICK o : o = op[c]
    OBVIOUS
  <2>5. PICK r : r = [o EXCEPT !.pending = FALSE, !.called = o.called + 1]
    OBVIOUS
  <2>6. ClientSound(o) /\ o = [f \in OpFields |-> o[f]] /\ o.pending
    BY <2>2, <2>3, <2>4 DEF HttpInv, ClientSound
  <2>7. op' = [op EXCEPT ![c] = r]
    BY <1>1, <2>2, <2>3, <2>4, <2>5, <2>6 DEF OpFields
  <2>8. o.called + 1 = 1 /\ o.done
    BY <2>6 DEF ClientSound
  <2>9. /\ r = [f \in OpFields |-> r[f]] /\ r.st = o.st /\ r.bev = o.bev /\ r.done = o.done
        /\ r.pending = FALSE /\ r.called = 1
    BY <2>5, <2>6, <2>8 DEF OpFields
  <2>10. ClientSound(r)
    BY <2>6, <2>8, <2>9 DEF ClientSound
  <2>11. QED
    BY <1>1, <2>3, <2>7, <2>10, OneClient
<1>4. QED
  BY <1>2, <1>3 DEF PollReturns

LEMMA HttpTickStep ==
    ASSUME HttpInv, TickAll \/ DispatchRequest \/ RequestReturns \/ ServerTicked \/ ClientReturns \/ ClientsTicked \/ HttpCallbackThrows
    PROVE  HttpInv'
<1>1. UNCHANGED op
  BY DEF TickAll, DispatchRequest, RequestReturns, ServerTicked, ClientReturns, ClientsTicked, HttpCallbackThrows
<1>2. UNCHANGED hconn \/ \E k, bad : hconn' = Reply(k, bad)
  BY DEF TickAll, DispatchRequest, RequestReturns, ServerTicked, ClientReturns, ClientsTicked, HttpCallbackThrows
<1>3. CASE UNCHANGED hconn
  BY <1>1, <1>3 DEF HttpInv
<1>4. CASE \E k, bad : hconn' = Reply(k, bad)
  <2>1. PICK k, bad : hconn' = Reply(k, bad)
    BY <1>4
  <2>2. PICK r : r = Reply(k, bad)
    OBVIOUS
  <2>3. r = [j \in HttpConns |-> r[j]] /\ \A j \in HttpConns : ServerSound(r[j])
    BY <2>2, ReplySound
  <2>4. QED
    BY <1>1, <2>1, <2>2, <2>3, Connections
<1>5. QED
  BY <1>2, <1>3, <1>4

LEMMA HttpInitHolds == ASSUME HttpInit PROVE HttpInv
<1>1. PICK o : o = [st |-> "none", bev |-> FALSE, timed |-> FALSE, msg |-> <<>>, all |-> <<>>, recv |-> <<>>,
                    done |-> FALSE, pending |-> FALSE, err |-> TRUE, body |-> <<>>, called |-> 0]
  OBVIOUS
<1>2. PICK n : n = [st |-> "none", msg |-> <<>>, recv |-> <<>>, writing |-> FALSE, wrote |-> 0]
  OBVIOUS
<1>3. op = [c \in Ops |-> o] /\ hconn = [k \in HttpConns |-> n]
  BY <1>1, <1>2 DEF HttpInit
<1>4. ClientSound(o)
  BY <1>1 DEF ClientSound, OpFields
<1>5. ServerSound(n)
  BY <1>2 DEF ServerSound, ConnFields
<1>6. QED
  BY <1>3, <1>4, <1>5 DEF HttpInv

-----------------------------------------------------------------------------

\* Requests and connections in every behaviour, for every number of them, every message and every limit: HttpInv is
\* inductive.
THEOREM HttpInvariant == HttpSpec => []HttpInv
<1>1. HttpInit => HttpInv
  BY HttpInitHolds
<1>2. HttpInv /\ [HttpNext]_httpVars => HttpInv'
  <2>1. SUFFICES ASSUME HttpInv, [HttpNext]_httpVars PROVE HttpInv'
    OBVIOUS
  <2>2. CASE UNCHANGED httpVars
    BY <2>1, <2>2 DEF httpVars, HttpInv
  <2>3. CASE HttpTick \/ HttpCallbackThrows
    BY <2>1, <2>3, PollStep, HttpTickStep DEF HttpTick
  <2>4. ASSUME NEW c \in Ops, StartClient(c) \/ ClientClose(c) \/ DestroyClient(c) \/ ClientIo(c) \/ ClientTimeout(c)
        PROVE  HttpInv'
    BY <2>1, <2>4, StartClientStep, ClientStep
  <2>5. ASSUME NEW k \in HttpConns, ServerAccept(k) \/ ServerIo(k) \/ ServerReply(k) PROVE HttpInv'
    BY <2>1, <2>5, ServerStep
  <2>6. CASE ServerClose
    BY <2>1, <2>6, ServerCloseStep
  <2>7. QED
    BY <2>1, <2>2, <2>3, <2>4, <2>5, <2>6 DEF HttpNext, HttpTimeouts
<1>3. QED
  BY <1>1, <1>2, PTL DEF HttpSpec

\* However the response, the timeout, an error and req:close() race, the callback of a request is called at most once,
\* and however often the script replies a connection is written to at most once.
THEOREM HttpAnswersOnce == HttpSpec => []AnsweredOnce
<1>1. HttpInv => AnsweredOnce
  BY DEF AnsweredOnce, HttpInv, ClientSound, ServerSound, ClientAnsweredOnce, RepliedOnce
<1>2. QED
  BY <1>1, HttpInvariant, PTL

(***************************************************************************)
(* The stream of bytes.  Holds says which bytes a ring has, so that what   *)
(* Write, Peek, Skip and FlushSend do can be said of sequences, and where  *)
(* the ring wraps around is settled once, for each of them.                *)
(***************************************************************************)
FrameSpec == FrameInit /\ [][FrameNext]_frameVars

\* The sizes are positive, a byte and a length are natural numbers.
FrameAssumption ==
    /\ SendCap \in Nat \ {0} /\ RecvCap \in Nat \ {0} /\ Base \in Nat \ {0}
    /\ MaxPacket \in Nat /\ FixedLen \in Int /\ WsShort \in Nat /\ Payloads \subseteq Seq(Nat)
    /\ Framers \subseteq {"be4", "le4", "be2", "le2", "line", "fixed", "raw", "custom", "ws_client", "ws_server"}

\* The place n bytes after the one at head.
Place(cap, head, n) == IF head + n < cap THEN head + n ELSE head + n - cap

\* A ring of that capacity with the bytes s, which begin anywhere in it.
Memory(cap) == [0..cap - 1 -> Nat]
RingOf(cap, buf, head, size) ==
    [cap |-> cap, buf |-> buf, head |-> head, tail |-> Place(cap, head, size), size |-> size]
Piece(p, d, at) == \A i \in 1..Len(p) : p[i] = d[at + i]
Cut(p, buf, at, n) == Len(p) = n /\ \A i \in 1..n : p[i] = buf[at + i - 1]
Halves(cap, head, n, first, rest) == first + rest = n /\ first <= cap - head /\ (rest = 0 \/ first = cap - head)
Joined(buf, head, first, rest) == CopyOut(buf, head, first) \o CopyOut(buf, 0, rest)
Spared(new, buf, cap, tail, n) ==
    \A j \in 0..cap - 1 : (j < tail \/ j >= tail + n) /\ j >= tail + n - cap => new[j] = buf[j]
Copied(new, buf, cap, at, d) ==
    \A j \in 0..cap - 1 : new[j] = IF at <= j /\ j < at + Len(d) THEN d[j - at + 1] ELSE buf[j]
Lies(cap, buf, head, s) == \A k \in 1..Len(s) : buf[Place(cap, head, k - 1)] = s[k]
Holds(b, cap, s) ==
    /\ s \in Seq(Nat) /\ Len(s) <= cap
    /\ \E buf \in Memory(cap), head \in 0..cap - 1 :
           b = RingOf(cap, buf, head, Len(s)) /\ Lies(cap, buf, head, s)

LEMMA Wraps ==
    ASSUME NEW c \in Nat, c > 0, NEW a \in Int, 0 <= a, a < c + c
    PROVE  a % c = IF a < c THEN a ELSE a - c
<1>1. CASE a < c
  BY <1>1
<1>2. CASE a >= c
  <2>1. a - c \in Int /\ 0 <= a - c /\ a - c < c
    BY <1>2
  <2>2. (a - c) % c = a - c
    BY <2>1
  <2>3. a % c = (a - c) % c
    BY <1>2
  <2>4. QED
    BY <1>2, <2>2, <2>3
<1>3. QED
  BY <1>1, <1>2

\* Where a byte of a ring lies.
LEMMA PlaceIs ==
    ASSUME NEW cap \in Nat, cap > 0, NEW head \in 0..cap - 1, NEW n \in 0..cap
    PROVE  (head + n) % cap = Place(cap, head, n) /\ Place(cap, head, n) \in 0..cap - 1
<1>1. head + n \in Int /\ 0 <= head + n /\ head + n < cap + cap
  OBVIOUS
<1>2. (head + n) % cap = IF head + n < cap THEN head + n ELSE head + n - cap
  BY <1>1, Wraps
<1>3. QED
  BY <1>2 DEF Place

\* Two pieces of a sequence.
LEMMA SplitSeq ==
    ASSUME NEW s \in Seq(Nat), NEW n \in 0..Len(s)
    PROVE  /\ SubSeq(s, 1, n) \in Seq(Nat) /\ SubSeq(s, n + 1, Len(s)) \in Seq(Nat)
           /\ Len(SubSeq(s, 1, n)) = n /\ Len(SubSeq(s, n + 1, Len(s))) = Len(s) - n
           /\ \A i \in 1..n : SubSeq(s, 1, n)[i] = s[i]
           /\ \A i \in 1..Len(s) - n : SubSeq(s, n + 1, Len(s))[i] = s[n + i]
           /\ SubSeq(s, 1, n) \o SubSeq(s, n + 1, Len(s)) = s
<1>1. Len(s) \in Nat /\ n \in Int
  BY LenProperties
<1>2. /\ SubSeq(s, 1, n) \in Seq(Nat) /\ SubSeq(s, n + 1, Len(s)) \in Seq(Nat)
      /\ Len(SubSeq(s, 1, n)) = n /\ Len(SubSeq(s, n + 1, Len(s))) = Len(s) - n
      /\ \A i \in 1..n : SubSeq(s, 1, n)[i] = s[i]
      /\ \A i \in 1..Len(s) - n : SubSeq(s, n + 1, Len(s))[i] = s[n + i]
  BY <1>1, SubSeqProperties
<1>3. PICK a \in Seq(Nat), c \in Seq(Nat) : a = SubSeq(s, 1, n) /\ c = SubSeq(s, n + 1, Len(s))
  BY <1>2
<1>4. Len(a) = n /\ Len(c) = Len(s) - n /\ (\A i \in 1..n : a[i] = s[i]) /\ \A i \in 1..Len(s) - n : c[i] = s[n + i]
  BY <1>2, <1>3
<1>5. a \o c \in Seq(Nat) /\ Len(a \o c) = Len(s)
  BY <1>4, ConcatProperties
<1>6. ASSUME NEW i \in 1..Len(s) PROVE (a \o c)[i] = s[i]
  <2>1. (a \o c)[i] = IF i <= n THEN a[i] ELSE c[i - n]
    BY <1>4, ConcatProperties
  <2>2. CASE i <= n
    <3>1. i \in 1..n
      BY <2>2
    <3>2. QED
      BY <2>1, <2>2, <3>1, <1>4
  <2>3. CASE i > n
    <3>1. i - n \in 1..Len(s) - n /\ n + (i - n) = i
      BY <2>3
    <3>2. QED
      BY <2>1, <2>3, <3>1, <1>4
  <2>4. i <= n \/ i > n
    BY <1>1
  <2>5. QED
    BY <2>2, <2>3, <2>4
<1>7. a \o c = s
  BY <1>5, <1>6, SeqEqual
<1>8. QED
  BY <1>2, <1>3, <1>7

\* memcpy into buf_.
LEMMA CopyInIs ==
    ASSUME NEW cap \in Nat, NEW buf \in Memory(cap), NEW at \in Nat, NEW d \in Seq(Nat)
    PROVE  CopyIn(buf, at, d) \in Memory(cap) /\ Copied(CopyIn(buf, at, d), buf, cap, at, d)
<1>1. PICK n \in Nat : n = Len(d)
  BY LenProperties
<1>2. ASSUME NEW j \in 0..cap - 1
      PROVE  /\ CopyIn(buf, at, d)[j] = IF at <= j /\ j < at + n THEN d[j - at + 1] ELSE buf[j]
             /\ CopyIn(buf, at, d)[j] \in Nat
  <2>1. j \in Int
    OBVIOUS
  <2>2. CopyIn(buf, at, d)[j] = IF j \in at..at + n - 1 THEN d[j - at + 1] ELSE buf[j]
    BY <1>1 DEF CopyIn, Memory
  <2>3. CopyIn(buf, at, d)[j] = IF at <= j /\ j < at + n THEN d[j - at + 1] ELSE buf[j]
    BY <2>1, <2>2
  <2>4. CASE at <= j /\ j < at + n
    <3>1. j - at + 1 \in 1..Len(d)
      BY <1>1, <2>1, <2>4
    <3>2. QED
      BY <2>3, <2>4, <3>1, ElementOfSeq
  <2>5. CASE ~(at <= j /\ j < at + n)
    BY <2>3, <2>5 DEF Memory
  <2>6. QED
    BY <2>3, <2>4, <2>5
<1>3. CopyIn(buf, at, d) = [j \in 0..cap - 1 |-> CopyIn(buf, at, d)[j]]
  BY DEF CopyIn, Memory
<1>4. QED
  BY <1>1, <1>2, <1>3 DEF Copied, Memory

\* The end of a ring with more bytes.
LEMMA EndMoves ==
    ASSUME NEW cap \in Nat, cap > 0, NEW head \in 0..cap - 1, NEW size \in 0..cap, NEW len \in Nat, size + len <= cap
    PROVE  /\ (Place(cap, head, size) + len) % cap = (head + (size + len)) % cap
           /\ \A k \in 1..len : Place(cap, Place(cap, head, size), k - 1) = Place(cap, head, size + k - 1)
<1>1. PICK tail \in 0..cap - 1 : tail = Place(cap, head, size)
  BY PlaceIs
<1>2. (tail + len) % cap = Place(cap, tail, len)
  BY PlaceIs
<1>3. size + len \in 0..cap
  OBVIOUS
<1>4. (head + (size + len)) % cap = Place(cap, head, size + len)
  BY <1>3, PlaceIs
<1>5. Place(cap, tail, len) = Place(cap, head, size + len)
  BY <1>1, <1>3 DEF Place
<1>6. \A k \in 1..len : Place(cap, tail, k - 1) = Place(cap, head, size + k - 1)
  BY <1>1 DEF Place
<1>7. QED
  BY <1>1, <1>2, <1>4, <1>5, <1>6

\* What a ring says of itself.
LEMMA HeldIs ==
    ASSUME NEW cap \in Nat, cap > 0, NEW b, NEW s \in Seq(Nat), Holds(b, cap, s)
    PROVE  b.cap = cap /\ b.size = Len(s) /\ Contents(b) = s
<1>1. Len(s) \in 0..cap
  BY LenProperties DEF Holds
<1>2. PICK buf \in Memory(cap), head \in 0..cap - 1 : b = RingOf(cap, buf, head, Len(s)) /\ Lies(cap, buf, head, s)
  BY DEF Holds
<1>3. b.cap = cap /\ b.buf = buf /\ b.head = head /\ b.size = Len(s)
  BY <1>2 DEF RingOf
<1>4. PICK m \in 0..cap : m = Len(s)
  BY <1>1
<1>5. Contents(b) = [i \in 1..m |-> buf[(head + i - 1) % cap]]
  BY <1>3, <1>4 DEF Contents
<1>6. ASSUME NEW i \in 1..m PROVE buf[(head + i - 1) % cap] = s[i]
  <2>1. PICK n \in 0..cap : n = i - 1
    OBVIOUS
  <2>2. (head + n) % cap = Place(cap, head, n)
    BY PlaceIs
  <2>3. head + i - 1 = head + n
    BY <2>1
  <2>4. s[i] = buf[Place(cap, head, i - 1)]
    BY <1>2, <1>4 DEF Lies
  <2>5. QED
    BY <2>1, <2>2, <2>3, <2>4
<1>7. Contents(b) = [i \in 1..Len(s) |-> s[i]]
  BY <1>4, <1>5, <1>6
<1>8. QED
  BY <1>3, <1>7, SeqDef

\* Bytes that follow those of a ring.
LEMMA LiesBehind ==
    ASSUME NEW cap \in Nat, cap > 0, NEW buf \in Memory(cap), NEW head \in 0..cap - 1,
           NEW s \in Seq(Nat), NEW d \in Seq(Nat), Len(s) + Len(d) <= cap,
           Lies(cap, buf, head, s), Lies(cap, buf, Place(cap, head, Len(s)), d)
    PROVE  Lies(cap, buf, head, s \o d)
<1>1. PICK size \in Nat, n \in Nat : size = Len(s) /\ n = Len(d)
  BY LenProperties
<1>2. /\ s \o d \in Seq(Nat) /\ Len(s \o d) = size + n
      /\ \A k \in 1..size + n : (s \o d)[k] = IF k <= size THEN s[k] ELSE d[k - size]
  BY <1>1, ConcatProperties
<1>3. size + n <= cap /\ size \in 0..cap
  BY <1>1
<1>4. ASSUME NEW k \in 1..size + n PROVE buf[Place(cap, head, k - 1)] = (s \o d)[k]
  <2>1. CASE k <= size
    <3>1. k \in 1..Len(s)
      BY <1>1, <2>1
    <3>2. QED
      BY <1>2, <2>1, <3>1 DEF Lies
  <2>2. CASE k > size
    <3>1. k - size \in 1..n
      BY <2>2
    <3>2. PICK j \in 1..n : j = k - size
      BY <3>1
    <3>3. \A i \in 1..n : Place(cap, Place(cap, head, size), i - 1) = Place(cap, head, size + i - 1)
      BY <1>3, EndMoves
    <3>4. size + j - 1 = k - 1
      BY <3>2
    <3>5. buf[Place(cap, Place(cap, head, size), j - 1)] = d[j]
      BY <1>1 DEF Lies
    <3>6. buf[Place(cap, head, k - 1)] = d[j]
      BY <3>3, <3>4, <3>5
    <3>7. ~(k <= size) /\ k - size = j
      BY <2>2, <3>2
    <3>8. (s \o d)[k] = d[k - size]
      BY <1>2, <3>7
    <3>9. QED
      BY <3>6, <3>7, <3>8
  <2>3. k <= size \/ k > size
    OBVIOUS
  <2>4. QED
    BY <2>1, <2>2, <2>3
<1>5. QED
  BY <1>2, <1>4 DEF Lies

\* A ring whose end moves over bytes that lie there, the others being left alone.
LEMMA HoldsMore ==
    ASSUME NEW cap \in Nat, cap > 0, NEW buf \in Memory(cap), NEW head \in 0..cap - 1,
           NEW s \in Seq(Nat), NEW d \in Seq(Nat), NEW size \in Nat, NEW n \in Nat, size = Len(s), n = Len(d), size + n <= cap,
           Lies(cap, buf, head, s), NEW new \in Memory(cap), NEW tail \in 0..cap - 1, tail = Place(cap, head, size),
           \A k \in 1..size : new[Place(cap, head, k - 1)] = buf[Place(cap, head, k - 1)],
           Lies(cap, new, tail, d)
    PROVE  Holds([cap |-> cap, buf |-> new, head |-> head, tail |-> (tail + n) % cap, size |-> size + n], cap, s \o d)
<1>1. Lies(cap, new, head, s) /\ Lies(cap, new, Place(cap, head, Len(s)), d) /\ Len(s) + Len(d) <= cap
  BY DEF Lies
<1>2. Lies(cap, new, head, s \o d)
  BY <1>1, LiesBehind
<1>3. s \o d \in Seq(Nat) /\ Len(s \o d) = size + n
  BY ConcatProperties
<1>4. size \in 0..cap /\ size + n \in 0..cap
  OBVIOUS
<1>5. PICK m \in 0..cap : m = size + n
  BY <1>4
<1>6. (tail + n) % cap = (head + m) % cap
  BY <1>4, <1>5, EndMoves
<1>7. (head + m) % cap = Place(cap, head, m)
  BY PlaceIs
<1>8. QED
  BY <1>2, <1>3, <1>5, <1>6, <1>7 DEF Holds, RingOf

\* memcpy into buf_ in two pieces, the second to its beginning: all of the bytes are there, and nothing else is touched.
LEMMA TwoPieces ==
    ASSUME NEW cap \in Nat, cap > 0, NEW buf \in Memory(cap), NEW tail \in Nat, tail < cap,
           NEW d \in Seq(Nat), Len(d) <= cap,
           NEW p \in Seq(Nat), Piece(p, d, 0), Len(p) = Len(d) \/ Len(p) = cap - tail,
           NEW q \in Seq(Nat), Piece(q, d, Len(p)), Len(p) + Len(q) = Len(d), Len(p) <= cap - tail
    PROVE  /\ CopyIn(CopyIn(buf, tail, p), 0, q) \in Memory(cap)
           /\ Lies(cap, CopyIn(CopyIn(buf, tail, p), 0, q), tail, d)
           /\ Spared(CopyIn(CopyIn(buf, tail, p), 0, q), buf, cap, tail, Len(d))
<1>1. PICK new : new = CopyIn(CopyIn(buf, tail, p), 0, q)
  OBVIOUS
<1>2. PICK n \in Nat, first \in Nat : n = Len(d) /\ first = Len(p)
  BY LenProperties
<1>3. /\ Len(p) = first /\ Len(q) = n - first
      /\ (\A i \in 1..first : p[i] = d[i]) /\ \A i \in 1..n - first : q[i] = d[first + i]
  <2>1. Len(p) = first /\ Len(q) = n - first
    BY <1>2, LenProperties
  <2>2. \A i \in 1..first : p[i] = d[0 + i] /\ 0 + i = i
    BY <1>2 DEF Piece
  <2>3. \A i \in 1..n - first : q[i] = d[first + i]
    BY <1>2, <2>1 DEF Piece
  <2>4. QED
    BY <2>1, <2>2, <2>3
<1>4. Len(p) = first /\ Len(q) = n - first
  BY <1>3
<1>5. first <= cap - tail /\ first <= n /\ n <= cap /\ (first = n \/ first = cap - tail)
  <2>1. n - first \in Nat
    BY <1>4, LenProperties
  <2>2. first <= n
    BY <2>1
  <2>3. first <= cap - tail /\ n <= cap /\ (first = n \/ first = cap - tail)
    BY <1>2
  <2>4. QED
    BY <2>2, <2>3
<1>6. PICK one \in Memory(cap) : one = CopyIn(buf, tail, p)
  <2>1. CopyIn(buf, tail, p) \in Memory(cap)
    BY CopyInIs
  <2>2. QED
    BY <2>1
<1>7. ASSUME NEW j \in 0..cap - 1
      PROVE  one[j] = IF tail <= j /\ j < tail + first THEN p[j - tail + 1] ELSE buf[j]
  <2>1. Copied(one, buf, cap, tail, p)
    BY <1>6, CopyInIs
  <2>2. QED
    BY <1>4, <2>1 DEF Copied
<1>8. PICK zero \in Nat : zero = 0
  OBVIOUS
<1>9. new \in Memory(cap)
  <2>1. CopyIn(one, zero, q) \in Memory(cap)
    BY CopyInIs
  <2>2. QED
    BY <1>1, <1>6, <1>8, <2>1
<1>10. n - first \in Nat
  BY <1>4, LenProperties
<1>11. PICK rest \in Nat : rest = n - first
  BY <1>10
<1>12. rest = 0 \/ rest = tail + n - cap
  BY <1>11, <1>5
<1>13. rest <= tail
  BY <1>5, <1>12
<1>14. ASSUME NEW j \in 0..cap - 1 PROVE new[j] = IF j < rest THEN q[j + 1] ELSE one[j]
  <2>1. Copied(new, one, cap, zero, q)
    <3>1. new = CopyIn(one, zero, q)
      BY <1>1, <1>6, <1>8
    <3>2. QED
      BY <3>1, CopyInIs
  <2>2. (zero <= j /\ j < zero + Len(q) <=> j < rest) /\ j - zero + 1 = j + 1
    BY <1>4, <1>8, <1>11
  <2>3. QED
    BY <2>1, <2>2 DEF Copied
<1>15. ASSUME NEW j \in 0..cap - 1, tail <= j, j < tail + first PROVE new[j] = d[j - tail + 1]
  <2>1. ~(j < rest) /\ j - tail + 1 \in 1..first
    BY <1>13, <1>15
  <2>2. new[j] = one[j] /\ one[j] = p[j - tail + 1]
    BY <1>3, <1>7, <1>14, <1>15, <2>1
  <2>3. QED
    BY <1>3, <2>1, <2>2
<1>16. ASSUME NEW j \in 0..cap - 1, j < rest PROVE new[j] = d[first + (j + 1)]
  <2>1. j + 1 \in 1..n - first
    BY <1>11, <1>16
  <2>2. QED
    BY <1>3, <1>14, <1>16, <2>1
<1>17. ASSUME NEW j \in 0..cap - 1, j < tail \/ j >= tail + Len(d), j >= tail + Len(d) - cap PROVE new[j] = buf[j]
  <2>1. (j < tail \/ j >= tail + n) /\ j >= tail + n - cap /\ j >= 0
    BY <1>2, <1>17
  <2>2. ~(j < rest) /\ ~(tail <= j /\ j < tail + first)
    BY <1>5, <1>12, <2>1
  <2>3. QED
    BY <1>4, <1>7, <1>14, <2>2
<1>18. ASSUME NEW k \in 1..n PROVE new[Place(cap, tail, k - 1)] = d[k]
  <2>1. CASE k <= first
    <3>1. tail + k - 1 < cap
      BY <1>5, <2>1
    <3>2. PICK j \in 0..cap - 1 : j = tail + k - 1
      BY <3>1
    <3>3. Place(cap, tail, k - 1) = j /\ tail <= j /\ j < tail + first /\ j - tail + 1 = k
      BY <2>1, <3>1, <3>2 DEF Place
    <3>4. QED
      BY <1>15, <3>3
  <2>2. CASE k > first
    <3>1. first = cap - tail
      BY <1>5, <2>2
    <3>2. k - 1 - first \in 0..cap - 1
      BY <1>5, <2>2
    <3>3. PICK j \in 0..cap - 1 : j = k - 1 - first
      BY <3>2
    <3>4. Place(cap, tail, k - 1) = j /\ j < rest /\ first + (j + 1) = k
      BY <1>11, <2>2, <3>1, <3>3 DEF Place
    <3>5. QED
      BY <1>16, <3>4
  <2>3. k <= first \/ k > first
    OBVIOUS
  <2>4. QED
    BY <2>1, <2>2, <2>3
<1>19. QED
  BY <1>1, <1>2, <1>9, <1>17, <1>18 DEF Lies, Spared

\* Where a ring has bytes, there is no room to be written to.
LEMMA PlaceFree ==
    ASSUME NEW cap \in Nat, cap > 0, NEW head \in 0..cap - 1, NEW size \in Nat, NEW n \in Nat, size + n <= cap,
           NEW tail \in 0..cap - 1, tail = Place(cap, head, size), NEW k \in 1..size
    PROVE  /\ Place(cap, head, k - 1) \in 0..cap - 1
           /\ Place(cap, head, k - 1) < tail \/ Place(cap, head, k - 1) >= tail + n
           /\ Place(cap, head, k - 1) >= tail + n - cap
  BY DEF Place

\* Write, of what there is room for.
LEMMA WriteIs ==
    ASSUME NEW cap \in Nat, cap > 0, NEW b, NEW s \in Seq(Nat), Holds(b, cap, s),
           NEW d \in Seq(Nat), Len(s) + Len(d) <= cap
    PROVE  Holds(Write(b, d), cap, s \o d)
<1>1. PICK size \in Nat, n \in Nat : size = Len(s) /\ n = Len(d) /\ size + n <= cap
  BY LenProperties
<1>2. PICK buf \in Memory(cap), head \in 0..cap - 1 : b = RingOf(cap, buf, head, size) /\ Lies(cap, buf, head, s)
  BY <1>1 DEF Holds
<1>3. PICK tail \in 0..cap - 1 : tail = Place(cap, head, size)
  <2>1. size \in 0..cap
    BY <1>1
  <2>2. QED
    BY <2>1, PlaceIs
<1>4. b = [cap |-> cap, buf |-> buf, head |-> head, tail |-> tail, size |-> size]
  BY <1>2, <1>3 DEF RingOf
<1>5. n = Least(n, cap - size)
  BY <1>1 DEF Least
<1>6. PICK first \in Nat : first = Least(n, cap - tail)
  <2>1. Least(n, cap - tail) \in Nat
    BY DEF Least
  <2>2. QED
    BY <2>1
<1>7. first <= n /\ first <= cap - tail /\ (first = n \/ first = cap - tail)
  BY <1>6 DEF Least
<1>8. first \in 0..Len(d)
  BY <1>1, <1>7
<1>9. PICK p \in Seq(Nat), q \in Seq(Nat) :
        /\ p = SubSeq(d, 1, first) /\ q = SubSeq(d, first + 1, n) /\ Len(p) = first /\ Len(p) + Len(q) = Len(d)
        /\ Piece(p, d, 0) /\ Piece(q, d, Len(p))
  <2>1. /\ SubSeq(d, 1, first) \in Seq(Nat) /\ SubSeq(d, first + 1, Len(d)) \in Seq(Nat)
        /\ Len(SubSeq(d, 1, first)) = first /\ Len(SubSeq(d, first + 1, Len(d))) = Len(d) - first
        /\ (\A i \in 1..first : SubSeq(d, 1, first)[i] = d[i])
        /\ (\A i \in 1..Len(d) - first : SubSeq(d, first + 1, Len(d))[i] = d[first + i])
    BY <1>8, SplitSeq
  <2>2. PICK p \in Seq(Nat), q \in Seq(Nat) :
          /\ p = SubSeq(d, 1, first) /\ q = SubSeq(d, first + 1, n) /\ Len(p) = first /\ Len(q) = n - first
          /\ (\A i \in 1..first : p[i] = d[i]) /\ (\A i \in 1..n - first : q[i] = d[first + i])
    BY <1>1, <2>1
  <2>3. Piece(p, d, 0)
    <3>1. \A i \in 1..Len(p) : p[i] = d[0 + i]
      BY <2>2
    <3>2. QED
      BY <3>1 DEF Piece
  <2>4. Piece(q, d, Len(p))
    <3>1. \A i \in 1..Len(q) : q[i] = d[Len(p) + i]
      BY <2>2
    <3>2. QED
      BY <3>1 DEF Piece
  <2>5. Len(p) + Len(q) = Len(d)
    <3>1. first + (n - first) = n
      BY <1>7
    <3>2. QED
      BY <1>1, <2>2, <3>1
  <2>6. QED
    BY <2>2, <2>3, <2>4, <2>5
<1>10. PICK one \in Memory(cap) :
          one = CopyIn(CopyIn(buf, tail, p), 0, q) /\ Lies(cap, one, tail, d) /\ Spared(one, buf, cap, tail, n)
  <2>1. tail \in Nat /\ tail < cap /\ Len(d) <= cap /\ Len(p) <= cap - tail /\ (Len(p) = Len(d) \/ Len(p) = cap - tail)
    BY <1>1, <1>7, <1>9
  <2>2. /\ CopyIn(CopyIn(buf, tail, p), 0, q) \in Memory(cap)
        /\ Lies(cap, CopyIn(CopyIn(buf, tail, p), 0, q), tail, d)
        /\ Spared(CopyIn(CopyIn(buf, tail, p), 0, q), buf, cap, tail, Len(d))
    BY <1>9, <2>1, TwoPieces
  <2>3. QED
    BY <1>1, <2>2
<1>11. \A k \in 1..size : one[Place(cap, head, k - 1)] = buf[Place(cap, head, k - 1)]
  <2>1. SUFFICES ASSUME NEW k \in 1..size PROVE one[Place(cap, head, k - 1)] = buf[Place(cap, head, k - 1)]
    OBVIOUS
  <2>2. /\ Place(cap, head, k - 1) \in 0..cap - 1
        /\ Place(cap, head, k - 1) < tail \/ Place(cap, head, k - 1) >= tail + n
        /\ Place(cap, head, k - 1) >= tail + n - cap
    <3>1. /\ cap \in Nat /\ cap > 0 /\ head \in 0..cap - 1 /\ size \in Nat /\ n \in Nat /\ size + n <= cap
          /\ tail \in 0..cap - 1 /\ tail = Place(cap, head, size)
      BY <1>1, <1>3
    <3>2. QED
      BY <2>1, <3>1, PlaceFree
  <2>3. PICK j \in 0..cap - 1 : j = Place(cap, head, k - 1) /\ (j < tail \/ j >= tail + n) /\ j >= tail + n - cap
    BY <2>2
  <2>4. QED
    BY <1>10, <2>3 DEF Spared
<1>12. Write(b, d) = [cap |-> cap, buf |-> one, head |-> head, tail |-> (tail + n) % cap, size |-> size + n]
  <2>1. b.cap = cap /\ b.size = size /\ b.tail = tail /\ b.buf = buf
    BY <1>4
  <2>2. Least(Len(d), b.cap - b.size) = n /\ Least(n, b.cap - b.tail) = first /\ SubSeq(d, first + 1, n) = q
    BY <1>1, <1>5, <1>6, <1>9, <2>1
  <2>3. CopyIn(CopyIn(b.buf, b.tail, SubSeq(d, 1, first)), 0, SubSeq(d, first + 1, n)) = one
    BY <1>9, <1>10, <2>1, <2>2
  <2>4. Write(b, d) = [b EXCEPT !.buf = one, !.tail = (tail + n) % cap, !.size = size + n]
    BY <2>1, <2>2, <2>3 DEF Write
  <2>5. QED
    BY <1>4, <2>4
<1>13. Holds([cap |-> cap, buf |-> one, head |-> head, tail |-> (tail + n) % cap, size |-> size + n], cap, s \o d)
  BY <1>1, <1>2, <1>3, <1>10, <1>11, HoldsMore
<1>14. QED
  BY <1>12, <1>13

\* The writable region: what is received into it follows what the ring holds, and there is room for it.
LEMMA FillIs ==
    ASSUME NEW cap \in Nat, cap > 0, NEW b, NEW s \in Seq(Nat), Holds(b, cap, s),
           WritableRegion(b).len # 0, NEW d \in Seq(Nat), Len(d) <= WritableRegion(b).len
    PROVE  Holds(CommitWrite([b EXCEPT !.buf = CopyIn(@, WritableRegion(b).at, d)], Len(d)), cap, s \o d)
<1>1. PICK size \in Nat, n \in Nat : size = Len(s) /\ n = Len(d) /\ size <= cap
  BY LenProperties DEF Holds
<1>2. PICK buf \in Memory(cap), head \in 0..cap - 1 : b = RingOf(cap, buf, head, size) /\ Lies(cap, buf, head, s)
  BY <1>1 DEF Holds
<1>3. PICK tail \in 0..cap - 1 : tail = Place(cap, head, size)
  <2>1. size \in 0..cap
    BY <1>1
  <2>2. QED
    BY <2>1, PlaceIs
<1>4. b = [cap |-> cap, buf |-> buf, head |-> head, tail |-> tail, size |-> size]
  BY <1>2, <1>3 DEF RingOf
<1>5. PICK room \in Int : size < cap /\ room = (IF head > tail THEN head ELSE cap) - tail /\ WritableRegion(b) = [at |-> tail, len |-> room]
  <2>1. WritableRegion(b) = IF size >= cap THEN [at |-> 0, len |-> 0]
                            ELSE [at |-> tail, len |-> (IF head > tail THEN head ELSE cap) - tail]
    BY <1>4 DEF WritableRegion
  <2>2. size < cap
    BY <1>1, <2>1
  <2>3. (IF head > tail THEN head ELSE cap) - tail \in Int
    OBVIOUS
  <2>4. QED
    BY <2>1, <2>2, <2>3
<1>6. n <= room
  BY <1>1, <1>5
<1>7. size + n <= cap /\ tail + n <= cap
  BY <1>3, <1>5, <1>6 DEF Place
<1>8. PICK new \in Memory(cap) : new = CopyIn(buf, tail, d) /\ Copied(new, buf, cap, tail, d)
  <2>1. tail \in Nat
    OBVIOUS
  <2>2. CopyIn(buf, tail, d) \in Memory(cap) /\ Copied(CopyIn(buf, tail, d), buf, cap, tail, d)
    BY <2>1, CopyInIs
  <2>3. QED
    BY <2>2
<1>9. \A j \in 0..cap - 1 : new[j] = IF tail <= j /\ j < tail + n THEN d[j - tail + 1] ELSE buf[j]
  BY <1>1, <1>8 DEF Copied
<1>10. \A k \in 1..size : new[Place(cap, head, k - 1)] = buf[Place(cap, head, k - 1)]
  <2>1. SUFFICES ASSUME NEW k \in 1..size PROVE new[Place(cap, head, k - 1)] = buf[Place(cap, head, k - 1)]
    OBVIOUS
  <2>2. PICK j \in 0..cap - 1 : j = Place(cap, head, k - 1) /\ (j < tail \/ j >= tail + n)
    BY <1>3, <1>7, PlaceFree
  <2>3. QED
    BY <1>9, <2>2
<1>11. Lies(cap, new, tail, d)
  <2>1. SUFFICES ASSUME NEW k \in 1..n PROVE new[Place(cap, tail, k - 1)] = d[k]
    BY <1>1 DEF Lies
  <2>2. tail + k - 1 \in 0..cap - 1
    BY <1>7
  <2>3. PICK j \in 0..cap - 1 : j = tail + k - 1
    BY <2>2
  <2>4. Place(cap, tail, k - 1) = j /\ tail <= j /\ j < tail + n /\ j - tail + 1 = k
    BY <2>3 DEF Place
  <2>5. QED
    BY <1>9, <2>4
<1>12. CommitWrite([b EXCEPT !.buf = CopyIn(@, WritableRegion(b).at, d)], Len(d))
       = [cap |-> cap, buf |-> new, head |-> head, tail |-> (tail + n) % cap, size |-> size + n]
  <2>1. [b EXCEPT !.buf = CopyIn(@, WritableRegion(b).at, d)]
        = [cap |-> cap, buf |-> new, head |-> head, tail |-> tail, size |-> size]
    <3>1. [b EXCEPT !.buf = CopyIn(@, WritableRegion(b).at, d)] = [b EXCEPT !.buf = new]
      BY <1>4, <1>5, <1>8
    <3>2. QED
      BY <1>4, <3>1
  <2>2. PICK c : c = [b EXCEPT !.buf = CopyIn(@, WritableRegion(b).at, d)]
    OBVIOUS
  <2>3. c.cap = cap /\ c.tail = tail /\ c.size = size
    BY <2>1, <2>2
  <2>4. CommitWrite(c, n) = [c EXCEPT !.tail = (tail + n) % cap, !.size = size + n]
    BY <2>3 DEF CommitWrite
  <2>5. CommitWrite(c, n) = [cap |-> cap, buf |-> new, head |-> head, tail |-> (tail + n) % cap, size |-> size + n]
    BY <2>1, <2>2, <2>4
  <2>6. QED
    BY <1>1, <2>2, <2>5
<1>13. Holds([cap |-> cap, buf |-> new, head |-> head, tail |-> (tail + n) % cap, size |-> size + n], cap, s \o d)
  BY <1>1, <1>2, <1>3, <1>7, <1>10, <1>11, HoldsMore
<1>14. QED
  BY <1>12, <1>13

\* A ring whose beginning moves on.
LEMMA HoldsLess ==
    ASSUME NEW cap \in Nat, cap > 0, NEW buf \in Memory(cap), NEW head \in 0..cap - 1, NEW s \in Seq(Nat), Len(s) <= cap,
           Lies(cap, buf, head, s), NEW n \in 0..Len(s)
    PROVE  Holds([cap |-> cap, buf |-> buf, head |-> (head + n) % cap, tail |-> Place(cap, head, Len(s)), size |-> Len(s) - n],
                 cap, SubSeq(s, n + 1, Len(s)))
<1>1. PICK size \in Nat, len \in Nat : size = Len(s) /\ len = size - n
  <2>1. Len(s) \in Nat /\ Len(s) - n \in Nat
    BY LenProperties
  <2>2. QED
    BY <2>1
<1>2. n \in 0..cap /\ n + len = size /\ size \in 0..cap /\ n + len <= cap /\ len \in 0..cap /\ n \in 0..size
  BY <1>1
<1>3. PICK first \in 0..cap - 1 : first = Place(cap, head, n) /\ first = (head + n) % cap
  BY <1>2, PlaceIs
<1>4. /\ (Place(cap, head, n) + len) % cap = (head + (n + len)) % cap
      /\ \A k \in 1..len : Place(cap, Place(cap, head, n), k - 1) = Place(cap, head, n + k - 1)
  BY <1>2, EndMoves
<1>5. Place(cap, first, len) = Place(cap, head, size)
  <2>1. (first + len) % cap = Place(cap, first, len)
    BY <1>2, PlaceIs
  <2>2. (head + size) % cap = Place(cap, head, size)
    BY <1>2, PlaceIs
  <2>3. QED
    BY <1>2, <1>3, <1>4, <2>1, <2>2
<1>6. PICK t \in Seq(Nat) : t = SubSeq(s, n + 1, Len(s)) /\ Len(t) = len /\ \A i \in 1..len : t[i] = s[n + i]
  BY <1>1, SplitSeq
<1>7. ASSUME NEW k \in 1..len PROVE buf[Place(cap, first, k - 1)] = t[k]
  <2>1. n + k \in 1..Len(s) /\ (n + k) - 1 = n + k - 1
    BY <1>1, <1>2
  <2>2. buf[Place(cap, head, n + k - 1)] = s[n + k]
    BY <2>1 DEF Lies
  <2>3. QED
    BY <1>3, <1>4, <1>6, <2>2
<1>8. Lies(cap, buf, first, t) /\ Len(t) <= cap
  BY <1>2, <1>6, <1>7 DEF Lies
<1>9. [cap |-> cap, buf |-> buf, head |-> (head + n) % cap, tail |-> Place(cap, head, Len(s)), size |-> Len(s) - n]
      = RingOf(cap, buf, first, Len(t))
  BY <1>1, <1>3, <1>5, <1>6 DEF RingOf
<1>10. QED
  BY <1>6, <1>8, <1>9 DEF Holds

\* Skip.
LEMMA SkipIs ==
    ASSUME NEW cap \in Nat, cap > 0, NEW b, NEW s \in Seq(Nat), Holds(b, cap, s), NEW len \in Nat
    PROVE  /\ Least(len, Len(s)) \in 0..Len(s)
           /\ Holds(Skip(b, len), cap, SubSeq(s, Least(len, Len(s)) + 1, Len(s)))
<1>1. PICK size \in Nat : size = Len(s) /\ size <= cap
  BY LenProperties DEF Holds
<1>2. PICK buf \in Memory(cap), head \in 0..cap - 1 : b = RingOf(cap, buf, head, size) /\ Lies(cap, buf, head, s)
  BY <1>1 DEF Holds
<1>3. PICK n \in 0..Len(s) : n = Least(len, Len(s))
  <2>1. Least(len, Len(s)) \in 0..Len(s)
    BY <1>1 DEF Least
  <2>2. QED
    BY <2>1
<1>4. b = [cap |-> cap, buf |-> buf, head |-> head, tail |-> Place(cap, head, size), size |-> size]
  BY <1>2 DEF RingOf
<1>5. Skip(b, len) = [cap |-> cap, buf |-> buf, head |-> (head + n) % cap, tail |-> Place(cap, head, Len(s)), size |-> Len(s) - n]
  <2>1. b.cap = cap /\ b.head = head /\ b.size = size
    BY <1>4
  <2>2. Least(len, b.size) = n
    BY <1>1, <1>3, <2>1
  <2>3. Skip(b, len) = [b EXCEPT !.head = (head + n) % cap, !.size = size - n]
    BY <2>1, <2>2 DEF Skip
  <2>4. QED
    BY <1>1, <1>4, <2>3
<1>6. Len(s) <= cap
  BY <1>1
<1>7. QED
  BY <1>2, <1>3, <1>5, <1>6, HoldsLess

\* How much there is room for.
LEMMA RoomIs ==
    ASSUME FrameAssumption, NEW b, NEW s \in Seq(Nat), Holds(b, RecvCap, s)
    PROVE  WritableRegion(b).len \in Nat
<1>1. PICK cap \in Nat : cap = RecvCap /\ cap > 0
  BY DEF FrameAssumption
<1>2. PICK size \in 0..cap : size = Len(s)
  <2>1. Len(s) \in 0..cap
    BY <1>1, LenProperties DEF Holds
  <2>2. QED
    BY <2>1
<1>3. PICK buf \in Memory(cap), head \in 0..cap - 1 : b = RingOf(cap, buf, head, size)
  BY <1>1, <1>2 DEF Holds
<1>4. PICK tail \in 0..cap - 1 : tail = Place(cap, head, size)
  BY <1>1, PlaceIs
<1>5. b.cap = cap /\ b.head = head /\ b.size = size /\ b.tail = tail
  BY <1>3, <1>4 DEF RingOf
<1>6. WritableRegion(b) = IF size >= cap THEN [at |-> 0, len |-> 0]
                          ELSE [at |-> tail, len |-> (IF head > tail THEN head ELSE cap) - tail]
  BY <1>5 DEF WritableRegion
<1>7. (IF head > tail THEN head ELSE cap) - tail \in Nat
  OBVIOUS
<1>8. QED
  BY <1>6, <1>7

\* memcpy from buf_.
LEMMA CopyOutIs ==
    ASSUME NEW cap \in Nat, NEW buf \in Memory(cap), NEW at \in Nat, NEW n \in Nat, at + n <= cap
    PROVE  CopyOut(buf, at, n) \in Seq(Nat) /\ Cut(CopyOut(buf, at, n), buf, at, n)
<1>1. \A i \in 1..n : at + i - 1 \in 0..cap - 1
  OBVIOUS
<1>2. \A i \in 1..n : CopyOut(buf, at, n)[i] = buf[at + i - 1] /\ CopyOut(buf, at, n)[i] \in Nat
  BY <1>1 DEF CopyOut, Memory
<1>3. CopyOut(buf, at, n) = [i \in 1..n |-> CopyOut(buf, at, n)[i]]
  BY DEF CopyOut
<1>4. CopyOut(buf, at, n) \in [1..n -> Nat]
  BY <1>2, <1>3
<1>5. QED
  BY <1>2, <1>4, LenProperties DEF Cut

\* The two pieces that a ring's first bytes lie in.
LEMMA TakenOut ==
    ASSUME NEW cap \in Nat, cap > 0, NEW buf \in Memory(cap), NEW head \in 0..cap - 1, NEW s \in Seq(Nat), Len(s) <= cap,
           Lies(cap, buf, head, s), NEW n \in Nat, n <= Len(s), NEW first \in Nat, NEW rest \in Nat,
           Halves(cap, head, n, first, rest)
    PROVE  Joined(buf, head, first, rest) = SubSeq(s, 1, n)
<1>1. first + rest = n /\ first <= cap - head /\ (rest = 0 \/ first = cap - head)
  BY DEF Halves
<1>2. PICK size \in Nat : size = Len(s) /\ rest <= cap /\ n <= size /\ size <= cap
  BY <1>1, LenProperties
<1>3. PICK p \in Seq(Nat) : p = CopyOut(buf, head, first) /\ Len(p) = first /\ \A i \in 1..first : p[i] = buf[head + i - 1]
  <2>1. head \in Nat /\ head + first <= cap
    BY <1>1
  <2>2. CopyOut(buf, head, first) \in Seq(Nat) /\ Cut(CopyOut(buf, head, first), buf, head, first)
    BY <2>1, CopyOutIs
  <2>3. QED
    BY <2>2 DEF Cut
<1>4. PICK q \in Seq(Nat) : q = CopyOut(buf, 0, rest) /\ Len(q) = rest /\ \A i \in 1..rest : q[i] = buf[i - 1]
  <2>1. PICK zero \in Nat : zero = 0
    OBVIOUS
  <2>2. zero + rest <= cap
    BY <1>2, <2>1
  <2>3. CopyOut(buf, zero, rest) \in Seq(Nat) /\ Cut(CopyOut(buf, zero, rest), buf, zero, rest)
    BY <2>2, CopyOutIs
  <2>4. \A i \in 1..rest : zero + i - 1 = i - 1
    BY <2>1
  <2>5. QED
    BY <2>1, <2>3, <2>4 DEF Cut
<1>5. /\ p \o q \in Seq(Nat) /\ Len(p \o q) = n
      /\ \A k \in 1..n : (p \o q)[k] = IF k <= first THEN p[k] ELSE q[k - first]
  <2>1. /\ p \o q \in Seq(Nat) /\ Len(p \o q) = Len(p) + Len(q)
        /\ \A k \in 1..Len(p) + Len(q) : (p \o q)[k] = IF k <= Len(p) THEN p[k] ELSE q[k - Len(p)]
    BY ConcatProperties
  <2>2. Len(p) + Len(q) = n
    BY <1>1, <1>3, <1>4
  <2>3. QED
    BY <1>3, <2>1, <2>2
<1>6. PICK t \in Seq(Nat) : t = SubSeq(s, 1, n) /\ Len(t) = n /\ \A i \in 1..n : t[i] = s[i]
  <2>1. n \in 0..Len(s)
    BY <1>2
  <2>2. QED
    BY <2>1, SplitSeq
<1>7. ASSUME NEW k \in 1..n PROVE (p \o q)[k] = t[k]
  <2>1. t[k] = buf[Place(cap, head, k - 1)]
    <3>1. k \in 1..Len(s)
      BY <1>2
    <3>2. QED
      BY <1>6, <3>1 DEF Lies
  <2>2. CASE k <= first
    <3>1. Place(cap, head, k - 1) = head + k - 1 /\ k \in 1..first
      BY <1>1, <2>2 DEF Place
    <3>2. QED
      BY <1>3, <1>5, <2>1, <2>2, <3>1
  <2>3. CASE k > first
    <3>1. first = cap - head
      BY <1>1, <2>3
    <3>2. PICK i \in 1..rest : i = k - first
      <4>1. k - first \in 1..rest
        BY <1>1, <1>2, <2>3
      <4>2. QED
        BY <4>1
    <3>3. Place(cap, head, k - 1) = i - 1
      BY <2>3, <3>1, <3>2 DEF Place
    <3>4. ~(k <= first)
      BY <2>3
    <3>5. QED
      BY <1>4, <1>5, <2>1, <3>2, <3>3, <3>4
  <2>4. k <= first \/ k > first
    OBVIOUS
  <2>5. QED
    BY <2>2, <2>3, <2>4
<1>8. p \o q = t
  BY <1>5, <1>6, <1>7, SeqEqual
<1>9. QED
  BY <1>3, <1>4, <1>6, <1>8 DEF Joined

\* Peek.
LEMMA PeekIs ==
    ASSUME NEW cap \in Nat, cap > 0, NEW b, NEW s \in Seq(Nat), Holds(b, cap, s), NEW len \in Nat
    PROVE  Peek(b, len) = SubSeq(s, 1, Least(len, Len(s)))
<1>1. PICK size \in Nat : size = Len(s) /\ size <= cap
  BY LenProperties DEF Holds
<1>2. PICK buf \in Memory(cap), head \in 0..cap - 1 : b = RingOf(cap, buf, head, size) /\ Lies(cap, buf, head, s)
  BY <1>1 DEF Holds
<1>3. PICK n \in 0..Len(s) : n = Least(len, Len(s))
  <2>1. Least(len, Len(s)) \in 0..Len(s)
    BY <1>1 DEF Least
  <2>2. QED
    BY <2>1
<1>4. PICK first \in Nat : first = Least(n, cap - head)
  <2>1. Least(n, cap - head) \in Nat
    BY DEF Least
  <2>2. QED
    BY <2>1
<1>5. first <= n /\ first <= cap - head /\ (first = n \/ first = cap - head)
  BY <1>4 DEF Least
<1>6. PICK rest \in Nat : rest = n - first
  BY <1>5
<1>7. Halves(cap, head, n, first, rest)
  BY <1>5, <1>6 DEF Halves
<1>8. b.cap = cap /\ b.head = head /\ b.size = size /\ b.buf = buf
  BY <1>2 DEF RingOf
<1>9. Peek(b, len) = CopyOut(buf, head, first) \o CopyOut(buf, 0, n - first)
  BY <1>1, <1>3, <1>4, <1>8 DEF Peek
<1>10. Len(s) <= cap /\ n \in Nat /\ n <= Len(s)
  BY <1>1
<1>11. Joined(buf, head, first, rest) = SubSeq(s, 1, n)
  BY <1>2, <1>10, <1>7, TakenOut
<1>12. QED
  BY <1>3, <1>9, <1>11, <1>6 DEF Joined

\* FlushSend: all that the ring holds, in order.
LEMMA FlushIs ==
    ASSUME NEW cap \in Nat, cap > 0, NEW b, NEW s \in Seq(Nat), Holds(b, cap, s)
    PROVE  FlushSend(b).out = s /\ Holds(FlushSend(b).ring, cap, <<>>)
<1>1. PICK size \in 0..cap : size = Len(s)
  <2>1. Len(s) \in 0..cap
    BY LenProperties DEF Holds
  <2>2. QED
    BY <2>1
<1>2. PICK buf \in Memory(cap), head \in 0..cap - 1 : b = RingOf(cap, buf, head, size) /\ Lies(cap, buf, head, s)
  BY <1>1 DEF Holds
<1>3. PICK tail \in 0..cap - 1 : tail = Place(cap, head, size)
  BY PlaceIs
<1>4. b = [cap |-> cap, buf |-> buf, head |-> head, tail |-> tail, size |-> size]
  BY <1>2, <1>3 DEF RingOf
<1>5. b.cap = cap /\ b.head = head /\ b.size = size /\ b.buf = buf /\ b.tail = tail
  BY <1>4
<1>6. CASE size = 0
  <2>1. s = <<>>
    BY <1>1, <1>6, EmptySeq
  <2>2. ReadableRegion(b) = [at |-> 0, len |-> 0]
    BY <1>5, <1>6 DEF ReadableRegion
  <2>3. CommitRead(b, 0) = b
    <3>1. (head + 0) % cap = Place(cap, head, 0) /\ Place(cap, head, 0) = head /\ size - 0 = size
      <4>1. 0 \in 0..cap
        OBVIOUS
      <4>2. (head + 0) % cap = Place(cap, head, 0)
        BY <4>1, PlaceIs
      <4>3. QED
        BY <4>2 DEF Place
    <3>2. CommitRead(b, 0) = [b EXCEPT !.head = head, !.size = size]
      BY <1>5, <3>1 DEF CommitRead
    <3>3. QED
      BY <1>4, <3>2
  <2>4. CopyOut(b.buf, 0, 0) = <<>>
    BY DEF CopyOut
  <2>5. FlushSend(b) = [ring |-> b, out |-> <<>> \o <<>>]
    BY <2>2, <2>3, <2>4 DEF FlushSend
  <2>6. <<>> \o <<>> = <<>>
    OBVIOUS
  <2>7. QED
    BY <2>1, <2>5, <2>6
<1>7. CASE size # 0
  <2>1. PICK first \in Nat : first = (IF tail > head THEN tail ELSE cap) - head
    <3>1. (IF tail > head THEN tail ELSE cap) - head \in Nat
      OBVIOUS
    <3>2. QED
      BY <3>1
  <2>2. first <= size /\ first <= cap - head /\ (first = size \/ first = cap - head)
    BY <1>3, <1>7, <2>1 DEF Place
  <2>3. ReadableRegion(b) = [at |-> head, len |-> first]
    BY <1>5, <1>7, <2>1 DEF ReadableRegion
  <2>4. PICK rest \in Nat : rest = size - first
    BY <2>2
  <2>5. PICK new \in 0..cap - 1 : new = (head + first) % cap /\ new = Place(cap, head, first)
    <3>1. first \in 0..cap
      BY <2>2
    <3>2. QED
      BY <3>1, PlaceIs
  <2>6. PICK c : c = CommitRead(b, first)
    OBVIOUS
  <2>7. c = [cap |-> cap, buf |-> buf, head |-> new, tail |-> tail, size |-> rest]
    <3>1. CommitRead(b, first) = [b EXCEPT !.head = new, !.size = rest]
      BY <1>5, <2>4, <2>5 DEF CommitRead
    <3>2. QED
      BY <1>4, <2>6, <3>1
  <2>8. c.cap = cap /\ c.head = new /\ c.size = rest /\ c.buf = buf /\ c.tail = tail
    BY <2>7
  <2>9. PICK at \in Nat : ReadableRegion(c) = [at |-> at, len |-> rest] /\ CopyOut(buf, at, rest) = CopyOut(buf, 0, rest)
    <3>1. CASE rest = 0
      <4>1. ReadableRegion(c) = [at |-> 0, len |-> rest]
        BY <2>8, <3>1 DEF ReadableRegion
      <4>2. QED
        BY <4>1
    <3>2. CASE rest # 0
      <4>1. first = cap - head /\ size > first
        BY <2>2, <2>4, <3>2
      <4>2. new = 0 /\ tail > new /\ tail - new = rest
        BY <1>3, <2>4, <2>5, <4>1 DEF Place
      <4>3. ReadableRegion(c) = [at |-> 0, len |-> rest]
        BY <2>8, <3>2, <4>2 DEF ReadableRegion
      <4>4. QED
        BY <4>3
    <3>3. QED
      BY <3>1, <3>2
  <2>10. FlushSend(b).out = CopyOut(buf, head, first) \o CopyOut(buf, 0, rest) /\ FlushSend(b).ring = CommitRead(c, rest)
    <3>1. CopyOut(b.buf, head, first) \o CopyOut(c.buf, at, rest) = CopyOut(buf, head, first) \o CopyOut(buf, 0, rest)
      BY <1>5, <2>8, <2>9
    <3>2. FlushSend(b) = [ring |-> CommitRead(c, rest), out |-> CopyOut(b.buf, head, first) \o CopyOut(c.buf, at, rest)]
      <4>1. PICK r : r = ReadableRegion(b)
        OBVIOUS
      <4>2. r.at = head /\ r.len = first
        BY <2>3, <4>1
      <4>3. CommitRead(b, r.len) = c
        BY <2>6, <4>2
      <4>4. PICK q : q = ReadableRegion(c)
        OBVIOUS
      <4>5. q.at = at /\ q.len = rest
        BY <2>9, <4>4
      <4>6. FlushSend(b) = [ring |-> CommitRead(c, q.len), out |-> CopyOut(b.buf, r.at, r.len) \o CopyOut(c.buf, q.at, q.len)]
        BY <4>1, <4>3, <4>4 DEF FlushSend
      <4>7. QED
        BY <4>2, <4>5, <4>6
    <3>3. QED
      BY <3>1, <3>2
  <2>11. Joined(buf, head, first, rest) = SubSeq(s, 1, size)
    <3>1. Len(s) <= cap /\ size \in Nat /\ size <= Len(s)
      BY <1>1
    <3>2. Halves(cap, head, size, first, rest)
      BY <2>2, <2>4 DEF Halves
    <3>3. QED
      BY <1>2, <3>1, <3>2, TakenOut
  <2>12. SubSeq(s, 1, size) = s
    BY <1>1, SubSeqFull
  <2>13. Holds(CommitRead(c, rest), cap, <<>>)
    <3>1. c.head + rest = new + rest /\ (new + rest) % cap = Place(cap, new, rest) /\ Place(cap, new, rest) \in 0..cap - 1
      <4>1. rest \in 0..cap
        BY <2>2, <2>4
      <4>2. QED
        BY <2>8, <4>1, PlaceIs
    <3>2. PICK end \in 0..cap - 1 : end = Place(cap, new, rest)
      BY <3>1
    <3>3. end = tail /\ Place(cap, end, 0) = end
      BY <1>3, <2>2, <2>4, <2>5, <3>2 DEF Place
    <3>4. CommitRead(c, rest) = [c EXCEPT !.head = end, !.size = 0]
      <4>1. rest - rest = 0
        OBVIOUS
      <4>2. CommitRead(c, rest) = [c EXCEPT !.head = (new + rest) % cap, !.size = rest - rest]
        BY <2>8 DEF CommitRead
      <4>3. QED
        BY <3>1, <3>2, <4>1, <4>2
    <3>5. CommitRead(c, rest) = RingOf(cap, buf, end, 0)
      BY <2>7, <3>3, <3>4 DEF RingOf
    <3>6. Lies(cap, buf, end, <<>>) /\ <<>> \in Seq(Nat) /\ Len(<<>>) = 0
      BY DEF Lies
    <3>7. QED
      BY <3>5, <3>6 DEF Holds
  <2>14. QED
    BY <2>10, <2>11, <2>12, <2>13 DEF Joined
<1>8. QED
  BY <1>6, <1>7

-----------------------------------------------------------------------------
(* Packets.                                                                *)

\* A digit of a length.
LEMMA DigitIs ==
    ASSUME FrameAssumption, NEW x \in Nat, NEW w \in Nat, w > 0
    PROVE  (x \div w) % Base \in Nat
<1>1. x \div w \in Int
  OBVIOUS
<1>2. PICK y \in Int : y = x \div w
  BY <1>1
<1>3. Base \in Nat /\ Base > 0
  BY DEF FrameAssumption
<1>4. y % Base \in Nat
  BY <1>3
<1>5. QED
  BY <1>2, <1>4

LEMMA ProductIs ==
    ASSUME NEW a \in Nat, NEW b \in Nat, a > 0, b > 0
    PROVE  a * b \in Nat /\ a * b > 0
<1>1. a - 1 \in Nat
  OBVIOUS
<1>2. (a - 1) * b \in Nat
  BY <1>1
<1>3. a * b = (a - 1) * b + b
  OBVIOUS
<1>4. QED
  BY <1>2, <1>3

LEMMA WeightIs ==
    ASSUME FrameAssumption, NEW k \in 0..3
    PROVE  Weight[k + 1] \in Nat /\ Weight[k + 1] > 0
<1>1. Base \in Nat /\ Base > 0
  BY DEF FrameAssumption
<1>2. PICK y \in Nat : y = Base * Base /\ y > 0
  <2>1. Base * Base \in Nat /\ Base * Base > 0
    BY <1>1, ProductIs
  <2>2. QED
    BY <2>1
<1>3. PICK z \in Nat : z = Base * Base * Base /\ z > 0
  <2>1. y * Base \in Nat /\ y * Base > 0
    BY <1>1, <1>2, ProductIs
  <2>2. QED
    BY <1>2, <2>1
<1>4. Weight = <<1, Base, y, z>>
  BY <1>2, <1>3 DEF Weight
<1>5. k + 1 = 1 \/ k + 1 = 2 \/ k + 1 = 3 \/ k + 1 = 4
  OBVIOUS
<1>6. QED
  BY <1>1, <1>2, <1>3, <1>4, <1>5

LEMMA LengthHeaderIs ==
    ASSUME FrameAssumption, NEW n \in Nat, NEW size \in 0..4
    PROVE  LengthHeader(n, size) \in Seq(Nat) /\ Len(LengthHeader(n, size)) = size
<1> DEFINE digit(k) == (n \div Weight[k + 1]) % Base
<1>1. \A k \in 0..3 : digit(k) \in Nat
  BY WeightIs, DigitIs
<1>2. ASSUME NEW i \in 1..size PROVE (IF BigEndian THEN digit(size - i) ELSE digit(i - 1)) \in Nat
  <2>1. size - i \in 0..3 /\ i - 1 \in 0..3
    OBVIOUS
  <2>2. QED
    BY <1>1, <2>1
<1>3. LengthHeader(n, size) = [i \in 1..size |-> IF BigEndian THEN digit(size - i) ELSE digit(i - 1)]
  BY DEF LengthHeader
<1> HIDE DEF digit
<1>4. LengthHeader(n, size) \in [1..size -> Nat] /\ size \in Nat
  BY <1>2, <1>3
<1>5. QED
  BY <1>4, LenProperties

\* The header that a parser reads.
LEMMA HeaderLengthIs ==
    ASSUME FrameAssumption, NEW h \in Seq(Nat)
    PROVE  HeaderLength(h) \in Nat
<1> DEFINE digit(k) == IF k >= Len(h) THEN 0 ELSE IF BigEndian THEN h[Len(h) - k] ELSE h[k + 1]
<1>1. ASSUME NEW k \in 0..3 PROVE digit(k) \in Nat
  <2>1. PICK n \in Nat : n = Len(h)
    BY LenProperties
  <2>2. CASE k >= n
    BY <2>1, <2>2
  <2>3. CASE ~(k >= n)
    <3>1. n - k \in 1..n /\ k + 1 \in 1..n
      BY <2>3
    <3>2. h[n - k] \in Nat /\ h[k + 1] \in Nat
      BY <2>1, <3>1, ElementOfSeq
    <3>3. QED
      BY <2>1, <2>3, <3>2
  <2>4. QED
    BY <2>2, <2>3
<1>2. HeaderLength(h) = ((digit(3) * Base + digit(2)) * Base + digit(1)) * Base + digit(0)
  BY DEF HeaderLength
<1>3. 0 \in 0..3 /\ 1 \in 0..3 /\ 2 \in 0..3 /\ 3 \in 0..3
  OBVIOUS
<1> HIDE DEF digit
<1>4. digit(3) \in Nat /\ digit(2) \in Nat /\ digit(1) \in Nat /\ digit(0) \in Nat
  BY <1>1, <1>3
<1>5. PICK a \in Nat, b \in Nat, c \in Nat, d \in Nat : a = digit(3) /\ b = digit(2) /\ c = digit(1) /\ d = digit(0)
  BY <1>4
<1>6. Base \in Nat
  BY DEF FrameAssumption
<1>7. PICK e \in Nat : e = a * Base + b
  BY <1>6
<1>8. PICK f \in Nat : f = e * Base + c
  BY <1>6
<1>9. f * Base + d \in Nat
  BY <1>6
<1>10. QED
  BY <1>2, <1>5, <1>7, <1>8, <1>9

LEMMA FixedIs ==
    ASSUME FrameAssumption, NEW data \in Seq(Nat)
    PROVE  Fixed(data) \in Seq(Nat) /\ Len(Fixed(data)) = IF FixedLen > 0 THEN FixedLen ELSE Len(data)
<1>1. PICK n \in Nat : n = IF FixedLen > 0 THEN FixedLen ELSE Len(data)
  BY LenProperties DEF FrameAssumption
<1>2. Fixed(data) = [i \in 1..n |-> IF i <= Len(data) THEN data[i] ELSE 0]
  BY <1>1 DEF Fixed, PadByte
<1>3. PICK m \in Nat : m = Len(data)
  BY LenProperties
<1>4. ASSUME NEW i \in 1..n PROVE (IF i <= m THEN data[i] ELSE 0) \in Nat
  <2>1. CASE i <= m
    <3>1. i \in 1..Len(data)
      BY <1>3, <2>1
    <3>2. QED
      BY <2>1, <3>1, ElementOfSeq
  <2>2. CASE ~(i <= m)
    BY <2>2
  <2>3. QED
    BY <2>1, <2>2
<1>5. Fixed(data) \in [1..n -> Nat]
  BY <1>2, <1>3, <1>4
<1>6. QED
  BY <1>1, <1>5, LenProperties

LEMMA WsTextIs ==
    ASSUME FrameAssumption, NEW data \in Seq(Nat)
    PROVE  EncodeWsText(data) \in Seq(Nat)
<1>1. PICK n \in Nat : n = Len(data) /\ data \in [1..n -> Nat]
  BY LenProperties
<1>2. Base \in Nat /\ Base > 0 /\ WsShort \in Nat
  BY DEF FrameAssumption
<1>3. PICK bit \in Nat : bit = IF WsMasked THEN 128 ELSE 0
  OBVIOUS
<1>4. n \div Base \in Nat /\ n % Base \in Nat
  BY <1>2
<1>5. PICK len \in Seq(Nat) :
        len = IF n < WsShort THEN <<n + bit>> ELSE <<WsShort + bit, n \div Base, n % Base>>
  <2>1. PICK x \in Nat, y \in Nat, z \in Nat, w \in Nat : x = n + bit /\ y = WsShort + bit /\ z = n \div Base /\ w = n % Base
    BY <1>2, <1>4
  <2>2. <<x>> \in Seq(Nat) /\ <<y, z, w>> \in Seq(Nat)
    OBVIOUS
  <2>3. QED
    BY <2>1, <2>2
<1>6. PICK text \in Seq(Nat) : text = IF WsMasked THEN <<Mask>> \o [i \in DOMAIN data |-> data[i] + Mask] ELSE data
  <2>1. [i \in DOMAIN data |-> data[i] + Mask] \in [1..n -> Nat]
    BY <1>1 DEF Mask
  <2>2. PICK masked \in Seq(Nat) : masked = [i \in DOMAIN data |-> data[i] + Mask]
    <3>1. \A f \in [1..n -> Nat] : f \in Seq(Nat)
      OBVIOUS
    <3>2. QED
      BY <2>1, <3>1
  <2>3. <<Mask>> \in Seq(Nat)
    BY DEF Mask
  <2>4. <<Mask>> \o masked \in Seq(Nat)
    BY <2>3, ConcatProperties
  <2>5. QED
    BY <2>2, <2>4
<1>7. <<Text>> \in Seq(Nat)
  BY DEF Text
<1>8. <<Text>> \o len \o text \in Seq(Nat)
  BY <1>7, ConcatProperties
<1>9. EncodeWsText(data) = <<Text>> \o len \o text
  BY <1>1, <1>3, <1>5, <1>6 DEF EncodeWsText
<1>10. QED
  BY <1>8, <1>9

\* The first of some places.
LEMMA LeastOf ==
    ASSUME NEW S, S \subseteq Nat, S # {}
    PROVE  \E i \in S : \A j \in S : i <= j
<1>1. PICK f \in [S -> Nat] : \A x \in S : f[x] = x
  <2>1. [x \in S |-> x] \in [S -> Nat]
    OBVIOUS
  <2>2. QED
    BY <2>1
<1>2. \E x \in S : \A y \in S : f[x] <= f[y]
  BY LeastExists
<1>3. QED
  BY <1>1, <1>2

\* WritePacket: header, payload and padding are written one behind the other.
LEMMA PackIs ==
    ASSUME FrameAssumption, framer \in Framers, ~WebSocket, NEW b, Holds(b, SendCap, <<>>),
           NEW data \in Seq(Nat), WritePacketOK(b, data)
    PROVE  Encoded(data) \in Seq(Nat) /\ Holds(WritePacket(b, data), SendCap, Encoded(data))
<1>1. SendCap \in Nat /\ SendCap > 0 /\ <<>> \in Seq(Nat) /\ Len(<<>>) = 0
  BY DEF FrameAssumption
<1>2. b.cap = SendCap /\ b.size = 0
  BY <1>1, HeldIs
<1>3. EncodedPacketSize(Len(data)) <= SendCap
  BY <1>1, <1>2 DEF WritePacketOK, RoomFor
<1>4. PICK n \in Nat : n = Len(data)
  BY LenProperties
<1>5. ASSUME NEW d \in Seq(Nat), Len(d) <= SendCap
      PROVE  Holds(Write(b, d), SendCap, d)
  <2>1. Len(<<>>) + Len(d) <= SendCap
    BY <1>1, <1>5, LenProperties
  <2>2. Holds(Write(b, d), SendCap, <<>> \o d)
    BY <1>1, <2>1, WriteIs
  <2>3. QED
    BY <2>2, ConcatEmptySeq
<1>6. ASSUME NEW d \in Seq(Nat), NEW e \in Seq(Nat), Len(d) + Len(e) <= SendCap
      PROVE  Holds(Write(Write(b, d), e), SendCap, d \o e)
  <2>1. Len(d) <= SendCap
    BY <1>1, <1>6, LenProperties
  <2>2. Holds(Write(b, d), SendCap, d)
    BY <1>5, <2>1
  <2>3. QED
    BY <1>1, <1>6, <2>2, WriteIs
<1>7. CASE HeaderSize > 0
  <2>1. HeaderSize \in 0..4 /\ framer \notin {"line", "fixed", "raw", "custom"}
    BY <1>7 DEF HeaderSize
  <2>2. PICK h \in Seq(Nat) : h = LengthHeader(n, HeaderSize) /\ Len(h) = HeaderSize
    BY <2>1, LengthHeaderIs
  <2>3. EncodedPacketSize(n) = HeaderSize + n
    BY <2>1 DEF EncodedPacketSize
  <2>4. Len(h) + Len(data) <= SendCap
    BY <1>3, <1>4, <2>2, <2>3
  <2>5. WritePacket(b, data) = Write(Write(b, h), data) /\ Encoded(data) = h \o data
    BY <1>4, <1>7, <2>1, <2>2 DEF WritePacket, Encoded
  <2>6. QED
    BY <1>6, <2>4, <2>5, ConcatProperties
<1>8. CASE framer = "line"
  <2>1. HeaderSize = 0
    BY <1>8 DEF HeaderSize
  <2>2. PICK e \in Seq(Nat) : e = <<LF>> /\ Len(e) = 1
    <3>1. <<LF>> \in Seq(Nat) /\ Len(<<LF>>) = 1
      BY DEF LF
    <3>2. QED
      BY <3>1
  <2>3. Len(data) + Len(e) <= SendCap
    BY <1>3, <1>4, <1>8, <2>2 DEF EncodedPacketSize
  <2>4. WritePacket(b, data) = Write(Write(b, data), e) /\ Encoded(data) = data \o e
    BY <1>8, <2>1, <2>2 DEF WritePacket, Encoded
  <2>5. QED
    BY <1>6, <2>3, <2>4, ConcatProperties
<1>9. CASE framer = "fixed"
  <2>1. HeaderSize = 0
    BY <1>9 DEF HeaderSize
  <2>2. PICK d \in Seq(Nat) : d = Fixed(data) /\ Len(d) = IF FixedLen > 0 THEN FixedLen ELSE Len(data)
    BY FixedIs
  <2>3. Len(d) <= SendCap
    BY <1>3, <1>9, <2>2 DEF EncodedPacketSize
  <2>4. WritePacket(b, data) = Write(b, d) /\ Encoded(data) = d
    BY <1>9, <2>1, <2>2 DEF WritePacket, Encoded
  <2>5. QED
    BY <1>5, <2>3, <2>4
<1>10. CASE framer \in {"raw", "custom"}
  <2>1. HeaderSize = 0
    BY <1>10 DEF HeaderSize
  <2>2. Len(data) <= SendCap
    BY <1>3, <1>4, <1>10, <2>1 DEF EncodedPacketSize
  <2>3. WritePacket(b, data) = Write(b, data) /\ Encoded(data) = data
    BY <1>10, <2>1 DEF WritePacket, Encoded
  <2>4. QED
    BY <1>5, <2>2, <2>3
<1>11. HeaderSize > 0 \/ framer \in {"line", "fixed", "raw", "custom"}
  BY DEF FrameAssumption, WebSocket, HeaderSize
<1>12. QED
  BY <1>7, <1>8, <1>9, <1>10, <1>11

LEMMA JoinedTwice ==
    ASSUME NEW a \in Seq(Nat), NEW b \in Seq(Nat), NEW c \in Seq(Nat)
    PROVE  (a \o b) \o c = a \o (b \o c)
  BY ConcatAssociative

\* The first bytes of two sequences are taken.
LEMMA FrontTaken ==
    ASSUME NEW s \in Seq(Nat), NEW t \in Seq(Nat), NEW n \in 0..Len(s)
    PROVE  SubSeq(s \o t, n + 1, Len(s \o t)) = SubSeq(s, n + 1, Len(s)) \o t /\ n \in 0..Len(s \o t)
<1>1. PICK a \in Seq(Nat), c \in Seq(Nat) :
        a = SubSeq(s, 1, n) /\ c = SubSeq(s, n + 1, Len(s)) /\ Len(a) = n /\ a \o c = s
  <2>1. /\ SubSeq(s, 1, n) \in Seq(Nat) /\ SubSeq(s, n + 1, Len(s)) \in Seq(Nat) /\ Len(SubSeq(s, 1, n)) = n
        /\ SubSeq(s, 1, n) \o SubSeq(s, n + 1, Len(s)) = s
    BY SplitSeq
  <2>2. QED
    BY <2>1
<1>2. PICK u \in Seq(Nat) : u = c \o t
  BY ConcatProperties
<1>3. s \o t = a \o u
  <2>1. (a \o c) \o t = a \o (c \o t)
    BY JoinedTwice
  <2>2. QED
    BY <1>1, <1>2, <2>1
<1>4. PICK m \in Nat : m = Len(u)
  BY LenProperties
<1>5. /\ a \o u \in Seq(Nat) /\ Len(a \o u) = n + m
      /\ \A k \in 1..n + m : (a \o u)[k] = IF k <= n THEN a[k] ELSE u[k - n]
  <2>1. /\ a \o u \in Seq(Nat) /\ Len(a \o u) = Len(a) + Len(u)
        /\ \A k \in 1..Len(a) + Len(u) : (a \o u)[k] = IF k <= Len(a) THEN a[k] ELSE u[k - Len(a)]
    BY ConcatProperties
  <2>2. Len(a) = n /\ Len(u) = m
    BY <1>1, <1>4
  <2>3. QED
    BY <2>1, <2>2
<1>6. n \in 0..Len(a \o u) /\ n \in Int
  BY <1>1, <1>4, <1>5, LenProperties
<1>7. PICK v \in Seq(Nat) : /\ v = SubSeq(a \o u, n + 1, Len(a \o u)) /\ Len(v) = Len(a \o u) - n
                            /\ \A i \in 1..Len(a \o u) - n : v[i] = (a \o u)[n + i]
  BY <1>5, <1>6, SplitSeq
<1>8. Len(v) = m
  <2>1. Len(v) = (n + m) - n /\ (n + m) - n = m
    BY <1>5, <1>6, <1>7
  <2>2. QED
    BY <2>1
<1>9. ASSUME NEW i \in 1..m PROVE v[i] = u[i]
  <2>1. n + i \in 1..n + m /\ ~(n + i <= n) /\ (n + i) - n = i /\ i \in 1..Len(a \o u) - n
    BY <1>4, <1>5, <1>6
  <2>2. v[i] = (a \o u)[n + i]
    BY <1>7, <2>1
  <2>3. (a \o u)[n + i] = u[(n + i) - n]
    BY <1>5, <2>1
  <2>4. QED
    BY <2>1, <2>2, <2>3
<1>10. v = u
  BY <1>4, <1>8, <1>9, SeqEqual
<1>11. QED
  BY <1>1, <1>2, <1>3, <1>6, <1>7, <1>10

-----------------------------------------------------------------------------
(* The connection.                                                         *)

\* Nothing waits in send_buf_ between two calls of Send, nor in the evbuffer once it has been emptied; what the
\* handshake keeps has no end of headers in it, and nothing once the connection is open.
FrameInv ==
    /\ framer \in Framers
    /\ Holds(sendBuf, SendCap, <<>>)
    /\ Contents(recvBuf) \in Seq(Nat) /\ Holds(recvBuf, RecvCap, Contents(recvBuf))
    /\ wire \in Seq(Nat) /\ input \in Seq(Nat)
    /\ fpc \in {"idle", "parse"} => input = <<>>
    /\ hs \in [open : BOOLEAN, buf : Seq(Nat)]
    /\ hs.open => hs.buf = <<>>
    /\ \A i \in DOMAIN hs.buf : hs.buf[i] \notin {HsEnd, HsBad}

Takes(p) == p.ok => \E n \in Nat : p.ring = Skip(recvBuf, n)

\* What the parsers see.
LEMMA Seen ==
    ASSUME FrameAssumption, FrameInv, NEW len \in Nat
    PROVE  /\ Peek(recvBuf, len) \in Seq(Nat) /\ Len(Peek(recvBuf, len)) = Least(len, recvBuf.size) /\ recvBuf.size \in Nat
           /\ Peek(recvBuf, recvBuf.size) = Contents(recvBuf) /\ recvBuf.size = Len(Contents(recvBuf))
<1>1. RecvCap \in Nat /\ RecvCap > 0
  BY DEF FrameAssumption
<1>2. PICK c \in Seq(Nat) : c = Contents(recvBuf) /\ Holds(recvBuf, RecvCap, c)
  BY DEF FrameInv
<1>3. recvBuf.size = Len(c) /\ Len(c) \in Nat
  BY <1>1, <1>2, HeldIs, LenProperties
<1>4. PICK n \in 0..Len(c) : n = Least(len, Len(c))
  <2>1. Least(len, Len(c)) \in 0..Len(c)
    BY <1>3 DEF Least
  <2>2. QED
    BY <2>1
<1>5. Peek(recvBuf, len) = SubSeq(c, 1, n)
  BY <1>1, <1>2, <1>4, PeekIs
<1>6. SubSeq(c, 1, n) \in Seq(Nat) /\ Len(SubSeq(c, 1, n)) = n
  BY SplitSeq
<1>7. Peek(recvBuf, Len(c)) = SubSeq(c, 1, Len(c))
  <2>1. Least(Len(c), Len(c)) = Len(c)
    BY <1>3 DEF Least
  <2>2. Peek(recvBuf, Len(c)) = SubSeq(c, 1, Least(Len(c), Len(c)))
    BY <1>1, <1>2, <1>3, PeekIs
  <2>3. QED
    BY <2>1, <2>2
<1>8. SubSeq(c, 1, Len(c)) = c
  BY SubSeqFull
<1>9. QED
  BY <1>2, <1>3, <1>4, <1>5, <1>6, <1>7, <1>8

LEMMA PacketTakes ==
    /\ \A data : \A n \in Nat : Takes(Packet(data, n))
    /\ Takes(NoPacket) /\ Takes(BadPacket)
<1>1. \A data : \A n \in Nat : Packet(data, n).ring = Skip(recvBuf, n)
  BY DEF Packet
<1>2. ~NoPacket.ok /\ ~BadPacket.ok
  BY DEF NoPacket, BadPacket
<1>3. QED
  BY <1>1, <1>2 DEF Takes

LEMMA HeaderTakes ==
    ASSUME FrameAssumption, FrameInv
    PROVE  Takes(ParseHeader)
<1>1. PICK size \in Nat : size = HeaderSize
  BY DEF HeaderSize
<1>2. PICK n \in Nat : n = HeaderLength(Peek(recvBuf, HeaderSize))
  BY <1>1, Seen, HeaderLengthIs
<1>3. PICK v : v = ValidatePayloadLen(n)
  OBVIOUS
<1>4. PICK data : data = Read(Skip(recvBuf, HeaderSize), n).data
  OBVIOUS
<1>5. ParseHeader = IF recvBuf.size < HeaderSize THEN NoPacket ELSE IF v.ok THEN Packet(data, size + n) ELSE v
  BY <1>1, <1>2, <1>3, <1>4 DEF ParseHeader
<1>6. Takes(Packet(data, size + n))
  BY PacketTakes
<1>7. ~v.ok => Takes(v)
  BY DEF Takes
<1>8. QED
  BY <1>5, <1>6, <1>7, PacketTakes

LEMMA LineTakes ==
    ASSUME FrameAssumption, FrameInv
    PROVE  Takes(ParseLine)
<1>1. PICK len \in Nat : len = Least(recvBuf.size, MaxPacket + 1)
  <2>1. recvBuf.size \in Nat /\ MaxPacket \in Nat
    BY Seen DEF FrameAssumption
  <2>2. Least(recvBuf.size, MaxPacket + 1) \in Nat
    BY <2>1 DEF Least
  <2>3. QED
    BY <2>2
<1>2. PICK scan \in Seq(Nat) : scan = Peek(recvBuf, len)
  BY Seen
<1>3. PICK ends : ends = {i \in DOMAIN scan : scan[i] = LF}
  OBVIOUS
<1>4. PICK end : end = CHOOSE i \in ends : \A j \in ends : i <= j
  OBVIOUS
<1>5. PICK data : data = SubSeq(scan, 1, IF end > 1 /\ scan[end - 1] = CR THEN end - 2 ELSE end - 1)
  OBVIOUS
<1>6. ParseLine = IF ends # {} THEN Packet(data, end) ELSE IF recvBuf.size > MaxPacket THEN BadPacket ELSE NoPacket
  BY <1>1, <1>2, <1>3, <1>4, <1>5 DEF ParseLine
<1>7. CASE ends # {}
  <2>1. ends \subseteq Nat
    BY <1>3
  <2>2. \E i \in ends : \A j \in ends : i <= j
    BY <1>7, <2>1, LeastOf
  <2>3. end \in Nat
    BY <1>4, <2>1, <2>2
  <2>4. QED
    BY <1>6, <1>7, <2>3, PacketTakes
<1>8. CASE ends = {}
  BY <1>6, <1>8, PacketTakes
<1>9. QED
  BY <1>7, <1>8

LEMMA WsTakes ==
    ASSUME FrameAssumption, FrameInv
    PROVE  Takes(TryParseWsFrame)
<1>1. CASE recvBuf.size < 2
  BY <1>1, PacketTakes DEF TryParseWsFrame
<1>2. CASE ~(recvBuf.size < 2)
  <2>1. PICK size \in Nat : size = recvBuf.size /\ size >= 2
    <3>1. recvBuf.size \in Nat
      BY Seen
    <3>2. QED
      BY <1>2, <3>1
  <2>2. PICK h \in Seq(Nat) : h = Peek(recvBuf, 4) /\ Len(h) = IF 4 <= size THEN 4 ELSE size
    BY <2>1, Seen DEF Least
  <2>3. h[2] \in Nat
    <3>1. 2 \in 1..Len(h)
      <4>1. Len(h) \in Nat /\ 2 <= Len(h)
        <5>1. CASE 4 <= size
          BY <2>2, <5>1
        <5>2. CASE ~(4 <= size)
          <6>1. Len(h) = size
            BY <2>2, <5>2
          <6>2. QED
            BY <2>1, <6>1
        <5>3. QED
          BY <5>1, <5>2
      <4>2. QED
        BY <4>1
    <3>2. QED
      BY <3>1, ElementOfSeq
  <2>4. PICK low \in Nat : low = h[2] % 128
    <3>1. h[2] % 128 \in Nat
      BY <2>3
    <3>2. QED
      BY <3>1
  <2>5. PICK hlen \in Nat : hlen = (IF low < WsShort THEN 2 ELSE 4) + (IF WsMasked THEN 1 ELSE 0)
    OBVIOUS
  <2>6. PICK n : n = IF low < WsShort THEN low ELSE (h[3] * Base) + h[4]
    OBVIOUS
  <2>7. PICK f : f = Peek(recvBuf, hlen + n)
    OBVIOUS
  <2>8. PICK data : data = [i \in 1..n |-> f[hlen + i] - (IF WsMasked THEN f[hlen] ELSE 0)]
    OBVIOUS
  <2>9. TryParseWsFrame = IF ~(low < WsShort) /\ size < 4 THEN NoPacket
                          ELSE IF size < hlen + n THEN NoPacket ELSE Packet(data, hlen + n)
    <3>1. TryParseWsFrame =
            IF ~(low < WsShort) /\ recvBuf.size < 4 THEN NoPacket
            ELSE IF recvBuf.size < hlen + n THEN NoPacket
                 ELSE Packet([i \in 1..n |-> Peek(recvBuf, hlen + n)[hlen + i]
                                               - (IF WsMasked THEN Peek(recvBuf, hlen + n)[hlen] ELSE 0)], hlen + n)
      BY <1>2, <2>2, <2>4, <2>5, <2>6 DEF TryParseWsFrame, WsHeaderSize
    <3>2. QED
      BY <2>1, <2>7, <2>8, <3>1
  <2>10. CASE ~(low < WsShort) /\ size < 4
    BY <2>9, <2>10, PacketTakes
  <2>11. CASE low < WsShort \/ ~(size < 4)
    <3>1. n \in Nat
      <4>1. CASE low < WsShort
        BY <2>6, <4>1
      <4>2. CASE ~(low < WsShort)
        <5>1. 3 \in 1..Len(h) /\ 4 \in 1..Len(h)
          <6>1. size >= 4
            BY <2>11, <4>2
          <6>2. Len(h) = 4
            BY <2>2, <6>1
          <6>3. QED
            BY <6>2
        <5>2. h[3] \in Nat /\ h[4] \in Nat /\ Base \in Nat
          BY <5>1, ElementOfSeq DEF FrameAssumption
        <5>3. (h[3] * Base) + h[4] \in Nat
          <6>1. PICK x \in Nat, y \in Nat, z \in Nat : x = h[3] /\ y = Base /\ z = h[4]
            BY <5>2
          <6>2. (x * y) + z \in Nat
            OBVIOUS
          <6>3. QED
            BY <6>1, <6>2
        <5>4. QED
          BY <2>6, <4>2, <5>3
      <4>3. QED
        BY <4>1, <4>2
    <3>2. Takes(Packet(data, hlen + n)) /\ Takes(NoPacket)
      BY <3>1, PacketTakes
    <3>3. QED
      BY <2>9, <2>11, <3>2
  <2>12. QED
    BY <2>10, <2>11
<1>3. QED
  BY <1>1, <1>2

\* A packet is taken off the front of recv_buf_.
LEMMA Parses ==
    ASSUME FrameAssumption, FrameInv, NEW a
    PROVE  Takes(IF WebSocket THEN TryParseWsFrame ELSE TryParsePacket(a))
<1>1. CASE WebSocket
  BY <1>1, WsTakes
<1>2. CASE ~WebSocket
  <2>1. CASE framer = "custom"
    <3>1. Takes(CustomParser(a))
      <4>1. PICK k : k = IF a.consumed \in 0..Shown THEN a.consumed ELSE Shown
        OBVIOUS
      <4>2. k \in Nat
        <5>1. recvBuf.size \in Nat /\ MaxPacket \in Nat
          BY Seen DEF FrameAssumption
        <5>2. Shown \in Nat
          BY <5>1 DEF Shown, Least
        <5>3. QED
          BY <4>1, <5>2
      <4>3. Takes(Packet(a.str, k)) /\ Takes(NoPacket)
        BY <4>2, PacketTakes
      <4>4. CustomParser(a) \in {NoPacket, Packet(a.str, k)}
        BY <4>1 DEF CustomParser
      <4>5. QED
        BY <4>3, <4>4
    <3>2. ~(HeaderSize > 0)
      BY <2>1 DEF HeaderSize
    <3>3. QED
      BY <1>2, <2>1, <3>1, <3>2 DEF TryParsePacket
  <2>2. CASE HeaderSize > 0
    <3>1. framer \notin {"custom", "line", "fixed", "raw"}
      BY <2>2 DEF HeaderSize
    <3>2. QED
      BY <1>2, <2>2, <3>1, HeaderTakes DEF TryParsePacket
  <2>3. CASE framer = "line"
    <3>1. ~(HeaderSize > 0)
      BY <2>3 DEF HeaderSize
    <3>2. QED
      BY <1>2, <2>3, <3>1, LineTakes DEF TryParsePacket
  <2>4. CASE framer = "fixed"
    <3>1. ~(HeaderSize > 0)
      BY <2>4 DEF HeaderSize
    <3>2. FixedLen > 0 => FixedLen \in Nat
      BY DEF FrameAssumption
    <3>3. Takes(ParseFixed)
      <4>1. FixedLen > 0 => Takes(Packet(Peek(recvBuf, FixedLen), FixedLen))
        BY <3>2, PacketTakes
      <4>2. FixedLen <= 0 \/ FixedLen > 0
        BY DEF FrameAssumption
      <4>3. QED
        BY <4>1, <4>2, PacketTakes DEF ParseFixed
    <3>4. QED
      BY <1>2, <2>4, <3>1, <3>3 DEF TryParsePacket
  <2>5. CASE framer = "raw"
    <3>1. ~(HeaderSize > 0)
      BY <2>5 DEF HeaderSize
    <3>2. PICK n \in Nat : n = Least(recvBuf.size, MaxPacket)
      <4>1. recvBuf.size \in Nat /\ MaxPacket \in Nat
        BY Seen DEF FrameAssumption
      <4>2. Least(recvBuf.size, MaxPacket) \in Nat
        BY <4>1 DEF Least
      <4>3. QED
        BY <4>2
    <3>3. Takes(ParseRaw)
      <4>1. Takes(Packet(Peek(recvBuf, n), n)) /\ Takes(NoPacket)
        BY PacketTakes
      <4>2. ParseRaw = IF n = 0 THEN NoPacket ELSE Packet(Peek(recvBuf, n), n)
        BY <3>2 DEF ParseRaw
      <4>3. QED
        BY <4>1, <4>2
    <3>4. QED
      BY <1>2, <2>5, <3>1, <3>3 DEF TryParsePacket
  <2>6. HeaderSize > 0 \/ framer \in {"custom", "line", "fixed", "raw"}
    BY <1>2 DEF FrameAssumption, FrameInv, WebSocket, HeaderSize
  <2>7. QED
    BY <2>1, <2>2, <2>3, <2>4, <2>5, <2>6
<1>3. QED
  BY <1>1, <1>2

\* A state of the receiver's buffer.
LEMMA RecvIs ==
    ASSUME FrameAssumption, NEW b, NEW s \in Seq(Nat), Holds(b, RecvCap, s)
    PROVE  Contents(b) = s /\ Contents(b) \in Seq(Nat) /\ Holds(b, RecvCap, Contents(b)) /\ Len(s) <= RecvCap
<1>1. RecvCap \in Nat /\ RecvCap > 0
  BY DEF FrameAssumption
<1>2. Contents(b) = s
  BY <1>1, HeldIs
<1>3. QED
  BY <1>2 DEF Holds

LEMMA SendFlows ==
    ASSUME FrameAssumption, FrameInv, NEW data \in Payloads, Send(data)
    PROVE  FrameInv' /\ FlowStep
<1>1. data \in Seq(Nat) /\ fpc = "idle" /\ fsent' = Append(fsent, data)
  BY DEF FrameAssumption, Send
<1>2. UNCHANGED <<framer, input, recvBuf, hs, fpc, fgot>>
  BY DEF Send
<1>3. Encoded(data) \in Seq(Nat) /\ wire' = wire \o Encoded(data) /\ Holds(sendBuf', SendCap, <<>>)
  <2>1. CASE WebSocket
    <3>1. wire' = wire \o EncodeWsText(data) /\ sendBuf' = sendBuf
      BY <2>1 DEF Send
    <3>2. Encoded(data) = EncodeWsText(data)
      <4>1. HeaderSize = 0 /\ framer \notin {"line", "fixed", "raw", "custom"}
        BY <2>1 DEF HeaderSize, WebSocket
      <4>2. QED
        BY <2>1, <4>1 DEF Encoded
    <3>3. QED
      BY <1>1, <3>1, <3>2, WsTextIs DEF FrameInv
  <2>2. CASE ~WebSocket
    <3>1. PICK b : b = WritePacket(sendBuf, data)
      OBVIOUS
    <3>2. WritePacketOK(sendBuf, data) /\ sendBuf' = FlushSend(b).ring /\ wire' = wire \o FlushSend(b).out
      BY <2>2, <3>1 DEF Send
    <3>3. framer \in Framers /\ Holds(sendBuf, SendCap, <<>>)
      BY DEF FrameInv
    <3>4. Encoded(data) \in Seq(Nat) /\ Holds(b, SendCap, Encoded(data))
      BY <1>1, <2>2, <3>1, <3>2, <3>3, PackIs
    <3>5. SendCap \in Nat /\ SendCap > 0
      BY DEF FrameAssumption
    <3>6. FlushSend(b).out = Encoded(data) /\ Holds(FlushSend(b).ring, SendCap, <<>>)
      BY <3>4, <3>5, FlushIs
    <3>7. QED
      BY <3>2, <3>4, <3>6
  <2>3. QED
    BY <2>1, <2>2
<1>4. wire' \in Seq(Nat)
  BY <1>3, ConcatProperties DEF FrameInv
<1>5. FrameInv'
  <2>1. Contents(recvBuf)' = Contents(recvBuf)
    BY <1>2
  <2>2. QED
    BY <1>2, <1>3, <1>4, <2>1 DEF FrameInv
<1>6. Unread' = Unread \o Encoded(data)
  <2>1. PICK a \in Seq(Nat), w \in Seq(Nat), e \in Seq(Nat) :
          a = hs.buf \o Contents(recvBuf) \o input /\ w = wire /\ e = Encoded(data)
    <3>1. hs.buf \o Contents(recvBuf) \in Seq(Nat)
      BY ConcatProperties DEF FrameInv
    <3>2. hs.buf \o Contents(recvBuf) \o input \in Seq(Nat)
      BY <3>1, ConcatProperties DEF FrameInv
    <3>3. QED
      BY <1>3, <3>2 DEF FrameInv
  <2>2. Unread = a \o w /\ Unread' = a \o (w \o e)
    BY <1>2, <1>3, <2>1 DEF Unread, Contents
  <2>3. QED
    BY <2>1, <2>2, JoinedTwice
<1>7. QED
  BY <1>1, <1>5, <1>6 DEF FlowStep

LEMMA ArriveFlows ==
    ASSUME FrameAssumption, FrameInv, Arrive
    PROVE  FrameInv' /\ FlowStep
<1>1. fpc = "idle" /\ fpc' = "fill" /\ UNCHANGED <<framer, sendBuf, recvBuf, hs, fsent, fgot>> /\ input = <<>>
  BY DEF Arrive, FrameInv
<1>2. PICK n \in 1..Len(wire) : input' = SubSeq(wire, 1, n) /\ wire' = SubSeq(wire, n + 1, Len(wire))
  BY DEF Arrive
<1>3. wire \in Seq(Nat)
  BY DEF FrameInv
<1>4. input' \in Seq(Nat) /\ wire' \in Seq(Nat) /\ input' \o wire' = wire
  <2>1. n \in 0..Len(wire)
    OBVIOUS
  <2>2. QED
    BY <1>2, <1>3, <2>1, SplitSeq
<1>5. Contents(recvBuf)' = Contents(recvBuf)
  BY <1>1
<1>6. FrameInv'
  BY <1>1, <1>4, <1>5 DEF FrameInv
<1>7. Unread' = Unread
  <2>1. PICK a \in Seq(Nat) : a = hs.buf \o Contents(recvBuf)
    BY ConcatProperties DEF FrameInv
  <2>2. Unread = a \o <<>> \o wire
    BY <1>1, <2>1 DEF Unread
  <2>3. Unread' = a \o input' \o wire'
    BY <1>1, <1>5, <2>1 DEF Unread
  <2>4. a \o <<>> = a
    BY ConcatEmptySeq
  <2>5. a \o input' \o wire' = a \o (input' \o wire')
    BY <1>4, JoinedTwice
  <2>6. QED
    BY <1>4, <2>2, <2>3, <2>4, <2>5
<1>8. QED
  BY <1>1, <1>6, <1>7 DEF FlowStep

LEMMA FillFlows ==
    ASSUME FrameAssumption, FrameInv, HandleReadFill
    PROVE  FrameInv' /\ FlowStep
<1>1. fpc = "fill" /\ UNCHANGED <<framer, sendBuf, wire, hs, fsent, fgot>>
  BY DEF HandleReadFill
<1>2. CASE WritableRegion(recvBuf).len = 0
  <2>1. UNCHANGED <<input, recvBuf>> /\ fpc' = "closed"
    BY <1>2 DEF HandleReadFill, Close
  <2>2. Contents(recvBuf)' = Contents(recvBuf)
    BY <2>1
  <2>3. FrameInv'
    BY <1>1, <2>1, <2>2 DEF FrameInv
  <2>4. Unread' = Unread
    BY <1>1, <2>1, <2>2 DEF Unread
  <2>5. QED
    BY <1>1, <2>3, <2>4 DEF FlowStep
<1>3. CASE WritableRegion(recvBuf).len # 0
  <2>1. PICK c \in Seq(Nat) : c = Contents(recvBuf) /\ Holds(recvBuf, RecvCap, c) /\ input \in Seq(Nat)
    BY DEF FrameInv
  <2>2. PICK n : n = Least(Len(input), WritableRegion(recvBuf).len)
    OBVIOUS
  <2>3. /\ recvBuf' = CommitWrite([recvBuf EXCEPT !.buf = CopyIn(@, WritableRegion(recvBuf).at, SubSeq(input, 1, n))], n)
        /\ input' = SubSeq(input, n + 1, Len(input)) /\ fpc' = fpc
    BY <1>3, <2>2 DEF HandleReadFill
  <2>4. n \in 0..Len(input) /\ n <= WritableRegion(recvBuf).len
    <3>1. WritableRegion(recvBuf).len \in Nat
      BY <2>1, RoomIs
    <3>2. PICK room \in Nat, m \in Nat : room = WritableRegion(recvBuf).len /\ m = Len(input)
      BY <2>1, <3>1, LenProperties
    <3>3. n = IF m <= room THEN m ELSE room
      BY <2>2, <3>2 DEF Least
    <3>4. QED
      BY <3>2, <3>3
  <2>5. PICK d \in Seq(Nat), e \in Seq(Nat) : d = SubSeq(input, 1, n) /\ Len(d) = n /\ e = SubSeq(input, n + 1, Len(input)) /\ d \o e = input
    <3>1. /\ SubSeq(input, 1, n) \in Seq(Nat) /\ SubSeq(input, n + 1, Len(input)) \in Seq(Nat)
          /\ Len(SubSeq(input, 1, n)) = n /\ SubSeq(input, 1, n) \o SubSeq(input, n + 1, Len(input)) = input
      BY <2>1, <2>4, SplitSeq
    <3>2. QED
      BY <3>1
  <2>6. Holds(recvBuf', RecvCap, c \o d)
    <3>1. RecvCap \in Nat /\ RecvCap > 0 /\ Len(d) <= WritableRegion(recvBuf).len
      BY <2>4, <2>5 DEF FrameAssumption
    <3>2. Holds(CommitWrite([recvBuf EXCEPT !.buf = CopyIn(@, WritableRegion(recvBuf).at, d)], Len(d)), RecvCap, c \o d)
      BY <1>3, <2>1, <3>1, FillIs
    <3>3. QED
      BY <2>3, <2>5, <3>2
  <2>7. c \o d \in Seq(Nat)
    BY ConcatProperties
  <2>8. Contents(recvBuf') = c \o d /\ Contents(recvBuf') \in Seq(Nat) /\ Holds(recvBuf', RecvCap, Contents(recvBuf'))
    BY <2>6, <2>7, RecvIs
  <2>9. FrameInv'
    BY <1>1, <2>3, <2>5, <2>8 DEF FrameInv
  <2>10. Unread' = Unread
    <3>1. PICK h \in Seq(Nat) : h = hs.buf
      BY DEF FrameInv
    <3>2. Unread = h \o c \o (d \o e) \o wire
      BY <2>1, <2>5, <3>1 DEF Unread
    <3>3. Unread' = h \o (c \o d) \o e \o wire
      BY <1>1, <2>3, <2>5, <2>8, <3>1 DEF Unread
    <3>4. h \o c \o (d \o e) = h \o (c \o d) \o e
      <4>1. h \o c \in Seq(Nat)
        BY ConcatProperties
      <4>2. h \o c \o (d \o e) = ((h \o c) \o d) \o e
        BY <4>1, JoinedTwice
      <4>3. (h \o c) \o d = h \o (c \o d)
        BY JoinedTwice
      <4>4. QED
        BY <4>2, <4>3
    <3>5. QED
      BY <3>2, <3>3, <3>4
  <2>11. QED
    BY <1>1, <2>9, <2>10 DEF FlowStep
<1>4. QED
  BY <1>2, <1>3

LEMMA FilledFlows ==
    ASSUME FrameAssumption, FrameInv, HandleReadFilled
    PROVE  FrameInv' /\ FlowStep
<1>1. input = <<>> /\ UNCHANGED <<framer, sendBuf, wire, input, recvBuf, hs, fsent, fgot>>
  BY DEF HandleReadFilled
<1>2. Contents(recvBuf)' = Contents(recvBuf)
  BY <1>1
<1>3. FrameInv'
  BY <1>1, <1>2 DEF FrameInv
<1>4. Unread' = Unread
  BY <1>1, <1>2 DEF Unread
<1>5. QED
  BY <1>1, <1>3, <1>4 DEF FlowStep

\* The handshake: what follows it is put back where it came from, and fits there.
LEMMA HandshakeFlows ==
    ASSUME FrameAssumption, FrameInv, PumpWsHandshake
    PROVE  FrameInv' /\ FlowStep
<1>1. fpc = "parse" /\ ~hs.open /\ UNCHANGED <<framer, sendBuf, wire, input, fsent, fgot>> /\ input = <<>>
  BY DEF PumpWsHandshake, FrameInv
<1>2. PICK c \in Seq(Nat), h \in Seq(Nat) : /\ c = Contents(recvBuf) /\ Holds(recvBuf, RecvCap, c) /\ h = hs.buf
                                            /\ \A i \in DOMAIN h : h[i] \notin {HsEnd, HsBad}
  BY DEF FrameInv
<1>3. recvBuf.size \in Nat /\ recvBuf.size = Len(c) /\ Peek(recvBuf, recvBuf.size) = c
  BY <1>2, Seen
<1>4. PICK all \in Seq(Nat) : all = h \o c /\ Len(all) = Len(h) + Len(c)
  BY ConcatProperties
<1>5. PICK none : none = Skip(recvBuf, recvBuf.size)
  OBVIOUS
<1>6. PICK cap \in Nat : cap = RecvCap /\ cap > 0
  BY DEF FrameAssumption
<1>7. Holds(none, RecvCap, <<>>) /\ Len(c) <= cap
  <2>1. Least(Len(c), Len(c)) = Len(c) /\ Len(c) \in Nat /\ SubSeq(c, Len(c) + 1, Len(c)) = <<>>
    BY <1>3, SubSeqEmpty DEF Least
  <2>2. Holds(Skip(recvBuf, Len(c)), RecvCap, SubSeq(c, Least(Len(c), Len(c)) + 1, Len(c)))
    BY <1>2, <1>6, <2>1, SkipIs
  <2>3. QED
    BY <1>2, <1>3, <1>5, <1>6, <2>1, <2>2, RecvIs
<1>8. PICK ends : ends = {i \in DOMAIN all : all[i] \in {HsEnd, HsBad}}
  OBVIOUS
<1>9. CASE ends = {}
  <2>1. hs' = [hs EXCEPT !.buf = all] /\ recvBuf' = none /\ fpc' = "idle"
    BY <1>2, <1>3, <1>4, <1>5, <1>8, <1>9 DEF PumpWsHandshake
  <2>2. Contents(recvBuf') = <<>> /\ Contents(recvBuf') \in Seq(Nat) /\ Holds(recvBuf', RecvCap, Contents(recvBuf'))
    <3>1. <<>> \in Seq(Nat)
      OBVIOUS
    <3>2. QED
      BY <1>7, <2>1, <3>1, RecvIs
  <2>3. hs \in [open : BOOLEAN, buf : Seq(Nat)]
    BY DEF FrameInv
  <2>4. hs' \in [open : BOOLEAN, buf : Seq(Nat)] /\ hs'.buf = all /\ hs'.open = hs.open
    BY <2>1, <2>3
  <2>5. \A i \in DOMAIN all : all[i] \notin {HsEnd, HsBad}
    BY <1>8, <1>9
  <2>6. FrameInv'
    BY <1>1, <2>1, <2>2, <2>4, <2>5 DEF FrameInv
  <2>7. Unread' = Unread
    <3>1. all \o <<>> = all
      BY ConcatEmptySeq
    <3>2. QED
      BY <1>1, <1>2, <1>4, <2>2, <2>4, <3>1 DEF Unread
  <2>8. QED
    BY <1>1, <2>6, <2>7 DEF FlowStep
<1>10. CASE ends # {}
  <2>1. ends \subseteq Nat
    BY <1>8
  <2>2. PICK end : end = CHOOSE i \in ends : \A j \in ends : i <= j
    OBVIOUS
  <2>3. \E i \in ends : \A j \in ends : i <= j
    BY <1>10, <2>1, LeastOf
  <2>4. end \in DOMAIN all /\ all[end] \in {HsEnd, HsBad}
    BY <1>8, <2>2, <2>3
  <2>5. PICK lh \in Nat, lc \in Nat : lh = Len(h) /\ lc = Len(c) /\ Len(all) = lh + lc
    BY <1>4, LenProperties
  <2>6. end \in 1..lh + lc
    BY <2>4, <2>5
  <2>7. ~(end <= lh)
    <3>1. SUFFICES ASSUME end <= lh PROVE FALSE
      OBVIOUS
    <3>2. end \in DOMAIN h
      BY <2>5, <2>6, <3>1
    <3>3. all[end] = h[end]
      BY <1>4, <2>5, <2>6, <3>1, ConcatProperties
    <3>4. QED
      BY <1>2, <2>4, <3>2, <3>3
  <2>8. end \in 0..Len(all) /\ end \in Nat
    BY <2>5, <2>6
  <2>9. PICK rest \in Seq(Nat) : rest = SubSeq(all, end + 1, Len(all)) /\ Len(rest) = Len(all) - end
    <3>1. SubSeq(all, end + 1, Len(all)) \in Seq(Nat) /\ Len(SubSeq(all, end + 1, Len(all))) = Len(all) - end
      BY <2>8, SplitSeq
    <3>2. QED
      BY <3>1
  <2>10. Len(rest) <= cap
    BY <1>7, <2>5, <2>6, <2>7, <2>9
  <2>11. recvBuf' = Write(none, rest) /\ hs' = [open |-> all[end] = HsEnd, buf |-> <<>>] /\ fpc' \in {"parse", "closed"}
    BY <1>1, <1>2, <1>3, <1>4, <1>5, <1>8, <1>10, <2>2, <2>9 DEF PumpWsHandshake, Close
  <2>12. Holds(Write(none, rest), RecvCap, rest)
    <3>1. Len(<<>>) + Len(rest) <= RecvCap /\ <<>> \in Seq(Nat)
      BY <1>6, <2>10, LenProperties
    <3>2. Holds(Write(none, rest), RecvCap, <<>> \o rest)
      BY <1>6, <1>7, <3>1, WriteIs
    <3>3. QED
      BY <3>2, ConcatEmptySeq
  <2>13. Contents(recvBuf') = rest /\ Contents(recvBuf') \in Seq(Nat) /\ Holds(recvBuf', RecvCap, Contents(recvBuf'))
    BY <2>11, <2>12, RecvIs
  <2>14. hs' \in [open : BOOLEAN, buf : Seq(Nat)] /\ hs'.buf = <<>>
    BY <2>11
  <2>15. FrameInv'
    BY <1>1, <2>11, <2>13, <2>14 DEF FrameInv
  <2>16. PICK t \in Seq(Nat) : t = input \o wire /\ t = wire
    <3>1. wire \in Seq(Nat)
      BY DEF FrameInv
    <3>2. <<>> \o wire = wire
      BY <3>1, ConcatEmptySeq
    <3>3. QED
      BY <1>1, <3>1, <3>2
  <2>17. Unread = all \o t
    <3>1. all \o <<>> = all
      BY ConcatEmptySeq
    <3>2. Unread = all \o <<>> \o wire
      BY <1>1, <1>2, <1>4 DEF Unread
    <3>3. QED
      BY <2>16, <3>1, <3>2
  <2>18. Unread' = rest \o t
    <3>1. <<>> \o rest = rest /\ rest \o <<>> = rest
      BY ConcatEmptySeq
    <3>2. Unread' = <<>> \o rest \o <<>> \o wire
      BY <1>1, <2>13, <2>14 DEF Unread
    <3>3. QED
      BY <2>16, <3>1, <3>2
  <2>19. end \in 0..Len(Unread) /\ Unread' = SubSeq(Unread, end + 1, Len(Unread))
    <3>1. SubSeq(all \o t, end + 1, Len(all \o t)) = SubSeq(all, end + 1, Len(all)) \o t /\ end \in 0..Len(all \o t)
      BY <2>8, FrontTaken
    <3>2. QED
      BY <2>9, <2>17, <2>18, <3>1
  <2>20. QED
    BY <1>1, <2>15, <2>19 DEF FlowStep
<1>11. QED
  BY <1>9, <1>10

\* Where the parser breaks, the bytes stay where they are.
LEMMA BreaksFlows ==
    ASSUME FrameInv, ParserBreaks
    PROVE  FrameInv' /\ FlowStep
<1>1. fpc' = "broken" /\ UNCHANGED <<framer, sendBuf, wire, input, recvBuf, hs, fsent, fgot>>
  BY DEF ParserBreaks
<1>2. Contents(recvBuf)' = Contents(recvBuf)
  BY <1>1
<1>3. FrameInv'
  BY <1>1, <1>2 DEF FrameInv
<1>4. Unread' = Unread
  BY <1>1, <1>2 DEF Unread
<1>5. QED
  BY <1>1, <1>3, <1>4 DEF FlowStep

\* A packet is taken off the front.
LEMMA ParseFlows ==
    ASSUME FrameAssumption, FrameInv, HandleReadParse
    PROVE  FrameInv' /\ FlowStep
<1>1. fpc = "parse" /\ hs.open /\ UNCHANGED <<framer, sendBuf, wire, input, hs, fsent>> /\ input = <<>> /\ hs.buf = <<>>
  BY DEF HandleReadParse, FrameInv
<1>2. PICK a \in ParserAnswers : \E p \in {IF WebSocket THEN TryParseWsFrame ELSE TryParsePacket(a)} :
           IF p.ok
           THEN recvBuf' = p.ring /\ UNCHANGED fpc
           ELSE fpc' = (IF p.err THEN "closed" ELSE "idle") /\ UNCHANGED recvBuf
  BY DEF HandleReadParse
<1>3. PICK p \in {IF WebSocket THEN TryParseWsFrame ELSE TryParsePacket(a)} :
           IF p.ok
           THEN recvBuf' = p.ring /\ UNCHANGED fpc
           ELSE fpc' = (IF p.err THEN "closed" ELSE "idle") /\ UNCHANGED recvBuf
  BY <1>2
<1>4. CASE ~p.ok
  <2>1. UNCHANGED recvBuf /\ fpc' \in {"closed", "idle"}
    BY <1>3, <1>4
  <2>2. Contents(recvBuf)' = Contents(recvBuf)
    BY <2>1
  <2>3. FrameInv'
    BY <1>1, <2>1, <2>2 DEF FrameInv
  <2>4. Unread' = Unread
    BY <1>1, <2>1, <2>2 DEF Unread
  <2>5. QED
    BY <1>1, <2>3, <2>4 DEF FlowStep
<1>5. CASE p.ok
  <2>1. recvBuf' = p.ring /\ fpc' = fpc
    BY <1>3, <1>5
  <2>2. PICK len \in Nat : recvBuf' = Skip(recvBuf, len)
    <3>1. Takes(p)
      BY <1>3, Parses
    <3>2. QED
      BY <1>5, <2>1, <3>1 DEF Takes
  <2>3. PICK c \in Seq(Nat) : c = Contents(recvBuf) /\ Holds(recvBuf, RecvCap, c)
    BY DEF FrameInv
  <2>4. PICK n \in 0..Len(c) : Holds(recvBuf', RecvCap, SubSeq(c, n + 1, Len(c)))
    <3>1. RecvCap \in Nat /\ RecvCap > 0
      BY DEF FrameAssumption
    <3>2. Least(len, Len(c)) \in 0..Len(c) /\ Holds(Skip(recvBuf, len), RecvCap, SubSeq(c, Least(len, Len(c)) + 1, Len(c)))
      BY <2>3, <3>1, SkipIs
    <3>3. QED
      BY <2>2, <3>2
  <2>5. PICK rest \in Seq(Nat) : rest = SubSeq(c, n + 1, Len(c))
    BY SplitSeq
  <2>6. Contents(recvBuf') = rest /\ Contents(recvBuf') \in Seq(Nat) /\ Holds(recvBuf', RecvCap, Contents(recvBuf'))
    BY <2>4, <2>5, RecvIs
  <2>7. FrameInv'
    BY <1>1, <2>1, <2>6 DEF FrameInv
  <2>8. wire \in Seq(Nat)
    BY DEF FrameInv
  <2>9. Unread = c \o wire
    <3>1. <<>> \o c = c /\ c \o <<>> = c
      BY ConcatEmptySeq
    <3>2. Unread = <<>> \o c \o <<>> \o wire
      BY <1>1, <2>3 DEF Unread
    <3>3. QED
      BY <3>1, <3>2
  <2>10. Unread' = rest \o wire
    <3>1. <<>> \o rest = rest /\ rest \o <<>> = rest
      BY ConcatEmptySeq
    <3>2. Unread' = <<>> \o rest \o <<>> \o wire
      BY <1>1, <2>6 DEF Unread
    <3>3. QED
      BY <3>1, <3>2
  <2>11. n \in 0..Len(Unread) /\ Unread' = SubSeq(Unread, n + 1, Len(Unread))
    <3>1. SubSeq(c \o wire, n + 1, Len(c \o wire)) = SubSeq(c, n + 1, Len(c)) \o wire /\ n \in 0..Len(c \o wire)
      BY <2>8, FrontTaken
    <3>2. QED
      BY <2>5, <2>9, <2>10, <3>1
  <2>12. QED
    BY <1>1, <2>7, <2>11 DEF FlowStep
<1>6. QED
  BY <1>4, <1>5

LEMMA FrameInitInv ==
    ASSUME FrameAssumption, FrameInit
    PROVE  FrameInv
<1>1. ASSUME NEW cap \in Nat, cap > 0 PROVE Holds(NewRing(cap), cap, <<>>)
  <2>1. PICK buf \in Memory(cap) : buf = [j \in 0..cap - 1 |-> 0]
    <3>1. [j \in 0..cap - 1 |-> 0] \in Memory(cap)
      BY DEF Memory
    <3>2. QED
      BY <3>1
  <2>2. PICK zero \in 0..cap - 1 : zero = 0
    BY <1>1
  <2>3. Place(cap, zero, 0) = 0
    BY <2>2 DEF Place
  <2>4. NewRing(cap) = RingOf(cap, buf, zero, 0)
    BY <2>1, <2>2, <2>3 DEF NewRing, RingOf
  <2>5. Lies(cap, buf, zero, <<>>) /\ <<>> \in Seq(Nat) /\ Len(<<>>) = 0 /\ 0 <= cap
    BY DEF Lies
  <2>6. QED
    BY <2>4, <2>5 DEF Holds
<1>2. SendCap \in Nat /\ SendCap > 0 /\ RecvCap \in Nat /\ RecvCap > 0
  BY DEF FrameAssumption
<1>3. Holds(sendBuf, SendCap, <<>>) /\ Holds(recvBuf, RecvCap, <<>>)
  BY <1>1, <1>2 DEF FrameInit
<1>4. <<>> \in Seq(Nat)
  OBVIOUS
<1>5. Contents(recvBuf) \in Seq(Nat) /\ Holds(recvBuf, RecvCap, Contents(recvBuf))
  BY <1>3, <1>4, RecvIs
<1>6. wire \in Seq(Nat)
  <2>1. <<HsByte, HsEnd>> \in Seq(Nat) /\ <<HsByte, HsBad>> \in Seq(Nat) /\ <<>> \in Seq(Nat)
    BY DEF HsByte, HsEnd, HsBad
  <2>2. QED
    BY <2>1 DEF FrameInit, ParseConfig
<1>7. hs \in [open : BOOLEAN, buf : Seq(Nat)] /\ hs.buf = <<>>
  BY DEF FrameInit, ParseConfig
<1>8. QED
  BY <1>3, <1>4, <1>5, <1>6, <1>7 DEF FrameInit, ParseConfig, FrameInv

\* Every byte that Send wrote reaches the parser once and in its place, for any capacities of the two rings and any
\* pieces of the stream.
THEOREM FlowAlwaysKept ==
    FrameAssumption => (FrameSpec => FlowKept)
<1>1. SUFFICES ASSUME FrameAssumption PROVE FrameSpec => FlowKept
  OBVIOUS
<1>2. FrameInit => FrameInv
  BY <1>1, FrameInitInv
<1>3. FrameInv /\ [FrameNext]_frameVars => FrameInv' /\ [FlowStep]_frameVars
  <2>1. SUFFICES ASSUME FrameInv, [FrameNext]_frameVars PROVE FrameInv' /\ [FlowStep]_frameVars
    OBVIOUS
  <2>2. CASE UNCHANGED frameVars
    <3>1. Contents(recvBuf)' = Contents(recvBuf)
      BY <2>2 DEF frameVars
    <3>2. FrameInv'
      BY <2>1, <2>2, <3>1 DEF FrameInv, frameVars
    <3>3. QED
      BY <2>2, <3>2
  <2>3. CASE FrameNext
    BY <1>1, <2>1, <2>3, SendFlows, ArriveFlows, FillFlows, FilledFlows, HandshakeFlows, ParseFlows, BreaksFlows DEF FrameNext
  <2>4. QED
    BY <2>1, <2>2, <2>3
<1>4. QED
  BY <1>2, <1>3, PTL DEF FrameSpec, FlowKept

=============================================================================
