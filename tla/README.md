# A TLA+ verification project for fakelua

fakelua compiles a subset of Lua to C (loaded with TCC in memory, or with the system's C
compiler as a shared library) and to bytecode for its own interpreter, and comes with a large
library of native functions: timers, sockets, HTTP, MySQL, Redis, objects that live in C++,
serialization and many pure ones. A *State* holds everything a script needs: two heaps, the
compiled functions, the error boundaries and the state of the libraries. States are independent,
and one thread drives a State at a time. What makes the code hard is not parallelism but

- **re-entrance**: a native function calls back into scripts, scripts load and initialise other
  scripts, a tick dispatches callbacks that use, close or break the very object that dispatches
  them, and each of these can be left by an exception or by a `longjmp`;
- **several implementations of one meaning**: the interpreter, the generated C, the functions
  the C generator writes into the code instead of calling them, and the host's access to tables
  must agree with one another and with Lua.

Paths below are relative to `src/` of the repository; `PROJECT.json` maps every
definition that models code to its lines, and lists the hazards at theirs.

## 1. Inventory

| Component | State it keeps | Operations | Interacts with | Modules |
|---|---|---|---|---|
| Heap allocator (`state/heap.cpp`, `FlFastAlloc` in `compile/c_runtime_header.h`) | blocks, index and offset, the slot shared with generated code | `Alloc`, `New`, `FlFastAlloc`, `Reset` | generated C bumps the slot without telling the allocator | `Arena`, `HeapAllocator` |
| The two heaps (`state/state.h`, `fakelua.h`) | `interp_const_alloc_`, `reentrant_count_`, an init flag per C unit | `Call`, compilation and `__fakelua_init`, allocation on three paths, return, throw | everything allocates | `StateHeap` |
| Error boundaries and dispatch (`jit/jit_error_boundary.h`, `jit/vm.cpp`, `state/fakelua.cpp`) | chain of boundaries, `current_jit_`, `dispatch_depth_` | `DispatchCall`, `GuardJitEntry`, calls by name, closures, `pcall`, `table.sort`, `load`, tick callbacks | all engines, all native functions that call back | `JitDispatch` |
| Function registry (`jit/vm.h`, `vm_function.h`, `tcc_jit.cpp`, `gcc_jit.cpp`) | functions by name, per engine, with handles of their code; line slots of C units | compile, replace, call by name, release | compilation, error texts | `VmRegistry` |
| Front end (`compile/preprocessor.cpp`, `semantic_analysis.cpp`) | syntax tree, scopes, return counts | rewriting, resolution, checks | both back ends | `Preprocessor`, `SemanticAnalysis` |
| C back end (`type_inferencer.cpp`, `c_gen.cpp`, `c_runtime_header.h`) | inferred types, specialised versions, C text, run time | compile, load, run | registry, heaps, tables | `TypeInferencer`, `CGen`, `CRuntime`, `Compiler` |
| Interpreter (`interp/`) | registers, boxes, frames | code generation, one action per instruction | registry, tables | `InterpCodegen`, `Interpreter`, `VmOps` |
| Tables (`var/`, `native/table/native_table.cpp`) | quick array, array part, chained hash part, cached length | get, set, insert, remove, move, sort, pack, pairs | host, interpreter and generated code share them | `TableLayout`, `VarTable`, `TableMap` |
| Timer library and heap (`native/timer/`) | 4-ary heap, names, heartbeat, batch of a tick | set, del, set_heartbeat, `TickAll` | `runtime.tick`; callbacks re-enter it | `TimerQueue`, `HeapTimer`, `NativeTimer` |
| MySQL connection (`native/mysql/`) | connection state, operation that waits, results, queue, close flag | query, prepared statements, ping, close, `Tick` | libmariadb below, scripts above | `MysqlConnection` |
| MySQL pool | entries, leases, retries | acquire, release, with, query, `TickAll`, close | connections | `MysqlPool` |
| Events (`native/event/`) | listeners and one-time listeners | on, once, off, emit, clear | listeners re-enter it | `NativeEvent` |
| Network (`native/net/`) | slots, event queue, pending sends, rings, framers | server, client, UDP, send, close, `TickAll` | libevent, scripts | `NetFraming`, `NetObject` |
| HTTP (`native/http/`) | client operations, server and its connections | request, reply, close, `TickAll` | shared I/O context | `HttpLibrary` |
| Redis (`native/redis/`) | handshake, queue of commands | connect, command, close, `TickAll` | hiredis | `RedisConnection` |
| Native objects (`native/object/`) | indexes by id, group and key, zombies, shells with snapshots | create, destroy, read, write, walk | generated code reads snapshots | `NativeObjects` |
| Built-in functions (`native/basic`, `math`, `string`, `table`) | none | the functions the generator inlines, as inlined and as registered | C back end | `Builtins` |
| Patterns (`native/string/lua_pattern.cpp`) | one array of captures | find, match, gmatch, gsub | string library | `LuaPattern` |
| Serialization (`native/serialize`, `wire_codec.cpp`) | none | encode, decode, bound arguments | every callback with bound arguments | `Serialization` |

Not modelled: section 8.

**Where it is hard.** (1) Two code paths, one in C++ and one inlined in generated code, bump the
same pointer. (2) Two flags in different places decide which heap a value lives in, and the heap
that is reclaimed at the next host call is the wrong one for a global. (3) An error must cross
TCC frames as a `longjmp` and C++ frames as an exception, and the choice is made where a call is
dispatched, not where the error is raised. (4) `Tick` functions read state, run a script, and go
on with what they read. (5) Timeouts, closes, failures and late answers arrive between the steps
of an operation. (6) Slots, ids, registers and snapshots are used again while something still
refers to what they were. (7) The C generator keeps numbers in native variables, specialises
functions and compiles loops in place, all by what it inferred. (8) Entries of a table move when
it is written, under the loops that walk over it.

**What makes each part correct.** Allocator: no byte is handed out twice. Heaps: nothing
reachable is reclaimed. Dispatch: every error reaches a handler that is still there, over frames
that stand it, and leaves the scopes as they were. Registry: no name leads to released code.
Compilers: a program means the same in every engine. Tables: a map, whatever the layout.
Connections, clients, commands: every request is answered once, with its own answer. Timers: each
runs once, when due, unless deleted. Servers: what is heard and answered concerns the right
connection. Objects: no index leads to what was destroyed. Codecs and patterns: the reference.

## 2. What a State keeps: run `state`

`MCState` extends four modules and chooses one of them per behaviour.

- `HeapAllocator` has the fields of the C++ object, the slot that generated code bumps, and the
  history `live`: the extents handed out since the last `Reset`. Actions: `Alloc`, `New` (an
  `Alloc` whose object gets a destructor), `AllocTooLarge`, `AllocNoMemory` (the block cannot be
  had after index and offset moved on), `FastAlloc`, `Reset`. `Arena` is what callers rely on: a
  set of disjoint extents, reclaimed all at once. Properties: `AllocationsSound`
  (no overlap, inside the blocks, aligned if `Alloc` returned it) and `ImplementsArena`. Blocks of
  8 bytes, alignment 4, sizes below, at and above the alignment, a whole block and one too many;
  three blocks, five allocations: enough to cross two block ends, to fail in between and to reuse
  blocks. `FlFastAlloc` returns unaligned memory after a C++ allocation of an odd size; no line of
  the repository promises otherwise.
- `StateHeap` abstracts a heap to the values it holds. Properties: `GlobalsSurvive`,
  `LocalsSurvive`, `ScopesExact`. Three units, one in C; two values; four frames.
- `JitDispatch` is the C stack: frames of generated code, `DispatchCall`, `GuardJitEntry`, native
  functions and `load` closures; who owns the top boundary, `current_jit_` and `dispatch_depth_`.
  Errors travel by longjmp or by unwinding one frame per step. Properties: `NoTerminate`,
  `LongjmpCrossesOnlyC`, `DispatchExact` (the boundary on top is on the stack, and the engine and
  the depth are what the frames say). 14 frames: two callbacks inside one another.
- `VmRegistry`: compilations in every engine, nested ones inside initialisers, calls by name that
  hold their code, and initialisers that throw. `CodeAlive`: no name leads to released code, and
  no line slot that the State writes to lies in released code, except for units whose initialiser
  threw or loaded another unit (these slots are never taken back). Four pieces of code, three
  nested runs, files that replace another one wholly or in part.

Run `state_two_units` (two units in C) violates `GlobalsSurvive`, and `calls_sort` (GCC code that
sorts) violates `LongjmpCrossesOnlyC`; both are findings.

## 3. The language: run `language`

`MCLanguage` chooses an engine and a program, or a table.

The front end is operators on syntax trees: `Preprocessor` rewrites and resolves names,
`SemanticAnalysis` accepts or rejects and counts return values. `InterpCodegen` gives register
bytecode with the allocation of registers, boxes and jumps of the code; `Interpreter` executes it,
one action per instruction. `TypeInferencer` infers, chooses what to specialise and solves for the
return types (its unordered maps are walked in an order and in the reverse one); `CGen` gives C as
trees, and `CRuntime` says what that C does, undefined behaviour and what no C compiler accepts
included. `LuaReference` evaluates the source tree and knows nothing of the compilers.

A table constructor with literal keys gets a struct: `AnalyzeTableShapes` collects its fields (those
of all constructors that a variable is assigned, optional where one lacks them),
`ComputeVarSpecAnnotations` follows the variables from assignment to assignment and joins the
branches, `CGen` writes `FL_SPEC`, `FL_SET_SPEC` and `SET_TABLE_SPEC`, and `CRuntime` keeps the fields
beside the entries, with the accessors of the type that a table was given. Memory that no one has
written is uninitialised; a struct of another type is `WrongShape`.

`MCLanguage` has more than a thousand programs: arithmetic on words of four bits (so that every
operator overflows), both kinds of number mixed, loops with every bound and step, jumps out of and into the next round
of every kind of loop, closures over captured locals, multiple values, methods, file-level
constants, tables with structs of equal and of different fields that variables exchange, in branches,
loops, blocks and closures, and all bodies of one and two statements from two pools.
`ExecMatchesSource` and `CMatchesSource`: a program computes what the reference says, or is rejected
for a reason. `Terminates`: the bytecode of every loop comes to its end.

`Naming` has the two forms in which these operators name what they read more than once.

Where the code does not do what the source says, either a run of its own shows it or
`CMatchesSource` names it. Runs, which are findings: `interp_boxes` (a captured local's register is
used for temporaries while it still has its box) and `compiler_shadow` (`local t = t`). Exceptions
of `CMatchesSource`, each of which some programs of the run need:

- `FloatsInts`: what is an int on one path and a float on another is a float on both: the returns of
  a specialised version (`type_inferencer.cpp:834`, `:1766`), `c and 1 or 1.5`, a variable that is
  assigned both. The number must be equal.
- `WithPrintedSteps`: a constant float step is printed with six decimals (`c_gen.cpp:2098`, `:2101`);
  the loop must do what it would do with the step that was printed. A step that is printed as zero
  loops for ever; no program has one.
- `LosesType`: assignments in do blocks, in nested functions, as loop variables and after the first
  round of a loop are not followed, so a table may be read as the struct of another type.
- `MixesFields`: one type for constructors with the same keys in several orders, while a nil field
  is written at its own constructor's place (`c_gen.cpp:2682-2688`); and `{[1] = a, [1.0] = b}`. A
  field is read that was never written. The order of a type's fields is that of the
  first constructor in an unordered map; the order and its reverse are tried.
- `HasKeyTwice`: a constructor with one key twice is rejected.

`TableLayout` is the memory of a table with the writes of the host and of generated code, and
`VarTable` lets them interleave with the table library and then walks with `pairs` while the body
writes. `IsTheMap`: what is read, the length and the entries are those of the map in `TableMap`
that the same operations make. It has tables without structs. Its quick array has two entries, so that four operations on keys
that collide (six keys, two values) reach the hash part, the array part and the moves between them. `WalkSound` has two
exceptions, stated in it: buckets that are full when a loop begins, and removal of more than one
entry of the hash part.

## 4. Timers: run `timers`

`TimerQueue` is the promise: ids with times; `Expire` takes all that are due, in order.
`HeapTimer` is the 4-ary heap with its back pointers; `ImplementsQueue` is checked with ten timers,
the least for which a node that replaces a deleted one must move up.

`NativeTimer` is composed with `TimerQueue`, and adds the map of names, the heartbeat and the tick,
taken apart where the clock is read again and at each callback. Two timers, two heartbeats and
three units of time: a callback that deletes the other timer of its batch, a heartbeat replaced
inside a callback, and a tick that is late by two beats. `CallbacksMatch`, `RunsOnceUnlessDeleted`,
`HeartbeatRate`, `NoBurst`, `EveryTimerRuns`. Timers of a batch whose earlier callback throws are
dropped by the code; `EveryTimerRuns` says so (`lost`).

## 5. The MySQL connection: run `mysql`

`MysqlConnection` has one record with the fields of the C++ object and a `pc` that says where
`Tick` or `Close` is: it is taken apart at each dispatch of a callback. libmariadb and the server
are external (operations may finish at once, wait or fail). What a script does with the connection
is a member of the constant `Clients`, which a behaviour chooses once (`client`). The run has three.
`Waiting` waits for each answer and otherwise does anything, anywhere, inside callbacks too, some of
which throw: `AnswersOwnOnce` (requests made outside callbacks), `AllAnsweredInTurn` (unless it
closes). `Pinging` does the same and pings anywhere. `Pipelined` overlaps three queries of two result
sets and pings between them: `ResultsStable`, `SingleFlight`. A script has no completion of
`conn:ping` to wait for, and `Ping` leaves `state_` Ready: requests start over a ping that is in
flight. So `SingleFlight` protects a request from what follows it and excepts the ping, which the
hazard notes. Two
queries, a statement and its execution reach every path, since ids are never used again. Run
`mysql_overlap` (`Overlapping`) is a finding: the callback slot is overwritten before a query is queued.

## 6. Other asynchronous and native libraries: runs `network` and `libraries`

`MCAsync` extends `NativeEvent`, `MysqlPool`, `RedisConnection`, `NetObject`, `HttpLibrary`,
`NativeObjects` and `NetFraming`, which theorems are about, and has an instance of every other library; a behaviour is that
of one of them (`part`), while the others stay as they start.

`network`:

- `NetFraming`: the two rings, every framer and WebSocket frames of both
  sides, over a stream that arrives in pieces of any size. `StreamsIntact`: what is received is what
  was sent. `FlowKept`: byte for byte, a packet enters the stream whole behind what is in flight, and only
  parsers take bytes, from the front. Rings of 7 bytes and four payloads, three sends: every packet wraps
  around at each place. A custom parser is a function of the script that libevent's read callback calls: it
  may return nothing (so that the bytes wait), throw or close the object (`ParserBreaks`).
- `NetObject`: server, client and UDP socket, with one slot and two connections (so that the slot is
  used again), events queued by libevent and dispatched by the tick, sends put off to its end,
  closes and errors inside callbacks. `EventsSound`: a callback hears of a connection in order, and
  answers go astray only to whoever took the slot of a connection that is gone; `TickSound`: a
  tick leaves no send behind, and the object is freed under its own code in three named cases only (a custom
  parser that closes the object from within the read callback is one). Run `net_echo`
  is the finding behind the exception of `EventsSound`.
- `HttpLibrary`, with two clients, then with a server of two connections: pieces, chunks, timeouts,
  errors and closes race. `AnsweredOnce` (requests and the server's connections), `ClientsAnswered`; that a
  response is whole although it comes in pieces is part of `StreamsIntact`; the limit on the chunks so far
  (`kMax - sz`) is met by a response of two chunks.
- `NativeObjects`: the fields of one object with two shells, in two frames. `SnapshotFresh` (it excepts
  writes through another shell of the same object, which leave the snapshot as it was).
- `NativeEvent`: two events, two functions (one without C code: such listeners are skipped), three
  subscriptions, emits two deep. `OnceRunsOnce`.

`libraries`:

- `RedisConnection`: handshake with AUTH, three commands, replies, disconnects, close and throwing
  callbacks. `CallbacksSound` (each callback once, unless it throws, and hiredis knows only commands that
  still exist),
  `CommandsAnswered`.
- `MysqlPool`: two entries, one retry, two leases, two queries. `LeasesSound` (a connection has one
  holder, no freed one is ticked and none is freed in its callback; the guard of a `pool:with` whose function
  closes the pool does use a freed one, which the hazard notes), `WithReturned`. A connection is what
  `MysqlConnection` was checked for, reduced to whether it is up, what it works on and whether a ping is
  in flight: the heartbeat's ping stays, and `Acquire` leases a connection whose ping has no answer yet.
  `mutex` is the operation under `mutex_`, entry by entry: closing a connection calls the callbacks of
  its queue, and one that uses the pool there locks its own thread out (`LocksItselfOut`, "stuck"), the
  stated exception of `WithReturned`.
- `NativeObjects`: the indexes over four objects with chosen and automatic ids. `ObjectsSound`. (Shells
  and fields are in the other run: the indexes do not look at them.)
- `Builtins`: every function the C generator inlines, inlined and as registered, over a family of
  arguments at the edges of every type. `InlineMatchesUnlessKnown`: the two have the same outcome if
  *and only if* the call is none of `KnownDifference`, where a comment lists them (`nan` and numerals in
  `math.max`, surplus arguments, `select` past the end, `string.byte` out of range, `table.create` with
  a negative count, `table.remove` on an empty sequence and others).
- `LuaPattern`: the matcher with its shared captures against all ways to match in the order that
  Lua 5.4 prefers, and the four functions against those of `lstrlib.c`, for some thousand patterns made
  of pieces. `PatternsAsLua` excepts the eight differences of `KnownDifference` (each with its lines; the
  repository's `README.md:181` claims there are none): a second caret of `gsub`, back references to
  positions, "-%" in a set, table keys with a zero, `%1` without captures, an unfinished capture that the
  replacement does not use, a `gmatch` iterator called after its nil, and `find` of a lone ")".
- `Serialization`: encoding of nested, shared and cyclic tables, and decoding of arbitrary bytes.
  `CodecSound`: decoding what was encoded gives the value back, and bad input gives an error.

The last three have no interleaving: a behaviour is one call, and TLC goes through the inputs.

## 7. Fairness, and what is proved

*Fairness.* The documentation asks the host to call `runtime.tick` from its main loop
(`src/native/README.md`), which gives weak fairness of the steps of a tick, including the return of
callbacks (`LibraryTicks`, `TickStep`, `Tick`, `CallbackReturns`). The other side answers or its connection
breaks: `ServerAnswers` of a connection is weakly fair, since a connection in use stays in use until
then; `Answers` (redis, pool, HTTP timeouts) is strongly fair, since it can happen only inside
`Poll`, which ticks come to again and again. Time passes (`Advance`). The interpreter goes on
(`Runs`). The allocator, heaps, dispatch, registry, tables and codecs state safety only.

*Proved for every value of the constants* (`HeapAllocatorProofs`, from `BlockAssumption`: the
block size is a positive multiple of the positive alignment, sizes are naturals):

- `InductiveInvariant`: `Spec => []IInv`. That extents do not overlap is not inductive: a step
  preserves it only if the pointer it bumps lies above everything handed out. `IInv` says so
  (`BelowSlot`), says where the two bump pointers may stand relative to each other
  (`PointersOK`: together, or after a failed block with the index one past the last block), and
  that extents are in address order (`Ordered`) and inside blocks.
- `AllocatorSound`: `Spec => []AllocationsSound`, from `IInv`, from `Ordered`, and from lemmas on
  multiples (padding makes an offset a multiple of the alignment, and so stays within a block).
- `AllocatorImplementsArena`: `Spec => ImplementsArena`. Lemma `HandOut` is shared by both
  paths: an extent that starts at or above the slot keeps `IInv` and is disjoint from all.

*Proved for every value of the constants* (`NativeTimerProofs`, from `TimerAssumption`: delays
are naturals, intervals positive, and a missing name is not a name):

- `TimerInvariant`: `Spec => []IInv`. What scripts are promised (`RunsOnceUnlessDeleted`) is
  not inductive because an expired timer is in neither the heap nor the map. `IInv` follows it
  through the batch (`BatchOK`: the ids of a batch differ, have left the queue, have not run,
  and are cancelled if they were deleted) and before it (`WaitingOK`), and relates the next
  beat to the number of beats so far (`HeartbeatOK`).
- `NamesMatchTimers`, `HeartbeatBounded`, `HeartbeatNeverBursts`, `NoRunAfterDelete`: the four
  safety properties of the run. That the ids of a batch differ is taken from `TimerQueue`,
  whose `Expire` returns every due id once; `HeapTimer` is checked to implement it.

*The two heaps* (`StateHeapProofs`, any units, values and depth). `ScopesAlwaysExact` needs no
assumption: `ScopesInv` adds to `ScopesExact` that each constant-allocation scope remembers whether
another one is open below it (`PrevExact`), which is what its destructor restores, and that a unit's
initialiser runs once (`InitsOnce`). `GlobalsAlwaysSurvive` and `LocalsAlwaysSurvive` follow from
`HeapInvariant` and hold under `OneJitUnit`: at most one unit is compiled to C. Run `state_two_units`
shows that it cannot be dropped. Survival is not inductive, since what a global refers to was a local
before: `HeapInv` says which frame each running function was entered from without leaving its backend
(`Entered`), that what an initialiser and the functions it calls refer to is constant
(`InitLocalsConst`), and that globals are constant (`GlobalsConst`).

*Error boundaries* (`JitDispatchProofs`, any depth of nesting), in three layers.

- `BoundaryAlwaysOnStack` has no assumption. `BaseInv` says which frames may lie on which (`Fits`), that
  the chain of boundaries is that of the owners on the stack (`TopOwner`), and which engine the native
  function on top sees (`CallerSeen`).
- `NeverTerminates` needs `NoTccClosures`, that no other engine calls a closure of TCC code. `GuardInv`
  adds that every TCC frame has a boundary below it, and that an exception is at C code only
  when there is no boundary.
- `DispatchAlwaysExact` and `LongjmpAlwaysCrossesOnlyC` need `OneEngine`: closures do not travel between
  engines, named callbacks are TCC code, and GCC code does not call `table.sort` (run `calls_sort` shows
  why). `ExactInv` adds that above a boundary there is only TCC code, and that each scope saved what
  lies below it.

The assumptions are the situations that the run has too; what the code does beyond them is in section 8.

*Registry* (`VmRegistryProofs`, from `PlansAssumption`: a compilation uses an engine). `CodeAlwaysAlive` is
not inductive: a step releases what nobody shares any more after it changed what runs, the
code made, the entries and the line slots. `Ready` is said of any values of these four, before the
release; it relates addresses to handles (`Typed`), orders nested initialisations (`Ordered`), and says whose each
line slot is (`Fresh`, `Owned`). `Alive` then says that the release spares them. A step of the code that loads
the next engine's unit is two such changes in a row.

*Pool* (`ConnectionProofs`, from `PoolAssumption`: the pool has a positive size). `LeasesAlwaysSound` follows
from `PoolInvariant`. `LeasesSound` is not inductive: `Sound` adds that a closed pool has no leases, that only a closed pool has
freed anything, and that the depth of a connection is 1 exactly while the tick is in its callback. It
is a relation between values, so that a tick that updates a connection and returns a lease can be
followed update by update. `Guarded` says who holds the mutex: only a closed pool is reaped, outside
callbacks, and the connection that is being closed is not the one in its callback.

*Redis* (`ConnectionProofs`, for any number of commands). `RedisCallbacksSound`: each
callback is called once, unless it throws, and hiredis, which writes through a pointer into
`cmds_`, answers no command that is gone. `RedisInv` adds that ids are unique (`Numbered`), that what hiredis has
to answer are commands that wait, each once (`InFlight`), so that completing one does not complete what is answered
later and `PopDone` drops none of them, and that a callback that is set was not called yet (`CalledOnce`).

*HTTP* (`ConnectionProofs`, no assumption: any requests, connections, messages and limits). `HttpAnswersOnce`
follows from `HttpInv`: a result that waits for its callback was the first one, nothing can reach a request
that has one, and whatever was written to a connection of the server was written under `writing_`. The
parser is not opened: whatever it answers, this holds.

*Framing* (`ConnectionProofs`, from `FrameAssumption`: the rings and the base of a digit are positive,
a byte is a natural number, limits are integers, `FixedLen` of any sign, and the framers are those of `ParseFramerType`). `FlowAlwaysKept` (`FlowKept`), for every framer, capacity, limit and payload.
The lemmas about the ring say what `Write`, `Skip`, `Peek` and the two regions do to `Contents`, the bytes
it holds from the oldest on, wherever it wraps; `FlushIs` needs both pieces of a flush. `FrameInv` adds to the types that
`send_buf_` is empty between sends (a packet is packed only if it fits, and flushed at once), that the
evbuffer is empty between events, and that the handshake has kept no end of headers, so that what
`PumpWsHandshake` puts back fits `recv_buf_`. That whole messages come out of the stream stays with
`StreamIntact`.

*Events* (`NativeProofs`, no assumption). `OnceAlwaysRunsOnce` and the action property
`NoOnceRunsAgain` follow from `EventInvariant`: a one-time subscription waits in exactly one list or
snapshot of an emit (`Apart`, `Kinds`), until it ran or was removed (`UntilDone`), and then nowhere.

*Objects* (`NativeProofs`, any groups, ids, global keys, values and shells; the fields are finitely many, and the
number of objects ever made is a natural number). `ObjectsAreSound` and `SnapshotsAreFresh` follow from
`ObjectsInvariant`. `ManagerInv` says that an index leads to a live object that belongs there (`Indexed`),
that a zombie is dead and waits once for its deletion (`Buried`), and that an object is finalized when it dies
and deleted only by `Clear` (`Counted`). `ShellInv` says that a snapshot that is ready has no key twice, fits its capacity,
and shows exactly the fields of its object unless another shell wrote them. That its length is then the number of
fields is a bijection; that a capacity that doubles suffices is shown for every need.

*Network objects* (`NativeProofs`, from `NetSizes`: the numbers of slots and connections are naturals, and
there is a connection). `EventsAreSound` and `TicksAreSound` follow from `NetInvariant`.
`Phase` says where the tick is by what lies on the stack of the object's own code. `Placed` says that an open
connection is in the slot that its events, the callbacks that run and the answers that wait name. `Ordered`
says that what a callback heard of a connection, and then the events of that connection in the batch and the
queue, are one story: connected, its messages in order, closed (`Lies`, which follows each event through
both lists). Like `CallbackOrder` it leaves out connections that `close_connection` closed or whose events an
error threw away (`spoiled`).

*MySQL connection* (`MysqlConnectionProofs`, any requests and clients), in three layers.

- `ResultsAlwaysStable` has no assumption. `HandleInv` says that what is waited for fits `state_`,
  and so that a ready connection gets no results while it gives some out.
- `HandleServesOne` (`SingleFlight`) has none either, and excludes no client: whatever is queued, pinged
  and asked in callbacks, nothing begins over a request that is on the handle. It says nothing of a ping
  that is in flight, which the next request does not wait for. `FlowInv` says where the one
  request is that a waiting client may have unanswered: queued, on the handle, or in the pending result
  slot, and in one of them only.
- `AnswersAlwaysOwnOnce` needs `PreparesReturn`: the callback of a prepare does not throw, since
  `dispatch_stmt_id_` would keep its value for the next answer. `OwnInv` says that the slots (pending error,
  pending statement, statement being dispatched) hold what became of that request, from the moment
  the operation ends until its callback has been called, however the callback itself uses the connection.

That assumption is about scripts, holds for the clients of the run, and is the note of a hazard.

*Only model-checked.* Liveness is out of the prover's reach. So is what the recursive operators of
the front end, the compilers, the reference evaluators, the tables, the pattern matcher, the codec and
the sifts of `HeapTimer` compute for every input: that needs induction over data. So do the messages of
`NetFraming` and the responses of `HttpLibrary` (`StreamsIntact`), whose definitions fold over the bytes.

*Mutants.* For every property of a passing run `PROJECT.json` names a plausible bug (an operator
next to the one it replaces, marked `Mutant`) that the property catches in that run.

## 8. Not modelled

- The lexer and the parser are generated automata, a pure function of the text. `c_runtime_cov.h` is
  a copy of the runtime header for coverage builds.
- io, os, process, sqlite, crypto and compression behave as the systems they wrap; data formats,
  random numbers and the container libraries are pure. Logging, its files and the command line are
  left out, and so are constant strings, a table that only grows.
- TLS, name resolution, HTTP header texts, socket options, the contents of rows and replies, the
  text and XML of archives, protobuf, `string.format`, `pack` and `unpack`.
- Calls that keep no share of the code they run (the host's `Call`, closures): `VmRegistry` knows
  calls by name only. A file that replaces every function of the file it is called from returns into
  released code; the hazard is listed.
- Closures of one engine that reach another (`Foreign`): no run states them. GCC code that calls a TCC
  closure it got from `load` has no boundary, and an interpreter closure called from TCC code makes a longjmp cross
  the `pcall` around it.
- Integers are unbounded except where they are words of `Width` bits (`VmOps`, `Builtins`,
  `Serialization`): sizes, ids (64 bits) and times stay far below their widths.

Disagreements that no line of the repository contradicts, or that only a precondition excludes, are
notes of the hazards in `PROJECT.json`: callbacks that throw in the MySQL and redis libraries,
requests dropped by `Close`, statements closed while they execute, timers lost with their batch.

## 9. Plan

Built, in this order: the State (2), the MySQL connection (5), timers (4), the language and tables
(3), the asynchronous and native libraries (6), and the proofs of section 7. Next: closures and host
calls in `VmRegistry`, protobuf, and log rotation.

## 10. Running

    tlc -workers 2 -config State.cfg MCState
    tlc -workers 2 -config Network.cfg MCAsync
    tlapm HeapAllocatorProofs.tla

and likewise for the other pairs that `PROJECT.json` lists under `runs`, and for `NativeTimerProofs`,
`StateHeapProofs`, `JitDispatchProofs`, `VmRegistryProofs`, `ConnectionProofs`, `NativeProofs` and
`MysqlConnectionProofs`. Each run ends within two or
three minutes. Deadlock is not checked in the runs of `MCAsync`: a script that has made its last call
and has been answered may stop.
