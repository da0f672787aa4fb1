# A TLA+ model of sqlite-ext-core

sqlite-ext-core is a header-only C and C++ library for SQLite extensions:
smart pointers, per-file and per-connection state, locks and threads, coroutines
with a scheduler and its pools, containers, values, and the classes that own
SQLite's handles and answer its callbacks.  This directory holds TLA+ modules of
its stateful parts, TLC configurations that check them on small instances, and
TLAPS proofs of what holds for every instance.

    tlc -workers 2 -config Shared.cfg MCShared               # a run
    tlapm CoroPoolProofs.tla                                 # a proof

`PROJECT.json` maps each definition to the lines it models, and lists the runs,
the mutant that shows each property can fail, the hazards and the theorems.

1. Inventory — 2. How the modules are built — 3. Modules and the code —
4. Runs — 5. Proofs — 6. Where code and documents differ — 7. Not modelled

## 1. Inventory

Paths are relative to `src/include/`.

| Component | State | Operations | Hard part | Correct means | Module |
|---|---|---|---|---|---|
| Coroutine pool, `async/sqlite3_coro_sched.h` | queue, `pending_tasks`, `is_running`, lock, two condition variables, workers | `pool_init`, worker loop, `spawn`, `yield`, `poll_one`, `wait`, `destroy` | locks given up while a body runs; tear-down under running bodies; sleeping and waking | a task belongs to one thread, counts are exact, `wait` waits for all, `destroy` ends and frees all, nobody starves | CoroPool |
| Process-wide pool, same file | mutex made on first use, pool pointer, count | `acquire_global`, `release_global`, `shutdown_global` | first use, failure after allocation, shutdown that ignores references | one live pool for all holders, none left behind | CoroGlobal |
| Extension pools, `async/sqlite3_coro_ext_pool.h` | list of tagged, counted pools, one lock | `acquire`, `release`, `wait`, `shutdown_all` | pools destroyed with the lock held | one pool per tag, no use after free, release comes back | ExtPool |
| Stackful coroutines, `async/sqlite3_coro.h(pp)` | stack, context, flags; each thread's pointer to the active one | create, resume, yield, destroy, moves | nesting, changing threads, destruction while suspended | control returns to the resumer | Coroutines |
| Threads, condition variables, `async/sqlite3_thread.h(pp)` | context block shared with the thread (Windows), handle | create, join, detach; wait, wait for, notify | detach racing the thread's end; time-out racing a notification | context freed once at most, true answers | Threads |
| Smart pointers, `sqlite3_smart_ptr.h` | control block with two atomic counts | make, clone, move, release, weak create/clone/lock/release | two-stage tear-down, `weak_lock` racing the last release | exact counts, one destructor, no resurrection | SharedPtr |
| Per-file state, `sqlite3_ext_state.h` | map from path to entry, atomic counts, registry mutex | `init`, `from_db`, destructor | count reaches zero outside the mutex | one state per file, freed once, after its last user | ExtState |
| Per-connection state, `sqlite3_conn_state.h` | map from connection to entry, counts, mutex | `init`, destructor, `remove` | `init` in two critical sections, failures | one state per connection, exact counts, no leak | ConnState |
| Hybrid state, functions: `sqlite3_hybrid_state.h(pp)`, `sqlite3_udf.hpp`, `sqlite3_aggregate.hpp` | a pair of references; user data; the aggregate in SQLite's context | init, define, drop, step, final | failure between two references; registration fails; final without step | each reference given up once, an object per group | SqlFunctions |
| Virtual tables, table-valued functions: `sqlite3_vtab.hpp`, `sqlite3_tvf.hpp`, `sqlite3_tvf_coro.hpp` | module data, tables, cursors, iterators, generators | register, connect, open, filter, next, close, disconnect | failures half way, filter on an open cursor, drop while in use | every block has an owner, rows in order | TableFunctions |
| Arguments of virtual tables, `sqlite3_vtab_arg.hpp` | the texts SQLite hands over; a schema of bound parameters | classify, take apart, find, declare, bind, parse, validate | quotes, parentheses and keywords in names and defaults | every argument is taken for what it is, and declared as it is | VTabArgs |
| Connections, statements, backup, blob: `sqlite3_db.hpp`, `sqlite3_stmt.hpp`, `sqlite3_backup.hpp`, `sqlite3_blob_stream.hpp` | a handle each | open, prepare, step, reset, move, close | order of destruction, leased statements | one owner, finished once, lease clean | DbHandles |
| Transaction guards, `sqlite3_transaction.hpp` | `m_active`; SQLite's transaction and savepoints | begin, savepoint, commit, rollback, release | nesting; stale idea of the connection | a guard undoes its scope, only the outermost commit persists | TransactionGuards |
| SQL runner, `sqlite3_sql_runner.hpp` | a script, a snapshot, a table of rows | `run_string` | errors and lack of memory half way | the verdict is that of the script | SqlRunner |
| Direct dispatch, `direct_dispatch_hub.hpp`, `direct_dispatch_context.hpp` | table of handlers, lock, context | register, erase, dispatch | handler called after the lock was released | honest answers, calls come back | DispatchHub |
| Hash maps and sets, `stl/duo_hash.h(pp)` | buckets, count, limits, settings | set, delete, extract, clear, filter, copy, move, resize | displacement, backward shift, growth and its failure | a function from keys to values; every probe ends | HashMap |
| Linear containers, `stl/duo_linear.h(pp)` | content in place or in the heap, or in a given buffer | push, insert, erase, resize, reserve, shrink, copy, move, swap; reading views | switch of place, gaps, failure | sequences; nothing outside the memory | Buffers |
| Bit containers, `stl/duo_bit.h(pp)` | words in place or in the heap | set, shift in, resize, count, find, combine, compare | bits behind the end in the last word | sequences of bits | Bits |
| Values, `sqlite3_value.hpp` | 24 bytes: a number, a short content, or an owned or borrowed pointer; flags | set, try_set, clone, move, detach, mark | who frees what; immutable values | one owner for every block | Values |
| Order and hash of values, same file | none | `<`, `==`, hash, of owned values and views | UUIDs in four forms, integers against doubles, NaN, pointers | a search tree and a table find what they hold | ValueOrder |
| Containers of values, `sqlite3_value_containers.hpp` | inline buffer or heap | push, insert, erase, resize, move | values moved as memory | no value lost or repeated | ValueVec |
| Tiny lock, `sqlite3_tiny_lock.h` | one word | lock, try_lock, unlock | sleeping on the word in WebAssembly | exclusion, no lost wake-up | TinyLock |
| Allocation, `stl/duo_alloc.hpp` | none | growth, tiers of stack buffers | | | in Buffers and ValueOrder |
| Entry points, hash functions, time; examples, tests, bundled SQLite | | | | | none |

How they interact.  SQLite calls functions, tables and destructors under a
connection's mutex; functions and tables hold references to states (ExtState,
ConnState, or a hybrid of both), which are freed through the registries' maps.
A table-valued function's cursor owns a generator, which owns a coroutine.  A pool
runs coroutines on threads with a mutex and two condition variables, and is
itself owned by the process-wide singleton or by the registry of extensions.
The containers are used by one thread or under their owner's lock, and hold
values, which own buffers.

The hazards of each component stand in `PROJECT.json`, each at its line.

## 2. How the modules are built

A component is a module, with its sets as CONSTANTS, one action per call,
critical section or atomic instruction, and its properties behind the actions.
Where it has a short promise there is an abstract module, and the component is
shown to implement it:

| Component | Promise | What it says |
|---|---|---|
| CoroPool | TaskPool | tasks are stepped in order, each in one place, none thrown away |
| SharedPtr | RefObject | an object lives while somebody points to it, and is destroyed once |
| ExtState | StatePerFile | users of a file share one state, disposed of when unused |
| Coroutines | Nesting | contexts are entered and left like calls |
| TinyLock | Mutex | one thread at a time |
| HashMap | FiniteMap | a finite function |
| Values | ValueStore | a call changes its own variable, and no buffer of the application |
| Buffers, ValueVec | Lists | a failing call changes nothing, the others what they say |
| Bits | Lists | the same for sequences of bits, combined bit by bit |

Components that are checked over the same kind of question share a module:
`Lifetimes`, `Data` and `Locks` instantiate them, and choose in the initial state
which one moves (`part`); the others stay where they start, so that the states add
up and do not multiply.  `Shared` extends CoroPool by SharedPtr, ExtState and ExtPool, which it
instantiates with the theorems about them, and `MCProgress` extends `Locks` by CoroPool;
`MCData` adds three parts that nothing is proved about to the three of `Data`.  A property of
such a module is the conjunction of what its parts promise, or that of one part under a name of
its own where the extended module has the plain one (in `Shared`, `Consistent` is CoroPool's,
`PointersConsistent` SharedPtr's and `StatesConsistent` ExtState's; in `MCProgress`,
`Consistent` and `NoLostWakeup` are TinyLock's, `WorkersWoken` is CoroPool's
`NoLostWakeup`).  A theorem about a composition rests on one
about each part: a behaviour of the whole, seen at the variables of one part, is a behaviour
of that part.  `MC*` modules also give TLC its values.

Every component has a type invariant, a conjunct of what its run checks.  A
definition under a comment "Mutant of X" is a plausible mistake in X, which the
specification does not use; `PROJECT.json` says which property it breaks.

A lack of memory is a choice made in the step that allocates, switched by a
constant (`MallocFails` and its like); the failure path is the code's.  Every
atomic instruction is one step, seen by all: memory orders weaker than
sequential consistency are not modelled.

The order of work was: the pool and its proofs; the smart pointers; the two
registries; the owners of pools; guards, hash map and lock; then coroutines,
threads, functions, tables and handles; then containers and values; then dispatch
and runner; then the proofs about the registries and the coroutines; the arguments of virtual
tables; and the proofs about the guards, the pools' owners, functions, handles,
threads, the hub, values, table-valued functions, the runner, the hash table with
its calls and its promise, and the containers of values with theirs.  The next to prove
about are Buffers and Bits.

## 3. Modules and the code

### CoroPool

A thread's place in the code is `pc`.  One action is one critical section of
`pool->lock` or one stretch of code outside it; a body is reduced to the steps
that the pool can see: spawn, yield, return.  `LockFree` is not a variable: no
critical section is left half way, but for `cond_wait`, which gives the lock
up.  The exception is the point `gowait` between a worker's test of the queue
and its sleep: `pool_init`'s failure path clears `is_running` and broadcasts
without the lock and can fall in between, so the test and the sleep are two
steps, and the lock is held by whoever stands there.  Threads on a condition
variable are those with `pc` "waiting" or "timedwait"; waking may be spurious,
and the timed wait of `pool_wait` may time out.

Fairness (`Fairness`, like that of every component a premise of the liveness properties in
`Shared` and `MCProgress`, whose specifications have none): weak for steps of a thread
outside the lock, strong for steps that take it (a mutex lets everybody in who keeps
trying, though not in order).  A body is not assumed to return: `BodiesReturn` is the
premise of `WaitReturns` alone, since waiting for a body that yields for ever is waiting
for ever.

### CoroGlobal and ExtPool

The two owners of pools, each reducing a pool to what its life depends on.  In
CoroGlobal the steps of a critical section are split, because the state and the mutex
are themselves made on first use, without protection: whoever comes first clears the one
(`Clear`, `Cleared`) and makes the other (`InitLock`, `SetFlag`), and a mutex that is made
again is free, whoever has it.  `raced` remembers that another connection came while there
was no mutex yet, in any order of these steps; `SharedSafe` is about behaviours without
that, and the run `pool_race` shows what the others do.  A pool is `unborn`, `live` or `freed`.

In ExtPool a pool is whether a body runs and whether that body is in a call of
the registry, blocked on its lock.  `wait` may be called by any connection, also one that
holds no pool; it takes no reference of its own, so the pool it waits for may be freed
under it, and whether such a wait ends is undefined.  What `PoolsSafe` promises of waits is
that a connection which holds a pool waits for a live one; the registry's mutex is there
from the start, how it is made is shown by CoroGlobal.  Fairness: threads go
on, and bodies end (strongly, as a body may call the registry again and again).
`DestroyReturns` assumes that from some moment on no body calls the registry,
because the lock is held while the workers are joined.  `PoolsSafe` collects what
must hold in every state.

### Coroutines

The state block: `ctx` (where a switch to it goes on), `callerCtx`, `isDone`,
`isRunning`, and for each thread `active`, the thread-local pointer, with `prev`
what the resuming call saved of it.  `current` is which context a thread executes,
the truth that `active` has to agree with.  `handle` is what each object of the
class owns, `closure` the function object.  A switch is one step.  An object may
live on the stack of a coroutine, and is destroyed with its scope (`Locals`).
`Resume` refuses what the code refuses, an object without a coroutine and one that is
done.  A coroutine that runs or waits may be resumed as well: the code does not look, the
model makes the step, notes it (`misused`) and stops there, since behind the switch two
threads of control are on one stack.  `FibersSafe` and `ImplementsNesting` hold of every
other step.  The destruction of a coroutine that runs or waits is left to callers who do
not do it (`AtRest`).

### Threads

The Windows context block with its result, the event and the detached flag:
the trampoline tests `is_detached`, frees or signals, and returns, each a step;
join and detach read what it wrote.  POSIX (`Windows` false) is the same without
the block.  The second half is the condition variable with `flag` for the
predicate: a waiter tests, sleeps, wakes (notified, by the clock, or by nothing),
takes the mutex, tests again and answers.  Fairness: who can go on outside the mutex
does; who keeps trying for it gets it; a deadline passes.

### SharedPtr

Every atomic instruction is an action, and so are the destructor call and
`sqlite3_free`; pointer variables belong to threads.  `weak_lock` reads the
count and then compares and swaps, with the value read in `seen`.

### ExtState and ConnState

Map and entries change under the registry mutex, each critical section an
action; the decrement is an action of its own, as it happens outside.  In ExtState
`Peek`/`Unpeek` is `from_db` without a context, and the statement's auxdata and the
functions' user data are `Holders`.  `MayDrop`, switched by the constant `Apart`, is
the assumption under which the double check works; see section 6.  `oom` remembers
that the map lacked memory once; `UsedIsRegistered`, `OneStatePerConnection` and the
refinement are promised only without that.

In ConnState `init`'s two critical sections, the allocation and `init_fn` between
them, and every failure are actions.  Two assumptions, both stated at the
definitions: SQLite calls the destructors of one connection's hooks under that
connection's mutex (`Unhurried`), and `remove()` is called by somebody who owns a
reference that nobody else will give up.

### SqlFunctions

A name is defined with no state, a per-file one, a per-connection one, or a
holder of both; SQLite destroys the user data of the definition it replaces,
refuses or drops.  `counts` are the registries' counts, `holders` the heap blocks of
hybrid states.  `stray` counts references that the C `hybrid_init` leaves behind,
one to each registry at most.  An aggregate's `group` goes from the first step, in
which SQLite's context may be lacking, to final, with the constructor's place in
between.

### TableFunctions

SQLite's callbacks in the orders it may call them in, for three kinds of modules:
a class of the application (`vtab`), an iterator (`tvf`), a generator (`coro`), on a
fiber or in a stackless coroutine.  `heap` counts the blocks of each sort, `refs`
the references to the modules' states, `lost` the sorts of blocks left behind.  A
row is its number, so that order and omissions show.

### VTabArgs

A text is a sequence of letters, and a keyword is one letter of an identifier: the
scans look at keywords as wholes and at their neighbours, which is all that case and
spelling could change.  `Stops` is the loop that all scans share: every position
outside quotes.  `argv` says what each argument means to SQL, as a structure; `Rendered`
writes it down as SQLite hands it over, and the properties compare what the code
reads in the text with the structure.  Comments, which SQLite leaves in the texts,
are not among the inputs.  The schema is bound and parsed by actions; all else is
reading, and is checked in the initial states.  What is bound beyond the last slot is
dropped by the code, and by `Bind`.

### DbHandles

Connections, statements, leases of cached statements, backups and blobs: what
each object owns (`holds`), what SQLite has open (`conn`, `thing`), and what a cached
statement was left with.  `sqlite3_close_v2` keeps a connection alive as long as
something is open on it.

### TransactionGuards

SQLite is modelled externally, as far as the guards use it: transaction state,
stack of savepoints, contents of the database now and as committed.  `start`
and `undone` in a guard's record are for the properties only.  Guards leave in
reverse order.  `MayEnter` says which names a program may give a savepoint: not that
of an active guard around it, nor that of a savepoint that was rolled back and left
behind outside that of an active guard (`Around`), since SQLite finds the latest
savepoint of a name.  The proof asked for the second half: without it a guard could
not be shown to end its own savepoint.  With `Starved` memory may be lacking: a BEGIN
fails and leaves an inactive guard, a name that cannot be copied leaves one without a name,
and a destructor that cannot make or run its ROLLBACK goes without it (`LeaveStranded`),
which nobody is told.  `RollbackUndoes` excepts that guard's own end, not the guards around it:
theirs undoes what inner ones could not.

### SqlRunner

A script is a sequence of marks (`-- %%` lines) and statements, each statement with the
comment behind it; `spaced` says of a mark, or of a `@snapshot`, that it has the blank.  The
code's `strstr` looks for the spelling with the blank first, anywhere behind, and for the
other one only where there is none: `NextMark` and `HasSnapshot` do the same, so that a mark may
be skipped, or stay in a cell as a comment (`SkipMark`).  `phase` walks `run_string`'s loops: a
cell, a statement, its rows, its snapshot.  `snapshot` and `actual` are the two tables with
their capacities; `ran` and `scarce` record for the property which statements ran and
whether memory was lacking.  A row of a snapshot or of a result that lacks memory is dropped
without notice.  A query whose step fails ends as if its rows were over.

What a script should do is defined apart from the runner: `Statements`, in order, up to the
first that is not `Good`.  `RunnerHonest` compares the verdict with that, for scripts of one
spelling, and with what the code lets pass besides (`Overlooked`).  The runs `runner_marks`
and `runner_fails` show these two.

### DispatchHub

The table under its spinlock; `stack` is a caller's nested calls, each with its context, a
handler runs between `Call` and `Return`, and while it does the table may change.
`honest` records that each answer was right.  `ContextsMatch`: the contexts alive are
those of the calls that brought one, in their order, and a call without one speaks to the
context of the call around it.

### HashMap

The table is a function from indices to buckets, and each loop over it a recursive
function of the rounds made (`Insertion`, `Rehashed`, `Copied`).  `kind` says which of the
implementations: C or C++, map or set.  `broken` is "holes" after a filter that could not
rebuild its table, "stuck" after a resize that never ends; only `clear` works on a map
with holes. The calls whose names end in Item are those of the sets, which keep keys
alone.

### Buffers, Bits and ValueVec

Memory is a sequence of cells, with a cell written past the end making it longer,
so that an overrun shows in its length; cells behind the content are `Junk`, or in
Bits what the last word keeps there.  The in-place and the heap form, the doubling
(in three tiers) and the failures are the code's; sizes are small constants in
place of 24, 256 and so on.  ValueVec counts values constructed and not destroyed,
as the code moves them byte by byte.

### Values and ValueOrder

A value is in place, or points to a block that it owns, borrows, or has been given
with a destructor; blocks are used again after free, so that a stale pointer meets a
new owner.  ValueOrder translates comparison and hashing, over a set that asks only
`<` and a table that asks only hash and `==`.  The table is a bag, as a value that is not
equal to itself is in it twice.  The samples (`MCData`) are chosen for the distinctions
that `<`, `==` and the hash make: integers at the edge of a double and the doubles beside
them, both zeros, two NaNs of different bits, NULL and three pointers, an empty text, text and
blob of the same bytes, UUIDs in place and spelled in each way that changes the bytes, a plain
blob and a plain text with a UUID's bytes, and a blob that is called a UUID and has another
length.  Where `==` and the hash disagree the pair is named (`Clash`): two NaNs of different
bits, and a plain blob or text beside a UUID of the same bytes.  `NoTwins` excepts these pairs and `SameKeys` the
keys that have one among the others; `value_nan` and `value_hash` show them.

### TinyLock

Compare-and-swap, the read or the wait, the store and the notification are one
step each.  `Wasm` selects the build; the run checks the one where threads
sleep, and the theorems are about both.  Fairness: threads go on, and a holder
unlocks; of threads that contend for a free word some one succeeds in the end.

## 4. Runs

| Run | Instance | Shows |
|---|---|---|
| `shared` | four components, below | exact counts, one owner of every task, no use after free, refinement of TaskPool, RefObject and StatePerFile; memory is reclaimed, release and shutdown come back |
| `progress` | four components, below | no lost wake-up, exclusion, true answers; waits, destroy, every queued task, dispatches get on |
| `lifetimes` | ten components, below | nothing used after it was freed, nothing left behind, guards, coroutines, verdicts and declarations as promised |
| `data` | six data structures, below | inside their memory, owners of what they free, refinement of FiniteMap, ValueStore and Lists |
| `ext_race` | ExtState, 2 connections to one file, 4 functions, 2 statements, not `Apart` | a violation: section 6 |
| `pool_race` | CoroGlobal, 2 connections, 2 pools | a violation: section 6 |
| `cursor_leak` | one generator module, table and cursor, 2 rows | a violation: section 6 |
| `runner_marks`, `runner_fails` | the scripts of `lifetimes`, memory enough | violations: section 6 |
| `hash_resize` | 4 keys, `rehash` to 4 buckets | a violation: section 6 |
| `value_hash` | UUIDs of ValueOrder | a violation: section 6 |
| `value_nan` | the two NaNs of ValueOrder | a violation: section 6 |

The parts of `shared`:

| Part | Instance | Properties |
|---|---|---|
| SharedPtr | 2 threads, 3 shared and 3 weak variables, 2 blocks | `PointersConsistent`, `NoDangling`, `ImplementsRefObject`, `BlocksReclaimed` |
| ExtState | 3 connections to 2 files, 3 functions, 1 statement, 3 entries, `Apart` | `StatesConsistent`, `NoUseAfterFree`, `ImplementsStatePerFile`, `StatesReclaimed` |
| ExtPool | 3 connections, 2 tags, 3 nodes | `PoolsSafe`, `RegistryReturns` |
| CoroPool | 3 workers, 2 clients (one polls), 3 tasks, creation may fail | `Consistent`, `DestroyFreesAll`, `WaitReturnsDrained`, `ImplementsTaskPool` |

The parts of `progress`:

| Part | Instance | Properties |
|---|---|---|
| CoroPool | 2 workers, 1 client, 3 tasks, nobody polls | `WorkersWoken`, `WaitsComeBack`, `DestroyComesBack`, `EverybodyHasTurns` |
| TinyLock | 4 threads, the WebAssembly build | `Consistent`, `NoLostWakeup`, `ImplementsMutex`, `EverybodyGoesOn` |
| condition variable of Threads | 3 waiters | `AnswersTrue`, `EverybodyGoesOn` |
| DispatchHub | 1 caller that calls two deep, 2 names, 1 handler, while others change the table | `AnswersTrue`, `EverybodyGoesOn` |

The parts of `lifetimes`, with the property each one is under:

| Part | Instance | Property |
|---|---|---|
| ConnState | 2 threads, 2 connections, 4 hooks, 3 entries | `StatesSafe` |
| TransactionGuards | 3 guards, 3 savepoints, 2 names, 1 row, lack of memory | `GuardsSafe`, `AllImplement` |
| Coroutines | 2 threads, 3 coroutines, 2 objects | `CoroutinesSafe`, `AllImplement` |
| CoroGlobal | 3 connections, 3 pools | `CoroutinesSafe` |
| TableFunctions | 2 modules of 3 kinds, 2 tables, 1 cursor, 2 rows | `TablesSafe` |
| VTabArgs | 298 columns alone, 9 arguments three at a time with a parameter in their middle or not, 9 parameters before one of 3, 2 slots | `ArgumentsSafe` |
| SqlFunctions | 2 names, 1 group, 2 rows | `FunctionsSafe` |
| DbHandles | 2 connections, 2 things, 2 objects of class database, statement and lease, a backup, a blob | `HandlesSafe` |
| Threads | 2 threads, 2 objects, Windows | `HandlesSafe` |
| SqlRunner | scripts of up to 3 cells, in both spellings of marks and snapshots, from 10 statements | `RunnerSafe` |

The parts of `data`:

| Part | Instance | Property |
|---|---|---|
| HashMap | 4 keys that crowd at the end, 2 values, 4 to 16 buckets | `TableConsistent`, `TableCallsExact`, `AllImplement` |
| Values | 2 variables, 3 blocks, a number, a short and two long contents | `ValuesConsistent`, `AllImplement` |
| ValueOrder | 25 samples, up to 3 in a set | `SetsWork` |
| Buffers | 8 kinds, 2 objects, 2 elements, in place up to 2, length up to 3 | `BuffersConsistent`, `AllImplement` |
| Bits | 3 kinds, 2 objects, words of 2 bits, up to 4 bits | `BitsConsistent`, `AllImplement` |
| ValueVec | 4 kinds, 2 objects, in place up to 2, length up to 3 | `RowsConsistent`, `AllImplement` |

Bounds and why they suffice.  Threads: the races are between two actors, the
third one is the by-stander or the newcomer; TinyLock's fourth can overtake
while one notifies, one wakes and one sleeps.  Tasks: three give a queue with a
middle.  Entries, blocks, nodes and pools are used once and never again, so
that a stale pointer to a freed one cannot pass for a new one (in Values, where
reuse is the danger, they are used again); two or three generations are enough for
an old and a new one to meet.  Savepoints: each guard may leave one behind, which a
later guard of that or of another name stands on.  Arguments: a scan misreads an
argument alone, by its own text, or next to a neighbour; three columns and
constraints have one that is neither first nor last.  Hash
tables: `MinCap` is 4 and `ShrinkAt` 25 instead of 16 and 10, so that four keys make
a table grow twice and shrink back; their hashes crowd at the end of the table,
where displacement and shift go round; `MaxSize` caps growth, `Sizes` of the passing
run are not below the number of keys, and `Factors` gives one load factor beside the
default.  Containers: a length of three with an in-place size of two passes through
in place, heap, growth and back; a word of two bits has bits behind the end for
every odd length.  Coroutines: three nest two deep on one thread while the other
thread has one.  Numbers of calls are not bounded anywhere else.

Symmetry is used in `lifetimes` and in the runs of `MCData`, where the
constants permuted are interchangeable, and in no run with a liveness property.  No run asks
for the absence of deadlock as such, since every instance may stop rightly: entries, blocks,
pools and tasks are used up, a failed start-up of a pool hangs, as section 6 says, and so
does a body that calls the registry which destroys its pool; a waiter's predicate may stay
false, and a resumed coroutine that runs ends the model.  That nobody waits for
everybody else is what the liveness properties say, each under its fairness.

## 5. Proofs

For any number of threads, tasks, variables, blocks, connections, files and hooks:

* `CoroPoolProofs` — type correctness, `OneOwner`, `PendingExact` (together
  `Consistent`), `DestroyFreesAll`, `WaitReturnsDrained`, the refinement of
  TaskPool, and, without polling clients and creation failures, `NoLostWakeup` (`WorkersWoken`
  of `progress`).
  `PendingExact` is not inductive: a step that counts a task out must know that
  it is still counted and that nobody else will count it.  The invariant adds
  `QueueInv` (what is queued is ready, once), `CurInv` and `HeldInv` (each held
  task has one thread, and each thread at its points the right task), `SpawnInv`
  (the same for tasks being created) and `PhaseInv` (what has stopped when).
  `WakeInv` and `RunInv` are further invariants for the wake-up theorem and the
  refinement.  Behind them stand the theorems about `Shared`: each of its behaviours is one of
  every part (`SharedParts`), and so what the next three modules prove of a part
  holds in the composition, under the names of the run.
* `SharedPtrProofs` — type correctness, exact counts, no dangling pointer, one
  destructor, nothing forgotten (`Consistent` and `NoDangling`), an expired
  object stays expired, and the refinement of RefObject.  The invariant adds
  `Stages`: at most one thread is in the tear-down of a block, and only when the
  count that sends it there is zero.
* `ExtStateProofs` — under `Apart`: exact counts and a map that agrees
  (`Consistent`), `NoUseAfterFree`, and the refinement of StatePerFile.  Counts are
  not enough: the invariant adds `AtWork` (nobody but one thread frees an entry),
  `InMap` (an entry being destroyed has no users and is not found any more) and
  `LiveInMap` (while the map has memory a live entry is in it until it is
  destroyed).  `Apart` is needed: `ext_race` refutes the theorem without it.
* `ConnStateProofs` — exact counts and a map that agrees, `NoUseAfterFree`,
  `OneStatePerConnection`, `NothingLeaks`, lack of memory included.  The invariant
  adds `Fresh` (an entry that is not published is its maker's alone), `Leaving`
  (references are given up by one thread at a time, and what will be freed has none
  and is not in the map), `Findable` (what still has a connection is found there),
  and `Kept` (what has no reference has a thread that will look at it again).  The
  last one is why the second look may return without freeing: whoever joined then
  has a reference.
* `ExtPoolProofs` — `PoolsSafe`: exact counts, one pool for each tag, no pool used
  after it was destroyed (but by a wait without a reference), nothing left behind,
  shut-downs included.  The counts and
  the list are not inductive: a release that destroys must know that nobody else can
  reach its node.  The invariant adds `Locked` (who destroys has the lock), `Standing`
  (what each connection has in hand where it stands: a node being joined is live, is
  in no list and has no holder), `Registered` (a node is in the list once, and while
  nothing is shut down each one in it is live and held) and `Running`.
* `LifetimesProofs` — of the parts of Lifetimes:
  * Coroutines: the pointers to the active coroutine, the chain of callers, the flags
    and the owners agree (`Consistent`), and Coroutines implements Nesting.
    `Consistent` is inductive as long as no running coroutine is resumed (`Sound`); the
    proof splits it into what a switch and what an object may change (`Switched`, `Owned`).
  * CoroGlobal: `SharedSafe`.  The invariant is kept by every step but the one that sets
    `raced`, after which nothing but the types is promised (`SharedKept`).  It says where
    the only connection on its way stands while there is no mutex (`MutexMade`), who is
    inside (`MutexHeld`), and that a live pool is the registered one, and outside the mutex
    somebody has it (`PoolKept`).
  * TransactionGuards: `Consistent`, `NotLeftOpen`, and both action properties.  The
    invariant says what each nested active guard stands for (`Stands`): the
    transaction, or the latest savepoint of its name, with the contents that it began
    with; and that no active guard inside it has a name that SQLite would find at or
    below its savepoint (`Held`).  That is what `Around` in `MayEnter` keeps up.  A guard that
    goes without its ROLLBACK leaves a transaction that no active guard will end, and `Begun`
    says when that may be (`stranded`).
  * Threads: `ThreadsSafe`.  The invariant says for each thread, wherever it stands
    and whatever became of its object, which of the two gives the context back
    (`ThreadKept`), and that an object holds a thread alone (`ThreadsHeld`).
  * DbHandles: `HandlesSafe`.  The invariant says of an object that what it holds is
    open and of its class (`Proper`), of connections and things that they have an
    owner, and of a leased statement that it is on the shelf (`Shelved`).
  * SqlFunctions: `FunctionsSafe`.  The invariant counts the references of the
    definitions and what the C holder left (`StatesCounted`), and ties an aggregate's
    fields to the rows its group has seen.
  * TableFunctions: `TablesSafe`.  A step knows the blocks of one table or cursor, the
    property counts them all: the invariant says which blocks each table and each cursor
    has (`BlocksOfTable`, `BlocksOfCursor`), that its module is registered with the
    state it was connected with (`StatesStay`) and that its source is one of its module's
    kind (`CursorsFit`), and counts by sort (`HeapOwned`).  `RowsKept` ties the row of a
    scan to where its source stands.  The order of rows is proved for generators on
    fibers (`FibersOnly`); a stackless one is not at its first row after `xFilter`
    (section 6), and what else the property says is proved for it too (`TablesOwned`).
  * SqlRunner: `RunnerSafe`, from what a script is (`ScriptsAssumption`).  The invariant
    says what each loop has behind it at each of its steps: which statements ran, that
    they are the ones between the first cell (`FirstCell`) and the place where the parser
    stands (`Passed`), and what `all_ok` and the row of a snapshot say of them; where all
    marks are spelled alike, that no mark within a cell was overlooked (`NoMarks`).

  `LivesParts` carries these over: `GuardsAlwaysSafe`, `CoroutinesAlwaysSafe`,
  `FunctionStatesSafe`, `OwnersAlwaysSafe`, `ScansAlwaysSafe` and `LivesImplement` are about the
  specification and the properties of the run `lifetimes`, as are `StatesAlwaysSafe` in
  `ConnStateProofs` and the theorems of the other modules about those of their runs.
* `LocksProofs` — TinyLock: consistency, no lost wake-up and the refinement of Mutex,
  in both builds.  `AnswersAlwaysTrue`: of the condition variable, that who tests has
  the mutex and answers what it saw; of the hub, for calls nested to any depth, that
  each answer is right.  For the hub the invariant is about the caller's stack as a
  chain (`Linked`): each call reports in its own new context or in that of the call
  around it, the contexts are made in the order of the calls, and what stands in one is
  what the innermost call of this context said, who found there what the outer one had.
* `DataProofs` — Values: `ValuesConsistent`, and the refinement of ValueStore.  The
  invariant adds that two variables share no block of their own (`Unshared`), that
  every block in use has an owner (`Kept`), and that the application's blocks stay as
  long as they are borrowed (`InBlocks`, `MineThere`); the refinement needs of each call
  which blocks it frees and fills, since blocks are used again.
* `DataProofs` — HashMap: `TableConsistent`, `TableCallsExact`, and the refinement of
  FiniteMap.  The invariant (`HashInv`) is Robin Hood
  order (`Robin`: every entry as far from home as it says, none more than one further
  than its neighbour, no key twice), a bucket left empty (`Roomy`), and the count and
  limits that fit.  From the order follows that a probe finds what is there and ends
  where the entry would have stood.  Insertion is followed round by round with an entry
  in hand (`Going`); rehashing, copying, shifting back and filtering each by what becomes
  of the set of pairs (`Pairs`).  The one hypothesis, `RoomAsked`, is that the
  application asks for no size below the number of its entries: section 6 shows what
  else happens.  `RoomForAll`, a condition on the constants, suffices for it.
  The invariant's proof says of each action what becomes of the pairs of keys and
  values (`Follows`: fewer, or one key gets a value); a table without doubles represents
  a function (`Represents`), and so each step is one of FiniteMap or none.  That the
  calls are exact needs no more of the state than the invariant: a walk has always visited, in
  order, the used buckets below the one where it goes on (`Walking`), and two sets of equal
  size are equal when one is contained in the other (`ItemsCompared`).
* `DataProofs` — ValueVec: `RowsConsistent`.  The invariant (`RowsInv`) says that each
  container is one of two things for its content: in place, with the values first and
  zero bytes behind them, or in the heap, with a room that is at least the length and
  the capacity that the code keeps of it (`Form`); and that `owned` is the number of pairs of a
  container and a place where a value that owns memory stands (`Alive`, over all
  containers together).  A size, push or copy is shown to lead from a form of one
  content to a form of the next; the loops of `insert` and `erase` move
  values one by one, and of every prefix of the loop is shown what stands where and that
  the living and the dead together are as many as before.  `RowsAssumption` asks
  that no capacity wraps at the 16 bits that the code keeps (`2 * MaxLen < CapLimit`):
  SQLite allows 32767 columns, and section 6 says what happens beyond.
* `DataProofs` — ValueVec implements Lists (`RowsImplementLists`): each lemma about a call
  also says what the call makes of the content (`Turned`), and that this is one of the steps
  of Lists (`RowsFollow`): an insertion, an erasure, equal values behind, a row made anew.
  The contents stay within `MaxLen` (`RowsShort`), for which `MaxLen` has to be at least 3,
  because the model projects to three columns.

Assumptions on the constants are sets of threads, tasks, hooks and connections that are
finite, disjointness, null values that are no members, contexts that are distinct.  Those of
CoroPool, ConnState, Lifetimes and Data are `ASSUME`s, named; those of SharedPtr, ExtState,
ExtPool and Locks are hypotheses of their theorems (`PointersAssumption`, `StatesAssumption`,
`RegistryAssumption`, `WaitAssumption`), which `MCShared` (as `PartsAssumption`) and
`MCProgress` `ASSUME` of the instances.  TLC evaluates them all.  The theorems of `LifetimesProofs` about one part name
what they need of it (`ContextsApart`, `SharedAssumption` and so on, together
`LivesAssumption`).  One hypothesis is about the environment: `Apart`, for ExtState.

Only model-checked: all liveness under fairness, which the prover cannot treat;
`ArgumentsSafe`, which is recursion over texts; and of the data structures
`SetsWork`, `BuffersConsistent`, `BitsConsistent`, and the parts of Buffers and Bits
in `AllImplement`.  The prover takes no induction theorem
that has an operator for a parameter, but induction over the numbers can be had from a
set (`Induct`: a set that has 0, and n + 1 with n, has all numbers), and so the loops
of HashMap, SqlRunner and ValueVec, which are recursive functions of numbers, are proved
about.  A `RECURSIVE` operator, as the parser of VTabArgs needs, is out of reach, and the
folds of Buffers and Bits would have to be rewritten first.

## 6. Where code and documents differ

With a run:

* `ext_race` — `entry_release` decrements outside the mutex
  (`sqlite3_ext_state.h:301`), `entry_free` checks only for zero (266).  An entry
  found and given up again in between is freed by two threads.
  `docs/EXT_STATE_ARCHITECTURE.md:90` says the second look prevents it.
* `pool_race` — the first `acquire_global` clears the static state and makes its mutex
  without protection (`async/sqlite3_coro_sched.h:550-552,571-574`).  Of two first acquires the
  slower one makes the mutex again while the faster one is inside; both allocate a pool, and
  one of them is forgotten.  The comment at 532 promises that connections share it;
  `docs/CORO_SCHED_ARCHITECTURE.md:281` promises zero race hazards of the C++ class, which makes
  its state in the same way (`async/sqlite3_coro_sched.hpp:350-359`).
* `runner_marks` — `strstr` looks for `-- %%` first, anywhere behind, and for `--%%` only where
  there is none (`sqlite3_sql_runner.hpp:406-407,437-438`): in a script with both a cell is
  skipped and the verdict is still true.  `docs/SQL_RUNNER_ARCHITECTURE.md:71` offers both.
* `runner_fails` — a query whose step fails midway passes for one that has ended
  (`sqlite3_sql_runner.hpp:520-538`), and the verdict is true where the rows before it match;
  the comment at 378 says that true means all statements were executed successfully.
* `value_nan` — two NaNs of different bits are equal (`sqlite3_value.hpp:3549`) and hash
  differently (3509-3511; views at 826-830), so that a set takes both; the comment at 862
  makes them equal "for map key stability".
* `value_hash` — a view and an owned value of one UUID are equal and hash
  differently (`sqlite3_value.hpp:810`), so a lookup by view misses.
* `hash_resize` — `rehash` and `reserve` accept a size below the number of
  entries (`stl/duo_hash.hpp:733`): insertion goes round for ever, or the table is
  left full.
* `cursor_leak` — a generator that is closed before its end leaves its function
  object, and what lives on its stack, behind (`async/sqlite3_coro.hpp:283`);
  `docs/TVF_CORO_ARCHITECTURE.md:104` and `docs/COROUTINE_ARCHITECTURE.md:154` say
  otherwise.

Seen while modelling, without a run.  Where a model shows the behaviour, its
property excepts it by name; where a model leaves it out, this is said.

Pools:

* `poll_one` puts a task back without waking a worker
  (`async/sqlite3_coro_sched.h:430`), so `pool_wait` may hang.  `progress`
  has no polling client; with one, `WaitReturns` and `WorkersWoken` fail.
* `pool_init`, when a thread cannot be created, clears `is_running` without the
  lock (291) and may hang in its join.  With `CreateMayFail`, `WorkersWoken`
  fails.
* The registry of extension pools makes its mutex as unprotectedly
  (`async/sqlite3_coro_ext_pool.h:110-113`) as `acquire_global`; its model begins when the mutex
  exists.  The C++ `acquire_global` counts a caller that got no scheduler
  (`async/sqlite3_coro_sched.hpp:378`); the model is the C function.
* `wait` of that registry waits for a pool without a reference to it
  (`async/sqlite3_coro_ext_pool.h:257`): a release or a shutdown may free it meanwhile,
  and whether the wait then ends is undefined.  `NoUseAfterFree` in `PoolsSafe` speaks of
  waiters that hold the pool.
* The extension registry destroys pools with its lock held
  (`async/sqlite3_coro_ext_pool.h:221`; `docs/CORO_EXT_POOL_ARCHITECTURE.md:93`
  says otherwise): a body that calls the registry then deadlocks.

Coroutines, threads, dispatch:

* Resuming a coroutine that runs or waits is not refused (`async/sqlite3_coro.h:500-503`),
  though the comment at 498 promises `SQLITE_MISUSE` for one that is running; the model
  makes the step, and nothing is promised behind it (`misused`).  Nor is the destruction of
  one tested for; the model's callers do not.
* On Windows a thread that is detached after the trampoline's test of
  `is_detached` leaves its context behind, and the event of a detached thread is
  never closed (`async/sqlite3_thread.h:366-379,501-519`): `ContextsOwned` allows
  for the former.
* A generator whose fiber lacks memory gives an empty table and `SQLITE_OK`
  (`sqlite3_tvf_coro.hpp:307-321`).  A stackless one is not started by `xFilter`
  (`docs/TVF_CORO_ARCHITECTURE.md:18` says that it is), and its `value()` would
  dereference null (629-631).  Its `args` point to SQLite's `argv` after `xFilter`
  has returned.
* A handler name that lacks memory for its key passes for the empty name; a dispatch with
  a context that already has an error answers false when the handler says nothing, which
  `Succeeds` takes for right though the comment at `direct_dispatch_hub.hpp:294` speaks of
  this execution; `result_error_code` leaves an earlier message.

States and functions:

* `entry_alloc` and `init` ignore that the map could not take a key
  (`sqlite3_ext_state.h:336`, `sqlite3_conn_state.h:241`): the state is handed out
  unregistered, and a second one is made.  Its release then clears the slot of the
  second one (`sqlite3_conn_state.h:140`).
* `remove()` drops a reference it never took (`sqlite3_conn_state.h:195`).
* The C `hybrid_init` gives up neither reference when it lacks memory for the
  holder (`sqlite3_hybrid_state.h:61`): `stray` in SqlFunctions.
* A virtual table whose `connect()` reports an error and hands over an instance
  leaves it behind (`sqlite3_vtab.hpp:411-435`): `lost` in TableFunctions.

Arguments of virtual tables (`sqlite3_vtab_arg.hpp`):

* INT is looked for in the whole definition (551), so that `code TEXT CONSTRAINT pk
  PRIMARY KEY` is an integer column and passes for the rowid (593), where the
  comment above says "declared as INTEGER PRIMARY KEY"; any type that holds INT does,
  where SQLite takes INTEGER alone.
* Keywords count inside parentheses (`DEFAULT (CAST(a AS INT))` is a generated column,
  563), and an identifier that ends in AS before a parenthesis passes for a generated
  expression (613).
* PRIMARY KEY and FOREIGN KEY of a table constraint, and NOT NULL before a missing
  type, must have exactly one blank (727,943), those of a column need not: `PRIMARY  KEY
  (a)` becomes a column called PRIMARY.  Table constraints in the model have one.
* WITHOUT ROWID anywhere in an argument without quotes makes it an option (998), and a
  column or parameter before it is lost.  A key in quotes with a blank makes a
  parameter a column (1015).  A default in double quotes ends at its first blank (689).
* `data_type()` never ends at a comma or a closing parenthesis outside all others
  (742-757), which a comment in the definition can have.
* Of two parameters of one name `find_param` takes the first and `parse` the last; an
  unknown text of an enumeration becomes -1 in `parse` (1793-1806), the default in
  `get_enum`.  The 17th binding is dropped, and its parameter reported as unknown (1659).

Handles:

* `prepare()` and `finalize()`, inherited by `SqliteCachedStatement`, finalize
  the cache's statement; `is_open()` is true after a failed open.
* A savepoint without a transaction around it, rolled back, leaves the transaction it
  opened open (`sqlite3_transaction.hpp:165,181`): `NotLeftOpen` speaks of transactions
  begun by a guard only.  A destructor without memory for its ROLLBACK TO, or for its
  ROLLBACK, goes without (181-184), and nobody learns it: `stranded`.  Savepoints of equal
  name shadow each other.  After a statement that makes SQLite roll back, guards stay
  active and later statements are committed one by one: `Nested` leaves such guards out.
* A `-- @snapshot: skip` later in a cell switches off the comparisons before it
  (`sqlite3_sql_runner.hpp:280`), and a snapshot spelled with the blank behind a later
  statement is found instead of a statement's own without it (286-287): `Overlooked`,
  `HasSnapshot`.  Only the columns that both rows have are compared (551).  Text before the
  first mark is not run if there is a mark, nor is a mark on the line behind a cell's title
  seen: `CellMark`, `FindCell`.

Hash tables:

* `filter` ignores that its rebuild failed (`stl/duo_hash.h:933`), though it is
  called atomic (860-866); C maps forget their load factor when resized (436); the
  C++ `oom` flag is never reset (`stl/duo_hash.hpp:773`).
* A copy that lacks memory is a part of the original, or of another load factor,
  and nobody is told; `operator[]` then dereferences null; settings of an object
  without a table are ignored.  A key or value that lives in the same table dangles
  when the insertion makes it grow.

Linear and bit containers:

* `append`, `+=` and `insert` of a text from inside the same string
  (`stl/duo_linear.h:2550`) read freed memory when it grows; assigning a string to a
  view of itself clears it first.
* `with_stack_vector`, `with_stack_bytes` and `with_stack_bitvec` give their
  function a container without memory when the heap has none
  (`stl/duo_linear.hpp:3774,3834`, `stl/duo_bit.hpp:1501`); the heap form of the first
  destroys its elements twice (3774-3776).
* `shrink_to_fit` of a string answers true when the reallocation failed; a copy
  assignment that lacks memory leaves an empty container; `append(count, ch)` is done
  in part.
* The hash of two equal bit vectors differs when one was cleared in the heap
  (`stl/duo_bit.h:431-437`), and OR with a shorter one changes what lies behind it in
  the last common word (352-359).

Values:

* A plain blob or text equals the UUID of the same bytes but hashes differently when
  owned: `Clash`.  An empty text view hashes to the seed; views of pointers all hash to the
  seed; a UUID-subtyped blob of another length is not equal
  to itself, so that a set takes it twice: `NoTwins` excepts it.
* The capacity of a heap `SqliteValueVec` wraps at 16 bits
  (`sqlite3_value_containers.hpp:1440`); its operations without `try_` write through
  null when they lack memory; the hash of a vector of one element depends on where it
  is kept (1853-1866); immutable elements break `insert` and `erase`; and `clear()` frees the
  heap buffer, where the comments at 1484-1492 and 2074-2081 promise that the capacity is kept.

## 7. Not modelled

* Extension entry points are macros without state; hash functions and time are
  arithmetic; examples, tests, documents and the bundled SQLite use the library or are
  used by it.  SQLite is modelled where the library's behaviour depends on it.
* Text processing and conversion: number parsing and formatting, typed accessors of values
  and rows, the output of the script runner.
* Methods that forward: hooks and function contexts, blob reads and writes, updates
  and transactions of virtual tables, lock wrappers other than the tiny lock.
* Views, iterators and spans of the containers, beyond the reading operations of
  texts.
* Bodies that call `poll_one` or `wait` on their own pool, or the C++ scheduler's
  closures; `UniquePtr`, which has one owner; the application's `init_fn` and
  `free_fn`, also one that initialises a second state type under the same static
  mutex (`sqlite3_ext_state.h:323`); a null from `set_auxdata` (431).
* The distance from home that a bucket keeps in 16 bits (`stl/duo_hash.h:51`) is a number
  without width in HashMap: it wraps only in tables of more than 65535 buckets with as long a
  run.  `duo_bit_equal` (`stl/duo_bit.h:388`), which compares the last word without a
  mask, is left out.
* C++ twins that run the steps of a C function are modelled once, where the C++
  differs the module has a kind for it.
