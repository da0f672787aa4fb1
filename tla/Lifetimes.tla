----------------------------- MODULE Lifetimes ------------------------------
(***************************************************************************)
(* What lives and dies with a connection: a behaviour is one of ConnState, *)
(* TransactionGuards, Coroutines, CoroGlobal, TableFunctions, VTabArgs,    *)
(* SqlFunctions, DbHandles, Threads or SqlRunner, as "part" says, and      *)
(* nothing happens to the others.                                          *)
(***************************************************************************)
EXTENDS ConnState

CONSTANTS
  Rows, Names, MaxGuards, MaxSavepoints,     \* TransactionGuards
  Coros, Scopes, MainOf,                     \* Coroutines, on the threads of ConnState
  Conns, Pools,                              \* CoroGlobal
  Kinds, Generators, Modules, VTabs, Cursors, MaxRows,   \* TableFunctions
  FnNames, Groups,                           \* SqlFunctions
  Databases, Things, Owners, ClassOf,        \* DbHandles
  Workers, Objects, Windows,                 \* Threads
  Scripts, Required, FirstRoom,              \* SqlRunner
  Argvs, Keys, Options, MaxParams            \* VTabArgs

VARIABLES part,
  guards, tx, savepoints, data, committed, stranded,
  block, closure, isDone, isRunning, ctx, callerCtx, active, prev, current, handle, scope, misused,
  module, named, refs, table, cursor, heap, lost,
  function, counts, holders, stray, group, instances, result,
  conn, thing, holds, loose, cached,
  initialized, lock_initialized, locked, pool, ref_count, pools, has, stands, raced,
  os, context, event, system, detached, retval, callable, joins, joined, flag, mutex, place, answers,
  script, at, end, phase, stepped, snapshot, actual, all_ok, ran, scarce,
  argv, slots, matched

Guards == INSTANCE TransactionGuards WITH Starved <- MallocFails

Fibers == INSTANCE Coroutines WITH Handles <- Scopes, LacksStack <- MallocFails, mem <- block

Shared == INSTANCE CoroGlobal WITH mem <- pools, pc <- stands

Tables == INSTANCE TableFunctions WITH Tables <- VTabs, Null <- None, Starved <- MallocFails

Functions == INSTANCE SqlFunctions WITH
  Names <- FnNames, Null <- None, Starved <- MallocFails, refs <- counts

Handles == INSTANCE DbHandles WITH Null <- None, MayFail <- MallocFails

Crew == INSTANCE Threads WITH
  Waiters <- {}, Null <- None, CreateFails <- MallocFails, holds <- joins

Runner == INSTANCE SqlRunner WITH Null <- None, Scanty <- MallocFails

Arguments == INSTANCE VTabArgs

\* What the theorems assume of each part.  Coroutines: each thread starts in a context of its
\* own, which is no coroutine's, and null is neither.
ContextsApart ==
  /\ Coros \cap Fibers!Mains = {} /\ None \notin Fibers!Contexts
  /\ \A s, t \in Threads : MainOf[s] = MainOf[t] => s = t

SharedAssumption == IsFiniteSet(Conns) /\ None \notin Pools

GuardsAssumption == None \notin Names /\ MaxGuards \in Nat

CrewAssumption == None \notin Workers /\ Windows \in BOOLEAN

ThingRecord ==
  [class : {"statement", "backup", "blob"}, db : Databases, bound : BOOLEAN, at : {"ready", "row", "ended"}]

OwningAssumption ==
  /\ ClassOf \in [Owners -> {"database", "statement", "lease", "backup", "blob"}]
  /\ Databases \cap Things = {} /\ None \notin Databases \cup Things \cup ThingRecord

DataRecord == [held : SUBSET Functions!Parts, holder : BOOLEAN, stray : SUBSET Functions!Parts]
FnRecord == [sort : {"scalar", "aggregate"}, data : DataRecord]
GroupRecord ==
  [of : FnNames, context : BOOLEAN, initialized : BOOLEAN, seen : Nat, rows : Nat, failed : BOOLEAN]

FnsAssumption ==
  /\ IsFiniteSet(FnNames) /\ IsFiniteSet(Groups) /\ MaxRows \in Nat
  /\ None \notin FnRecord \cup GroupRecord

ModuleRecord == [kind : {"vtab", "tvf", "coro"}, state : {"none", "null", "held"}]
TableRecord == [of : Modules, raw : {"none", "null", "held"}]
SourceRecord == [sort : {"iterator", "fiber", "stackless"}, at : Nat, rows : Nat, valid : BOOLEAN]
CursorRecord ==
  [of : VTabs, source : SourceRecord \cup {None}, rowid : Nat, phase : {"opened", "row", "end", "failed"},
   row : Nat, args : Nat]

TablesAssumption ==
  /\ IsFiniteSet(Modules) /\ IsFiniteSet(VTabs) /\ IsFiniteSet(Cursors) /\ MaxRows \in Nat
  /\ Generators \subseteq {"fiber", "stackless"}
  /\ None \notin Modules \cup ModuleRecord \cup TableRecord \cup SourceRecord \cup CursorRecord

\* The generators are fibers: a stackless one is not at its first row after xFilter.
FibersOnly == Generators \subseteq {"fiber"}

ASSUME LivesAssumption ==
  /\ ContextsApart /\ SharedAssumption /\ GuardsAssumption
  /\ CrewAssumption /\ OwningAssumption /\ FnsAssumption /\ TablesAssumption
  /\ Runner!ScriptsAssumption

guardVars == <<guards, tx, savepoints, data, committed, stranded>>
fiberVars == <<block, closure, isDone, isRunning, ctx, callerCtx, active, prev, current, handle, scope, misused>>
tableVars == <<module, named, refs, table, cursor, heap, lost>>
functionVars == <<function, counts, holders, stray, group, instances, result>>
handleVars == <<conn, thing, holds, loose, cached>>
sharedVars == <<initialized, lock_initialized, locked, pool, ref_count, pools, has, stands, raced>>
threadVars == <<os, context, event, system, detached, retval, callable, joins, joined, flag, mutex, place, answers>>
runnerVars == <<script, at, end, phase, stepped, snapshot, actual, all_ok, ran, scarce>>
argsVars == <<argv, slots, matched>>

allVars == <<part, vars, guardVars, fiberVars, tableVars, functionVars, handleVars,
  sharedVars, threadVars, runnerVars, argsVars>>

\* What is at rest does not vary.
AScript == CHOOSE s \in Scripts : TRUE
AnArgv == CHOOSE a \in Argvs : TRUE

LivesInit ==
  /\ part \in {"states", "guards", "fibers", "shared", "tables", "functions", "handles", "threads", "runner", "args"}
  /\ Init /\ Guards!Init /\ Fibers!Init /\ Shared!Init /\ Tables!TablesInit
  /\ Functions!FunctionsInit /\ Handles!HandlesInit /\ Crew!ThreadsInit
  /\ Runner!RunnerInit /\ (part # "runner" => script = AScript)
  /\ Arguments!ArgsInit /\ (part # "args" => argv = AnArgv)

LivesNext ==
  \/ part = "states" /\ Next
     /\ UNCHANGED <<part, guardVars, fiberVars, sharedVars, tableVars, functionVars, handleVars, threadVars, runnerVars, argsVars>>
  \/ part = "guards" /\ Guards!Next
     /\ UNCHANGED <<part, vars, fiberVars, sharedVars, tableVars, functionVars, handleVars, threadVars, runnerVars, argsVars>>
  \/ part = "fibers" /\ Fibers!Next
     /\ UNCHANGED <<part, vars, guardVars, sharedVars, tableVars, functionVars, handleVars, threadVars, runnerVars, argsVars>>
  \/ part = "shared" /\ Shared!Next
     /\ UNCHANGED <<part, vars, guardVars, fiberVars, tableVars, functionVars, handleVars, threadVars, runnerVars, argsVars>>
  \/ part = "tables" /\ Tables!TablesNext
     /\ UNCHANGED <<part, vars, guardVars, fiberVars, sharedVars, functionVars, handleVars, threadVars, runnerVars, argsVars>>
  \/ part = "functions" /\ Functions!FunctionsNext
     /\ UNCHANGED <<part, vars, guardVars, fiberVars, sharedVars, tableVars, handleVars, threadVars, runnerVars, argsVars>>
  \/ part = "handles" /\ Handles!HandlesNext
     /\ UNCHANGED <<part, vars, guardVars, fiberVars, sharedVars, tableVars, functionVars, threadVars, runnerVars, argsVars>>
  \/ part = "threads" /\ Crew!ThreadsNext
     /\ UNCHANGED <<part, vars, guardVars, fiberVars, sharedVars, tableVars, functionVars, handleVars, runnerVars, argsVars>>
  \/ part = "runner" /\ Runner!RunnerNext
     /\ UNCHANGED <<part, vars, guardVars, fiberVars, sharedVars, tableVars, functionVars, handleVars, threadVars, argsVars>>
  \/ part = "args" /\ Arguments!ArgsNext
     /\ UNCHANGED <<part, vars, guardVars, fiberVars, sharedVars, tableVars, functionVars, handleVars, threadVars, runnerVars>>

LivesSpec == LivesInit /\ [][LivesNext]_allVars

-----------------------------------------------------------------------------
\* A guard believes to be active only if the connection agrees, and no transaction
\* outlives the guard that began it, unless memory was lacking to roll it back.
GuardsSafe == part = "guards" => Guards!Consistent /\ Guards!NotLeftOpen

\* What runs or waits is not freed, and the pointer to the active coroutine of each thread
\* says what runs there, unless a coroutine that runs was resumed; and the connections share
\* one pool of coroutines, which lives as long as one of them has it, and no longer, unless
\* two of them made its mutex at once.
CoroutinesSafe ==
  CASE part = "fibers" -> Fibers!FibersSafe
    [] part = "shared" -> Shared!SharedSafe
    [] OTHER -> TRUE

\* Every block of a virtual table or table-valued function has an owner, its state
\* outlives its tables, and a scan gives its rows in order.
TablesSafe == part = "tables" => Tables!TablesSafe

\* References to the states of functions are exact, and an aggregate lives for one group.
FunctionsSafe == part = "functions" => Functions!FunctionsSafe

\* Connections, statements, backups and blobs have one owner and die in the right order,
\* and so has the context of a thread, which join finds with the result in it.
HandlesSafe ==
  CASE part = "handles" -> Handles!HandlesSafe
    [] part = "threads" -> Crew!ThreadsSafe
    [] OTHER -> TRUE

\* The script runner answers true exactly when all statements ran and their rows are those
\* of their snapshots, where the script keeps to one spelling and but for what it overlooks.
RunnerSafe == part = "runner" => Runner!RunnerSafe

\* The arguments of a virtual table are taken for what they are, declared again as they are,
\* and bound as they are.
ArgumentsSafe == part = "args" => Arguments!ArgsSafe

\* Rolling back, where memory is not lacking for it, undoes the scope of the guard and
\* nothing else, only the outermost commit persists, and control returns to the context
\* that resumed a coroutine, as long as none is resumed that runs.
PartImplements ==
  CASE part = "guards" -> Guards!RollbackStep /\ Guards!PersistStep
    [] part = "fibers" -> Fibers!NestsStep
    [] OTHER -> TRUE

AllImplement == [][PartImplements]_allVars
=============================================================================
