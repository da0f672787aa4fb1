---------------------------- MODULE SqlFunctions ----------------------------
(***************************************************************************)
(* Scalar and aggregate functions (sqlite3_udf.hpp, sqlite3_aggregate.hpp) *)
(* with the state they are registered with: none, one per file, one per    *)
(* connection, or both in a holder (sqlite3_hybrid_state.h and .hpp).  The *)
(* registries behind the states are ExtState and ConnState; here they      *)
(* count references.  Bound: one reference to each is left stray at most.  *)
(***************************************************************************)
EXTENDS Integers, FiniteSets

CONSTANTS
  Names,     \* functions that may be defined: a name and a number of arguments
  Groups,    \* groups of rows that are aggregated at the same time
  MaxRows,   \* rows of a group at most
  Null,
  Starved    \* whether memory may be lacking

VARIABLES
  function,   \* what each name is defined as
  refs,       \* references to a per-file and to a per-connection state
  holders,    \* holders that are allocated
  stray,      \* references no holder was found for
  group,      \* the groups that are being aggregated, with their aggregate context
  instances,  \* aggregates that have been constructed and not destroyed
  result      \* for the properties: what the last aggregate gave, for how many rows

functionVars == <<function, refs, holders, stray, group, instances, result>>

Parts == {"ext", "conn"}

FunctionsInit ==
  /\ function = [f \in Names |-> Null]
  /\ refs = [p \in Parts |-> 0] /\ holders = 0 /\ stray = {}
  /\ group = [g \in Groups |-> Null]
  /\ instances = 0
  /\ result = [given |-> 0, rows |-> 0, failed |-> FALSE]

-----------------------------------------------------------------------------
(* The state of a function: the references it holds, in a holder or not, and those left stray *)

UserData(held, holder, left) == [held |-> held, holder |-> holder, stray |-> left]

Nothing == UserData({}, FALSE, {})

\* init of the per-file and of the per-connection state.
One(p) == {UserData({p}, FALSE, {})} \cup IF Starved THEN {Nothing} ELSE {}

\* The references that both inits may give.
Both == IF Starved THEN SUBSET Parts ELSE {Parts}

\* SqliteHybridState::init, which gives both references back when it lacks memory for the holder.
HybridInit ==
  {UserData(held, TRUE, {}) : held \in Both} \cup IF Starved THEN {Nothing} ELSE {}

\* hybrid_init in C, which does not.
HybridInitC ==
  {UserData(held, TRUE, {}) : held \in Both}
    \cup IF Starved THEN {UserData({}, FALSE, held) : held \in Both} ELSE {}

Inits(state) ==
  CASE state = "none" -> {Nothing}
    [] state \in Parts -> One(state)
    [] state = "hybrid" -> HybridInit
    [] state = "hybrid in C" -> HybridInitC

\* Mutant of GivenUp: the holder's destructor forgets the state of the connection.
GivenUpHalf(data) == data.held \ (IF data.holder THEN {"conn"} ELSE {})

\* The destructors: the references that are given up, and the holder with them.
GivenUp(data) == data.held

\* The references after "new" was initialised and "old" destroyed.
Refs(new, old) ==
  refs' = [p \in Parts |-> refs[p] + (IF p \in new.held \cup new.stray THEN 1 ELSE 0)
                                   - (IF p \in GivenUp(old) THEN 1 ELSE 0)]

Holders(new, old) ==
  holders' = holders + (IF new.holder THEN 1 ELSE 0) - (IF old.holder THEN 1 ELSE 0)

\* conn and ext of the holder, and of the registries where there is no holder: the state
\* of the file and of the connection that a call of the function gets, if any.
Given(f) ==
  LET data == function[f].data IN
  IF data.holder THEN data.held ELSE {p \in Parts : refs[p] > 0}

Idle(f) == \A g \in Groups : group[g] # Null => group[g].of # f

\* sqlite3_create_function_v2 with what init gave: it replaces a function of that name
\* no statement is using, or fails and destroys the new user data at once.
Defines(f, sort, state) ==
  LET old == IF function[f] = Null THEN Nothing ELSE function[f].data IN
  /\ Idle(f)
  /\ \E data \in Inits(state) :
       /\ stray' = stray \cup data.stray
       /\ data.stray \cap stray = {}
       /\ \/ /\ function' = [function EXCEPT ![f] = [sort |-> sort, data |-> data]]
             /\ Refs(data, old) /\ Holders(data, old)
          \/ Starved /\ UNCHANGED <<function, holders>> /\ Refs(data, data)
  /\ UNCHANGED <<group, instances, result>>

\* define and its variants with a state.
Define(f) == Defines(f, "scalar", "none")
DefineWithState(f) == Defines(f, "scalar", "ext")
DefineWithConnState(f) == Defines(f, "scalar", "conn")
DefineWithHybridState(f) == Defines(f, "scalar", "hybrid") \/ Defines(f, "scalar", "hybrid in C")

DefineAggregate(f) == Defines(f, "aggregate", "none")
DefineAggregateWithState(f) == \E p \in Parts : Defines(f, "aggregate", p)
DefineAggregateWithHybridState(f) == Defines(f, "aggregate", "hybrid")

\* The connection is closed and destroys the user data of a function.
Drop(f) ==
  /\ function[f] # Null /\ Idle(f)
  /\ function' = [function EXCEPT ![f] = Null]
  /\ Refs(Nothing, function[f].data) /\ Holders(Nothing, function[f].data)
  /\ UNCHANGED <<stray, group, instances, result>>

-----------------------------------------------------------------------------
(* Aggregates *)

\* SQLite starts a group; its aggregate context is allocated, as zeros, by the first step.
Begin(g, f) ==
  /\ group[g] = Null /\ function[f] # Null /\ function[f].sort = "aggregate"
  /\ group' = [group EXCEPT ![g] =
                 [of |-> f, context |-> FALSE, initialized |-> FALSE, seen |-> 0, rows |-> 0, failed |-> FALSE]]
  /\ UNCHANGED <<function, refs, holders, stray, instances, result>>

\* Mutant of StepProxy: every row constructs the aggregate.
StepConstructs(g) ==
  /\ group[g] # Null /\ ~group[g].failed /\ group[g].rows < MaxRows
  /\ group' = [group EXCEPT ![g] =
       [@ EXCEPT !.context = TRUE, !.initialized = TRUE, !.seen = 1, !.rows = @ + 1]]
  /\ instances' = instances + 1
  /\ UNCHANGED <<function, refs, holders, stray, result>>

\* step_proxy.  Without an aggregate context the statement fails, which ends the group.
StepProxy(g) ==
  /\ group[g] # Null /\ ~group[g].failed /\ group[g].rows < MaxRows
  /\ \/ /\ group' = [group EXCEPT ![g] =
             [@ EXCEPT !.context = TRUE, !.initialized = TRUE,
                       !.seen = IF group[g].initialized THEN group[g].seen + 1 ELSE 1,
                          !.rows = group[g].rows + 1]]
        /\ instances' = instances + IF group[g].initialized THEN 0 ELSE 1
     \/ /\ Starved /\ ~group[g].context
        /\ group' = [group EXCEPT ![g].failed = TRUE]
        /\ UNCHANGED instances
  /\ UNCHANGED <<function, refs, holders, stray, result>>

\* final_proxy, which SQLite calls also for a group that failed or had no rows.
FinalProxy(g) ==
  /\ group[g] # Null
  /\ result' = [given |-> IF group[g].initialized THEN group[g].seen ELSE 0,
                rows |-> group[g].rows, failed |-> group[g].failed]
  /\ instances' = instances - IF group[g].initialized THEN 1 ELSE 0
  /\ group' = [group EXCEPT ![g] = Null]
  /\ UNCHANGED <<function, refs, holders, stray>>

FunctionsNext ==
  \/ \E f \in Names :
       \/ Define(f) \/ DefineWithState(f) \/ DefineWithConnState(f) \/ DefineWithHybridState(f)
       \/ DefineAggregate(f) \/ DefineAggregateWithState(f) \/ DefineAggregateWithHybridState(f)
       \/ Drop(f)
       \/ \E g \in Groups : Begin(g, f)
  \/ \E g \in Groups : StepProxy(g) \/ FinalProxy(g)

FunctionsSpec == FunctionsInit /\ [][FunctionsNext]_functionVars

-----------------------------------------------------------------------------
Holding(p) == {f \in Names : function[f] # Null /\ p \in function[f].data.held}

\* However functions are redefined, dropped or refused, each state has one reference
\* per function that uses it, and those a holder in C could not be made for; and
\* what a call gets as a state is referenced.
ReferencesExact ==
  /\ \A p \in Parts : refs[p] = Cardinality(Holding(p)) + IF p \in stray THEN 1 ELSE 0
  /\ \A f \in Names, p \in Parts : function[f] # Null /\ p \in Given(f) => refs[p] > 0
  /\ holders = Cardinality({f \in Names : function[f] # Null /\ function[f].data.holder})

\* An aggregate is constructed once for a group and destroyed once, and has seen every
\* row of its group when it gives its result.
AggregatesExact ==
  /\ instances = Cardinality({g \in Groups : group[g] # Null /\ group[g].initialized})
  /\ \A g \in Groups : group[g] # Null /\ group[g].initialized => group[g].seen = group[g].rows
  /\ result.failed \/ result.given = result.rows

FunctionsSafe == ReferencesExact /\ AggregatesExact
=============================================================================
