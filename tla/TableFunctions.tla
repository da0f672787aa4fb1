--------------------------- MODULE TableFunctions ---------------------------
(***************************************************************************)
(* Virtual tables (sqlite3_vtab.hpp), table-valued functions made of an    *)
(* iterator (sqlite3_tvf.hpp) and of a generator (sqlite3_tvf_coro.hpp):   *)
(* the callbacks, in the orders in which SQLite calls them, the blocks     *)
(* they allocate and free, and the state a module is registered with.      *)
(* The classes an application writes (SqliteVTable, its cursors, iterators *)
(* and generators) are modelled by the rows they produce: rows 1 to n for  *)
(* the argument n.                                                         *)
(***************************************************************************)
EXTENDS Integers, FiniteSets

CONSTANTS
  Kinds,        \* of modules: "vtab", "tvf", "coro"
  Generators,   \* of generators: "fiber", "stackless"
  Modules,      \* registrations that may be made, all under one name
  Tables,       \* sqlite3_vtab objects
  Cursors,      \* sqlite3_vtab_cursor objects
  MaxRows,      \* the largest argument
  Null,
  Starved       \* whether memory may be lacking

VARIABLES
  module,   \* the registrations: kind, and the state that is their user data
  named,    \* the registration that has the name
  refs,     \* references to the state that have been taken and not given up
  table,    \* the connected tables, each with its registration and raw_state
  cursor,   \* the open cursors
  heap,     \* how many blocks of each sort are allocated
  lost      \* the sorts of which a block has been left behind

registration == <<module, named, refs>>

Sorts == {"table", "instance", "cursor", "iterator", "generator", "stack", "function object"}

TablesInit ==
  /\ module = [m \in Modules |-> Null]
  /\ named = Null
  /\ refs = 0
  /\ table = [t \in Tables |-> Null]
  /\ cursor = [c \in Cursors |-> Null]
  /\ heap = [s \in Sorts |-> 0]
  /\ lost = {}

\* A block of each sort in "more" is allocated, then one of each in "less" is freed.
Blocks(more, less) ==
  heap' = [s \in Sorts |-> heap[s] + (IF s \in more THEN 1 ELSE 0) - (IF s \in less THEN 1 ELSE 0)]

-----------------------------------------------------------------------------
(* Registration *)

\* SQLite drops a registration that has neither the name nor a table, and runs its destructor.
Unused(m, name, tables) ==
  m # Null /\ m # name /\ \A t \in Tables : tables[t] # Null => tables[t].of # m

Drops(m, name, tables) ==
  /\ module' = IF Unused(m, name, tables) THEN [module EXCEPT ![m] = Null] ELSE module
  /\ refs' = IF Unused(m, name, tables) /\ module[m].state = "held" THEN refs - 1 ELSE refs

Registers(m, kind, state) == [kind |-> kind, state |-> state]

\* Mutant of Register: a state that is registered has no destructor.
RegisterForever(m, kind, state) ==
  /\ module[m] = Null
  /\ state = "null" => Starved
  /\ module' = [IF Unused(named, m, table) THEN [module EXCEPT ![named] = Null] ELSE module
                  EXCEPT ![m] = Registers(m, kind, state)]
  /\ refs' = IF state = "held" THEN refs + 1 ELSE refs
  /\ named' = m
  /\ UNCHANGED <<table, cursor, heap, lost>>

\* SQLite is given a module of a kind with a state for its user data.  A state that lacks memory is a null pointer,
\* and the module is registered all the same; a registration that lacks memory runs
\* the destructor at once.
Register(m, kind, state) ==
  /\ module[m] = Null
  /\ state = "null" => Starved
  /\ \/ LET released == Unused(named, m, table) IN
        /\ module' = [IF released THEN [module EXCEPT ![named] = Null] ELSE module
                        EXCEPT ![m] = Registers(m, kind, state)]
        /\ refs' = refs + (IF state = "held" THEN 1 ELSE 0)
                        - (IF released /\ module[named].state = "held" THEN 1 ELSE 0)
        /\ named' = m
     \/ Starved /\ UNCHANGED registration
  /\ UNCHANGED <<table, cursor, heap, lost>>

\* register_module and define, with all kinds of states, of virtual tables, of table-valued
\* functions over an iterator, and over a generator.
RegisterVTab(m, state) == Register(m, "vtab", state)
RegisterFunction(m, state) == Register(m, "tvf", state)
RegisterGenerator(m, state) == Register(m, "coro", state)

\* The connection is closed, with no table connected to the module.
Close ==
  /\ named # Null /\ Unused(named, Null, table)
  /\ Drops(named, Null, table)
  /\ named' = Null
  /\ UNCHANGED <<table, cursor, heap, lost>>

-----------------------------------------------------------------------------
(* Tables *)

KindOf(t) == module[table[t].of].kind

Connected(t) == table' = [table EXCEPT ![t] = [of |-> named, raw |-> module[named].state]]

\* xCreate and xConnect of a virtual table.  connect hands over an instance or fails; an
\* instance for which there is no memory left is deleted, one that comes with an error
\* code stays behind.
ConnectVTab(t) ==
  /\ named # Null /\ module[named].kind = "vtab" /\ table[t] = Null
  /\ \/ Connected(t) /\ Blocks({"instance", "table"}, {}) /\ UNCHANGED lost
     \/ Starved /\ Blocks({"instance"}, {"instance"}) /\ UNCHANGED <<table, lost>>
     \/ UNCHANGED <<table, heap>> /\ lost' \in {lost, lost \cup {"instance"}}
  /\ UNCHANGED <<registration, cursor>>

\* xConnect of a table-valued function.
ConnectFunction(t) ==
  /\ named # Null /\ module[named].kind # "vtab" /\ table[t] = Null
  /\ \/ Connected(t) /\ Blocks({"table"}, {})
     \/ Starved /\ UNCHANGED <<table, heap>>
  /\ UNCHANGED <<registration, cursor, lost>>

Disconnects(t, blocks) ==
  LET tables == [table EXCEPT ![t] = Null] IN
  /\ \A c \in Cursors : cursor[c] # Null => cursor[c].of # t
  /\ table' = tables
  /\ Blocks({}, blocks)
  /\ Drops(table[t].of, named, tables)
  /\ UNCHANGED <<named, cursor, lost>>

\* xDisconnect and xDestroy of a virtual table: whatever disconnect and destroy answer,
\* the instance and its table go.
DisconnectVTab(t) == table[t] # Null /\ KindOf(t) = "vtab" /\ Disconnects(t, {"instance", "table"})

DisconnectFunction(t) == table[t] # Null /\ KindOf(t) # "vtab" /\ Disconnects(t, {"table"})

-----------------------------------------------------------------------------
(* Where rows come from: an iterator or a generator that has reached row "at" of "rows" *)

Source(sort, at, rows) == [sort |-> sort, at |-> at, rows |-> rows, valid |-> TRUE]

\* A fiber generator without a coroutine.
Invalid == [sort |-> "fiber", at |-> 0, rows |-> 0, valid |-> FALSE]

\* Mutant of Generated: the coroutine is not started.
GeneratedAsleep(sort, rows) == Source(sort, 0, rows)

\* The constructor of SqliteFiberGenerator starts its coroutine; SqliteGenerator waits for next.
Generated(sort, rows) == Source(sort, IF sort = "fiber" THEN 1 ELSE 0, rows)

\* is_done, eof.
Done(s) == ~s.valid \/ s.at > s.rows

\* next, advance.
Advanced(s) == IF Done(s) THEN s ELSE [s EXCEPT !.at = @ + 1]

\* value, column: what was yielded last, and nothing before the first row.
Value(s) == IF s.at \in 1..s.rows THEN s.at ELSE Null

\* The blocks of a source, but for its own.  The function object of a fiber is deleted
\* when the function returns.
Holds(s) ==
  CASE s.sort = "iterator" \/ ~s.valid -> {}
    [] s.sort = "stackless" /\ s.valid -> {"stack"}
    [] OTHER -> IF Done(s) THEN {"stack"} ELSE {"stack", "function object"}

\* What is left behind when a generator is destroyed: destroying a coroutine whose
\* function has not returned frees the stack, with the function object on nobody's list.
Abandons(s) == Holds(s) \cap {"function object"}

-----------------------------------------------------------------------------
(* Cursors *)

Opened(t, source) ==
  [of |-> t, source |-> source, rowid |-> 0, phase |-> "opened", row |-> 0, args |-> 0]

\* Mutant of OpenIterator: a cursor whose iterator lacks memory is not freed.
OpenIteratorLeaks(t, c) ==
  /\ table[t] # Null /\ cursor[c] = Null /\ KindOf(t) = "tvf"
  /\ \/ cursor' = [cursor EXCEPT ![c] = Opened(t, Source("iterator", 0, 0))]
        /\ Blocks({"cursor", "iterator"}, {})
     \/ Starved /\ UNCHANGED cursor /\ Blocks({"cursor"}, {})
  /\ UNCHANGED <<registration, table, lost>>

\* xOpen of a virtual table (the iterator is the application's cursor), of an iterator
\* and of a generator, which xFilter builds.
OpenVTab(t, c) ==
  /\ table[t] # Null /\ cursor[c] = Null /\ KindOf(t) = "vtab"
  /\ \/ cursor' = [cursor EXCEPT ![c] = Opened(t, Source("iterator", 0, 0))]
        /\ Blocks({"iterator", "cursor"}, {})
     \/ Starved /\ UNCHANGED cursor /\ Blocks({"iterator"}, {"iterator"})
  /\ UNCHANGED <<registration, table, lost>>

OpenIterator(t, c) ==
  /\ table[t] # Null /\ cursor[c] = Null /\ KindOf(t) = "tvf"
  /\ \/ cursor' = [cursor EXCEPT ![c] = Opened(t, Source("iterator", 0, 0))]
        /\ Blocks({"cursor", "iterator"}, {})
     \/ Starved /\ UNCHANGED cursor /\ Blocks({"cursor"}, {"cursor"})
  /\ UNCHANGED <<registration, table, lost>>

OpenGenerator(t, c) ==
  /\ table[t] # Null /\ cursor[c] = Null /\ KindOf(t) = "coro"
  /\ \/ cursor' = [cursor EXCEPT ![c] = Opened(t, Null)] /\ Blocks({"cursor"}, {})
     \/ Starved /\ UNCHANGED <<cursor, heap>>
  /\ UNCHANGED <<registration, table, lost>>

KindAt(c) == KindOf(cursor[c].of)

\* xEof of a virtual table or iterator, and of a generator, which may be lacking.
\* SQLite asks it after xFilter and xNext.
Eof(r) == r.source = Null \/ Done(r.source)

Asked(r) == [r EXCEPT !.phase = IF Eof(r) THEN "end" ELSE "row"]

\* xFilter of a virtual table or iterator starts it again.  A virtual table's may fail.
FilterVTab(c, n) ==
  /\ cursor[c] # Null /\ cursor[c].phase # "failed" /\ KindAt(c) = "vtab"
  /\ cursor' \in { [cursor EXCEPT ![c] =
                      Asked([@ EXCEPT !.source = Source("iterator", 1, n), !.row = 1, !.args = n])],
                   [cursor EXCEPT ![c].phase = "failed"] }
  /\ UNCHANGED <<registration, table, heap, lost>>

FilterIterator(c, n) ==
  /\ cursor[c] # Null /\ KindAt(c) = "tvf"
  /\ cursor' = [cursor EXCEPT ![c] =
       Asked([@ EXCEPT !.source = Source("iterator", 1, n), !.row = 1, !.args = n])]
  /\ UNCHANGED <<registration, table, heap, lost>>

OldBlocks(c) ==
  IF cursor[c].source = Null THEN {} ELSE {"generator"} \cup Holds(cursor[c].source)

OldAbandons(c) == IF cursor[c].source = Null THEN {} ELSE Abandons(cursor[c].source)

\* Mutant of FilterGenerator: rows are numbered on from the last scan.
FilterNumbersOn(c, n, sort) ==
  /\ cursor[c] # Null /\ cursor[c].phase # "failed" /\ KindAt(c) = "coro"
  /\ LET new == Generated(sort, n) IN
     /\ cursor' = [cursor EXCEPT ![c] =
          Asked([@ EXCEPT !.source = new, !.rowid = @ + 1, !.row = 1, !.args = n])]
     /\ Blocks({"generator"} \cup Holds(new), OldBlocks(c))
     /\ lost' = lost \cup OldAbandons(c)
  /\ UNCHANGED <<registration, table>>

\* xFilter of a generator: the old one is deleted, a new one is built and moved to the heap.
\* A fiber that lacks memory for its function object or its stack gives a generator
\* that is done, and SQLITE_OK; a generator that cannot be moved is destroyed, started
\* as it is, and the call fails.
FilterGenerator(c, n, sort) ==
  /\ cursor[c] # Null /\ cursor[c].phase # "failed" /\ KindAt(c) = "coro"
  /\ \/ \E new \in {Generated(sort, n)} \cup IF Starved /\ sort = "fiber" THEN {Invalid} ELSE {} :
          /\ cursor' = [cursor EXCEPT ![c] =
               Asked([@ EXCEPT !.source = new, !.rowid = 1, !.row = 1, !.args = n])]
          /\ Blocks({"generator"} \cup Holds(new), OldBlocks(c))
          /\ lost' = lost \cup OldAbandons(c)
     \/ /\ Starved
        /\ cursor' = [cursor EXCEPT ![c] = [@ EXCEPT !.source = Null, !.phase = "failed"]]
        /\ Blocks({}, OldBlocks(c))
        /\ lost' = lost \cup OldAbandons(c) \cup Abandons(Generated(sort, n))
  /\ UNCHANGED <<registration, table>>

\* xNext.
NextIterator(c) ==
  LET r == cursor[c] IN
  /\ r # Null /\ r.phase = "row" /\ KindAt(c) # "coro"
  /\ cursor' = [cursor EXCEPT ![c] =
       Asked([r EXCEPT !.source = Advanced(r.source), !.row = r.row + 1])]
  /\ UNCHANGED <<registration, table, heap, lost>>

NextGenerator(c) ==
  LET r == cursor[c] IN
  /\ r # Null /\ r.phase = "row" /\ KindAt(c) = "coro"
  /\ cursor' = [cursor EXCEPT ![c] =
       Asked([r EXCEPT !.source = Advanced(r.source), !.rowid = r.rowid + 1, !.row = r.row + 1])]
  /\ Blocks({}, Holds(r.source) \ Holds(Advanced(r.source)))
  /\ UNCHANGED <<registration, table, lost>>

\* xColumn, which looks for a row once more, and xRowid.
Column(r) == IF Eof(r) THEN Null ELSE Value(r.source)
Rowid(r) == IF KindOf(r.of) = "coro" THEN r.rowid ELSE r.source.at

\* xClose.
CloseIterator(c) ==
  /\ cursor[c] # Null /\ KindAt(c) # "coro"
  /\ cursor' = [cursor EXCEPT ![c] = Null]
  /\ Blocks({}, {"iterator", "cursor"})
  /\ UNCHANGED <<registration, table, lost>>

CloseGenerator(c) ==
  /\ cursor[c] # Null /\ KindAt(c) = "coro"
  /\ cursor' = [cursor EXCEPT ![c] = Null]
  /\ Blocks({}, {"cursor"} \cup OldBlocks(c))
  /\ lost' = lost \cup OldAbandons(c)
  /\ UNCHANGED <<registration, table>>

TablesNext ==
  \/ Close
  \/ \E m \in Modules, state \in {"none", "null", "held"} :
       \/ "vtab" \in Kinds /\ RegisterVTab(m, state)
       \/ "tvf" \in Kinds /\ RegisterFunction(m, state)
       \/ "coro" \in Kinds /\ RegisterGenerator(m, state)
  \/ \E t \in Tables :
       \/ ConnectVTab(t) \/ ConnectFunction(t) \/ DisconnectVTab(t) \/ DisconnectFunction(t)
       \/ \E c \in Cursors : OpenVTab(t, c) \/ OpenIterator(t, c) \/ OpenGenerator(t, c)
  \/ \E c \in Cursors :
       \/ NextIterator(c) \/ NextGenerator(c) \/ CloseIterator(c) \/ CloseGenerator(c)
       \/ \E n \in 0..MaxRows :
            \/ FilterVTab(c, n) \/ FilterIterator(c, n)
            \/ \E sort \in Generators : FilterGenerator(c, n, sort)

vars == <<module, named, refs, table, cursor, heap, lost>>

Spec == TablesInit /\ [][TablesNext]_vars

-----------------------------------------------------------------------------
Count(P(_)) == Cardinality({c \in Cursors : cursor[c] # Null /\ P(cursor[c])})

HasSource(r) == r.source # Null
HasIterator(r) == HasSource(r) /\ r.source.sort = "iterator"
HasGenerator(r) == HasSource(r) /\ r.source.sort # "iterator"
HasStack(r) == HasSource(r) /\ "stack" \in Holds(r.source)
HasFunction(r) == HasSource(r) /\ "function object" \in Holds(r.source)

\* Every block belongs to a table, a cursor or a generator that is there, whatever
\* failed on the way and however often a cursor was used again; what is left behind is
\* the instance of a connect that failed, or the function of a generator that was not done.
EveryBlockOwned ==
  /\ heap["table"] = Cardinality({t \in Tables : table[t] # Null})
  /\ heap["instance"] = Cardinality({t \in Tables : table[t] # Null /\ KindOf(t) = "vtab"})
  /\ heap["cursor"] = Count(LAMBDA r : TRUE)
  /\ heap["iterator"] = Count(HasIterator)
  /\ heap["generator"] = Count(HasGenerator)
  /\ heap["stack"] = Count(HasStack)
  /\ heap["function object"] = Count(HasFunction)
  /\ lost \subseteq {"instance", "function object"}

\* The state that a table hands to its functions is referenced as long as the table is
\* connected, also when the name was registered again meanwhile; and no reference
\* outlives the registrations.
StateOutlivesTables ==
  /\ refs = Cardinality({m \in Modules : module[m] # Null /\ module[m].state = "held"})
  /\ \A t \in Tables : table[t] # Null =>
       module[table[t].of] # Null /\ module[table[t].of].state = table[t].raw
  /\ \A c \in Cursors : cursor[c] # Null => table[cursor[c].of] # Null

\* A scan gives rows 1 to n for the argument n it was started with, numbered from 1,
\* and ends behind them; only a fiber that lacked memory gives no row at all.
RowsInOrder ==
  \A c \in Cursors :
    LET r == cursor[c] IN
    /\ r # Null /\ r.phase = "row" => Column(r) = r.row /\ Rowid(r) = r.row /\ r.row <= r.args
    /\ r # Null /\ r.phase = "end" => r.row = r.args + 1 \/ ~r.source.valid

TablesSafe == EveryBlockOwned /\ StateOutlivesTables /\ RowsInOrder

\* Closing a cursor destroys its generator: nothing of it is left behind.
CloseDestroysGenerator == "function object" \notin lost
=============================================================================
