-------------------------- MODULE TransactionGuards --------------------------
(***************************************************************************)
(* SqliteTransaction and SqliteSavepoint of sqlite3_transaction.hpp: the   *)
(* guards of one thread, which live on its stack, over the transaction     *)
(* state of a SQLite connection, which is modelled from its documentation. *)
(* The database is a set of rows, to which statements add.                 *)
(***************************************************************************)
EXTENDS Integers, Sequences, SequencesExt

CONSTANTS
  Rows,             \* rows that statements may insert
  Names,            \* names of savepoints
  None,             \* a null pointer
  MaxGuards,        \* bound on the guards in scope
  MaxSavepoints,    \* bound on the connection's savepoints; one that was rolled back stays
  Starved           \* whether memory may be lacking for a statement

VARIABLES
  guards,      \* the guards in scope: kind, m_name, m_active and, for the properties
               \* only, the contents of the database at construction and whether
               \* SQLite has since rolled back behind the guard's back
  tx,          \* the connection's transaction: "none", or what opened it
  savepoints,  \* the connection's savepoints: a name and the contents to return to
  data,        \* the contents that the connection sees
  committed,   \* the contents that survive
  stranded     \* for the properties: a guard has left the scope and could not roll back

vars == <<guards, tx, savepoints, data, committed, stranded>>

Contents == SUBSET Rows
Guard == [kind : {"transaction", "savepoint"}, name : Names \cup {None}, active : BOOLEAN,
          start : Contents, undone : BOOLEAN]

Init ==
  /\ guards = <<>>
  /\ tx = "none" /\ savepoints = <<>>
  /\ data = {} /\ committed = {} /\ stranded = FALSE

-----------------------------------------------------------------------------
(* The connection *)

\* Everything done so far becomes durable, or is forgotten.
SqlEnds(contents) ==
  /\ tx' = "none" /\ savepoints' = <<>>
  /\ data' = contents /\ committed' = contents

SqlCommit == tx # "none" /\ SqlEnds(data)
SqlRollback == tx # "none" /\ SqlEnds(committed)

SqlBegin ==
  /\ tx = "none" /\ tx' = "begin"
  /\ UNCHANGED <<savepoints, data, committed>>

SqlSavepoint(n) ==
  /\ tx' = IF tx = "none" THEN "savepoint" ELSE tx
  /\ savepoints' = Append(savepoints, [name |-> n, start |-> data])
  /\ UNCHANGED <<data, committed>>

Known(n) == \E k \in DOMAIN savepoints : savepoints[k].name = n

\* The most recent savepoint of this name.
IsLatest(k, n) == /\ k \in DOMAIN savepoints /\ savepoints[k].name = n
                  /\ \A l \in DOMAIN savepoints : l > k => savepoints[l].name # n

\* The savepoint and those after it are gone; the last one commits if it had
\* opened the transaction.
SqlRelease(n) == \E k \in DOMAIN savepoints :
  /\ IsLatest(k, n)
  /\ IF k = 1 /\ tx = "savepoint"
       THEN SqlCommit
       ELSE /\ savepoints' = SubSeq(savepoints, 1, k - 1)
            /\ UNCHANGED <<tx, data, committed>>

\* Those after it are gone, but it stays.
SqlRollbackTo(n) == \E k \in DOMAIN savepoints :
  /\ IsLatest(k, n)
  /\ savepoints' = SubSeq(savepoints, 1, k)
  /\ data' = savepoints[k].start
  /\ UNCHANGED <<tx, committed>>

UnchangedSql == UNCHANGED <<tx, savepoints, data, committed>>

\* A statement of the application.
Insert(r) ==
  /\ r \notin data
  /\ data' = data \cup {r}
  /\ committed' = IF tx = "none" THEN data' ELSE committed
  /\ UNCHANGED <<guards, tx, savepoints, stranded>>

\* A statement fails in a way that makes SQLite roll back; no guard notices.
Fail ==
  /\ SqlRollback
  /\ guards' = [i \in DOMAIN guards |-> [guards[i] EXCEPT !.undone = TRUE]]
  /\ UNCHANGED stranded

-----------------------------------------------------------------------------
(* SqliteTransaction *)

Enter(kind, n, active) ==
  /\ Len(guards) < MaxGuards
  /\ guards' = Append(guards, [kind |-> kind, name |-> n, active |-> active,
                               start |-> data, undone |-> FALSE])
  /\ UNCHANGED stranded

Inactivate(i) == guards' = [guards EXCEPT ![i].active = FALSE] /\ UNCHANGED stranded

BeginTransaction == SqlBegin /\ Enter("transaction", None, TRUE)

\* Within a transaction BEGIN fails, and so it does for lack of memory.
BeginFails == (tx # "none" \/ Starved) /\ Enter("transaction", None, FALSE) /\ UnchangedSql

\* Mutant of MayEnd: the flag is not tested.
AlwaysEnds(i) == TRUE

\* if (!m_active) return SQLITE_MISUSE
MayEnd(i) == guards[i].active

\* An error leaves the guard active, as does a COMMIT that finds the database busy.
Commit(i) ==
  /\ guards[i].kind = "transaction" /\ MayEnd(i)
  /\ SqlCommit /\ Inactivate(i)

Rollback(i) ==
  /\ guards[i].kind = "transaction" /\ MayEnd(i)
  /\ SqlRollback /\ Inactivate(i)

-----------------------------------------------------------------------------
(* SqliteSavepoint *)

\* A savepoint m of the connection is inside one named n.
Around(n, m) == \E k, l \in DOMAIN savepoints :
  k < l /\ savepoints[k].name = n /\ savepoints[l].name = m

\* The application does not give a savepoint the name of one around it: SQLite would
\* take the one for the other.  Those that earlier guards rolled back and left behind
\* are around it as well.
MayEnter(n) ==
  /\ Len(savepoints) < MaxSavepoints
  /\ \A i \in DOMAIN guards :
       guards[i].active => guards[i].name # n /\ ~Around(n, guards[i].name)

EnterSavepoint(n) == MayEnter(n) /\ SqlSavepoint(n) /\ Enter("savepoint", n, TRUE)

\* if (!m_db || !m_name) return; and so it goes where the SAVEPOINT cannot be made.
EnterNameless == Enter("savepoint", None, FALSE) /\ UnchangedSql

\* Mutant of Undo: RELEASE for ROLLBACK TO.
UndoNot(n) == SqlRelease(n)

Undo(n) == SqlRollbackTo(n)

Release(i) ==
  /\ guards[i].kind = "savepoint" /\ MayEnd(i)
  /\ SqlRelease(guards[i].name) /\ Inactivate(i)

RollbackTo(i) ==
  /\ guards[i].kind = "savepoint" /\ MayEnd(i)
  /\ Undo(guards[i].name) /\ Inactivate(i)

-----------------------------------------------------------------------------
(* The destructors; only the innermost guard can leave the scope. *)

Leaves(active) == guards # <<>> /\ (MayEnd(Len(guards)) <=> active) /\ guards' = Front(guards)

LeaveInactive == Leaves(FALSE) /\ UnchangedSql /\ UNCHANGED stranded

\* Mutant of LeaveTransaction: the destructor does nothing.
LeaveOpen ==
  /\ Leaves(TRUE) /\ Last(guards).kind = "transaction"
  /\ UnchangedSql /\ UNCHANGED stranded

LeaveTransaction ==
  /\ Leaves(TRUE) /\ Last(guards).kind = "transaction"
  /\ IF tx = "none" THEN UnchangedSql ELSE SqlRollback
  /\ UNCHANGED stranded

LeaveSavepoint ==
  /\ Leaves(TRUE) /\ Last(guards).kind = "savepoint"
  /\ IF Known(Last(guards).name) THEN Undo(Last(guards).name) ELSE UnchangedSql
  /\ UNCHANGED stranded

\* sqlite3_mprintf, or SQLite behind sqlite3_exec, lacks memory for the ROLLBACK: the guard
\* goes without it and nobody is told.
LeaveStranded ==
  /\ Starved
  /\ Leaves(TRUE) /\ stranded' = TRUE
  /\ UnchangedSql

-----------------------------------------------------------------------------
Next ==
  \/ \E r \in Rows : Insert(r)
  \/ Fail
  \/ BeginTransaction \/ BeginFails
  \/ EnterNameless \/ \E n \in Names : EnterSavepoint(n)
  \/ \E i \in DOMAIN guards : Commit(i) \/ Rollback(i) \/ Release(i) \/ RollbackTo(i)
  \/ LeaveInactive \/ LeaveTransaction \/ LeaveSavepoint \/ LeaveStranded

Spec == Init /\ [][Next]_vars

-----------------------------------------------------------------------------
(* Properties *)

TypeOK ==
  /\ guards \in Seq(Guard) /\ Len(guards) <= MaxGuards
  /\ \A i \in DOMAIN guards :
       guards[i].active => (guards[i].kind = "savepoint" <=> guards[i].name # None)
  /\ tx \in {"none", "begin", "savepoint"}
  /\ savepoints \in Seq([name : Names, start : Contents])
  /\ {data, committed} \subseteq Contents
  /\ stranded \in BOOLEAN

\* The guard and all guards around it are active, and rightly so: SQLite has not
\* rolled back of its own accord.
Nested(i) == \A j \in 1..i : guards[j].active /\ ~guards[j].undone

\* A guard believes to be active only if the connection agrees: the transaction
\* is open, and what the guard would return to is where it would look for it.
GuardsAgree ==
  \A i \in DOMAIN guards : Nested(i) =>
    LET g == guards[i] IN
    IF g.kind = "transaction"
      THEN tx = "begin" /\ g.start = committed
      ELSE \E k \in DOMAIN savepoints : IsLatest(k, g.name) /\ savepoints[k].start = g.start

\* The guards agree with the connection.
Consistent == TypeOK /\ GuardsAgree

\* When all guards have gone out of scope, no transaction that one of them began
\* is left open, unless memory was lacking for a ROLLBACK.
NotLeftOpen == guards = <<>> /\ ~stranded => tx # "begin"

\* A guard that is rolled back, or leaves the scope without commit or release,
\* undoes all that was done in its scope and nothing that was done before, also what
\* guards inside it could not undo for lack of memory.  Only a guard that lacks it itself
\* undoes nothing.
RollbackStep ==
  \A i \in DOMAIN guards :
    /\ Nested(i)
    /\ \/ Rollback(i) \/ RollbackTo(i)
       \/ i = Len(guards) /\ guards' = Front(guards) /\ ~LeaveStranded
    => data' = guards[i].start

RollbackUndoes == [][RollbackStep]_vars

\* While the outermost guard is active nothing becomes durable; its commit alone
\* makes everything durable.
PersistStep ==
  guards # <<>> /\ Nested(1) /\ guards' # <<>> /\ Nested(1)' => committed' = committed

OnlyCommitPersists == [][PersistStep]_vars
=============================================================================
