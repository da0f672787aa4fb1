----------------------------- MODULE SqlRunner ------------------------------
(***************************************************************************)
(* The script runner of sqlite3_sql_runner.hpp: a script is cut into cells *)
(* at its "-- %%" lines, the statements of a cell are prepared and run one *)
(* by one, and the rows of a query are compared with the "-- @snapshot"    *)
(* table in the comment behind it.  Both may be spelled without the blank, *)
(* and are searched for with it first.  A script is a sequence of marks    *)
(* and statements, a statement with the comment behind it; a row is a      *)
(* sequence of values.  What is printed is left out.                       *)
(***************************************************************************)
EXTENDS Integers, Sequences, SequencesExt

CONSTANTS
  Scripts,     \* scripts that may be run
  Required,    \* require_snapshots
  FirstRoom,   \* rows a buffer is made for first: 8
  Null,
  Scanty       \* whether memory may be lacking

VARIABLES
  script,
  at,        \* how far the script has been read
  end,       \* where the cell ends
  phase,     \* "between" cells, in a "cell", in a "query", or "done"
  stepped,   \* the rows the query has given
  snapshot,  \* SqlTableBuffer snapshot
  actual,    \* SqlTableBuffer actual_results
  all_ok,
  ran,       \* for the properties: the statements that were run
  scarce     \* for the properties: whether memory was lacking

runnerVars == <<script, at, end, phase, stepped, snapshot, actual, all_ok, ran, scarce>>

\* What the theorems assume: scripts are sequences of marks and statements, and a buffer is
\* made for a row at least.  "spaced" says whether the mark, or the directive behind the
\* statement, has the blank; a "skip" always has it.
IsSeq(s) == s \in Seq({s[i] : i \in DOMAIN s})
LineFits(l) ==
  /\ l.kind \in {"mark", "broken", "change", "query"} /\ l.spaced \in BOOLEAN
  /\ l.kind # "mark" =>
       /\ l.fails \in BOOLEAN /\ l.skip \in BOOLEAN
       /\ IsSeq(l.gives) /\ (l.snapshot # Null => IsSeq(l.snapshot))
ScriptsAssumption ==
  /\ FirstRoom \in Nat \ {0}
  /\ \A s \in Scripts : IsSeq(s) /\ \A i \in DOMAIN s : LineFits(s[i])

NoTable == [rows |-> <<>>, capacity |-> 0, present |-> FALSE, skip |-> FALSE]

RunnerInit ==
  /\ script \in Scripts
  /\ at = 0 /\ end = 0 /\ phase = "between" /\ stepped = 0
  /\ snapshot = NoTable /\ actual = NoTable
  /\ all_ok = TRUE /\ ran = <<>> /\ scarce = FALSE

-----------------------------------------------------------------------------
(* Marks *)

IsMark(i) == script[i].kind = "mark"

Marks(spaced, from) == {i \in from..Len(script) : IsMark(i) /\ script[i].spaced = spaced}

\* strstr for the one spelling and, where there is none, for the other.
NextMark(from) ==
  CASE Marks(TRUE, from) # {} -> Min(Marks(TRUE, from))
    [] Marks(TRUE, from) = {} /\ Marks(FALSE, from) # {} -> Min(Marks(FALSE, from))
    [] OTHER -> Len(script) + 1

-----------------------------------------------------------------------------
(* Tables *)

\* Mutant of AddRow: the buffer is grown one row late.
AddRowLate(t, row) ==
  [t EXCEPT !.rows = Append(@, row),
            !.capacity = IF Len(t.rows) <= @ THEN @ ELSE IF @ = 0 THEN FirstRoom ELSE 2 * @]

\* try_add_row, where there is memory.
AddRow(t, row) ==
  [t EXCEPT !.rows = Append(@, row),
            !.capacity = IF Len(t.rows) < @ THEN @ ELSE IF @ = 0 THEN FirstRoom ELSE 2 * @]

\* The rows of a snapshot without memory for a line, a row or a cell.
Lossy(rows) ==
  {SubSeq(rows, 1, n) : n \in 0..Len(rows) - 1}
    \cup {RemoveAt(rows, i) : i \in DOMAIN rows}
    \cup UNION {{[rows EXCEPT ![i] = RemoveAt(@, c)] : c \in DOMAIN rows[i]} : i \in DOMAIN rows}

\* The comments behind a statement say "skip", or one behind a later one of the cell does.
SkipAhead(i) == \E j \in i..end : ~IsMark(j) /\ script[j].skip

\* A snapshot behind a later statement is none, but if it is spaced it is found instead of
\* the statement's own that is not.
HasSnapshot(i) ==
  /\ script[i].snapshot # Null
  /\ script[i].spaced \/ \A j \in i..end : ~IsMark(j) /\ script[j].snapshot # Null => ~script[j].spaced

\* The rows are added one by one.
Parsed(rows) ==
  LET Table[n \in 0..Len(rows)] ==
        IF n = 0 THEN [NoTable EXCEPT !.present = TRUE] ELSE AddRow(Table[n - 1], rows[n])
  IN  Table[Len(rows)]

\* parse_snapshot_block, from the end of statement i on.
ParseSnapshotBlock(i, table) ==
  CASE SkipAhead(i) -> table = [NoTable EXCEPT !.present = TRUE, !.skip = TRUE] /\ UNCHANGED scarce
    [] ~SkipAhead(i) /\ ~HasSnapshot(i) -> table = NoTable /\ UNCHANGED scarce
    [] OTHER -> \/ table = Parsed(script[i].snapshot) /\ UNCHANGED scarce
                \/ /\ Scanty /\ scarce' = TRUE
                   /\ \E rows \in Lossy(script[i].snapshot) : table = Parsed(rows)

\* As many rows, and the same values in the columns both have.
Matches(expected, got) ==
  /\ Len(expected) = Len(got)
  /\ \A r \in DOMAIN expected : \A c \in DOMAIN expected[r] \cap DOMAIN got[r] : expected[r][c] = got[r][c]

-----------------------------------------------------------------------------
(* run_string *)

Fails == phase' = "done" /\ all_ok' = FALSE

\* Mutant of CellMark: what stands before the first mark is always run.
CellMarkFirst == IF at = 0 /\ ~IsMark(1) THEN 0 ELSE at + 1

\* The mark of the next cell; what stands before the first one is a cell, without a mark,
\* only if there is none.
CellMark ==
  CASE at > 0 \/ IsMark(1) -> at + 1
    [] at = 0 /\ ~IsMark(1) /\ NextMark(1) <= Len(script) -> NextMark(1)
    [] OTHER -> 0

\* A mark on the line behind the title does not end the cell: it is not behind a newline of it.
FindCell ==
  /\ phase = "between" /\ at < Len(script)
  /\ at' = CellMark /\ end' = NextMark(CellMark + 2) - 1
  /\ \/ phase' = "cell" /\ UNCHANGED <<all_ok, scarce>>
     \/ Scanty /\ Fails /\ scarce' = TRUE
  /\ UNCHANGED <<script, stepped, snapshot, actual, ran>>

Finish ==
  /\ phase = "between" /\ at = Len(script)
  /\ phase' = "done"
  /\ UNCHANGED <<script, at, end, stepped, snapshot, actual, all_ok, ran, scarce>>

EndCell ==
  /\ phase = "cell" /\ at = end
  /\ phase' = "between"
  /\ UNCHANGED <<script, at, end, stepped, snapshot, actual, all_ok, ran, scarce>>

Meets(kind) ==
  /\ phase = "cell" /\ at < end
  /\ at' = at + 1
  /\ script[at + 1].kind = kind

\* A mark within a cell is a comment.
SkipMark ==
  /\ Meets("mark")
  /\ UNCHANGED <<script, end, phase, stepped, snapshot, actual, all_ok, ran, scarce>>

\* sqlite3_prepare_v2 fails.
PrepareFails ==
  /\ Meets("broken") /\ Fails
  /\ UNCHANGED <<script, end, stepped, snapshot, actual, ran, scarce>>

\* A statement without columns.
RunStatement ==
  /\ Meets("change")
  /\ ran' = Append(ran, at + 1)
  /\ IF script[at + 1].fails THEN Fails ELSE UNCHANGED <<phase, all_ok>>
  /\ UNCHANGED <<script, end, stepped, snapshot, actual, scarce>>

\* A query; where a snapshot is required and there is none it is not run.
BeginQuery ==
  /\ Meets("query")
  /\ ParseSnapshotBlock(at + 1, snapshot')
  /\ actual' = NoTable /\ stepped' = 0
  /\ IF Required /\ ~snapshot'.present
     THEN Fails /\ UNCHANGED ran
     ELSE phase' = "query" /\ ran' = Append(ran, at + 1) /\ UNCHANGED all_ok
  /\ UNCHANGED <<script, end>>

Given == script[at].gives

\* step gives a row; one for which the buffer cannot grow is dropped.
StepRow ==
  /\ phase = "query" /\ stepped < Len(Given)
  /\ stepped' = stepped + 1
  /\ \/ actual' = AddRow(actual, Given[stepped + 1]) /\ UNCHANGED scarce
     \/ /\ Scanty /\ Len(actual.rows) = actual.capacity
        /\ scarce' = TRUE /\ UNCHANGED actual
  /\ UNCHANGED <<script, at, end, phase, snapshot, all_ok, ran>>

\* step gives SQLITE_DONE, or an error, which passes for the end of the rows.
EndQuery ==
  /\ phase = "query" /\ stepped = Len(Given)
  /\ IF snapshot.present /\ ~snapshot.skip /\ ~Matches(snapshot.rows, actual.rows)
     THEN Fails
     ELSE phase' = "cell" /\ UNCHANGED all_ok
  /\ UNCHANGED <<script, at, end, stepped, snapshot, actual, ran, scarce>>

RunnerNext ==
  FindCell \/ Finish \/ EndCell \/ SkipMark \/ PrepareFails \/ RunStatement \/ BeginQuery \/ StepRow \/ EndQuery

RunnerSpec == RunnerInit /\ [][RunnerNext]_runnerVars

-----------------------------------------------------------------------------
\* What a script should do: the statements of all cells, in order, up to one that is
\* refused, fails, lacks its snapshot or gives other rows.
Statements ==
  {i \in DOMAIN script : ~IsMark(i) /\ ((\E m \in 1..i : IsMark(m)) \/ \A m \in DOMAIN script : ~IsMark(m))}

RowsRight(i) ==
  script[i].skip \/ IF script[i].snapshot = Null THEN ~Required ELSE Matches(script[i].snapshot, script[i].gives)

Good(i) == script[i].kind # "broken" /\ ~script[i].fails /\ (script[i].kind = "query" => RowsRight(i))

\* What is let pass besides: a query that breaks off behind the rows of its snapshot, and any
\* one in front of a "skip" in its cell.
Overlooked(i) ==
  /\ script[i].kind = "query"
  /\ RowsRight(i) \/ \E j \in i..Len(script) : (\A m \in i..j : ~IsMark(m)) /\ script[j].skip

Passes(i) == Good(i) \/ Overlooked(i)

\* All marks are spelled alike, and so are all snapshots.
OneSpelling ==
  /\ \A i, j \in DOMAIN script : IsMark(i) /\ IsMark(j) => script[i].spaced = script[j].spaced
  /\ \A i, j \in {k \in DOMAIN script : ~IsMark(k)} :
       script[i].snapshot # Null /\ script[j].snapshot # Null => script[i].spaced = script[j].spaced

\* Statements are run in order, none twice, and true means that what was run succeeded, as
\* far as it is no query.  In a script of one spelling nothing is left out or run behind a
\* statement that went wrong, true means that all were run, and it is answered exactly when
\* every statement came out as its snapshot says or was overlooked.  Where memory was
\* lacking snapshots may be read wrong, but true still means that all were run.
RunnerHonest ==
  /\ ToSet(ran) \subseteq Statements /\ \A i, j \in DOMAIN ran : i < j => ran[i] < ran[j]
  /\ phase = "done" /\ all_ok => \A b \in ToSet(ran) : script[b].kind # "query" => Good(b)
  /\ OneSpelling =>
       /\ \A a \in ToSet(ran), b \in Statements : b < a => b \in ToSet(ran) /\ (Passes(b) \/ scarce)
       /\ phase = "done" /\ all_ok => ToSet(ran) = Statements
       /\ phase = "done" /\ ~scarce => (all_ok <=> \A b \in Statements : Passes(b))

\* The rows of a table fit into its buffer.
TablesFit == \A t \in {snapshot, actual} : Len(t.rows) <= t.capacity

RunnerSafe == RunnerHonest /\ TablesFit

\* True means that the statements of all cells were run, however their marks are spelled.
TrueMeansAllRan == phase = "done" /\ all_ok => Statements \subseteq ToSet(ran)

\* True means that no statement that was run has failed.
TrueMeansNoneFailed == phase = "done" /\ all_ok => \A i \in ToSet(ran) : ~script[i].fails
=============================================================================
