----------------------------- MODULE MCLifetimes ------------------------------
(* Lifetimes on small instances: four hooks of two connections, three guards,   *)
(* three coroutines on two threads, a script of two pieces and so on.           *)
EXTENDS Lifetimes, Sequences, TLC

CONSTANTS a1, a2, a3, b1, b2, c1, c2, a4, e1, e2, e3, w1, w2, s1, s2, l1, l2, m1, m2

Three == {a1, a2, a3}
Two == {b1, b2}
Couple == {c1, c2}
FourHooks == Three \cup {a4}
OwnersOfHooks == [x \in FourHooks |-> IF x = a4 THEN 2 ELSE 1]
ThreeEntries == {e1, e2, e3}

MainOfEach == [t \in Couple |-> t]
Classes ==
  w1 :> "database" @@ w2 :> "database" @@ s1 :> "statement" @@ s2 :> "statement" @@
  l1 :> "lease" @@ l2 :> "lease" @@ m1 :> "backup" @@ m2 :> "blob"
Classed == DOMAIN Classes

Statement(sort, gives, fails, expected) ==
  [kind |-> sort, gives |-> gives, fails |-> fails, snapshot |-> expected, spaced |-> TRUE, skip |-> FALSE]

Skipping(statement) == [statement EXCEPT !.skip = TRUE]
Tight(statement) == [statement EXCEPT !.spaced = FALSE]

Short == <<1>>
Wide == <<1, 2>>

Statements ==
  { Statement("broken", <<>>, FALSE, None), Statement("change", <<>>, FALSE, None),
    Skipping(Statement("change", <<>>, TRUE, None)), Statement("query", <<Wide, Short>>, FALSE, None),
    Skipping(Statement("query", <<Wide>>, FALSE, None)), Statement("query", <<Wide, Wide>>, FALSE, <<Wide, Short>>),
    Tight(Statement("query", <<Short>>, FALSE, <<<<2>>>>)), Statement("query", <<>>, FALSE, <<Short>>),
    Tight(Statement("query", <<Short>>, TRUE, <<Short>>)), Statement("query", <<>>, TRUE, <<>>) }

Mark(spaced) == [kind |-> "mark", spaced |-> spaced]
Heads == {<<>>, <<Mark(TRUE)>>, <<Mark(FALSE)>>, <<Mark(FALSE), Mark(TRUE)>>}
Single == {<<>>} \cup {<<s>> : s \in Statements}

SomeScripts ==
  {head \o <<s, t>> : head \in Heads, s, t \in Statements}
    \cup {head \o body \o <<Mark(spaced), s>> : head \in Heads, body \in Single, spaced \in BOOLEAN, s \in Statements}
    \cup {body \o <<Mark(spaced)>> \o other : body, other \in Single, spaced \in BOOLEAN}
    \cup {<<s, Mark(FALSE), s, Mark(TRUE), t>> : s, t \in Statements}

\* Names that look like something else, in quotes; and clauses that mislead a scan.
NamesOfColumns == {<<"a">>, <<"\"", "b", " ", "=", "\"", "\"", "(", "\"">>, <<"[", "WITHOUT", " ", "ROWID", "]">>}
TypesOfColumns == {<<>>, <<"INT">>, <<"t", " ", "t", "(", "1", ",", "2", ")">>}

Clause(is, text, value) == [is |-> is, text |-> text, value |-> value]
PrimaryKey == Clause("primary key", <<"PRIMARY", " ", "KEY">>, <<>>)
Clauses ==
  { PrimaryKey, Clause("not null", <<"NOT", " ", "NULL">>, <<>>), Clause("hidden", <<"HIDDEN">>, <<>>),
    Clause("default", <<"DEFAULT", " ">>, <<"1">>),
    Clause("default", <<"DEFAULT", " ">>, <<"'", "HIDDEN", "'", "'", " ", "'">>),
    Clause("default", <<"DEFAULT", " ">>, <<"(", "a", "(", ")", " ", "AS", " ", "INT", ")">>),
    Clause("collate", <<"COLLATE", " ">>, <<"n">>),
    Clause("collate", <<"COLLATE", " ">>, <<"[", "NOT", " ", "NULL", "]">>),
    Clause("generated", <<"AS", " ">>, <<"(", "a", "=", "(", "b", ")", ",", "'", ")", "'", ")">>),
    Clause("named", <<"CONSTRAINT", " ", "c">>, <<>>) }

Column(name, type, clauses, gap) ==
  [kind |-> "column", name |-> name, type |-> type, clauses |-> clauses, gap |-> gap]
TwoBlanks == <<" ", " ">>

OneColumn ==
  {Column(name, type, cs, gap) : name \in NamesOfColumns, type \in TypesOfColumns,
     cs \in {<<>>} \cup {<<c>> : c \in Clauses}, gap \in {<<" ">>, TwoBlanks}}
  \cup {Column(<<"a">>, <<"INT">>, <<c, d>>, TwoBlanks) : c, d \in Clauses}

Entry(name, suffix) == [name |-> name, suffix |-> suffix]
TableConstraint(sort, name, list, gap) ==
  [kind |-> "constraint", sort |-> sort, name |-> name, list |-> list, gap |-> gap]
Parameter(key, value, gap) == [kind |-> "param", key |-> key, value |-> value, gap |-> gap]

SomeArguments ==
  { Column(<<"a">>, <<"INT">>, <<PrimaryKey>>, <<" ">>), Column(<<"[", "a", "]">>, <<>>, <<>>, <<" ">>),
    Column(<<"b">>, <<"t">>, <<PrimaryKey>>, TwoBlanks),
    Column(<<"\"", "c", ",", "\"">>, <<>>, <<Clause("hidden", <<"HIDDEN">>, <<>>)>>, <<" ">>),
    TableConstraint("primary", <<>>,
      <<Entry(<<"a">>, <<" ", "ASC">>), Entry(<<"\"", "c", ",", "\"">>, <<>>)>>, <<" ">>),
    TableConstraint("unique", <<"[", "PRIMARY", " ", "KEY", "]">>,
      <<Entry(<<"b">>, <<" ", "COLLATE", " ", "n">>)>>, <<>>),
    TableConstraint("check", <<>>, <<Entry(<<"a">>, <<"=", "(", "'", ")", "'", ")">>)>>, <<>>),
    TableConstraint("foreign", <<"c">>, <<Entry(<<"b">>, <<>>)>>, TwoBlanks),
    [kind |-> "option", gap |-> TwoBlanks] }
AParameter == Parameter(<<"k">>, <<"'", "WITHOUT", " ", "ROWID", "'">>, <<" ">>)

SomeParameters ==
  {Parameter(key, value, <<>>) : key \in {<<"k">>, <<"[", "k", "]">>, <<"m">>},
     value \in {<<"2", "x">>, <<"'", "on", "'">>, <<>>}}

SomeArgvs ==
  {<<d>> : d \in OneColumn}
    \cup {<<d, e, f>> : d, f \in SomeArguments, e \in SomeArguments \cup {AParameter}}
    \cup {<<d, e>> : d \in SomeParameters, e \in {p \in SomeParameters : p.key = <<"[", "k", "]">>}}

KeysOfParams == {<<"k">>, <<"\"", "m", "\"">>}
OffOn == <<<<"off">>, <<"on">>>>

\* Scripts alone, for the runs that show what the runner overlooks.
RunnerAlone == LivesSpec /\ part = "runner"

\* True means that the statements of all cells were run, however their marks are spelled.
TrueMeansAllRan == Runner!TrueMeansAllRan

\* True means that no statement that was run has failed.
TrueMeansNoneFailed == Runner!TrueMeansNoneFailed

Symmetry == Permutations(Three) \cup Permutations(Two)
=============================================================================
