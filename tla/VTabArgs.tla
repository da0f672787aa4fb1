------------------------------- MODULE VTabArgs -------------------------------
(* The arguments of CREATE VIRTUAL TABLE (sqlite3_vtab_arg.hpp): parameters,    *)
(* columns, constraints and options, told apart and taken to pieces by scanning *)
(* their texts, put together again for sqlite3_declare_vtab, and bound to the   *)
(* variables of the application.  A text is a sequence of letters; a keyword,   *)
(* whatever its case, counts as one letter of an identifier.  SQLite hands over *)
(* texts whose quotes and parentheses match, without a comma outside them.      *)
EXTENDS Integers, Sequences, FiniteSetsExt, SequencesExt

CONSTANTS
  Argvs,       \* the lists of arguments, each argument as SQL means it
  Keys,        \* the names the application binds
  Options,     \* the texts of an enumeration
  MaxParams    \* how many bindings a schema holds (MAX_PARAMS)

VARIABLES
  argv,        \* the arguments of one table
  slots,       \* the bindings of its schema, with what they wrote
  matched      \* what the last parse returned, or -1 before it

argsVars == <<argv, slots, matched>>

-----------------------------------------------------------------------------
(* Scanning *)

Ident(c) == c \notin {" ", ",", "(", ")", "=", "'", "\"", "[", "]"}
QuoteOpen(c) == c \in {"'", "\"", "["}
QuoteClose(c) == IF c = "[" THEN "]" ELSE c

\* The first position from i on where one of cs stands, or the end.
Until(s, i, cs) == Min({j \in i..Len(s) : s[j] \in cs} \cup {Len(s) + 1})
SkipSpaces(s, i) == Min({j \in i..Len(s) : s[j] # " "} \cup {Len(s) + 1})

Trim(s) ==
  LET solid == {i \in DOMAIN s : s[i] # " "}
  IN  IF solid = {} THEN <<>> ELSE SubSeq(s, Min(solid), Max(solid))

\* Mutant of SkipQuoted: a doubled quote ends the text.
SkipQuotedOnce(s, i) == Until(s, i + 1, {QuoteClose(s[i])}) + 1

\* The position behind the quoted text that starts at i; a doubled quote is part of it.
SkipQuoted(s, i) ==
  LET quote == QuoteClose(s[i])
      Past[j \in Nat] ==
        CASE j > Len(s) -> j
          [] j <= Len(s) /\ s[j] # quote -> Past[j + 1]
          [] j < Len(s) /\ s[j] = quote /\ s[j + 1] = quote -> Past[j + 2]
          [] OTHER -> j + 1
  IN  Past[i + 1]

\* The position behind the parenthesis that closes the one at i.
SkipParenthesized(s, i) ==
  LET Past[j, depth \in Nat] ==
        CASE j > Len(s) \/ depth = 0 -> j
          [] j <= Len(s) /\ depth > 0 /\ QuoteOpen(s[j]) -> Past[SkipQuoted(s, j), depth]
          [] j <= Len(s) /\ depth > 0 /\ s[j] = "(" -> Past[j + 1, depth + 1]
          [] j <= Len(s) /\ depth > 0 /\ s[j] = ")" -> Past[j + 1, depth - 1]
          [] OTHER -> Past[j + 1, depth]
  IN  Past[i + 1, 1]

\* The positions where a scan looks that passes over quoted texts.
Stops(s) ==
  LET From[i \in Nat] ==
        CASE i > Len(s) -> {}
          [] i <= Len(s) /\ QuoteOpen(s[i]) -> From[SkipQuoted(s, i)]
          [] OTHER -> {i} \cup From[i + 1]
  IN  From[1]

\* The words stand at i, and no identifier goes on behind or, if so asked, in front of them.
EndsAt(s, i) == i > Len(s) \/ ~Ident(s[i])
AtPhrase(s, i, words) ==
  /\ IsPrefix(words, SubSeq(s, i, Len(s)))
  /\ i = 1 \/ ~Ident(s[i - 1])
  /\ EndsAt(s, i + Len(words))
StartsWith(s, words) == IsPrefix(words, s) /\ EndsAt(s, Len(words) + 1)

HasWord(s, word) == \E i \in Stops(s) : AtPhrase(s, i, <<word>>)
HasSequence(s, first, second) ==
  \E i \in Stops(s) :
    /\ AtPhrase(s, i, <<first>>)
    /\ LET j == SkipSpaces(s, i + 1) IN j <= Len(s) /\ s[j] = second /\ EndsAt(s, j + 1)

Unquoted(s) ==
  IF Len(s) >= 2 /\ QuoteOpen(Head(s)) /\ Last(s) = QuoteClose(Head(s)) THEN Front(Tail(s)) ELSE s

SameName(s, t) == Unquoted(s) = Unquoted(t)

\* The name in "name ASC" or "[name] COLLATE NOCASE".
BaseName(s) ==
  LET t == Trim(s)
  IN  IF t = <<>> THEN t
      ELSE LET end == IF QuoteOpen(t[1]) THEN SkipQuoted(t, 1) ELSE Until(t, 1, {" ", ",", ")"})
           IN  Unquoted(SubSeq(t, 1, end - 1))

-----------------------------------------------------------------------------
(* Columns, constraints and parameters *)

ColumnOf(full) ==
  LET end == IF QuoteOpen(full[1]) THEN SkipQuoted(full, 1) ELSE Until(full, 1, {" "})
  IN  [name |-> SubSeq(full, 1, end - 1),
       definition |-> SubSeq(full, SkipSpaces(full, end), Len(full)),
       full |-> full]

Flags(d) ==
  {f \in {"not null", "primary key", "hidden", "generated"} :
     \/ f = "not null" /\ HasSequence(d, "NOT", "NULL")
     \/ f = "primary key" /\ HasSequence(d, "PRIMARY", "KEY")
     \/ f = "hidden" /\ HasWord(d, "HIDDEN")
     \/ f = "generated" /\ (HasWord(d, "GENERATED") \/ HasWord(d, "AS"))}

\* INT is looked for in the whole definition, and CONSTRAINT holds it.
IsInteger(d) == \E i \in DOMAIN d : d[i] \in {"INT", "CONSTRAINT"}

IsRowidAlias(d) == "primary key" \in Flags(d) /\ IsInteger(d)

\* Where that begins which follows the first such keyword, and 0 if nothing does.
Behind(d, word) ==
  LET at == {i \in Stops(d) : AtPhrase(d, i, <<word>>)}
      start == SkipSpaces(d, Min(at) + 1)
  IN  IF at = {} \/ start > Len(d) THEN 0 ELSE start

Collation(d) ==
  LET i == Behind(d, "COLLATE")
      end == IF QuoteOpen(d[i]) THEN SkipQuoted(d, i) ELSE Until(d, i, {" ", ",", ")"})
  IN  IF i = 0 THEN <<>> ELSE SubSeq(d, i, end - 1)

DefaultValue(d) ==
  LET i == Behind(d, "DEFAULT")
      end == CASE d[i] = "'" -> SkipQuoted(d, i)
               [] d[i] = "(" -> SkipParenthesized(d, i)
               [] OTHER -> Until(d, i, {" ", ",", ")"})
  IN  IF i = 0 THEN <<>> ELSE SubSeq(d, i, end - 1)

\* An identifier may end in AS: what stands in front of it is not looked at.
GeneratedExpression(d) ==
  LET Paren(i) == SkipSpaces(d, i + 1)
      Opens(i) == Paren(i) <= Len(d) /\ d[Paren(i)] = "("
      at == {i \in Stops(d) : d[i] = "AS" /\ EndsAt(d, i + 1) /\ Opens(i)}
      open == Paren(Min(at))
  IN  IF at = {} THEN <<>> ELSE Trim(SubSeq(d, open + 1, SkipParenthesized(d, open) - 2))

ConstraintWords ==
  {<<"PRIMARY", " ", "KEY">>, <<"NOT", " ", "NULL">>}
    \cup {<<"NULL">>, <<"UNIQUE">>, <<"CHECK">>, <<"DEFAULT">>, <<"COLLATE">>, <<"GENERATED">>, <<"AS">>,
           <<"HIDDEN">>, <<"REFERENCES">>, <<"CONSTRAINT">>, <<"AUTOINCREMENT">>}

\* All in front of the first constraint.  Without end at a comma or a closing parenthesis
\* outside all others: no argument has one there.
DataType(d) ==
  LET From[j \in Nat] ==
        LET i == SkipSpaces(d, j)
        IN  CASE i > Len(d) -> Trim(d)
              [] i <= Len(d) /\ (\E w \in ConstraintWords : AtPhrase(d, i, w)) ->
                   Trim(SubSeq(d, 1, i - 1))
              [] OTHER -> From[CASE d[i] = "(" -> SkipParenthesized(d, i)
                                 [] QuoteOpen(d[i]) -> SkipQuoted(d, i)
                                 [] OTHER -> Until(d, i, {" ", "(", ",", ")"})]
  IN  From[1]

\* PRIMARY_KEY, which is taken for PRIMARY KEY, is left out.
Sorts ==
  [primary |-> <<"PRIMARY", " ", "KEY">>, unique |-> <<"UNIQUE">>, check |-> <<"CHECK">>,
   foreign |-> <<"FOREIGN", " ", "KEY">>]

\* The text in the first parentheses behind an optional name and the kind of constraint.
ConstraintOf(full) ==
  LET named == StartsWith(full, <<"CONSTRAINT">>)
      start == SkipSpaces(full, 2)
      quoted == start <= Len(full) /\ QuoteOpen(full[start])
      end == IF quoted THEN SkipQuoted(full, start) ELSE Until(full, start, {" ", "("})
      rest == IF named THEN SubSeq(full, SkipSpaces(full, end), Len(full)) ELSE full
      opens == {i \in Stops(rest) : rest[i] = "("}
      close == SkipParenthesized(rest, Min(opens)) - 1
      sorts == {k \in DOMAIN Sorts : StartsWith(rest, Sorts[k])}
  IN  [sort |-> IF sorts = {} THEN "unknown" ELSE CHOOSE k \in sorts : TRUE,
       name |-> IF named THEN Unquoted(SubSeq(full, start, end - 1)) ELSE <<>>,
       raw |-> IF opens = {} \/ rest[close] # ")" THEN <<>>
               ELSE Trim(SubSeq(rest, Min(opens) + 1, close - 1)),
       full |-> full]

\* The texts between the commas that Cuts finds.
Between(s, cuts) ==
  LET ends == SetToSortSeq(cuts \cup {Len(s) + 1}, <)
  IN  [k \in DOMAIN ends |-> SubSeq(s, IF k = 1 THEN 1 ELSE ends[k - 1] + 1, ends[k] - 1)]

\* Mutant of ColumnNames: commas in quoted names count.
ColumnNamesAtCommas(raw) ==
  LET parts == Between(raw, {i \in DOMAIN raw : raw[i] = ","})
  IN  SelectSeq([k \in DOMAIN parts |-> BaseName(parts[k])], LAMBDA name : name # <<>>)

ColumnNames(raw) ==
  LET parts == Between(raw, {i \in Stops(raw) : raw[i] = ","})
  IN  SelectSeq([k \in DOMAIN parts |-> BaseName(parts[k])], LAMBDA name : name # <<>>)

\* Constraint, option, parameter or column: the first that fits.
ArgOf(raw) ==
  LET s == Trim(raw)
      marks == {i \in Stops(s) : s[i] \in {"(", "="}}
      key == Trim(SubSeq(s, 1, Min(marks) - 1))
  IN  CASE s = <<>> -> [kind |-> "empty"]
        [] s # <<>> /\ (\E w \in Range(Sorts) \cup {<<"CONSTRAINT">>} : StartsWith(s, w)) ->
             [kind |-> "constraint", constraint |-> ConstraintOf(s)]
        [] OTHER ->
             IF HasSequence(s, "WITHOUT", "ROWID") THEN [kind |-> "option"]
             ELSE IF marks # {} /\ s[Min(marks)] = "=" /\ Min(marks) > 1 /\ " " \notin Range(key)
             THEN [kind |-> "param", key |-> key, value |-> Trim(SubSeq(s, Min(marks) + 1, Len(s)))]
             ELSE [kind |-> "column", column |-> ColumnOf(s)]

-----------------------------------------------------------------------------
(* All arguments of a table *)

Chosen(args, kind) == SelectSeq(args, LAMBDA a : a.kind = kind)
ColumnsOf(args) == [k \in DOMAIN Chosen(args, "column") |-> Chosen(args, "column")[k].column]
ConstraintsOf(args) == [k \in DOMAIN Chosen(args, "constraint") |-> Chosen(args, "constraint")[k].constraint]
ParamsOf(args) == Chosen(args, "param")

\* The first parameter, and the first column, of that name; 0 and an empty key stand for none.
FindParam(args, name) ==
  LET at == {i \in DOMAIN ParamsOf(args) : SameName(ParamsOf(args)[i].key, name)}
  IN  IF at = {} THEN [kind |-> "param", key |-> <<>>, value |-> <<>>] ELSE ParamsOf(args)[Min(at)]
ColumnIndex(args, name) ==
  LET at == {i \in DOMAIN ColumnsOf(args) : SameName(ColumnsOf(args)[i].name, name)}
  IN  IF at = {} THEN 0 ELSE Min(at)

Flagged(args, flag) == {i \in DOMAIN ColumnsOf(args) : flag \in Flags(ColumnsOf(args)[i].definition)}

KeyNames(args) ==
  FlattenSeq([k \in DOMAIN ConstraintsOf(args) |->
    IF ConstraintsOf(args)[k].sort = "primary" THEN ColumnNames(ConstraintsOf(args)[k].raw) ELSE <<>>])
PrimaryKeyCount(args) == Cardinality(Flagged(args, "primary key")) + Len(KeyNames(args))
PrimaryKeyIndexes(args) ==
  Flagged(args, "primary key") \cup ({ColumnIndex(args, name) : name \in Range(KeyNames(args))} \ {0})

IsWithoutRowid(texts) == \E i \in DOMAIN texts : HasSequence(texts[i], "WITHOUT", "ROWID")

\* Mutant of RowidAliasIndex: an integer among several key columns is taken for the rowid.
RowidAliasAmongKeys(texts, args) ==
  LET at == {i \in DOMAIN ColumnsOf(args) : IsRowidAlias(ColumnsOf(args)[i].definition)}
  IN  IF IsWithoutRowid(texts) \/ at = {} THEN 0 ELSE Min(at)

RowidAliasIndex(texts, args) ==
  LET at == {i \in DOMAIN ColumnsOf(args) : IsRowidAlias(ColumnsOf(args)[i].definition)}
  IN  IF IsWithoutRowid(texts) \/ PrimaryKeyCount(args) > 1 \/ at = {} THEN 0 ELSE Min(at)

Joined(texts) == FlattenSeq([k \in DOMAIN texts |-> (IF k = 1 THEN <<>> ELSE <<",", " ">>) \o texts[k]])

\* Mutant of DeclaredBody: a parameter is declared like a column.
BodyOfAll(args, extra) ==
  Joined([k \in DOMAIN ColumnsOf(args) |-> ColumnsOf(args)[k].full] \o extra
    \o [k \in DOMAIN ParamsOf(args) |-> ParamsOf(args)[k].key \o <<"=">> \o ParamsOf(args)[k].value]
    \o [k \in DOMAIN ConstraintsOf(args) |-> ConstraintsOf(args)[k].full])

\* What stands between CREATE TABLE name( and the closing parenthesis.
DeclaredBody(args, extra) ==
  Joined([k \in DOMAIN ColumnsOf(args) |-> ColumnsOf(args)[k].full] \o extra
    \o [k \in DOMAIN ConstraintsOf(args) |-> ConstraintsOf(args)[k].full])

-----------------------------------------------------------------------------
(* What the arguments mean to SQL, and how SQLite hands them over *)

Rendered(d) ==
  CASE d.kind = "column" ->
         d.name \o (IF d.type = <<>> THEN <<>> ELSE d.gap \o d.type)
           \o FlattenSeq([k \in DOMAIN d.clauses |-> d.gap \o d.clauses[k].text \o d.clauses[k].value])
    [] d.kind = "constraint" ->
         (IF d.name = <<>> THEN <<>> ELSE <<"CONSTRAINT", " ">> \o d.name \o <<" ">>)
           \o Sorts[d.sort] \o d.gap
           \o <<"(">> \o Joined([k \in DOMAIN d.list |-> d.list[k].name \o d.list[k].suffix]) \o <<")">>
    [] d.kind = "param" -> d.key \o d.gap \o <<"=">> \o d.gap \o d.value
    [] d.kind = "option" -> <<"WITHOUT">> \o d.gap \o <<"ROWID">>

Texts == [i \in DOMAIN argv |-> Rendered(argv[i])]
Args == [i \in DOMAIN argv |-> ArgOf(Texts[i])]

\* The commas that separate the parts of CREATE TABLE.
TopCommas(s) ==
  LET From[i \in Nat] ==
        CASE i > Len(s) -> {}
          [] i <= Len(s) /\ QuoteOpen(s[i]) -> From[SkipQuoted(s, i)]
          [] i <= Len(s) /\ s[i] = "(" -> From[SkipParenthesized(s, i)]
          [] OTHER -> (IF s[i] = "," THEN {i} ELSE {}) \cup From[i + 1]
  IN  From[1]

-----------------------------------------------------------------------------
(* The schema of parameters *)

Unset == <<"unset">>
Types == {"int", "str", "enum"}
Digits == {"1", "2"}

\* Whether a value of that type can be had from the text, what is written, and whether
\* anything is; every number goes the way of an int.  An enumeration writes -1 over the
\* default when it does not know the text.
Valid(type, value) ==
  CASE type = "int" -> value # <<>> /\ Head(value) \in Digits
    [] type = "str" -> TRUE
    [] type = "enum" -> Unquoted(value) \in Range(Options)
Written(type, value) ==
  CASE type = "int" -> <<Head(value)>>
    [] type = "str" -> value
    [] type = "enum" -> IF Valid(type, value) THEN Unquoted(value) ELSE <<"-1">>
Writes(type, value) == type = "enum" \/ Valid(type, value)

HasBinding(name) == \E k \in DOMAIN slots : SameName(slots[k].name, name)
SlotOf(bound, p) == {k \in DOMAIN bound : SameName(bound[k].name, p.key)}

\* Mutant of Take: a value that does not fit falls through to the next slot of its name.
TakeNext(bound, p) ==
  LET fits == {k \in SlotOf(bound, p) : Valid(bound[k].type, p.value)}
  IN  IF fits = {} THEN bound ELSE [bound EXCEPT ![Min(fits)].out = Written(bound[Min(fits)].type, p.value)]

\* One parameter goes to the first slot of its name.
Take(bound, p) ==
  LET k == Min(SlotOf(bound, p))
  IN  IF SlotOf(bound, p) = {} \/ ~Writes(bound[k].type, p.value) THEN bound
      ELSE [bound EXCEPT ![k].out = Written(bound[k].type, p.value)]

ValidateCount == Len(SelectSeq(ParamsOf(Args), LAMBDA p : ~HasBinding(p.key)))

ArgsInit == argv \in Argvs /\ slots = <<>> /\ matched = -1

\* A binding beyond the last slot is dropped without a word.
Bind(name, type) ==
  /\ matched = -1
  /\ \E i \in DOMAIN argv : argv[i].kind = "param"
  /\ slots' = IF Len(slots) >= MaxParams THEN slots
              ELSE Append(slots, [name |-> name, type |-> type, out |-> Unset])
  /\ UNCHANGED <<argv, matched>>

Parse ==
  /\ slots # <<>>
  /\ slots' = FoldLeft(Take, slots, ParamsOf(Args))
  /\ matched' = Len(SelectSeq(ParamsOf(Args), LAMBDA p :
       SlotOf(slots, p) # {} /\ Valid(slots[Min(SlotOf(slots, p))].type, p.value)))
  /\ UNCHANGED argv

ArgsNext == Parse \/ \E name \in Keys, type \in Types : Bind(name, type)

-----------------------------------------------------------------------------
(* Properties *)

Meant(kind) == SelectSeq(argv, LAMBDA d : d.kind = kind)
ClauseOf(d, is) == {k \in DOMAIN d.clauses : d.clauses[k].is = is}
ValueOf(d, is) == IF ClauseOf(d, is) = {} THEN <<>> ELSE d.clauses[Min(ClauseOf(d, is))].value
Keyword(flag) ==
  CASE flag = "not null" -> "NOT" [] flag = "primary key" -> "PRIMARY" [] flag = "hidden" -> "HIDDEN"
    [] flag = "generated" -> "AS"

\* The word stands in the parentheses of a clause, which the scans do not pass over.
InParentheses(d, word) ==
  \E v \in {d.clauses[k].value : k \in DOMAIN d.clauses} :
    v # <<>> /\ Head(v) = "(" /\ word \in Range(v)

ColumnReadBack(d, c) ==
  /\ c.name = d.name
  /\ DataType(c.definition) = d.type
  /\ \A f \in {"not null", "primary key", "hidden", "generated"} :
       /\ ClauseOf(d, f) # {} => f \in Flags(c.definition)
       /\ f \in Flags(c.definition) => ClauseOf(d, f) # {} \/ InParentheses(d, Keyword(f))
  /\ DefaultValue(c.definition) = ValueOf(d, "default")
  /\ Collation(c.definition) = ValueOf(d, "collate")
  /\ \/ GeneratedExpression(c.definition) =
            IF ClauseOf(d, "generated") = {} THEN <<>> ELSE Front(Tail(ValueOf(d, "generated")))
     \/ InParentheses(d, "AS")
  /\ \/ IsInteger(c.definition) <=> "INT" \in Range(d.type)
     \/ \E k \in DOMAIN d.clauses : IsInteger(d.clauses[k].text \o d.clauses[k].value)

\* Every argument is taken for what it is, and is taken to the pieces it was made of: names
\* with blanks, equality signs and keywords in quotes, doubled quotes, nested parentheses
\* and repeated blanks mislead none of the scans.  Not promised, since the code does not
\* hold it: words in the parentheses of a clause may set a flag or pass for an expression,
\* and INT in a clause makes a column an integer.
ArgumentsReadBack ==
  \A i \in DOMAIN argv :
    /\ Args[i].kind = argv[i].kind
    /\ argv[i].kind = "column" => ColumnReadBack(argv[i], Args[i].column)
    /\ argv[i].kind = "param" => Args[i].key = argv[i].key /\ Args[i].value = argv[i].value
    /\ argv[i].kind = "constraint" =>
         /\ Args[i].constraint.sort = argv[i].sort
         /\ Args[i].constraint.name = Unquoted(argv[i].name)
         /\ argv[i].sort # "check" =>
              ColumnNames(Args[i].constraint.raw) =
                [k \in DOMAIN argv[i].list |-> Unquoted(argv[i].list[k].name)]

\* The primary key is made of the columns whose definition or whose table constraint says
\* so, whichever order the arguments come in, and WITHOUT ROWID is seen where it is meant.
CatalogueExact ==
  LET columns == Meant("column")
      keys == {d \in Range(Meant("constraint")) : d.sort = "primary"}
      listed == {entry.name : entry \in UNION {Range(d.list) : d \in keys}}
  IN  /\ \A k \in DOMAIN columns :
           LET same == {j \in DOMAIN columns : SameName(columns[j].name, columns[k].name)}
           IN  ColumnIndex(Args, columns[k].name) = Min(same)
      /\ PrimaryKeyIndexes(Args) =
           {k \in DOMAIN columns :
              \/ ClauseOf(columns[k], "primary key") # {}
              \/ /\ \E name \in listed : SameName(name, columns[k].name)
                 /\ \A j \in 1..(k - 1) : ~SameName(columns[j].name, columns[k].name)}
      /\ IsWithoutRowid(Texts) <=> Meant("option") # <<>>
      /\ RowidAliasIndex(Texts, Args) # 0 => PrimaryKeyIndexes(Args) = {RowidAliasIndex(Texts, Args)}

\* SQLite, and the parser itself, read in the synthesised declaration the columns, the extra
\* columns and the constraints of the arguments, each once and in order, and no parameter.
DeclarationReadsBack ==
  \A extra \in {<<>>, << <<"h", " ", "HIDDEN">> >>} :
    LET body == DeclaredBody(Args, extra)
        parts == Between(body, TopCommas(body))
        again == [k \in DOMAIN parts |-> ArgOf(parts[k])]
    IN  /\ ColumnsOf(again) = ColumnsOf(Args) \o [k \in DOMAIN extra |-> ColumnOf(extra[k])]
        /\ ConstraintsOf(again) = ConstraintsOf(Args)
        /\ ParamsOf(again) = <<>>

\* After a parse, the first binding of a name has the value of the last parameter of that
\* name that could be written, the value one finds under that name if it is given once; and
\* matched, unfit and unknown parameters are all there are.
SchemaExact ==
  LET given == Meant("param")
      Fed(k) == {i \in DOMAIN given : SameName(given[i].key, slots[k].name)}
      First(k) == \A j \in 1..(k - 1) : ~SameName(slots[j].name, slots[k].name)
      Writing(k) == {i \in Fed(k) : First(k) /\ Writes(slots[k].type, given[i].value)}
      Unfit(k) == {i \in Fed(k) : First(k) /\ ~Valid(slots[k].type, given[i].value)}
  IN  /\ \A k \in DOMAIN slots :
           /\ slots[k].out = IF Writing(k) = {} THEN Unset
                             ELSE Written(slots[k].type, given[Max(Writing(k))].value)
           /\ Cardinality(Fed(k)) = 1 => FindParam(Args, slots[k].name).value = given[Min(Fed(k))].value
      /\ matched + ValidateCount + Cardinality(UNION {Unfit(k) : k \in DOMAIN slots}) = Len(given)

\* A schema keeps to its slots, and a parse matches each parameter once at most.
ArgsTypeOK ==
  /\ argv \in Argvs
  /\ Len(slots) <= MaxParams
  /\ \A k \in DOMAIN slots : slots[k].name \in Keys /\ slots[k].type \in Types
  /\ matched \in -1..Len(Meant("param"))

\* The parts that depend on the arguments alone are looked at before anything is bound.
ArgsSafe ==
  ArgsTypeOK /\
  IF slots = <<>> THEN ArgumentsReadBack /\ CatalogueExact /\ DeclarationReadsBack
  ELSE matched >= 0 => SchemaExact
=============================================================================
