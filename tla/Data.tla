-------------------------------- MODULE Data --------------------------------
(***************************************************************************)
(* The data structures that theorems are about: a behaviour is one of      *)
(* HashMap, of Values or of ValueVec, as "part" says, and nothing happens  *)
(* to the others.                                                          *)
(***************************************************************************)
EXTENDS HashMap

CONSTANTS
  Parts,                                                 \* which of them
  Slots, Blocks, Numbers, Short, Long, Nothing, Lost, Gone,  \* Values
  VecKinds, Vecs, Cells, Inline, FirstRoom, CapLimit, MaxWidth, Rooms, MaxLen   \* ValueVec

VARIABLES part, slot, mem, mine, answer, vkind, vecs, owned, good

Owners == INSTANCE Values

Rows == INSTANCE ValueVec WITH Values <- Cells, NoMemory <- MallocFails

\* What the theorems about values assume.
ValuesAssumption ==
  /\ None \notin Blocks
  /\ Gone \notin Owners!Contents \cup Numbers \cup {Nothing, Lost}

\* What those about containers of values do: no capacity is too large for the 16 bits that keep it.
\* (SQLite allows 32767 columns, and 2^16 is more than twice as much.)
RowsAssumption ==
  /\ IsFiniteSet(Vecs) /\ Cells \subseteq Nat \ {0}
  /\ {Inline, MaxLen, CapLimit} \subseteq Nat /\ FirstRoom \in Nat \ {0}
  /\ Inline + 1 < CapLimit /\ 2 * MaxLen < CapLimit /\ Rooms \subseteq 0 .. CapLimit - 1

ASSUME DataAssumption == ValuesAssumption /\ RowsAssumption

Resting(p) == part # p

ownersVars == <<slot, mem, mine, answer>>
rowsVars == <<vkind, vecs, owned, good>>
dataVars == <<part, vars, ownersVars, rowsVars>>

DataInit ==
  /\ part \in Parts
  /\ Init /\ (Resting("hash") => kind = "map" /\ cap = 4)
  /\ Owners!Init
  /\ Rows!Init /\ (Resting("rows") => vkind = "vec")

DataNext ==
  \/ part = "hash" /\ HashNext /\ UNCHANGED <<part, ownersVars, rowsVars>>
  \/ part = "values" /\ Owners!Next /\ UNCHANGED <<part, vars, rowsVars>>
  \/ part = "rows" /\ Rows!Next /\ UNCHANGED <<part, vars, ownersVars>>

DataSpec == DataInit /\ [][DataNext]_dataVars

\* The entries of the table are where a probe looks for them, and every loop over it ends.
TableConsistent == Resting("hash") \/ (Consistent /\ ProbesEnd)

\* Every call on the table does what it says to the function that the table stands for.
TableCallsExact == Resting("hash") \/ (CallsExact /\ ItemCallsExact)

\* Every heap block has one owner, a value or the application.
ValuesConsistent == Resting("values") \/ Owners!ValuesConsistent

\* Containers of values stay inside their memory and neither lose nor repeat a value.
RowsConsistent == Resting("rows") \/ Rows!VecsConsistent
=============================================================================
