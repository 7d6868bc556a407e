---------------------------- MODULE SchemaTypes -----------------------------
(***************************************************************************)
(* The types of a schema: the values that a column can have, models and    *)
(* rows of any set of columns, and the operands of mutations.  The code    *)
(* never sees others, as a row or a mutation of another type is refused    *)
(* when it is decoded (ovsdb/bindings.go).                                 *)
(***************************************************************************)
EXTENDS ModelUpdates

CONSTANT
  Atom            \* what sets, maps, optionals and atom columns are made of

Maps(A) == UNION {[K -> A] : K \in SUBSET A}

\* The native values of a column, and their OVSDB notation.
Native(c) ==
  CASE IsSet(Kind[c]) -> SUBSET Atom
    [] IsMap(Kind[c]) -> Maps(Atom)
    [] Kind[c] = "optional" -> Atom \cup {Nil}
    [] Kind[c] = "integer" -> Int
    [] OTHER -> Atom

Ovs(c) == IF Kind[c] = "optional" THEN {{}} \cup {{x} : x \in Atom} ELSE Native(c)

Values(A) == (SUBSET A) \cup Maps(A) \cup A \cup {Nil} \cup Int

\* The models of a table with the columns C.
ModelOn(C) == {m \in [C -> Values(Atom)] : \A c \in C : m[c] \in Native(c)}

\* A row may have columns that the schema does not know.
IsRow(row) ==
  /\ row = [c \in DOMAIN row |-> row[c]]
  /\ \A c \in Column \cap DOMAIN row : row[c] \in Ovs(c)

\* The operand of a mutation that ValidateMutation has let through.
Operand(c, mutator) ==
  CASE IsSet(Kind[c]) -> SUBSET Atom
    [] IsMap(Kind[c]) -> IF mutator = "deleteKeys" THEN SUBSET Atom ELSE Maps(Atom)
    [] OTHER -> IF mutator \in {"/=", "%="} THEN Int \ {0} ELSE Int

\* Mutations for a table with the columns C.
IsMutationListOn(C, mutations) ==
  /\ Len(mutations) \in Nat /\ DOMAIN mutations = 1..Len(mutations)
  /\ \A n \in DOMAIN mutations :
       LET x == mutations[n]
       IN  x.column \in C /\ ValidateMutation(x.column, x.mutator)
             => x.operand \in Operand(x.column, x.mutator)

\* The zero value of a column is of its type.
ASSUME DefaultAssumption == \A c \in Column : Default(c) \in Native(c)

\* Rows with given columns and values in V, or nil, and the updates that have them.
RowOn(V, C) == [C -> V] \cup {Absent}
RowUpdate2On(V, C, D, E) ==
  [op : {"none", "insert", "modify", "delete", "plain"},
   row : RowOn(V, C), Old : RowOn(V, D), New : RowOn(V, E)]
OldAndNewOn(V, C) == [old : [C -> V] \cup {NoModel}, new : [C -> V] \cup {NoModel}]
ModelUpdateOn(V, C, D, E, F) ==
  [old : [C -> V] \cup {NoModel}, new : [C -> V] \cup {NoModel},
   rowUpdate2 : RowUpdate2On(V, D, E, F)]

\* The nil values and the error are none of the values of the schema, and none
\* of the records that updates are made of.
ASSUME NilAssumption ==
  /\ Nil \notin Atom
  /\ Absent \notin Int \cup Atom \cup {Nil}
  /\ \A K \in SUBSET Atom : K # Absent /\ Absent \notin [K -> Atom]
  /\ LET V == Values(Atom)
     IN  /\ \A C \in SUBSET Column :
              NoModel \notin [C -> V] /\ Absent \notin [C -> V] /\ Error \notin OldAndNewOn(V, C)
         /\ \A C, D, E \in SUBSET Column : Error \notin RowUpdate2On(V, C, D, E)
         /\ \A C, D, E, F \in SUBSET Column : Error \notin ModelUpdateOn(V, C, D, E, F)

=============================================================================
