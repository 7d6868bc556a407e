---------------------------- MODULE MCRowUpdates ----------------------------
(***************************************************************************)
(* A row with an integer, an optional, a set, a map and an immutable       *)
(* column.  Operations write every value of every column, and mutation     *)
(* lists include those that undo, redo and overwrite their own effect.     *)
(***************************************************************************)
EXTENDS RowUpdates

MCColumn == {"n", "p", "s", "m", "k"}
MCKind == [n |-> "integer", p |-> "optional", s |-> "set", m |-> "map", k |-> "atom"]
MCZeroAtom == [n |-> 0, k |-> 0]

MaxInt == 1
Element == {1, 2}
MCAtom == {0} \cup Element

ElementMaps == Maps(Element)

Single(c, values) == {[x \in {c} |-> v] : v \in values}

MCRows ==
  Single("n", 0..MaxInt) \cup Single("p", {{}, {1}, {2}}) \cup Single("s", SUBSET Element)
    \cup Single("m", ElementMaps) \cup Single("k", {0, 1})
    \cup {EmptyRow, [n |-> 1, s |-> {1}], [p |-> {1}, m |-> [x \in {1} |-> 1]]}

On(c, mutator, value) == [column |-> c, mutator |-> mutator, operand |-> value]

MCMutations ==
  {On("s", op, v) : op \in {"insert", "delete"}, v \in {{1}, {2}, Element}}
    \cup {On("m", op, v) : op \in {"insert", "delete"},
                           v \in {[x \in {1} |-> 1], [x \in {1} |-> 2], [x \in Element |-> 1]}}
    \cup {On("m", "deleteKeys", v) : v \in {{1}, Element}}
    \cup {On("n", "+=", 1), On("n", "-=", 1), On("n", "*=", 0), On("n", "/=", 2), On("n", "%=", 2)}

MCMutationLists ==
  {<<x>> : x \in MCMutations}
    \cup {<<On("s", "insert", {1}), On("s", "delete", Element)>>,
          <<On("m", "deleteKeys", {1}), On("m", "insert", [x \in {1} |-> 2])>>,
          <<On("m", "delete", [x \in {1} |-> 1]), On("m", "insert", [x \in {1} |-> 1])>>,
          <<On("n", "+=", 1), On("s", "insert", {2}), On("n", "-=", 1)>>,
          <<On("p", "insert", {1})>>, <<On("k", "+=", 1)>>, <<On("unknown", "insert", {1})>>}

MCBounded(m) == m # NoModel => m.n \in 0..MaxInt /\ m.k = 0

=============================================================================
