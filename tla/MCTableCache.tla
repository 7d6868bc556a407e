---------------------------- MODULE MCTableCache ----------------------------
(***************************************************************************)
(* A table whose rows are told apart by one column, which is the schema    *)
(* index.                                                                  *)
(***************************************************************************)
EXTENDS TableCache, TLC

CONSTANTS Value, byName

MCModel == [name : Value]
MCIndexColumns == [i \in {byName} |-> <<[column |-> "name", key |-> NoKey]>>]

Symmetry == Permutations(UUID) \cup Permutations(Value)

=============================================================================
