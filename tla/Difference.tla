----------------------------- MODULE Difference -----------------------------
(***************************************************************************)
(* The differences of column values (updates/difference.go) and the        *)
(* mutations that produce them (updates/mutate.go).                        *)
(*                                                                         *)
(* A difference is what an update2 notification carries for a column.  For *)
(* a set it is the symmetric difference, for a map the entries that were   *)
(* added, removed or changed, for an atom or an optional the new value.    *)
(* One algorithm computes a difference, applies it and merges two of them. *)
(*                                                                         *)
(* The code dispatches on the Go kind of its arguments; here the kind of   *)
(* the column is a parameter.  A Go set is a slice without duplicates and  *)
(* is a TLA+ set here, a Go map is a function.  A nil slice or map has no  *)
(* elements, as an empty one.  Each operator returns the value and the     *)
(* boolean the code returns with it.                                       *)
(***************************************************************************)
EXTENDS Integers

CONSTANT Absent   \* a nil interface: no value at all

IsSet(kind) == kind = "set"
IsMap(kind) == kind = "map"
Kinds == {"atom", "integer", "optional", "set", "map"}

EmptyMap == [k \in {} |-> k]

\* What a nil argument stands for in the set and map cases.
orEmpty(kind, v) ==
  IF v # Absent THEN v ELSE IF IsSet(kind) THEN {} ELSE EmptyMap

-----------------------------------------------------------------------------
(* Differences.                                                            *)

\* All elements that belong to only one of the two sets.
setDifference(a, b) ==
  LET d == (a \ b) \cup (b \ a)
  IN  [value |-> d, changed |-> d # {}]

\* The entry of key k disappears from the merged difference: b restores the
\* value of o, or b undoes what a did to a key that o does not have.
restored(o, a, b, k) ==
  /\ k \in DOMAIN a
  /\ IF k \in DOMAIN o THEN o[k] = b[k] ELSE a[k] = b[k]

\* Variant: a key that a changed and b removes is left with its value of b.
mergedEntryPlain(o, a, b, k) == IF k \in DOMAIN b THEN b[k] ELSE a[k]

\* The entry of key k in the merged difference.  When a changed the key and b
\* removes it (by repeating the value a gave it), the value of o removes it.
mergedEntry(o, a, b, k) ==
  IF k \notin DOMAIN b THEN a[k]
  ELSE IF k \in DOMAIN o /\ k \in DOMAIN a /\ a[k] = b[k] THEN o[k]
  ELSE b[k]

mergeMapDifference(o, a, b) ==
  LET keys == (DOMAIN a \ DOMAIN b) \cup {k \in DOMAIN b : ~restored(o, a, b, k)}
  IN  [value |-> [k \in keys |-> mergedEntry(o, a, b, k)], changed |-> keys # {}]

mergeAtomicDifference(o, a, b) ==
  [value |-> b, changed |-> IF o # Absent THEN o # b ELSE a # b]

mergeDifference(kind, o, a, b) ==
  CASE IsSet(kind) -> setDifference(orEmpty(kind, a), orEmpty(kind, b))
    [] IsMap(kind) -> mergeMapDifference(orEmpty(kind, o), orEmpty(kind, a), orEmpty(kind, b))
    [] OTHER -> mergeAtomicDifference(o, a, b)

difference(kind, a, b) == mergeDifference(kind, Absent, a, b)

\* A difference is applied with the algorithm that computes it, but a non-empty
\* difference of a set or a map always changes the value: when nothing is left,
\* the value was emptied.
applyDifference(kind, v, d) ==
  LET r == difference(kind, v, d)
  IN  [value |-> r.value,
       changed |-> CASE IsSet(kind) -> d # {}
                     [] IsMap(kind) -> DOMAIN d # {}
                     [] OTHER -> r.changed]

-----------------------------------------------------------------------------
(* Mutations.  Each returns the new value and the difference it makes; no  *)
(* difference is an empty one.  ValidateMutation has let through sets with *)
(* a set of values, maps with a map or, to delete, with a set of keys, and *)
(* integers with an integer.  Divisors are not zero (the division of the   *)
(* code panics on one).                                                    *)

mutateInsert(kind, current, value) ==
  IF IsSet(kind)
    THEN [value |-> current \cup value, diff |-> value \ current]
    ELSE LET new == DOMAIN value \ DOMAIN current
         IN  [value |-> [k \in DOMAIN current \cup new |->
                           IF k \in new THEN value[k] ELSE current[k]],
              diff |-> [k \in new |-> value[k]]]

\* Deletes elements of a set, keys of a map (byKey), or entries of a map that
\* have both the key and the value.
mutateDelete(kind, current, value, byKey) ==
  IF IsSet(kind)
    THEN [value |-> current \ value, diff |-> value \cap current]
    ELSE LET gone == IF byKey
                       THEN value \cap DOMAIN current
                       ELSE {k \in DOMAIN value \cap DOMAIN current : value[k] = current[k]}
         IN  [value |-> [k \in DOMAIN current \ gone |-> current[k]],
              diff |-> [k \in gone |-> current[k]]]

mutateAdd(current, value) == current + value
mutateSubtract(current, value) == current - value
mutateMultiply(current, value) == current * value

Magnitude(i) == IF i < 0 THEN -i ELSE i
SameSign(i, j) == (i < 0) = (j < 0)

\* The division of Go truncates towards zero.
mutateDivide(current, value) ==
  LET q == Magnitude(current) \div Magnitude(value)
  IN  IF SameSign(current, value) THEN q ELSE -q

\* The remainder of Go has the sign of the dividend.
mutateModulo(current, value) ==
  LET r == Magnitude(current) % Magnitude(value)
  IN  IF current < 0 THEN -r ELSE r

\* The difference of an arithmetic mutation is the new value.
arithmetic(new) == [value |-> new, diff |-> new]

mutate(kind, current, mutator, value) ==
  CASE mutator = "insert" -> mutateInsert(kind, current, value)
    [] mutator = "delete" -> mutateDelete(kind, current, value, FALSE)
    [] mutator = "deleteKeys" -> mutateDelete(kind, current, value, TRUE)
    [] mutator = "+=" -> arithmetic(mutateAdd(current, value))
    [] mutator = "-=" -> arithmetic(mutateSubtract(current, value))
    [] mutator = "*=" -> arithmetic(mutateMultiply(current, value))
    [] mutator = "/=" -> arithmetic(mutateDivide(current, value))
    [] mutator = "%=" -> arithmetic(mutateModulo(current, value))

=============================================================================
