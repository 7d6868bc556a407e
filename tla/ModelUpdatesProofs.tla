------------------------- MODULE ModelUpdatesProofs -------------------------
(***************************************************************************)
(* The laws of updates, for any schema and any values.  First those of the *)
(* one algorithm that computes, applies and merges the differences of sets *)
(* and maps (updates/difference.go), where a map is any function; then     *)
(* those of columns, of mutations, and of the updates of whole rows.       *)
(***************************************************************************)
EXTENDS SchemaTypes, WellFoundedInduction, TLAPS

IsFunction(m) == m = [k \in DOMAIN m |-> m[k]]

mapDifference(a, b) == mergeMapDifference(EmptyMap, a, b)

\* Two maps with the same keys and values are the same.
LEMMA SameMap ==
  ASSUME NEW m, NEW n, IsFunction(m), IsFunction(n),
         \A k : k \in DOMAIN m <=> k \in DOMAIN n,
         \A k \in DOMAIN m : m[k] = n[k]
  PROVE  m = n
<1>1. DOMAIN m = DOMAIN n
  OBVIOUS
<1>2. [k \in DOMAIN m |-> m[k]] = [k \in DOMAIN n |-> n[k]]
  BY <1>1
<1> QED
  BY <1>2 DEF IsFunction

\* The difference of two maps has the keys whose value is not the same in both,
\* with the value of the second if it has one.
LEMMA MapDifferenceEntries ==
  ASSUME NEW a, NEW b
  PROVE  LET d == mapDifference(a, b).value
         IN  /\ IsFunction(d)
             /\ \A k : k \in DOMAIN d <=>
                         \/ k \in DOMAIN a /\ k \notin DOMAIN b
                         \/ k \in DOMAIN b /\ (k \in DOMAIN a => a[k] # b[k])
             /\ \A k \in DOMAIN d : d[k] = IF k \in DOMAIN b THEN b[k] ELSE a[k]
<1> DEFINE keys == (DOMAIN a \ DOMAIN b) \cup {k \in DOMAIN b : ~restored(EmptyMap, a, b, k)}
           d == [k \in keys |-> mergedEntry(EmptyMap, a, b, k)]
<1>1. mapDifference(a, b).value = d
  BY DEF mapDifference, mergeMapDifference
<1>2. DOMAIN EmptyMap = {}
  BY DEF EmptyMap
<1>3. \A k : restored(EmptyMap, a, b, k) <=> k \in DOMAIN a /\ a[k] = b[k]
  BY <1>2 DEF restored
<1>4. \A k : mergedEntry(EmptyMap, a, b, k) = IF k \in DOMAIN b THEN b[k] ELSE a[k]
  BY <1>2 DEF mergedEntry
<1>5. DOMAIN d = keys /\ \A k \in keys : d[k] = IF k \in DOMAIN b THEN b[k] ELSE a[k]
  BY <1>4
<1>6. \A k : k \in keys <=> \/ k \in DOMAIN a /\ k \notin DOMAIN b
                            \/ k \in DOMAIN b /\ (k \in DOMAIN a => a[k] # b[k])
  BY <1>3
<1>7. IsFunction(d)
  BY DEF IsFunction
<1> HIDE DEF keys, d
<1> QED
  BY <1>1, <1>5, <1>6, <1>7

\* Applying the difference of two sets to the first gives the second
\* (setDifference, by which applyDifference undoes difference).
THEOREM SetRoundTrip ==
  ASSUME NEW a, NEW b
  PROVE  setDifference(a, setDifference(a, b).value).value = b
BY DEF setDifference

\* Merging the differences of two steps and applying the result equals applying
\* one after the other: the order in which mergeDifference and applyDifference
\* combine sets does not matter.
THEOREM SetMergeLaw ==
  ASSUME NEW v, NEW d, NEW e
  PROVE  setDifference(v, setDifference(d, e).value).value
           = setDifference(setDifference(v, d).value, e).value
BY DEF setDifference

\* Applying the difference of two maps to the first gives the second: a removed
\* key, whose difference repeats the old value, a changed and an added one are
\* told apart by the value alone (mergeMapDifference without an original).
THEOREM MapRoundTrip ==
  ASSUME NEW a, NEW b, IsFunction(a), IsFunction(b)
  PROVE  mapDifference(a, mapDifference(a, b).value).value = b
<1> DEFINE d == mapDifference(a, b).value
           r == mapDifference(a, d).value
<1>1. /\ \A k : k \in DOMAIN d <=>
                  \/ k \in DOMAIN a /\ k \notin DOMAIN b
                  \/ k \in DOMAIN b /\ (k \in DOMAIN a => a[k] # b[k])
      /\ \A k \in DOMAIN d : d[k] = IF k \in DOMAIN b THEN b[k] ELSE a[k]
  BY MapDifferenceEntries
<1>2. /\ IsFunction(r)
      /\ \A k : k \in DOMAIN r <=>
                  \/ k \in DOMAIN a /\ k \notin DOMAIN d
                  \/ k \in DOMAIN d /\ (k \in DOMAIN a => a[k] # d[k])
      /\ \A k \in DOMAIN r : r[k] = IF k \in DOMAIN d THEN d[k] ELSE a[k]
  BY MapDifferenceEntries
<1> HIDE DEF d, r
<1>3. \A k : k \in DOMAIN r <=> k \in DOMAIN b
  BY <1>1, <1>2
<1>4. \A k \in DOMAIN r : r[k] = b[k]
  BY <1>1, <1>2, <1>3
<1> QED
  BY <1>2, <1>3, <1>4, SameMap DEF d, r

\* A difference of maps is empty exactly when there is nothing to tell: the
\* boolean of mergeMapDifference decides whether a notification is sent.
THEOREM MapChanged ==
  ASSUME NEW a, NEW b, IsFunction(a), IsFunction(b)
  PROVE  mapDifference(a, b).changed <=> a # b
<1> DEFINE keys == (DOMAIN a \ DOMAIN b) \cup {k \in DOMAIN b : ~restored(EmptyMap, a, b, k)}
<1>1. mapDifference(a, b).changed <=> keys # {}
  BY Zenon DEF mapDifference, mergeMapDifference
<1>2. DOMAIN EmptyMap = {}
  BY DEF EmptyMap
<1>3. \A k : restored(EmptyMap, a, b, k) <=> k \in DOMAIN a /\ a[k] = b[k]
  BY <1>2 DEF restored
<1>4. ASSUME keys = {} PROVE a = b
  <2>1. \A k : k \in DOMAIN a <=> k \in DOMAIN b
    BY <1>3, <1>4
  <2>2. \A k \in DOMAIN a : a[k] = b[k]
    BY <1>3, <1>4, <2>1
  <2> QED
    BY <2>1, <2>2, SameMap
<1>5. ASSUME a = b PROVE keys = {}
  BY <1>3, <1>5
<1> QED
  BY <1>1, <1>4, <1>5

\* The update that a transaction accumulates for a map column: o is the value
\* before the transaction, v the value so far and w the value after the next
\* operation.  Merging the difference so far with the next one and applying the
\* result to o gives w, although a key that was changed and is now removed, or
\* restored, needs the value of o to say so (mergeMapDifference).
THEOREM MapMergeLaw ==
  ASSUME NEW o, NEW v, NEW w, IsFunction(o), IsFunction(v), IsFunction(w)
  PROVE  LET merged == mergeMapDifference(o, mapDifference(o, v).value,
                                             mapDifference(v, w).value).value
         IN  mapDifference(o, merged).value = w
<1> DEFINE d == mapDifference(o, v).value
           e == mapDifference(v, w).value
           keys == (DOMAIN d \ DOMAIN e) \cup {k \in DOMAIN e : ~restored(o, d, e, k)}
           m == [k \in keys |-> mergedEntry(o, d, e, k)]
           r == mapDifference(o, m).value
<1>1. mergeMapDifference(o, d, e).value = m
  BY DEF mergeMapDifference
<1>2. /\ \A k : k \in DOMAIN d <=>
                  \/ k \in DOMAIN o /\ k \notin DOMAIN v
                  \/ k \in DOMAIN v /\ (k \in DOMAIN o => o[k] # v[k])
      /\ \A k \in DOMAIN d : d[k] = IF k \in DOMAIN v THEN v[k] ELSE o[k]
  BY MapDifferenceEntries
<1>3. /\ \A k : k \in DOMAIN e <=>
                  \/ k \in DOMAIN v /\ k \notin DOMAIN w
                  \/ k \in DOMAIN w /\ (k \in DOMAIN v => v[k] # w[k])
      /\ \A k \in DOMAIN e : e[k] = IF k \in DOMAIN w THEN w[k] ELSE v[k]
  BY MapDifferenceEntries
<1>4. /\ IsFunction(r)
      /\ \A k : k \in DOMAIN r <=>
                  \/ k \in DOMAIN o /\ k \notin DOMAIN m
                  \/ k \in DOMAIN m /\ (k \in DOMAIN o => o[k] # m[k])
      /\ \A k \in DOMAIN r : r[k] = IF k \in DOMAIN m THEN m[k] ELSE o[k]
  BY MapDifferenceEntries
<1>5. /\ \A k : k \in DOMAIN m <=>
                  \/ k \in DOMAIN d /\ k \notin DOMAIN e
                  \/ /\ k \in DOMAIN e
                     /\ ~(/\ k \in DOMAIN d
                          /\ IF k \in DOMAIN o THEN o[k] = e[k] ELSE d[k] = e[k])
      /\ \A k \in DOMAIN m :
           m[k] = IF k \notin DOMAIN e THEN d[k]
                  ELSE IF k \in DOMAIN o /\ k \in DOMAIN d /\ d[k] = e[k] THEN o[k]
                  ELSE e[k]
  BY DEF restored, mergedEntry
<1> HIDE DEF d, e, keys, m, r
<1>6. ASSUME NEW k
      PROVE  /\ k \in DOMAIN r <=> k \in DOMAIN w
             /\ k \in DOMAIN r => r[k] = w[k]
  <2>1. CASE k \in DOMAIN o /\ k \in DOMAIN v
    BY <1>2, <1>3, <1>4, <1>5, <2>1
  <2>2. CASE k \in DOMAIN o /\ k \notin DOMAIN v
    BY <1>2, <1>3, <1>4, <1>5, <2>2
  <2>3. CASE k \notin DOMAIN o /\ k \in DOMAIN v
    BY <1>2, <1>3, <1>4, <1>5, <2>3
  <2>4. CASE k \notin DOMAIN o /\ k \notin DOMAIN v
    BY <1>2, <1>3, <1>4, <1>5, <2>4
  <2> QED
    BY <2>1, <2>2, <2>3, <2>4
<1>7. r = w
  BY <1>4, <1>6, SameMap
<1> QED
  BY <1>1, <1>7 DEF d, e, r

\* The difference that a mutation of a set reports is the one it makes: applied
\* to the old value it gives the new one (mutateInsert and mutateDelete return
\* the two separately, and the model and the notification use one each).
THEOREM SetMutationsFaithful ==
  ASSUME NEW current, NEW value, NEW byKey
  PROVE  LET ins == mutateInsert("set", current, value)
             del == mutateDelete("set", current, value, byKey)
         IN  /\ setDifference(current, ins.diff).value = ins.value
             /\ setDifference(current, del.diff).value = del.value
BY DEF mutateInsert, mutateDelete, IsSet, setDifference

\* The same for an insertion into a map, which keeps the value of a key that is
\* there and reports only the keys that are new (mutateInsert).
THEOREM MapInsertFaithful ==
  ASSUME NEW current, NEW value, IsFunction(current), IsFunction(value)
  PROVE  LET ins == mutateInsert("map", current, value)
         IN  mapDifference(current, ins.diff).value = ins.value
<1> DEFINE new == DOMAIN value \ DOMAIN current
           v == [k \in DOMAIN current \cup new |-> IF k \in new THEN value[k] ELSE current[k]]
           d == [k \in new |-> value[k]]
           r == mapDifference(current, d).value
<1>1. mutateInsert("map", current, value) = [value |-> v, diff |-> d]
  BY DEF mutateInsert, IsSet
<1>2. /\ IsFunction(r)
      /\ \A k : k \in DOMAIN r <=>
                  \/ k \in DOMAIN current /\ k \notin DOMAIN d
                  \/ k \in DOMAIN d /\ (k \in DOMAIN current => current[k] # d[k])
      /\ \A k \in DOMAIN r : r[k] = IF k \in DOMAIN d THEN d[k] ELSE current[k]
  BY MapDifferenceEntries
<1>3. DOMAIN d = new /\ \A k \in new : d[k] = value[k]
  OBVIOUS
<1>4. /\ IsFunction(v)
      /\ DOMAIN v = DOMAIN current \cup new
      /\ \A k \in DOMAIN v : v[k] = IF k \in new THEN value[k] ELSE current[k]
  BY DEF IsFunction
<1> HIDE DEF v, d, r
<1>5. \A k : k \in DOMAIN r <=> k \in DOMAIN v
  BY <1>2, <1>3, <1>4
<1>6. \A k \in DOMAIN r : r[k] = v[k]
  BY <1>2, <1>3, <1>4, <1>5
<1>7. r = v
  BY <1>2, <1>4, <1>5, <1>6, SameMap
<1> QED
  BY <1>1, <1>7 DEF r

\* The same for a deletion from a map, by key or by entry: the keys that go are
\* reported with the values they had, which is how a difference removes them
\* (mutateDelete).
THEOREM MapDeleteFaithful ==
  ASSUME NEW current, NEW value, NEW byKey \in BOOLEAN, IsFunction(current)
  PROVE  LET del == mutateDelete("map", current, value, byKey)
         IN  mapDifference(current, del.diff).value = del.value
<1> DEFINE gone == IF byKey
                     THEN value \cap DOMAIN current
                     ELSE {k \in DOMAIN value \cap DOMAIN current : value[k] = current[k]}
           v == [k \in DOMAIN current \ gone |-> current[k]]
           d == [k \in gone |-> current[k]]
           r == mapDifference(current, d).value
<1>1. mutateDelete("map", current, value, byKey) = [value |-> v, diff |-> d]
  BY DEF mutateDelete, IsSet
<1>2. /\ IsFunction(r)
      /\ \A k : k \in DOMAIN r <=>
                  \/ k \in DOMAIN current /\ k \notin DOMAIN d
                  \/ k \in DOMAIN d /\ (k \in DOMAIN current => current[k] # d[k])
      /\ \A k \in DOMAIN r : r[k] = IF k \in DOMAIN d THEN d[k] ELSE current[k]
  BY MapDifferenceEntries
<1>3. gone \subseteq DOMAIN current
  OBVIOUS
<1>4. DOMAIN d = gone /\ \A k \in gone : d[k] = current[k]
  OBVIOUS
<1>5. /\ IsFunction(v)
      /\ DOMAIN v = DOMAIN current \ gone
      /\ \A k \in DOMAIN v : v[k] = current[k]
  BY DEF IsFunction
<1> HIDE DEF gone, v, d, r
<1>6. \A k : k \in DOMAIN r <=> k \in DOMAIN v
  BY <1>2, <1>3, <1>4, <1>5
<1>7. \A k \in DOMAIN r : r[k] = v[k]
  BY <1>2, <1>3, <1>4, <1>5, <1>6
<1>8. r = v
  BY <1>2, <1>5, <1>6, <1>7, SameMap
<1> QED
  BY <1>1, <1>8 DEF r

USE KindAssumption DEF Kinds

-----------------------------------------------------------------------------
(* Columns.                                                                *)

\* The difference between two values of a column, as difference() returns it.
Delta(c, x, y) == difference(Kind[c], x, y).value

\* A map is a function from atoms to atoms.
LEMMA MapType ==
  ASSUME NEW f
  PROVE  f \in Maps(Atom) <=> IsFunction(f) /\ DOMAIN f \subseteq Atom /\ \A k \in DOMAIN f : f[k] \in Atom
<1>1. ASSUME f \in Maps(Atom)
      PROVE  IsFunction(f) /\ DOMAIN f \subseteq Atom /\ \A k \in DOMAIN f : f[k] \in Atom
  <2>1. PICK K \in SUBSET Atom : f \in [K -> Atom]
    BY <1>1, Zenon DEF Maps
  <2> QED
    BY <2>1, Zenon DEF IsFunction
<1>2. ASSUME IsFunction(f), DOMAIN f \subseteq Atom, \A k \in DOMAIN f : f[k] \in Atom
      PROVE  f \in Maps(Atom)
  <2>1. f \in [DOMAIN f -> Atom]
    BY <1>2, Zenon DEF IsFunction
  <2> QED
    BY <1>2, <2>1, Zenon DEF Maps
<1> QED
  BY <1>1, <1>2, Zenon

\* The values of a column, by its kind; none of them is nil.
LEMMA NativeType ==
  ASSUME NEW c \in Column, NEW v \in Native(c)
  PROVE  /\ v # Absent /\ v \in Values(Atom)
         /\ IsMap(Kind[c]) => v \in Maps(Atom)
         /\ Kind[c] = "optional" => v \in Atom \cup {Nil}
<1>1. \A w \in Maps(Atom) : w # Absent
  BY NilAssumption, Zenon DEF Maps
<1>2. /\ Absent \notin Int /\ Absent \notin Atom /\ Absent # Nil
      /\ \A K \in SUBSET Atom : K # Absent
  BY NilAssumption, Zenon
<1>3. CASE IsSet(Kind[c])
  <2>1. v \in SUBSET Atom
    BY <1>3, Zenon DEF Native, IsSet, IsMap
  <2> QED
    BY <1>2, <1>3, <2>1, Zenon DEF Values, IsSet, IsMap
<1>4. CASE IsMap(Kind[c])
  <2>1. v \in Maps(Atom)
    BY <1>4, Zenon DEF Native, IsSet, IsMap
  <2> QED
    BY <1>1, <1>4, <2>1, Zenon DEF Values, IsMap
<1>5. CASE ~IsSet(Kind[c]) /\ ~IsMap(Kind[c])
  <2>1. v \in Atom \cup {Nil} \cup Int /\ (Kind[c] = "optional" => v \in Atom \cup {Nil})
    BY <1>5, Zenon DEF Native
  <2> QED
    BY <1>2, <1>5, <2>1, Zenon DEF Values
<1> QED
  BY <1>3, <1>4, <1>5, Zenon

\* The values of a column of each kind.
LEMMA NativeByKind ==
  ASSUME NEW c \in Column
  PROVE  /\ IsSet(Kind[c]) => Native(c) = SUBSET Atom /\ ~IsMap(Kind[c])
         /\ IsMap(Kind[c]) => Native(c) = Maps(Atom) /\ ~IsSet(Kind[c])
         /\ Kind[c] = "integer" => Native(c) = Int
  BY Zenon DEF Native, IsSet, IsMap

\* The difference of two values that is computed for an update of a column.
LEMMA DifferenceByKind ==
  ASSUME NEW c \in Column, NEW x \in Native(c), NEW y \in Native(c)
  PROVE  /\ IsSet(Kind[c]) => difference(Kind[c], x, y) = setDifference(x, y)
         /\ IsMap(Kind[c]) => difference(Kind[c], x, y) = mapDifference(x, y)
         /\ ~IsSet(Kind[c]) /\ ~IsMap(Kind[c]) =>
              /\ difference(Kind[c], x, y).value = y
              /\ difference(Kind[c], x, y).changed <=> x # y
<1>1. x # Absent /\ y # Absent
  BY NativeType, Zenon
<1>2. CASE IsSet(Kind[c])
  BY <1>1, <1>2, Zenon DEF difference, mergeDifference, orEmpty, IsSet, IsMap
<1>3. CASE IsMap(Kind[c])
  BY <1>1, <1>3, Zenon DEF difference, mergeDifference, orEmpty, IsSet, IsMap, mapDifference
<1>4. CASE ~IsSet(Kind[c]) /\ ~IsMap(Kind[c])
  BY <1>1, <1>4, Zenon DEF difference, mergeDifference, mergeAtomicDifference
<1> QED
  BY <1>2, <1>3, <1>4, Zenon DEF IsSet, IsMap

\* A difference of maps of atoms is one.
LEMMA MapDifferenceType ==
  ASSUME NEW x \in Maps(Atom), NEW y \in Maps(Atom)
  PROVE  mapDifference(x, y).value \in Maps(Atom)
<1> DEFINE d == mapDifference(x, y).value
<1>1. /\ IsFunction(d)
      /\ \A k : k \in DOMAIN d <=>
                  \/ k \in DOMAIN x /\ k \notin DOMAIN y
                  \/ k \in DOMAIN y /\ (k \in DOMAIN x => x[k] # y[k])
      /\ \A k \in DOMAIN d : d[k] = IF k \in DOMAIN y THEN y[k] ELSE x[k]
  BY MapDifferenceEntries, Zenon
<1>2. /\ DOMAIN x \subseteq Atom /\ \A k \in DOMAIN x : x[k] \in Atom
      /\ DOMAIN y \subseteq Atom /\ \A k \in DOMAIN y : y[k] \in Atom
  BY MapType, Zenon
<1> HIDE DEF d
<1>3. DOMAIN d \subseteq Atom /\ \A k \in DOMAIN d : d[k] \in Atom
  BY <1>1, <1>2, Zenon
<1> QED
  BY <1>1, <1>3, MapType, Zenon DEF d

\* difference() finds a difference exactly between values that are not the same,
\* and it is a value of the same type.
LEMMA DeltaType ==
  ASSUME NEW c \in Column, NEW x \in Native(c), NEW y \in Native(c)
  PROVE  /\ difference(Kind[c], x, y).changed <=> x # y
         /\ Delta(c, x, y) \in Native(c)
<1>1. CASE IsSet(Kind[c])
  <2>1. difference(Kind[c], x, y) = setDifference(x, y) /\ Native(c) = SUBSET Atom
    BY <1>1, DifferenceByKind, NativeByKind
  <2>2. setDifference(x, y).changed <=> x # y
    BY Zenon DEF setDifference
  <2>3. setDifference(x, y).value \in SUBSET Atom
    BY <2>1, Zenon DEF setDifference
  <2> QED
    BY <2>1, <2>2, <2>3, Zenon DEF Delta
<1>2. CASE IsMap(Kind[c])
  <2>1. difference(Kind[c], x, y) = mapDifference(x, y) /\ Native(c) = Maps(Atom)
    BY <1>2, DifferenceByKind, NativeByKind
  <2>2. IsFunction(x) /\ IsFunction(y)
    BY <2>1, MapType, Zenon
  <2>3. mapDifference(x, y).changed <=> x # y
    BY <2>2, MapChanged, Zenon
  <2> QED
    BY <2>1, <2>3, MapDifferenceType, Zenon DEF Delta
<1>3. CASE ~IsSet(Kind[c]) /\ ~IsMap(Kind[c])
  BY <1>3, DifferenceByKind DEF Delta
<1> QED
  BY <1>1, <1>2, <1>3, Zenon

\* Whoever applies the difference to the first value gets the second, and sees a
\* change if there is one: also when a set or a map becomes empty.
LEMMA DeltaApplies ==
  ASSUME NEW c \in Column, NEW x \in Native(c), NEW y \in Native(c)
  PROVE  /\ applyDifference(Kind[c], x, Delta(c, x, y)).value = y
         /\ x # y => applyDifference(Kind[c], x, Delta(c, x, y)).changed
<1> DEFINE d == Delta(c, x, y)
           r == difference(Kind[c], x, d)
<1>1. d \in Native(c)
  BY DeltaType, Zenon
<1>2. CASE IsSet(Kind[c])
  <2>1. d = setDifference(x, y).value
    BY <1>2, DifferenceByKind DEF Delta
  <2>2. r = setDifference(x, d)
    BY <1>1, <1>2, DifferenceByKind
  <2>3. r.value = y
    BY <2>1, <2>2, SetRoundTrip
  <2>4. x # y => d # {}
    BY <2>1, Zenon DEF setDifference
  <2> HIDE DEF d, r
  <2>5. /\ applyDifference(Kind[c], x, d).value = r.value
        /\ applyDifference(Kind[c], x, d).changed <=> d # {}
    BY <1>2, Zenon DEF applyDifference, IsMap, IsSet, r
  <2> QED
    BY <2>3, <2>4, <2>5, Zenon DEF d
<1>3. CASE IsMap(Kind[c])
  <2>1. IsFunction(x) /\ IsFunction(y)
    BY <1>3, NativeType, MapType, Zenon
  <2>2. d = mapDifference(x, y).value
    BY <1>3, DifferenceByKind DEF Delta
  <2>3. r = mapDifference(x, d)
    BY <1>1, <1>3, DifferenceByKind
  <2>4. r.value = y
    BY <2>1, <2>2, <2>3, MapRoundTrip, Zenon
  <2>5. mapDifference(x, y).changed <=> DOMAIN d # {}
    BY <2>2, Zenon DEF mapDifference, mergeMapDifference
  <2>6. x # y => DOMAIN d # {}
    BY <2>1, <2>5, MapChanged, Zenon
  <2> HIDE DEF d, r
  <2>7. /\ applyDifference(Kind[c], x, d).value = r.value
        /\ applyDifference(Kind[c], x, d).changed <=> DOMAIN d # {}
    BY <1>3, Zenon DEF applyDifference, IsMap, IsSet, r
  <2> QED
    BY <2>4, <2>6, <2>7, Zenon DEF d
<1>4. CASE ~IsSet(Kind[c]) /\ ~IsMap(Kind[c])
  <2>1. d = y /\ r.value = y /\ (r.changed <=> x # y)
    BY <1>1, <1>4, DifferenceByKind DEF Delta
  <2> HIDE DEF d, r
  <2>2. /\ applyDifference(Kind[c], x, d).value = r.value
        /\ applyDifference(Kind[c], x, d).changed <=> r.changed
    BY <1>4, Zenon DEF applyDifference, r
  <2> QED
    BY <2>1, <2>2, Zenon DEF d
<1> QED
  BY <1>2, <1>3, <1>4, Zenon

\* Two differences of a map column, one after the other, make the difference
\* between the first and the last value (mergeMapDifference with the original).
LEMMA MapDifferencesMerge ==
  ASSUME NEW o, NEW v, NEW w, IsFunction(o), IsFunction(v), IsFunction(w)
  PROVE  LET merged == mergeMapDifference(o, mapDifference(o, v).value, mapDifference(v, w).value)
         IN  /\ merged.value = mapDifference(o, w).value
             /\ merged.changed <=> o # w
<1> DEFINE d == mapDifference(o, v).value
           e == mapDifference(v, w).value
           f == mapDifference(o, w).value
           keys == (DOMAIN d \ DOMAIN e) \cup {k \in DOMAIN e : ~restored(o, d, e, k)}
           m == [k \in keys |-> mergedEntry(o, d, e, k)]
<1>1. mergeMapDifference(o, d, e).value = m /\ (mergeMapDifference(o, d, e).changed <=> keys # {})
  BY Zenon DEF mergeMapDifference
<1>2. /\ \A k : k \in DOMAIN d <=>
                  \/ k \in DOMAIN o /\ k \notin DOMAIN v
                  \/ k \in DOMAIN v /\ (k \in DOMAIN o => o[k] # v[k])
      /\ \A k \in DOMAIN d : d[k] = IF k \in DOMAIN v THEN v[k] ELSE o[k]
  BY MapDifferenceEntries, Zenon
<1>3. /\ \A k : k \in DOMAIN e <=>
                  \/ k \in DOMAIN v /\ k \notin DOMAIN w
                  \/ k \in DOMAIN w /\ (k \in DOMAIN v => v[k] # w[k])
      /\ \A k \in DOMAIN e : e[k] = IF k \in DOMAIN w THEN w[k] ELSE v[k]
  BY MapDifferenceEntries, Zenon
<1>4. /\ IsFunction(f)
      /\ \A k : k \in DOMAIN f <=>
                  \/ k \in DOMAIN o /\ k \notin DOMAIN w
                  \/ k \in DOMAIN w /\ (k \in DOMAIN o => o[k] # w[k])
      /\ \A k \in DOMAIN f : f[k] = IF k \in DOMAIN w THEN w[k] ELSE o[k]
  BY MapDifferenceEntries, Zenon
<1>5. /\ IsFunction(m) /\ DOMAIN m = keys
      /\ \A k : k \in DOMAIN m <=>
                  \/ k \in DOMAIN d /\ k \notin DOMAIN e
                  \/ /\ k \in DOMAIN e
                     /\ ~(/\ k \in DOMAIN d
                          /\ IF k \in DOMAIN o THEN o[k] = e[k] ELSE d[k] = e[k])
      /\ \A k \in DOMAIN m :
           m[k] = IF k \notin DOMAIN e THEN d[k]
                  ELSE IF k \in DOMAIN o /\ k \in DOMAIN d /\ d[k] = e[k] THEN o[k]
                  ELSE e[k]
  BY Zenon DEF restored, mergedEntry, IsFunction
<1>6. mapDifference(o, w).changed <=> DOMAIN f # {}
  BY Zenon DEF mapDifference, mergeMapDifference
<1> HIDE DEF d, e, f, keys, m
<1>7. ASSUME NEW k
      PROVE  /\ k \in DOMAIN m <=> k \in DOMAIN f
             /\ k \in DOMAIN m => m[k] = f[k]
  <2>1. CASE k \in DOMAIN o /\ k \in DOMAIN v
    BY <1>2, <1>3, <1>4, <1>5, <2>1
  <2>2. CASE k \in DOMAIN o /\ k \notin DOMAIN v
    BY <1>2, <1>3, <1>4, <1>5, <2>2
  <2>3. CASE k \notin DOMAIN o /\ k \in DOMAIN v
    BY <1>2, <1>3, <1>4, <1>5, <2>3
  <2>4. CASE k \notin DOMAIN o /\ k \notin DOMAIN v
    BY <1>2, <1>3, <1>4, <1>5, <2>4, Zenon
  <2> QED
    BY <2>1, <2>2, <2>3, <2>4, Zenon
<1>8. m = f
  BY <1>4, <1>5, <1>7, SameMap, Zenon
<1>9. keys # {} <=> o # w
  BY <1>5, <1>6, <1>8, MapChanged, Zenon
<1> QED
  BY <1>1, <1>8, <1>9, Zenon DEF d, e, f

\* A first difference is merged with none.
LEMMA MapDifferenceFirst ==
  ASSUME NEW o, NEW w, IsFunction(o), IsFunction(w)
  PROVE  LET merged == mergeMapDifference(o, EmptyMap, mapDifference(o, w).value)
         IN  /\ merged.value = mapDifference(o, w).value
             /\ merged.changed <=> o # w
<1> DEFINE e == mapDifference(o, w).value
           keys == (DOMAIN EmptyMap \ DOMAIN e) \cup {k \in DOMAIN e : ~restored(o, EmptyMap, e, k)}
           m == [k \in keys |-> mergedEntry(o, EmptyMap, e, k)]
<1>1. mergeMapDifference(o, EmptyMap, e).value = m
      /\ (mergeMapDifference(o, EmptyMap, e).changed <=> keys # {})
  BY Zenon DEF mergeMapDifference
<1>2. IsFunction(e)
  BY MapDifferenceEntries, Zenon
<1>3. mapDifference(o, w).changed <=> DOMAIN e # {}
  BY Zenon DEF mapDifference, mergeMapDifference
<1> HIDE DEF e
<1>4. DOMAIN EmptyMap = {}
  BY Zenon DEF EmptyMap
<1>5. keys = DOMAIN e
  BY <1>4, Zenon DEF restored
<1>6. \A k \in keys : mergedEntry(o, EmptyMap, e, k) = e[k]
  BY <1>4, <1>5, Zenon DEF mergedEntry
<1>7. m = e
  BY <1>2, <1>5, <1>6, Zenon DEF IsFunction
<1> QED
  BY <1>1, <1>3, <1>5, <1>7, MapChanged DEF e

\* The same for every kind of column: merged with respect to the original value,
\* the differences of two steps are the difference of both.
LEMMA DeltasMerge ==
  ASSUME NEW c \in Column, NEW x \in Native(c), NEW y \in Native(c), NEW z \in Native(c)
  PROVE  LET merged == mergeDifference(Kind[c], x, Delta(c, x, y), Delta(c, y, z))
         IN  merged.value = Delta(c, x, z) /\ (merged.changed <=> x # z)
<1> DEFINE d == Delta(c, x, y)
           e == Delta(c, y, z)
           merged == mergeDifference(Kind[c], x, d, e)
<1>1. x # Absent /\ d # Absent /\ e # Absent
  <2>1. d \in Native(c) /\ e \in Native(c)
    BY DeltaType, Zenon
  <2> QED
    BY <2>1, NativeType, Zenon
<1>2. CASE IsSet(Kind[c])
  <2>1. d = setDifference(x, y).value /\ e = setDifference(y, z).value
        /\ Delta(c, x, z) = setDifference(x, z).value
    BY <1>2, DifferenceByKind DEF Delta
  <2>2. merged = setDifference(d, e)
    BY <1>1, <1>2, Zenon DEF mergeDifference, orEmpty, IsSet, IsMap
  <2> HIDE DEF d, e, merged
  <2>3. setDifference(d, e).value = setDifference(x, z).value
    BY <2>1, Zenon DEF setDifference
  <2>4. setDifference(d, e).changed <=> x # z
    BY <2>1, Zenon DEF setDifference
  <2> QED
    BY <2>1, <2>2, <2>3, <2>4, Zenon DEF merged, d, e
<1>3. CASE IsMap(Kind[c])
  <2>1. IsFunction(x) /\ IsFunction(y) /\ IsFunction(z)
    BY <1>3, NativeType, MapType, Zenon
  <2>2. d = mapDifference(x, y).value /\ e = mapDifference(y, z).value
        /\ Delta(c, x, z) = mapDifference(x, z).value
    BY <1>3, DifferenceByKind DEF Delta
  <2>3. merged = mergeMapDifference(x, d, e)
    BY <1>1, <1>3, Zenon DEF mergeDifference, orEmpty, IsSet, IsMap
  <2> HIDE DEF d, e, merged
  <2> QED
    BY <2>1, <2>2, <2>3, MapDifferencesMerge DEF merged, d, e
<1>4. CASE ~IsSet(Kind[c]) /\ ~IsMap(Kind[c])
  <2>1. d = y /\ e = z /\ Delta(c, x, z) = z
    BY <1>4, DifferenceByKind DEF Delta
  <2>2. merged = mergeAtomicDifference(x, d, e)
    BY <1>4, Zenon DEF mergeDifference
  <2> HIDE DEF d, e, merged
  <2>3. merged.value = z /\ (merged.changed <=> x # z)
    BY <1>1, <2>1, <2>2, Zenon DEF mergeAtomicDifference
  <2> QED
    BY <2>1, <2>3, Zenon DEF merged, d, e
<1> QED
  BY <1>2, <1>3, <1>4, Zenon

\* ... and so is a first difference.
LEMMA DeltaFirst ==
  ASSUME NEW c \in Column, NEW x \in Native(c), NEW z \in Native(c)
  PROVE  LET merged == mergeDifference(Kind[c], x, Absent, Delta(c, x, z))
         IN  merged.value = Delta(c, x, z) /\ (merged.changed <=> x # z)
<1> DEFINE e == Delta(c, x, z)
           merged == mergeDifference(Kind[c], x, Absent, e)
<1>1. x # Absent /\ e # Absent
  <2>1. e \in Native(c)
    BY DeltaType, Zenon
  <2> QED
    BY <2>1, NativeType, Zenon
<1>2. CASE IsSet(Kind[c])
  <2>1. e = setDifference(x, z).value
    BY <1>2, DifferenceByKind DEF Delta
  <2>2. merged = setDifference({}, e)
    BY <1>1, <1>2, Zenon DEF mergeDifference, orEmpty, IsSet, IsMap
  <2> HIDE DEF e, merged
  <2>3. setDifference({}, e).value = e
    BY Zenon DEF setDifference
  <2>4. setDifference({}, e).changed <=> x # z
    BY <2>1, Zenon DEF setDifference
  <2> QED
    BY <2>1, <2>2, <2>3, <2>4, Zenon DEF merged, e
<1>3. CASE IsMap(Kind[c])
  <2>1. IsFunction(x) /\ IsFunction(z)
    BY <1>3, NativeType, MapType, Zenon
  <2>2. e = mapDifference(x, z).value
    BY <1>3, DifferenceByKind DEF Delta
  <2>3. merged = mergeMapDifference(x, EmptyMap, e)
    BY <1>1, <1>3, Zenon DEF mergeDifference, orEmpty, IsSet, IsMap
  <2> HIDE DEF e, merged
  <2> QED
    BY <2>1, <2>2, <2>3, MapDifferenceFirst DEF merged, e
<1>4. CASE ~IsSet(Kind[c]) /\ ~IsMap(Kind[c])
  <2>1. e = z
    BY <1>4, DifferenceByKind DEF Delta
  <2>2. merged = mergeAtomicDifference(x, Absent, e)
    BY <1>4, Zenon DEF mergeDifference
  <2> HIDE DEF e, merged
  <2>3. merged.value = z /\ (merged.changed <=> x # z)
    BY <1>1, <2>1, <2>2, Zenon DEF mergeAtomicDifference
  <2> QED
    BY <2>1, <2>3, Zenon DEF merged, e
<1> QED
  BY <1>2, <1>3, <1>4, Zenon

\* The notation of a value and back.
LEMMA NotationRoundTrip ==
  ASSUME NEW c \in Column, NEW v \in Native(c)
  PROVE  /\ OvsToNative(c, NativeToOvs(c, v)) = v
         /\ NativeToOvs(c, v) \in Values(Atom) /\ NativeToOvs(c, v) # Absent
<1>1. CASE Kind[c] = "optional"
  <2>1. v \in Atom \cup {Nil}
    BY <1>1, NativeType, Zenon
  <2>2. CASE v = Nil
    <3>1. NativeToOvs(c, v) = {}
      BY <1>1, <2>2, Zenon DEF NativeToOvs
    <3> QED
      BY <1>1, <2>2, <3>1, NilAssumption, Zenon DEF OvsToNative, Values
  <2>3. CASE v # Nil
    <3>1. NativeToOvs(c, v) = {v} /\ v \in Atom
      BY <1>1, <2>1, <2>3, Zenon DEF NativeToOvs
    <3>2. {v} # {} /\ {v} \in SUBSET Atom /\ (CHOOSE x \in {v} : TRUE) = v
      BY <3>1, Zenon
    <3> QED
      BY <1>1, <3>1, <3>2, NilAssumption, Zenon DEF OvsToNative, Values
  <2> QED
    BY <2>2, <2>3, Zenon
<1>2. CASE Kind[c] # "optional"
  BY <1>2, NativeType, Zenon DEF NativeToOvs, OvsToNative
<1> QED
  BY <1>1, <1>2, Zenon

\* A value that an operation writes.
LEMMA NativeOfOvs ==
  ASSUME NEW c \in Column, NEW v \in Ovs(c)
  PROVE  OvsToNative(c, v) \in Native(c)
<1>1. CASE Kind[c] = "optional"
  <2>1. Native(c) = Atom \cup {Nil}
    BY <1>1, Zenon DEF Native, IsSet, IsMap
  <2>2. v = {} \/ \E x \in Atom : v = {x}
    BY <1>1, Zenon DEF Ovs
  <2>3. CASE v = {}
    BY <1>1, <2>1, <2>3, Zenon DEF OvsToNative
  <2>4. CASE \E x \in Atom : v = {x}
    <3>1. PICK x \in Atom : v = {x}
      BY <2>4, Zenon
    <3>2. v # {} /\ (CHOOSE y \in v : TRUE) = x
      BY <3>1, Zenon
    <3> QED
      BY <1>1, <2>1, <3>2, Zenon DEF OvsToNative
  <2> QED
    BY <2>2, <2>3, <2>4, Zenon
<1>2. CASE Kind[c] # "optional"
  BY <1>2, Zenon DEF Ovs, OvsToNative
<1> QED
  BY <1>1, <1>2, Zenon

\* Merging works on the notation: there an optional is a set, and is merged as an
\* atom all the same.
LEMMA NotedDeltasMerge ==
  ASSUME NEW c \in Column, NEW x \in Native(c), NEW y \in Native(c), NEW z \in Native(c)
  PROVE  LET merged == mergeDifference(Kind[c], NativeToOvs(c, x), NativeToOvs(c, Delta(c, x, y)),
                                       NativeToOvs(c, Delta(c, y, z)))
         IN  merged.value = NativeToOvs(c, Delta(c, x, z)) /\ (merged.changed <=> x # z)
<1>1. CASE Kind[c] = "optional"
  <2> DEFINE o == NativeToOvs(c, x)
             a == NativeToOvs(c, Delta(c, x, y))
             b == NativeToOvs(c, Delta(c, y, z))
             merged == mergeDifference(Kind[c], o, a, b)
  <2>1. ~IsSet(Kind[c]) /\ ~IsMap(Kind[c])
    BY <1>1, Zenon DEF IsSet, IsMap
  <2>2. merged = mergeAtomicDifference(o, a, b)
    BY <2>1, Zenon DEF mergeDifference
  <2>3. Delta(c, y, z) = z /\ Delta(c, x, z) = z
    BY <2>1, DifferenceByKind DEF Delta
  <2>4. o # Absent
    BY NotationRoundTrip, Zenon
  <2>5. NativeToOvs(c, x) = NativeToOvs(c, z) <=> x = z
    BY NotationRoundTrip, Zenon
  <2> HIDE DEF merged
  <2>6. merged.value = b /\ (merged.changed <=> o # b)
    BY <2>2, <2>4, Zenon DEF mergeAtomicDifference
  <2> QED
    BY <2>3, <2>5, <2>6, Zenon DEF merged
<1>2. CASE Kind[c] # "optional"
  <2>1. \A v : NativeToOvs(c, v) = v
    BY <1>2, Zenon DEF NativeToOvs
  <2> QED
    BY <2>1, DeltasMerge
<1> QED
  BY <1>1, <1>2, Zenon

\* Mutations of a map.
LEMMA MapMutation ==
  ASSUME NEW x \in Maps(Atom), NEW operand, NEW byKey \in BOOLEAN
  PROVE  /\ operand \in Maps(Atom) => /\ mutateInsert("map", x, operand).value \in Maps(Atom)
                               /\ mutateInsert("map", x, operand).diff
                                    = mapDifference(x, mutateInsert("map", x, operand).value).value
         /\ mutateDelete("map", x, operand, byKey).value \in Maps(Atom)
         /\ mutateDelete("map", x, operand, byKey).diff
              = mapDifference(x, mutateDelete("map", x, operand, byKey).value).value
<1>1. IsFunction(x) /\ DOMAIN x \subseteq Atom /\ \A k \in DOMAIN x : x[k] \in Atom
  BY MapType, Zenon
<1>2. ASSUME operand \in Maps(Atom)
      PROVE  /\ mutateInsert("map", x, operand).value \in Maps(Atom)
             /\ mutateInsert("map", x, operand).diff
                  = mapDifference(x, mutateInsert("map", x, operand).value).value
  <2> DEFINE new == DOMAIN operand \ DOMAIN x
             v == [k \in DOMAIN x \cup new |-> IF k \in new THEN operand[k] ELSE x[k]]
             d == [k \in new |-> operand[k]]
             e == mapDifference(x, v).value
  <2>1. mutateInsert("map", x, operand).value = v /\ mutateInsert("map", x, operand).diff = d
    BY Zenon DEF mutateInsert, IsSet
  <2>2. DOMAIN operand \subseteq Atom /\ \A k \in DOMAIN operand : operand[k] \in Atom
    BY <1>2, MapType, Zenon
  <2>3. /\ IsFunction(v) /\ DOMAIN v = DOMAIN x \cup new
        /\ \A k \in DOMAIN v : v[k] = IF k \in new THEN operand[k] ELSE x[k]
    BY Zenon DEF IsFunction
  <2>4. IsFunction(d) /\ DOMAIN d = new /\ \A k \in new : d[k] = operand[k]
    BY Zenon DEF IsFunction
  <2>5. /\ IsFunction(e)
        /\ \A k : k \in DOMAIN e <=>
                    \/ k \in DOMAIN x /\ k \notin DOMAIN v
                    \/ k \in DOMAIN v /\ (k \in DOMAIN x => x[k] # v[k])
        /\ \A k \in DOMAIN e : e[k] = IF k \in DOMAIN v THEN v[k] ELSE x[k]
    BY MapDifferenceEntries
  <2> HIDE DEF v, d, e
  <2>6. DOMAIN v \subseteq Atom /\ \A k \in DOMAIN v : v[k] \in Atom
    BY <1>1, <2>2, <2>3, Zenon
  <2>7. v \in Maps(Atom)
    BY <2>3, <2>6, MapType, Zenon
  <2>8. \A k : k \in DOMAIN d <=> k \in DOMAIN e
    BY <2>3, <2>4, <2>5, Zenon
  <2>9. \A k \in DOMAIN d : d[k] = e[k]
    BY <2>3, <2>4, <2>5, <2>8, Zenon
  <2>10. d = e
    BY <2>4, <2>5, <2>8, <2>9, SameMap, Zenon
  <2> QED
    BY <2>1, <2>7, <2>10, Zenon DEF e
<1>3. /\ mutateDelete("map", x, operand, byKey).value \in Maps(Atom)
      /\ mutateDelete("map", x, operand, byKey).diff
           = mapDifference(x, mutateDelete("map", x, operand, byKey).value).value
  <2> DEFINE gone == IF byKey
                       THEN operand \cap DOMAIN x
                       ELSE {k \in DOMAIN operand \cap DOMAIN x : operand[k] = x[k]}
             v == [k \in DOMAIN x \ gone |-> x[k]]
             d == [k \in gone |-> x[k]]
             e == mapDifference(x, v).value
  <2>1. /\ mutateDelete("map", x, operand, byKey).value = v
        /\ mutateDelete("map", x, operand, byKey).diff = d
    BY Zenon DEF mutateDelete, IsSet
  <2>2. gone \subseteq DOMAIN x
    BY Zenon
  <2> HIDE DEF gone
  <2>3. IsFunction(v) /\ DOMAIN v = DOMAIN x \ gone /\ \A k \in DOMAIN v : v[k] = x[k]
    BY Zenon DEF IsFunction
  <2>4. IsFunction(d) /\ DOMAIN d = gone /\ \A k \in gone : d[k] = x[k]
    BY Zenon DEF IsFunction
  <2>5. /\ IsFunction(e)
        /\ \A k : k \in DOMAIN e <=>
                    \/ k \in DOMAIN x /\ k \notin DOMAIN v
                    \/ k \in DOMAIN v /\ (k \in DOMAIN x => x[k] # v[k])
        /\ \A k \in DOMAIN e : e[k] = IF k \in DOMAIN v THEN v[k] ELSE x[k]
    BY MapDifferenceEntries, Zenon
  <2> HIDE DEF v, d, e
  <2>6. DOMAIN v \subseteq Atom /\ \A k \in DOMAIN v : v[k] \in Atom
    BY <1>1, <2>3, Zenon
  <2>7. v \in Maps(Atom)
    BY <2>3, <2>6, MapType, Zenon
  <2>8. \A k : k \in DOMAIN d <=> k \in DOMAIN e
    BY <2>2, <2>3, <2>4, <2>5, Zenon
  <2>9. \A k \in DOMAIN d : d[k] = e[k]
    BY <2>2, <2>3, <2>4, <2>5, <2>8, Zenon
  <2>10. d = e
    BY <2>4, <2>5, <2>8, <2>9, SameMap, Zenon
  <2> QED
    BY <2>1, <2>7, <2>10, Zenon DEF e
<1> QED
  BY <1>2, <1>3, Zenon

\* The arithmetic of integers stays among them.
LEMMA Arithmetic ==
  ASSUME NEW x \in Int, NEW y \in Int
  PROVE  /\ mutateAdd(x, y) \in Int /\ mutateSubtract(x, y) \in Int /\ mutateMultiply(x, y) \in Int
         /\ y # 0 => mutateDivide(x, y) \in Int /\ mutateModulo(x, y) \in Int
<1>1. mutateAdd(x, y) \in Int /\ mutateSubtract(x, y) \in Int /\ mutateMultiply(x, y) \in Int
  BY DEF mutateAdd, mutateSubtract, mutateMultiply
<1>2. ASSUME y # 0 PROVE mutateDivide(x, y) \in Int /\ mutateModulo(x, y) \in Int
  <2>1. Magnitude(x) \in Int /\ Magnitude(y) \in Int /\ Magnitude(y) > 0
    BY <1>2 DEF Magnitude
  <2>2. Magnitude(x) \div Magnitude(y) \in Int /\ Magnitude(x) % Magnitude(y) \in Int
    BY <2>1
  <2> QED
    BY <2>2 DEF mutateDivide, mutateModulo
<1> QED
  BY <1>1, <1>2, Zenon

\* A mutation that is let through leaves a value of the column and reports the
\* difference it makes.
LEMMA Mutation ==
  ASSUME NEW c \in Column, NEW mutator, ValidateMutation(c, mutator), NEW x \in Native(c),
         NEW operand \in Operand(c, mutator)
  PROVE  LET r == mutate(Kind[c], x, mutator, operand)
         IN  r.value \in Native(c) /\ r.diff = Delta(c, x, r.value)
<1> DEFINE r == mutate(Kind[c], x, mutator, operand)
<1>1. CASE IsSet(Kind[c])
  <2>1. Native(c) = SUBSET Atom /\ Operand(c, mutator) = SUBSET Atom /\ mutator \in {"insert", "delete"}
    BY <1>1, NativeByKind, Zenon DEF Operand, ValidateMutation, IsSet, IsMap
  <2>2. r.value \in Native(c) /\ r.diff = setDifference(x, r.value).value
    <3>1. CASE mutator = "insert"
      <4>1. r.value = x \cup operand /\ r.diff = operand \ x
        BY <1>1, <3>1, Zenon DEF mutate, mutateInsert
      <4> QED
        BY <2>1, <4>1, Zenon DEF setDifference
    <3>2. CASE mutator = "delete"
      <4>1. r.value = x \ operand /\ r.diff = operand \cap x
        BY <1>1, <3>2, Zenon DEF mutate, mutateDelete
      <4> QED
        BY <2>1, <4>1, Zenon DEF setDifference
    <3> QED
      BY <2>1, <3>1, <3>2, Zenon
  <2> HIDE DEF r
  <2> QED
    BY <1>1, <2>2, DifferenceByKind DEF Delta, r
<1>2. CASE IsMap(Kind[c])
  <2>1. Native(c) = Maps(Atom) /\ Kind[c] = "map" /\ mutator \in {"insert", "delete", "deleteKeys"}
        /\ (mutator = "insert" => operand \in Maps(Atom))
    BY <1>2, NativeByKind, Zenon DEF Operand, ValidateMutation, IsSet, IsMap
  <2> x \in Maps(Atom)
    BY <2>1, Zenon
  <2> HIDE DEF r
  <2>2. r.value \in Native(c) /\ r.diff = mapDifference(x, r.value).value
    <3>1. CASE mutator = "insert"
      <4>1. r = mutateInsert("map", x, operand)
        BY <2>1, <3>1, Zenon DEF mutate, r
      <4> QED
        BY <2>1, <3>1, <4>1, MapMutation, Zenon
    <3>2. CASE mutator = "delete"
      <4>1. r = mutateDelete("map", x, operand, FALSE)
        BY <2>1, <3>2, Zenon DEF mutate, r
      <4> QED
        BY <2>1, <4>1, MapMutation, Zenon
    <3>3. CASE mutator = "deleteKeys"
      <4>1. r = mutateDelete("map", x, operand, TRUE)
        BY <2>1, <3>3, Zenon DEF mutate, r
      <4> QED
        BY <2>1, <4>1, MapMutation, Zenon
    <3> QED
      BY <2>1, <3>1, <3>2, <3>3, Zenon
  <2> HIDE DEF r
  <2> QED
    BY <1>2, <2>2, DifferenceByKind DEF Delta, r
<1>3. CASE ~IsSet(Kind[c]) /\ ~IsMap(Kind[c])
  <2>1. Kind[c] = "integer" /\ mutator \in {"+=", "-=", "*=", "/=", "%="}
    BY <1>3, Zenon DEF ValidateMutation
  <2>2. operand \in Int /\ (mutator \in {"/=", "%="} => operand # 0) /\ Native(c) = Int
    BY <1>3, <2>1, NativeByKind, Zenon DEF Operand
  <2>3. \E v \in Int : r = arithmetic(v)
    BY <2>1, <2>2, Arithmetic, Zenon DEF mutate
  <2>4. r.value \in Int /\ r.diff = r.value
    BY <2>3 DEF arithmetic
  <2> HIDE DEF r
  <2> QED
    BY <1>3, <2>2, <2>4, DifferenceByKind DEF Delta, r
<1> QED
  BY <1>1, <1>2, <1>3, Zenon


-----------------------------------------------------------------------------
(* The mutations of an operation.                                          *)

\* What mutations have done to a model: the differences that are kept are those
\* from the old model to the new one, and no immutable column has changed.
MutatedFrom(C, old, st) ==
  /\ st.new \in ModelOn(C)
  /\ IsFunction(st.differences)
  /\ DOMAIN st.differences = {c \in C : old[c] # st.new[c]}
  /\ \A c \in DOMAIN st.differences : st.differences[c] = Delta(c, old[c], st.new[c])
  /\ \A c \in C \cap Immutable : st.new[c] = old[c]

\* One mutation keeps it so, whether it goes further, goes back or does nothing.
LEMMA MutatedOnce ==
  ASSUME NEW C \in SUBSET Column, NEW old \in ModelOn(C), NEW st, MutatedFrom(C, old, st), NEW mutation, mutation.column \in C,
         ValidateMutation(mutation.column, mutation.mutator),
         mutation.operand \in Operand(mutation.column, mutation.mutator)
  PROVE  MutatedFrom(C, old, mutated(old, st, mutation))
<1> DEFINE c == mutation.column
           r == mutate(Kind[c], st.new[c], mutation.mutator, mutation.operand)
           a == IF c \in DOMAIN st.differences THEN st.differences[c] ELSE Absent
           d == mergeDifference(Kind[c], old[c], a, r.diff)
           t == mutated(old, st, mutation)
           x == st.new[c]
           y == r.value
<1>1. /\ st.new \in ModelOn(C) /\ IsFunction(st.differences)
      /\ DOMAIN st.differences = {b \in C : old[b] # st.new[b]}
      /\ \A b \in DOMAIN st.differences : st.differences[b] = Delta(b, old[b], st.new[b])
      /\ \A b \in C \cap Immutable : st.new[b] = old[b]
  BY Zenon DEF MutatedFrom
<1>2. c \in C /\ c \notin Immutable
  BY Zenon DEF ValidateMutation
<1>3. old[c] \in Native(c) /\ x \in Native(c) /\ \A b \in C : old[b] \in Native(b)
  BY <1>1, <1>2, Zenon DEF ModelOn
<1>4. y \in Native(c) /\ r.diff = Delta(c, x, y)
  BY <1>2, <1>3, Mutation
<1>5. d.value = Delta(c, old[c], y) /\ (d.changed <=> old[c] # y)
  <2>1. CASE old[c] # x
    <3>1. a = Delta(c, old[c], x)
      BY <1>1, <1>2, <2>1, Zenon
    <3> HIDE DEF c, r, a, x, y
    <3> QED
      BY <1>2, <1>3, <1>4, <3>1, DeltasMerge
  <2>2. CASE old[c] = x
    <3>1. a = Absent
      BY <1>1, <1>2, <2>2, Zenon
    <3> HIDE DEF c, r, a, x, y
    <3> QED
      BY <1>2, <1>3, <1>4, <2>2, <3>1, DeltaFirst
  <2> QED
    BY <2>1, <2>2, Zenon
<1>6. /\ t.new = [st.new EXCEPT ![c] = y]
      /\ d.changed => t.differences = [b \in DOMAIN st.differences \cup {c} |->
                                         IF b = c THEN d.value ELSE st.differences[b]]
      /\ ~d.changed => t.differences = [b \in DOMAIN st.differences \ {c} |-> st.differences[b]]
  BY DEF mutated
<1> HIDE DEF c, r, a, d, t, x, y
<1>7. /\ st.new \in [C -> Values(Atom)] /\ y \in Values(Atom)
      /\ \A b \in C : st.new[b] \in Native(b)
  BY <1>1, <1>2, <1>4, NativeType, Zenon DEF ModelOn
<1>8. t.new \in [C -> Values(Atom)] /\ \A b \in C : t.new[b] = IF b = c THEN y ELSE st.new[b]
  BY <1>6, <1>7, Zenon
<1>9. t.new \in ModelOn(C)
  BY <1>4, <1>7, <1>8, Zenon DEF ModelOn
<1>10. /\ IsFunction(t.differences)
       /\ DOMAIN t.differences = IF old[c] # y THEN DOMAIN st.differences \cup {c}
                                 ELSE DOMAIN st.differences \ {c}
       /\ \A b \in DOMAIN t.differences :
            t.differences[b] = IF b = c THEN Delta(c, old[c], y) ELSE st.differences[b]
  <2>1. CASE d.changed
    <3> DEFINE f == [b \in DOMAIN st.differences \cup {c} |->
                       IF b = c THEN d.value ELSE st.differences[b]]
    <3>1. /\ IsFunction(f) /\ DOMAIN f = DOMAIN st.differences \cup {c}
          /\ \A b \in DOMAIN f : f[b] = IF b = c THEN d.value ELSE st.differences[b]
      BY Zenon DEF IsFunction
    <3>2. t.differences = f
      BY <1>6, <2>1, Zenon
    <3> HIDE DEF f
    <3> QED
      BY <1>5, <2>1, <3>1, <3>2, Zenon
  <2>2. CASE ~d.changed
    <3> DEFINE f == [b \in DOMAIN st.differences \ {c} |-> st.differences[b]]
    <3>1. /\ IsFunction(f) /\ DOMAIN f = DOMAIN st.differences \ {c}
          /\ \A b \in DOMAIN f : f[b] = st.differences[b]
      BY Zenon DEF IsFunction
    <3>2. t.differences = f
      BY <1>6, <2>2, Zenon
    <3> HIDE DEF f
    <3> QED
      BY <1>5, <2>2, <3>1, <3>2, Zenon
  <2> QED
    BY <2>1, <2>2, Zenon
<1>11. DOMAIN t.differences = {b \in C : old[b] # t.new[b]}
  BY <1>1, <1>2, <1>8, <1>10, Zenon
<1>12. \A b \in DOMAIN t.differences : t.differences[b] = Delta(b, old[b], t.new[b])
  <2> SUFFICES ASSUME NEW b \in DOMAIN t.differences
               PROVE  t.differences[b] = Delta(b, old[b], t.new[b])
    BY Zenon
  <2>1. CASE b = c
    BY <1>2, <1>8, <1>10, <2>1, Zenon
  <2>2. CASE b # c
    <3>1. b \in DOMAIN st.differences /\ b \in C
      BY <1>10, <1>11, <2>2, Zenon
    <3>2. t.new[b] = st.new[b]
      BY <1>8, <2>2, <3>1, Zenon
    <3>3. t.differences[b] = st.differences[b]
      BY <1>10, <2>2, Zenon
    <3> QED
      BY <1>1, <3>1, <3>2, <3>3, Zenon
  <2> QED
    BY <2>1, <2>2, Zenon
<1>13. \A b \in C \cap Immutable : t.new[b] = old[b]
  BY <1>1, <1>2, <1>8, Zenon
<1>14. MutatedFrom(C, old, t)
  BY <1>9, <1>10, <1>11, <1>12, <1>13, Zenon DEF MutatedFrom
<1> QED
  BY <1>14, Zenon DEF t

\* Induction over the natural numbers, on the set of those that have a property.
LEMMA SetInduction ==
  ASSUME NEW S, 0 \in S, \A n \in Nat : n \in S => n + 1 \in S
  PROVE  Nat \subseteq S
<1> SUFFICES ASSUME ~(Nat \subseteq S) PROVE FALSE
  BY Zenon
<1> DEFINE T == Nat \ S
           R == {ss \in Nat \X Nat : ss[1] < ss[2]}
<1>1. T \subseteq Nat /\ T # {}
  BY Zenon
<1>2. R = OpToRel(<, Nat)
  BY Zenon DEF OpToRel
<1>3. IsWellFoundedOn(R, Nat)
  BY <1>2, NatLessThanWellFounded, Zenon
<1> HIDE DEF R
<1>4. PICK k \in T : \A n \in T : ~(<<n, k>> \in R)
  BY <1>1, <1>3, WFMin, Zenon
<1> USE DEF R
<1>5. \A n \in T : ~(n < k)
  BY <1>4, Zenon
<1>6. k # 0 /\ k - 1 \in Nat
  OBVIOUS
<1>7. k - 1 \in S
  BY <1>5, <1>6
<1>8. (k - 1) + 1 \in S
  BY <1>6, <1>7, Zenon
<1> QED
  BY <1>6, <1>8

\* The n-th mutation: one of a column that the model does not have is ignored.
mutatedNext(old, mutations, st, n) ==
  IF mutations[n].column \in DOMAIN old THEN mutated(old, st, mutations[n]) ELSE st

\* f has the results of the first mutations.
IsUpTo(f, old, mutations, k) ==
  f = [n \in 0..k |-> IF n = 0 THEN [new |-> old, differences |-> EmptyMap]
                      ELSE mutatedNext(old, mutations, f[n - 1], n)]

\* The recursion over the mutations has a result, whatever they are.
LEMMA UpToExists ==
  ASSUME NEW old, NEW mutations, NEW k \in Nat
  PROVE  \E f : IsUpTo(f, old, mutations, k)
<1> DEFINE S == {n \in Nat : \E f : IsUpTo(f, old, mutations, n)}
           s0 == [new |-> old, differences |-> EmptyMap]
           next(st, n) == mutatedNext(old, mutations, st, n)
<1>1. 0 \in S
  <2> DEFINE f == [n \in 0..0 |-> s0]
  <2> HIDE DEF s0, next
  <2>1. f = [n \in 0..0 |-> IF n = 0 THEN s0 ELSE next(f[n - 1], n)]
    OBVIOUS
  <2> USE DEF s0, next
  <2>2. IsUpTo(f, old, mutations, 0)
    BY <2>1, Zenon DEF IsUpTo
  <2> QED
    BY <2>2, Zenon
<1>2. ASSUME NEW n \in Nat, n \in S PROVE n + 1 \in S
  <2>1. PICK f : IsUpTo(f, old, mutations, n)
    BY <1>2, Zenon
  <2> DEFINE g == [i \in 0..(n + 1) |-> IF i = n + 1 THEN next(f[n], n + 1) ELSE f[i]]
             h == [i \in 0..(n + 1) |-> IF i = 0 THEN s0 ELSE next(g[i - 1], i)]
  <2>2. f = [i \in 0..n |-> IF i = 0 THEN s0 ELSE next(f[i - 1], i)]
    BY <2>1, Zenon DEF IsUpTo
  <2> HIDE DEF s0, next
  <2>3. \A i \in 0..n : f[i] = IF i = 0 THEN s0 ELSE next(f[i - 1], i)
    BY <2>2, Zenon
  <2>4. \A i \in 0..(n + 1) : g[i] = IF i = n + 1 THEN next(f[n], n + 1) ELSE f[i]
    BY Zenon
  <2> HIDE DEF g
  <2>5. ASSUME NEW i \in 0..(n + 1) PROVE g[i] = IF i = 0 THEN s0 ELSE next(g[i - 1], i)
    <3>1. CASE i = n + 1
      <4>1. g[i - 1] = f[n] /\ i # 0 /\ g[i] = next(f[n], i)
        BY <2>4, <3>1
      <4> QED
        BY <4>1, Zenon
    <3>2. CASE i = 0
      BY <2>3, <2>4, <3>2
    <3>3. CASE i # 0 /\ i # n + 1
      <4>1. i \in 0..n /\ i - 1 \in 0..(n + 1) /\ i - 1 # n + 1
        BY <3>3
      <4>2. g[i] = f[i] /\ g[i - 1] = f[i - 1] /\ f[i] = next(f[i - 1], i)
        BY <2>3, <2>4, <3>3, <4>1, Zenon
      <4> QED
        BY <3>3, <4>2, Zenon
    <3> QED
      BY <3>1, <3>2, <3>3, Zenon
  <2>6. g = h
    BY <2>5, Zenon DEF g
  <2> USE DEF s0, next
  <2>7. IsUpTo(g, old, mutations, n + 1)
    BY <2>6, Zenon DEF IsUpTo
  <2> QED
    BY <2>7
<1>3. Nat \subseteq S
  <2> HIDE DEF S
  <2> QED
    BY <1>1, <1>2, SetInduction, Zenon
<1> QED
  BY <1>3, Zenon

\* The mutations of an operation that are all let through.
LEMMA MutatedByAll ==
  ASSUME NEW C \in SUBSET Column, NEW old \in ModelOn(C), NEW mutations, IsMutationListOn(C, mutations),
         \A n \in DOMAIN mutations : mutations[n].column \in C =>
           ValidateMutation(mutations[n].column, mutations[n].mutator)
  PROVE  MutatedFrom(C, old, mutatedBy(old, mutations))
<1> DEFINE L == Len(mutations)
           s0 == [new |-> old, differences |-> EmptyMap]
<1>1. L \in Nat /\ DOMAIN mutations = 1..L /\ DOMAIN old = C
  BY Zenon DEF IsMutationListOn, ModelOn
<1>2. PICK f : IsUpTo(f, old, mutations, L) /\ mutatedBy(old, mutations) = f[L]
  <2>1. \E f : IsUpTo(f, old, mutations, L)
    BY <1>1, UpToExists, Zenon
  <2> DEFINE u == CHOOSE f : IsUpTo(f, old, mutations, L)
  <2>2. IsUpTo(u, old, mutations, L)
    BY <2>1, Zenon
  <2>3. mutatedBy(old, mutations) = u[L]
    BY Zenon DEF mutatedBy, IsUpTo, mutatedNext
  <2> QED
    BY <2>2, <2>3, Zenon
<1>3. /\ f[0] = s0
      /\ \A n \in 1..L : f[n] = mutatedNext(old, mutations, f[n - 1], n)
  BY <1>1, <1>2 DEF IsUpTo
<1>4. MutatedFrom(C, old, s0)
  <2>1. s0.new = old /\ s0.differences = EmptyMap
    BY Zenon
  <2>2. IsFunction(EmptyMap) /\ DOMAIN EmptyMap = {}
    BY Zenon DEF EmptyMap, IsFunction
  <2> HIDE DEF s0
  <2> QED
    BY <2>1, <2>2, Zenon DEF MutatedFrom
<1>5. ASSUME NEW n \in 1..L, MutatedFrom(C, old, f[n - 1]) PROVE MutatedFrom(C, old, f[n])
  <2>1. CASE mutations[n].column \in C
    <3>1. f[n] = mutated(old, f[n - 1], mutations[n])
      BY <1>1, <1>3, <2>1, Zenon DEF mutatedNext
    <3>2. ValidateMutation(mutations[n].column, mutations[n].mutator)
      BY <1>1, <2>1, Zenon
    <3>3. mutations[n].operand \in Operand(mutations[n].column, mutations[n].mutator)
      BY <1>1, <2>1, <3>2, Zenon DEF IsMutationListOn
    <3> QED
      BY <1>5, <2>1, <3>1, <3>2, <3>3, MutatedOnce, Zenon
  <2>2. CASE mutations[n].column \notin C
    <3>1. f[n] = f[n - 1]
      BY <1>1, <1>3, <2>2, Zenon DEF mutatedNext
    <3> QED
      BY <1>5, <3>1, Zenon
  <2> QED
    BY <2>1, <2>2, Zenon
<1> DEFINE S == {n \in Nat : n <= L => MutatedFrom(C, old, f[n])}
<1>6. 0 \in S
  BY <1>3, <1>4, Zenon
<1>7. ASSUME NEW n \in Nat, n \in S PROVE n + 1 \in S
  <2>1. CASE n + 1 <= L
    <3>1. n + 1 \in 1..L /\ (n + 1) - 1 = n /\ n <= L
      BY <1>1, <2>1
    <3>2. MutatedFrom(C, old, f[n])
      BY <1>7, <3>1, Zenon
    <3>3. MutatedFrom(C, old, f[n + 1])
      BY <1>5, <3>1, <3>2, Zenon
    <3> QED
      BY <3>3
  <2> QED
    BY <2>1
<1>8. Nat \subseteq S
  <2> HIDE DEF S
  <2> QED
    BY <1>6, <1>7, SetInduction, Zenon
<1>9. MutatedFrom(C, old, f[L])
  BY <1>1, <1>8
<1> QED
  BY <1>2, <1>9, Zenon


-----------------------------------------------------------------------------
(* Rows and models.                                                        *)

\* The columns in which two models differ, and the modifications of an update2
\* that leads from one to the other.
Changed(m, n) == {c \in DOMAIN m : m[c] # n[c]}
DeltaRow(m, n) == [c \in Changed(m, n) |-> NativeToOvs(c, Delta(c, m[c], n[c]))]

\* A model has a value of its type in every column.
LEMMA ModelType ==
  ASSUME NEW C \in SUBSET Column, NEW m \in ModelOn(C)
  PROVE  /\ m \in [C -> Values(Atom)] /\ DOMAIN m = C /\ m # NoModel
         /\ \A c \in C : m[c] \in Native(c)
  BY NilAssumption, Zenon DEF ModelOn

\* The columns in which a model differs from another.
LEMMA ChangedColumns ==
  ASSUME NEW C \in SUBSET Column, NEW m \in ModelOn(C), NEW n
  PROVE  /\ Changed(m, n) = {c \in C : m[c] # n[c]}
         /\ Changed(m, n) \subseteq C /\ Changed(m, n) \subseteq Column
<1>1. DOMAIN m = C
  BY ModelType, Zenon
<1> QED
  BY <1>1, Zenon DEF Changed

\* Models that are the same in every column are the same.
LEMMA SameModel ==
  ASSUME NEW C \in SUBSET Column, NEW m \in ModelOn(C), NEW n \in ModelOn(C)
  PROVE  m = n <=> Changed(m, n) = {}
<1>1. m \in [C -> Values(Atom)] /\ n \in [C -> Values(Atom)]
  BY ModelType, Zenon
<1> QED
  BY <1>1 DEF Changed

\* The rows that updates have.
LEMMA RowTypes ==
  ASSUME NEW C \in SUBSET Column, NEW m \in ModelOn(C), NEW n \in ModelOn(C)
  PROVE  /\ NewRow(m) \in [{c \in C : m[c] # Default(c)} -> Values(Atom)]
         /\ DeltaRow(m, n) \in [Changed(m, n) -> Values(Atom)]
         /\ NewRow(m) # Absent /\ DeltaRow(m, n) # Absent
<1> DEFINE K == {c \in C : m[c] # Default(c)}
<1>1. /\ DOMAIN m = C
      /\ \A c \in C : m[c] \in Native(c) /\ n[c] \in Native(c)
  BY ModelType, Zenon
<1>2. NewRow(m) = [c \in K |-> NativeToOvs(c, m[c])]
  BY <1>1, Zenon DEF NewRow, IsDefaultValue
<1>3. \A c \in K : NativeToOvs(c, m[c]) \in Values(Atom)
  BY <1>1, NotationRoundTrip, Zenon
<1>4. NewRow(m) \in [K -> Values(Atom)]
  BY <1>2, <1>3, Zenon
<1>5. \A c \in Changed(m, n) : NativeToOvs(c, Delta(c, m[c], n[c])) \in Values(Atom)
  BY <1>1, ChangedColumns, DeltaType, NotationRoundTrip, Zenon
<1>6. DeltaRow(m, n) \in [Changed(m, n) -> Values(Atom)]
  BY <1>5, Zenon DEF DeltaRow
<1>7. K \in SUBSET Column /\ Changed(m, n) \in SUBSET Column
  BY ChangedColumns, Zenon
<1> HIDE DEF K
<1>8. NewRow(m) # Absent /\ DeltaRow(m, n) # Absent
  BY <1>4, <1>6, <1>7, NilAssumption, Zenon
<1> QED
  BY <1>4, <1>6, <1>8, Zenon DEF K

\* A column of the row of a model, and what it stands for if it is left out.
LEMMA NewRowColumns ==
  ASSUME NEW C \in SUBSET Column, NEW m \in ModelOn(C), NEW c \in C
  PROVE  /\ c \in DOMAIN NewRow(m) <=> m[c] # Default(c)
         /\ c \in DOMAIN NewRow(m) => NewRow(m)[c] = NativeToOvs(c, m[c])
  BY ModelType, Zenon DEF NewRow, IsDefaultValue

\* A row that an operation carries makes a model ...
LEMMA CreateModelType ==
  ASSUME NEW C \in SUBSET Column, NEW row, IsRow(row)
  PROVE  CreateModel(C, row) \in ModelOn(C)
<1> DEFINE value(c) == IF c \in DOMAIN row THEN OvsToNative(c, row[c]) ELSE Default(c)
<1>1. \A c \in C : value(c) \in Native(c)
  BY NativeOfOvs, DefaultAssumption, Zenon DEF IsRow
<1>2. \A c \in C : value(c) \in Values(Atom)
  BY <1>1, NativeType, Zenon
<1>3. CreateModel(C, row) = [c \in C |-> value(c)]
  BY Zenon DEF CreateModel
<1> HIDE DEF value
<1> QED
  BY <1>1, <1>2, <1>3, Zenon DEF ModelOn

\* ... and the row of a model makes that model: the default values that NewRow
\* leaves out come back.
LEMMA ModelOfItsRow ==
  ASSUME NEW C \in SUBSET Column, NEW m \in ModelOn(C)
  PROVE  CreateModel(C, NewRow(m)) = m
<1> DEFINE row == NewRow(m)
           value(c) == IF c \in DOMAIN row THEN OvsToNative(c, row[c]) ELSE Default(c)
<1>1. ASSUME NEW c \in C PROVE value(c) = m[c]
  <2>1. /\ m[c] \in Native(c) /\ c \in Column
        /\ c \in DOMAIN row <=> m[c] # Default(c)
        /\ c \in DOMAIN row => row[c] = NativeToOvs(c, m[c])
    BY NewRowColumns, ModelType
  <2>2. OvsToNative(c, NativeToOvs(c, m[c])) = m[c]
    BY <2>1, NotationRoundTrip, Zenon
  <2> QED
    BY <2>1, <2>2, Zenon
<1>2. CreateModel(C, row) = [c \in C |-> value(c)]
  BY Zenon DEF CreateModel
<1> HIDE DEF value
<1> QED
  BY <1>1, <1>2, ModelType, Zenon

\* An update with a row: the modifications are the difference to the new model,
\* and it is refused exactly if an immutable column would change.
LEMMA UpdateModelIs ==
  ASSUME NEW C \in SUBSET Column, NEW m \in ModelOn(C), NEW row, IsRow(row)
  PROVE  LET u == updateModel(m, row)
         IN  /\ u.new \in ModelOn(C)
             /\ \A c \in C :
                  u.new[c] = IF c \in DOMAIN row THEN OvsToNative(c, row[c]) ELSE m[c]
             /\ u.changed <=> m # u.new
             /\ u.err <=> Changed(m, u.new) \cap Immutable # {}
             /\ u.modify = DeltaRow(m, u.new)
<1> DEFINE u == updateModel(m, row)
           known == DOMAIN row \cap DOMAIN m
           value(c) == OvsToNative(c, row[c])
           changed == {c \in known : difference(Kind[c], m[c], value(c)).changed}
<1>1. DOMAIN m = C /\ \A c \in C : m[c] \in Native(c) /\ m[c] \in Values(Atom)
  BY ModelType, NativeType, Zenon
<1>2. \A c \in known : value(c) \in Native(c) /\ value(c) \in Values(Atom)
  BY <1>1, NativeOfOvs, NativeType, Zenon DEF IsRow
<1>3. /\ u.err <=> changed \cap Immutable # {}
      /\ u.changed <=> changed # {}
  BY Zenon DEF updateModel
<1>4. /\ u.new = [c \in DOMAIN m |-> IF c \in known THEN value(c) ELSE m[c]]
      /\ u.modify = [c \in changed |-> NativeToOvs(c, difference(Kind[c], m[c], value(c)).value)]
  BY Zenon DEF updateModel
<1>5. changed = {c \in known : m[c] # value(c)}
  BY <1>1, <1>2, DeltaType, Zenon
<1> HIDE DEF u, value, changed
<1>6. /\ u.new \in [C -> Values(Atom)]
      /\ \A c \in C : u.new[c] = IF c \in known THEN value(c) ELSE m[c]
  BY <1>1, <1>2, <1>4
<1> HIDE DEF known
<1>7. u.new \in ModelOn(C)
  BY <1>1, <1>2, <1>6, Zenon DEF ModelOn
<1>8. changed = Changed(m, u.new)
  BY <1>1, <1>5, <1>6, Zenon DEF Changed, known
<1>9. u.changed <=> m # u.new
  BY <1>3, <1>7, <1>8, SameModel, Zenon
<1>10. u.modify = DeltaRow(m, u.new)
  <2>1. \A c \in changed : value(c) = u.new[c]
    BY <1>1, <1>5, <1>6, Zenon DEF known
  <2>2. \A c \in changed : NativeToOvs(c, difference(Kind[c], m[c], value(c)).value)
                             = NativeToOvs(c, Delta(c, m[c], u.new[c]))
    BY <2>1, Zenon DEF Delta
  <2> QED
    BY <1>4, <1>8, <2>2, Zenon DEF DeltaRow
<1>11. \A c \in C : u.new[c] = IF c \in DOMAIN row THEN OvsToNative(c, row[c]) ELSE m[c]
  BY <1>1, <1>6, Zenon DEF known, value
<1> QED
  BY <1>3, <1>7, <1>8, <1>9, <1>10, <1>11, Zenon DEF u

\* Whoever applies the modifications gets the new model.
LEMMA ModifyModelIs ==
  ASSUME NEW C \in SUBSET Column, NEW m \in ModelOn(C), NEW n \in ModelOn(C), m # n, Changed(m, n) \cap Immutable = {}
  PROVE  LET u == modifyModel(m, DeltaRow(m, n))
         IN  u.new = n /\ u.changed /\ ~u.err
<1> DEFINE row == DeltaRow(m, n)
           u == modifyModel(m, row)
           known == DOMAIN row \cap DOMAIN m
           applied(c) == applyDifference(Kind[c], m[c], OvsToNative(c, row[c]))
           changed == {c \in known : applied(c).changed}
<1>1. DOMAIN m = C /\ \A c \in C : m[c] \in Native(c) /\ n[c] \in Native(c)
  BY ModelType, Zenon
<1>2. DOMAIN row = Changed(m, n) /\ Changed(m, n) \subseteq C
  BY ChangedColumns, Zenon DEF DeltaRow
<1>3. known = Changed(m, n)
  BY <1>1, <1>2, Zenon
<1>4. \A c \in known : applied(c).value = n[c] /\ applied(c).changed
  <2> SUFFICES ASSUME NEW c \in known PROVE applied(c).value = n[c] /\ applied(c).changed
    BY Zenon
  <2>1. c \in C /\ c \in Changed(m, n) /\ m[c] # n[c]
    BY <1>2, <1>3, ChangedColumns
  <2>2. row[c] = NativeToOvs(c, Delta(c, m[c], n[c]))
    BY <2>1, Zenon DEF DeltaRow
  <2>3. OvsToNative(c, row[c]) = Delta(c, m[c], n[c])
    BY <1>1, <2>1, <2>2, DeltaType, NotationRoundTrip
  <2> QED
    BY <1>1, <2>1, <2>3, DeltaApplies
<1>5. /\ u.err <=> changed \cap Immutable # {}
      /\ u.changed <=> changed # {}
  BY Zenon DEF modifyModel
<1>6. u.new = [c \in DOMAIN m |-> IF c \in known THEN applied(c).value ELSE m[c]]
  BY Zenon DEF modifyModel
<1>7. changed = Changed(m, n)
  BY <1>3, <1>4, Zenon
<1> HIDE DEF u, row, known, applied, changed
<1>8. \A c \in C : (IF c \in known THEN applied(c).value ELSE m[c]) = n[c]
  BY <1>3, <1>4, ChangedColumns
<1>9. u.new = n
  <2>1. u.new = [c \in C |-> n[c]]
    BY <1>1, <1>6, <1>8, Zenon
  <2>2. n = [c \in C |-> n[c]]
    BY ModelType, Zenon
  <2> QED
    BY <2>1, <2>2, Zenon
<1>10. u.changed /\ ~u.err
  BY <1>5, <1>7, SameModel, Zenon
<1> QED
  BY <1>9, <1>10, Zenon DEF u, row

\* Two modifications of a row, merged, are the modification of both: a column that
\* is back at its original value is left out.
LEMMA ModificationsMerge ==
  ASSUME NEW C \in SUBSET Column, NEW x \in ModelOn(C), NEW y \in ModelOn(C), NEW z \in ModelOn(C)
  PROVE  mergeModifyRow(NewRow(x), DeltaRow(x, y), DeltaRow(y, z)) = DeltaRow(x, z)
<1> DEFINE o == NewRow(x)
           a == DeltaRow(x, y)
           b == DeltaRow(y, z)
           undone == {c \in DOMAIN a \cap DOMAIN b : ~mergedColumn(o, a, b, c).changed}
           kept == (DOMAIN a \cup DOMAIN b) \ undone
           value(c) == IF c \notin DOMAIN b THEN a[c]
                       ELSE IF c \notin DOMAIN a THEN b[c]
                       ELSE mergedColumn(o, a, b, c).value
<1>1. \A c \in C : x[c] \in Native(c) /\ y[c] \in Native(c) /\ z[c] \in Native(c)
  BY ModelType, Zenon
<1>0. /\ Changed(x, y) = {c \in C : x[c] # y[c]}
      /\ Changed(y, z) = {c \in C : y[c] # z[c]}
      /\ Changed(x, z) = {c \in C : x[c] # z[c]}
  BY ChangedColumns
<1>2. /\ DOMAIN a = Changed(x, y) /\ DOMAIN b = Changed(y, z)
      /\ \A c \in Changed(x, y) : a[c] = NativeToOvs(c, Delta(c, x[c], y[c]))
      /\ \A c \in Changed(y, z) : b[c] = NativeToOvs(c, Delta(c, y[c], z[c]))
  BY Zenon DEF DeltaRow
<1>3. ASSUME NEW c \in DOMAIN a \cap DOMAIN b
      PROVE  /\ mergedColumn(o, a, b, c).value = NativeToOvs(c, Delta(c, x[c], z[c]))
             /\ mergedColumn(o, a, b, c).changed <=> x[c] # z[c]
  <2>1. c \in C /\ c \in Changed(x, y) /\ c \in Changed(y, z)
    BY <1>0, <1>2, Zenon
  <2>2. (IF c \in DOMAIN o THEN o[c] ELSE NativeToOvs(c, Default(c))) = NativeToOvs(c, x[c])
    BY <2>1, NewRowColumns
  <2>3. mergedColumn(o, a, b, c) = mergeDifference(Kind[c], NativeToOvs(c, x[c]), a[c], b[c])
    BY <2>2, Zenon DEF mergedColumn
  <2> HIDE DEF o, a, b
  <2> QED
    BY <1>1, <1>2, <2>1, <2>3, NotedDeltasMerge
<1>4. mergeModifyRow(o, a, b) = [c \in kept |-> value(c)]
  BY Zenon DEF mergeModifyRow
<1> HIDE DEF o, a, b
<1>5. undone = {c \in DOMAIN a \cap DOMAIN b : x[c] = z[c]}
  BY <1>3, Zenon
<1> HIDE DEF undone
<1>6. kept = Changed(x, z)
  BY <1>0, <1>2, <1>5, Zenon
<1>7. ASSUME NEW c \in kept PROVE value(c) = NativeToOvs(c, Delta(c, x[c], z[c]))
  <2>1. c \in C /\ x[c] # z[c]
    BY <1>0, <1>6, <1>7, Zenon
  <2>2. CASE c \notin DOMAIN b
    <3>1. y[c] = z[c] /\ c \in Changed(x, y)
      BY <1>0, <1>2, <2>1, <2>2, Zenon
    <3> QED
      BY <1>2, <2>2, <3>1, Zenon
  <2>3. CASE c \in DOMAIN b /\ c \notin DOMAIN a
    <3>1. x[c] = y[c] /\ c \in Changed(y, z)
      BY <1>0, <1>2, <2>1, <2>3, Zenon
    <3> QED
      BY <1>2, <2>3, <3>1, Zenon
  <2>4. CASE c \in DOMAIN a \cap DOMAIN b
    BY <1>3, <2>4, Zenon
  <2> QED
    BY <2>2, <2>3, <2>4, Zenon
<1> HIDE DEF kept, value
<1>8. [c \in kept |-> value(c)] = DeltaRow(x, z)
  BY <1>6, <1>7, Zenon DEF DeltaRow
<1> QED
  BY <1>4, <1>8, Zenon DEF o, a, b


-----------------------------------------------------------------------------
(* The update between two models of a row.                                 *)

Models(C) == ModelOn(C) \cup {NoModel}

RowUpdateBetween(m, n) ==
  IF m = n THEN NoRowUpdate
  ELSE IF m = NoModel THEN [op |-> "insert", row |-> NewRow(n), Old |-> Absent, New |-> NewRow(n)]
  ELSE IF n = NoModel THEN [op |-> "delete", row |-> EmptyRow, Old |-> NewRow(m), New |-> Absent]
  ELSE [op |-> "modify", row |-> DeltaRow(m, n), Old |-> NewRow(m), New |-> NewRow(n)]

UpdateBetween(m, n) ==
  IF m = n THEN NoUpdate
  ELSE [old |-> m, new |-> n, rowUpdate2 |-> RowUpdateBetween(m, n)]

\* None of the records that merge builds is the error.
LEMMA NoError ==
  ASSUME NEW C \in SUBSET Column, NEW m \in Models(C), NEW n \in Models(C)
  PROVE  /\ [old |-> m, new |-> n] # Error
         /\ RowUpdateBetween(m, n) # Error
         /\ [old |-> m, new |-> n, rowUpdate2 |-> RowUpdateBetween(m, n)] # Error
         /\ UpdateBetween(m, n) # Error
<1> DEFINE cols(k) == {c \in C : k[c] # Default(c)}
           r == RowUpdateBetween(m, n)
<1>1. [old |-> m, new |-> n] \in OldAndNewOn(Values(Atom), C)
  BY Zenon DEF OldAndNewOn, Models, ModelOn
<1>2. PICK D \in SUBSET Column, E \in SUBSET Column, F \in SUBSET Column : r \in RowUpdate2On(Values(Atom), D, E, F)
  <2>1. CASE m = n
    <3>1. r \in RowUpdate2On(Values(Atom), {}, {}, {})
      BY <2>1, Zenon DEF RowUpdateBetween, NoRowUpdate, RowUpdate2On, RowOn
    <3> QED
      BY <3>1, Zenon
  <2>2. CASE m # n /\ m = NoModel
    <3>1. n \in ModelOn(C)
      BY <2>2, Zenon DEF Models
    <3>2. NewRow(n) \in [cols(n) -> Values(Atom)] /\ cols(n) \in SUBSET Column
      BY <3>1, RowTypes, Zenon
    <3>3. r = [op |-> "insert", row |-> NewRow(n), Old |-> Absent, New |-> NewRow(n)]
      BY <2>2, Zenon DEF RowUpdateBetween
    <3> HIDE DEF cols, r
    <3>4. r \in RowUpdate2On(Values(Atom), cols(n), {}, cols(n))
      BY <3>2, <3>3, Zenon DEF RowUpdate2On, RowOn
    <3> QED
      BY <3>2, <3>4, Zenon
  <2>3. CASE m # n /\ n = NoModel
    <3>1. m \in ModelOn(C)
      BY <2>3, Zenon DEF Models
    <3>2. NewRow(m) \in [cols(m) -> Values(Atom)] /\ cols(m) \in SUBSET Column
      BY <3>1, RowTypes, Zenon
    <3>3. r = [op |-> "delete", row |-> EmptyRow, Old |-> NewRow(m), New |-> Absent]
      BY <2>3, Zenon DEF RowUpdateBetween
    <3>4. EmptyRow \in [{} -> Values(Atom)]
      BY Zenon DEF EmptyRow, EmptyMap
    <3> HIDE DEF cols, r
    <3>5. r \in RowUpdate2On(Values(Atom), {}, cols(m), {})
      BY <3>2, <3>3, <3>4, Zenon DEF RowUpdate2On, RowOn
    <3> QED
      BY <3>2, <3>5, Zenon
  <2>4. CASE m # n /\ m # NoModel /\ n # NoModel
    <3>1. m \in ModelOn(C) /\ n \in ModelOn(C)
      BY <2>4, Zenon DEF Models
    <3>2. /\ NewRow(m) \in [cols(m) -> Values(Atom)] /\ cols(m) \in SUBSET Column
          /\ NewRow(n) \in [cols(n) -> Values(Atom)] /\ cols(n) \in SUBSET Column
          /\ DeltaRow(m, n) \in [Changed(m, n) -> Values(Atom)] /\ Changed(m, n) \in SUBSET Column
      <4>1. Changed(m, n) \in SUBSET Column
        BY <3>1, ChangedColumns, Zenon
      <4>2. NewRow(m) \in [cols(m) -> Values(Atom)]
        BY <3>1, RowTypes, Zenon
      <4>3. NewRow(n) \in [cols(n) -> Values(Atom)]
        BY <3>1, RowTypes, Zenon
      <4>4. DeltaRow(m, n) \in [Changed(m, n) -> Values(Atom)]
        BY <3>1, RowTypes, Zenon
      <4> QED
        BY <4>1, <4>2, <4>3, <4>4, Zenon
    <3>3. r = [op |-> "modify", row |-> DeltaRow(m, n), Old |-> NewRow(m), New |-> NewRow(n)]
      BY <2>4, Zenon DEF RowUpdateBetween
    <3> HIDE DEF cols, r
    <3>4. r \in RowUpdate2On(Values(Atom), Changed(m, n), cols(m), cols(n))
      BY <3>2, <3>3, Zenon DEF RowUpdate2On, RowOn
    <3> QED
      BY <3>2, <3>4, Zenon
  <2> QED
    BY <2>1, <2>2, <2>3, <2>4, Zenon
<1>3. [old |-> m, new |-> n, rowUpdate2 |-> r] \in ModelUpdateOn(Values(Atom), C, D, E, F)
  BY <1>2, Zenon DEF ModelUpdateOn, Models, ModelOn
<1>4. NoUpdate \in ModelUpdateOn(Values(Atom), {}, {}, {}, {})
  BY Zenon DEF NoUpdate, NoRowUpdate, ModelUpdateOn, RowUpdate2On, RowOn
<1> HIDE DEF r
<1>5. r # Error /\ [old |-> m, new |-> n, rowUpdate2 |-> r] # Error /\ NoUpdate # Error
  BY <1>2, <1>3, <1>4, NilAssumption
<1> QED
  BY <1>1, <1>5, NilAssumption, Zenon DEF r, UpdateBetween

\* The update between two models, by what it does.
LEMMA RowUpdateKinds ==
  ASSUME NEW m, NEW n
  PROVE  /\ RowUpdateBetween(m, n).op = "none" <=> m = n
         /\ RowUpdateBetween(m, n).op = "insert" <=> m = NoModel /\ n # NoModel
         /\ RowUpdateBetween(m, n).op = "delete" <=> m # NoModel /\ n = NoModel
         /\ RowUpdateBetween(m, n).op = "modify" <=> m # n /\ m # NoModel /\ n # NoModel
         /\ RowUpdateBetween(m, n) = NoRowUpdate <=> m = n
         /\ UpdateBetween(m, n) = NoUpdate <=> m = n
         /\ m # NoModel /\ m # n => RowUpdateBetween(m, n).Old = NewRow(m)
         /\ n # NoModel /\ m # n => RowUpdateBetween(m, n).New = NewRow(n)
<1>1. CASE m = n
  BY <1>1, Zenon DEF RowUpdateBetween, UpdateBetween, NoRowUpdate
<1>2. CASE m # n
  <2>1. UpdateBetween(m, n) # NoUpdate
    BY <1>2, Zenon DEF UpdateBetween, NoUpdate
  <2> QED
    BY <1>2, <2>1, Zenon DEF RowUpdateBetween, NoRowUpdate
<1> QED
  BY <1>1, <1>2, Zenon

\* mergeRowUpdate on the updates of two steps of a row.
LEMMA RowUpdatesMerge ==
  ASSUME NEW C \in SUBSET Column, NEW x \in Models(C), NEW y \in Models(C), NEW z \in Models(C)
  PROVE  mergeRowUpdate(RowUpdateBetween(x, y), RowUpdateBetween(y, z))
           = IF x # NoModel /\ y = NoModel /\ z # NoModel THEN Error ELSE RowUpdateBetween(x, z)
<1> DEFINE a == RowUpdateBetween(x, y)
           b == RowUpdateBetween(y, z)
           r == mergeRowUpdate(a, b)
<1>1. CASE y = z
  <2>1. b.op = "none"
    BY <1>1, RowUpdateKinds, Zenon
  <2>2. r = a
    BY <2>1, Zenon DEF mergeRowUpdate
  <2> QED
    BY <1>1, <2>2, Zenon
<1>2. CASE x = y /\ y # z
  <2>1. a.op = "none" /\ b.op # "none"
    BY <1>2, RowUpdateKinds, Zenon
  <2> HIDE DEF a, b
  <2>2. r = b
    BY <2>1, Zenon DEF mergeRowUpdate
  <2> QED
    BY <1>2, <2>2, Zenon DEF a, b
<1>3. CASE x = NoModel /\ y # NoModel /\ z # NoModel /\ y # z
  <2>1. a = [op |-> "insert", row |-> NewRow(y), Old |-> Absent, New |-> NewRow(y)]
    BY <1>3 DEF RowUpdateBetween
  <2>2. b.op = "modify" /\ b.New = NewRow(z)
    BY <1>3, RowUpdateKinds, Zenon
  <2> HIDE DEF a, b
  <2>3. r = [a EXCEPT !.New = b.New, !.row = b.New]
    BY <2>1, <2>2, Zenon DEF mergeRowUpdate
  <2>4. r = [op |-> "insert", row |-> NewRow(z), Old |-> Absent, New |-> NewRow(z)]
    BY <2>1, <2>2, <2>3, Zenon
  <2> QED
    BY <1>3, <2>4, Zenon DEF a, b, RowUpdateBetween
<1>4. CASE x = NoModel /\ y # NoModel /\ z = NoModel
  <2>1. a.op = "insert" /\ b.op = "delete"
    BY <1>4, Zenon DEF RowUpdateBetween
  <2> HIDE DEF a, b
  <2>2. r = NoRowUpdate
    BY <2>1, Zenon DEF mergeRowUpdate
  <2> QED
    BY <1>4, <2>2, Zenon DEF a, b, RowUpdateBetween
<1>5. CASE x # NoModel /\ y # NoModel /\ x # y /\ z # NoModel /\ y # z
  <2>1. x \in ModelOn(C) /\ y \in ModelOn(C) /\ z \in ModelOn(C)
    BY <1>5, Zenon DEF Models
  <2>2. a = [op |-> "modify", row |-> DeltaRow(x, y), Old |-> NewRow(x), New |-> NewRow(y)]
    BY <1>5, Zenon DEF RowUpdateBetween
  <2>3. b = [op |-> "modify", row |-> DeltaRow(y, z), Old |-> NewRow(y), New |-> NewRow(z)]
    BY <1>5, Zenon DEF RowUpdateBetween
  <2> HIDE DEF a, b
  <2>4. mergeModifyRow(a.Old, a.row, b.row) = DeltaRow(x, z)
    BY <2>1, <2>2, <2>3, ModificationsMerge, Zenon
  <2>5. r = IF DOMAIN DeltaRow(x, z) = {} THEN NoRowUpdate
            ELSE [a EXCEPT !.New = b.New, !.row = DeltaRow(x, z)]
    BY <2>2, <2>3, <2>4, Zenon DEF mergeRowUpdate
  <2>6. DOMAIN DeltaRow(x, z) = {} <=> x = z
    BY <2>1, SameModel, Zenon DEF DeltaRow
  <2>7. CASE x = z
    BY <1>5, <2>5, <2>6, <2>7, Zenon DEF RowUpdateBetween, a, b
  <2>8. CASE x # z
    <3>1. r = [op |-> "modify", row |-> DeltaRow(x, z), Old |-> NewRow(x), New |-> NewRow(z)]
      BY <2>2, <2>3, <2>5, <2>6, <2>8, Zenon
    <3> QED
      BY <1>5, <2>8, <3>1, Zenon DEF RowUpdateBetween, a, b
  <2> QED
    BY <2>7, <2>8, Zenon
<1>6. CASE x # NoModel /\ y # NoModel /\ x # y /\ z = NoModel
  <2>1. a.op = "modify" /\ a.Old = NewRow(x)
    BY <1>6, RowUpdateKinds, Zenon
  <2>2. b = [op |-> "delete", row |-> EmptyRow, Old |-> NewRow(y), New |-> Absent]
    BY <1>6, Zenon DEF RowUpdateBetween
  <2> HIDE DEF a, b
  <2>3. r = [op |-> "delete", row |-> EmptyRow, Old |-> NewRow(x), New |-> Absent]
    BY <2>1, <2>2, Zenon DEF mergeRowUpdate
  <2> QED
    BY <1>6, <2>3, Zenon DEF a, b, RowUpdateBetween
<1>7. CASE x # NoModel /\ y = NoModel /\ z # NoModel
  <2>1. a.op = "delete" /\ b.op = "insert"
    BY <1>7, Zenon DEF RowUpdateBetween
  <2> HIDE DEF a, b
  <2>2. r = Error
    BY <2>1, Zenon DEF mergeRowUpdate
  <2> QED
    BY <1>7, <2>2, Zenon DEF a, b
<1> QED
  BY <1>1, <1>2, <1>3, <1>4, <1>5, <1>6, <1>7, Zenon

\* The models of an update.
LEMMA UpdateModels ==
  ASSUME NEW m, NEW n
  PROVE  /\ UpdateBetween(m, n).rowUpdate2 = RowUpdateBetween(m, n)
         /\ m # n => UpdateBetween(m, n).old = m /\ UpdateBetween(m, n).new = n
         /\ m = n => UpdateBetween(m, n).old = NoModel /\ UpdateBetween(m, n).new = NoModel
<1>1. CASE m = n
  BY <1>1, Zenon DEF UpdateBetween, RowUpdateBetween, NoUpdate
<1>2. CASE m # n
  BY <1>2, Zenon DEF UpdateBetween
<1> QED
  BY <1>1, <1>2, Zenon

\* The model half of merge on the updates of two steps of a row.
LEMMA ModelsMerge ==
  ASSUME NEW C \in SUBSET Column, NEW x \in Models(C), NEW y \in Models(C), NEW z \in Models(C),
         ~(x # NoModel /\ y = NoModel /\ z # NoModel)
  PROVE  /\ mergeModels(UpdateBetween(x, y), UpdateBetween(y, z)) # Error
         /\ x # z => mergeModels(UpdateBetween(x, y), UpdateBetween(y, z)) = [old |-> x, new |-> z]
<1> DEFINE a == UpdateBetween(x, y)
           b == UpdateBetween(y, z)
           r == mergeModels(a, b)
<1>1. CASE y = z
  <2>1. b.old = NoModel /\ b.new = NoModel
    BY <1>1, UpdateModels, Zenon
  <2>2. a.old \in Models(C) /\ a.new \in Models(C) /\ (x # z => a.old = x /\ a.new = z)
    BY <1>1, UpdateModels DEF Models
  <2> HIDE DEF a, b
  <2>3. r = [old |-> a.old, new |-> a.new]
    BY <2>1, Zenon DEF mergeModels
  <2> HIDE DEF r
  <2> QED
    BY <2>2, <2>3, NoError, Zenon DEF a, b, r
<1>2. CASE y # z
  <2>1. b.old = y /\ b.new = z
    BY <1>2, UpdateModels, Zenon
  <2>2. x = y => a.old = NoModel /\ a.new = NoModel
    BY UpdateModels, Zenon
  <2>3. x # y => a.old = x /\ a.new = y
    BY UpdateModels, Zenon
  <2> HIDE DEF a, b
  <2>4. r = [old |-> x, new |-> z]
    <3>1. CASE x = y
      BY <1>2, <2>1, <2>2, <3>1, Zenon DEF mergeModels
    <3>2. CASE x # y /\ y # NoModel /\ z # NoModel
      BY <1>2, <2>1, <2>3, <3>2, Zenon DEF mergeModels
    <3>3. CASE x # y /\ y # NoModel /\ z = NoModel
      BY <1>2, <2>1, <2>3, <3>3, Zenon DEF mergeModels
    <3> QED
      BY <1>2, <3>1, <3>2, <3>3, Zenon
  <2> HIDE DEF r
  <2> QED
    BY <2>4, NoError, Zenon DEF a, b, r
<1> QED
  BY <1>1, <1>2, Zenon

\* The update that a transaction has for a row, merged with that of the next
\* operation, is the update of both; only the insertion of a row that was deleted
\* is refused.
THEOREM MergeLaw ==
  ASSUME NEW C \in SUBSET Column, NEW x \in Models(C), NEW y \in Models(C), NEW z \in Models(C)
  PROVE  addUpdate(UpdateBetween(x, y), UpdateBetween(y, z))
           = IF x # NoModel /\ y = NoModel /\ z # NoModel THEN Error ELSE UpdateBetween(x, z)
<1> DEFINE a == UpdateBetween(x, y)
           b == UpdateBetween(y, z)
           models == mergeModels(a, b)
           ru2 == mergeRowUpdate(a.rowUpdate2, b.rowUpdate2)
<1>1. ru2 = IF x # NoModel /\ y = NoModel /\ z # NoModel THEN Error ELSE RowUpdateBetween(x, z)
  BY UpdateModels, RowUpdatesMerge
<1>2. addUpdate(a, b) = IF models = Error \/ ru2 = Error THEN Error
                        ELSE IF ru2 = NoRowUpdate THEN NoUpdate
                        ELSE [old |-> models.old, new |-> models.new, rowUpdate2 |-> ru2]
  BY Zenon DEF addUpdate, merge
<1> HIDE DEF models, ru2
<1>3. CASE x # NoModel /\ y = NoModel /\ z # NoModel
  BY <1>1, <1>2, <1>3, Zenon
<1>4. CASE ~(x # NoModel /\ y = NoModel /\ z # NoModel)
  <2>1. models # Error /\ (x # z => models = [old |-> x, new |-> z])
    BY <1>4, ModelsMerge, Zenon DEF models
  <2>2. ru2 = RowUpdateBetween(x, z) /\ ru2 # Error /\ (ru2 = NoRowUpdate <=> x = z)
    BY <1>1, <1>4, NoError, RowUpdateKinds
  <2> QED
    BY <1>2, <1>4, <2>1, <2>2 DEF UpdateBetween
<1> QED
  BY <1>3, <1>4, Zenon


-----------------------------------------------------------------------------
(* The operations.                                                         *)

\* A step from one model of a row to another that the schema allows.
Allowed(m, n) == m # NoModel /\ n # NoModel => Changed(m, n) \cap Immutable = {}

\* u is the update of an operation on a row with the model m.
IsUpdateOf(C, m, u) == u = Error \/ \E n \in Models(C) : u = UpdateBetween(m, n) /\ Allowed(m, n)

\* Two allowed changes are an allowed change, unless a row is deleted and inserted
\* again between them.
LEMMA AllowedTogether ==
  ASSUME NEW C \in SUBSET Column, NEW x \in Models(C), NEW y \in Models(C), NEW z \in Models(C),
         Allowed(x, y), Allowed(y, z), ~(x # NoModel /\ y = NoModel /\ z # NoModel)
  PROVE  Allowed(x, z)
<1> SUFFICES ASSUME x # NoModel, z # NoModel, y # NoModel
             PROVE  Changed(x, z) \cap Immutable = {}
  BY Zenon DEF Allowed
<1>1. x \in ModelOn(C) /\ y \in ModelOn(C) /\ z \in ModelOn(C)
  BY Zenon DEF Models
<1>2. /\ Changed(x, y) \cap Immutable = {}
      /\ Changed(y, z) \cap Immutable = {}
  BY Zenon DEF Allowed
<1>3. Changed(x, y) = {c \in C : x[c] # y[c]}
  BY <1>1, ChangedColumns
<1>4. Changed(y, z) = {c \in C : y[c] # z[c]}
  BY <1>1, ChangedColumns
<1>5. Changed(x, z) = {c \in C : x[c] # z[c]}
  BY <1>1, ChangedColumns
<1> QED
  BY <1>2, <1>3, <1>4, <1>5, Zenon

\* An insertion.
LEMMA InsertIs ==
  ASSUME NEW C \in SUBSET Column, NEW row, IsRow(row)
  PROVE  IsUpdateOf(C, NoModel, addInsertOperation(C, row))
<1> DEFINE n == CreateModel(C, row)
<1>1. n \in ModelOn(C) /\ n # NoModel
  BY CreateModelType, ModelType, Zenon
<1>2. addInsertOperation(C, row)
        = [old |-> NoModel, new |-> n,
           rowUpdate2 |-> [op |-> "insert", row |-> NewRow(n), Old |-> Absent, New |-> NewRow(n)]]
  BY Zenon DEF addInsertOperation
<1> HIDE DEF n
<1>3. addInsertOperation(C, row) = UpdateBetween(NoModel, n)
  BY <1>1, <1>2, Zenon DEF UpdateBetween, RowUpdateBetween
<1> QED
  BY <1>1, <1>3, Zenon DEF IsUpdateOf, Allowed, Models

\* An update, which is refused if it changes an immutable column.
LEMMA UpdateIs ==
  ASSUME NEW C \in SUBSET Column, NEW m \in ModelOn(C), NEW row, IsRow(row)
  PROVE  IsUpdateOf(C, m, addUpdateOperation(m, row))
<1> DEFINE u == updateModel(m, row)
<1>2. /\ u.new \in ModelOn(C)
      /\ u.changed <=> m # u.new
      /\ u.err <=> Changed(m, u.new) \cap Immutable # {}
      /\ u.modify = DeltaRow(m, u.new)
  BY UpdateModelIs
<1>3. addUpdateOperation(m, row) = IF u.err THEN Error
                                   ELSE IF u.changed THEN modifyUpdate(m, u.new, u.modify)
                                   ELSE NoUpdate
  BY Zenon DEF addUpdateOperation
<1> HIDE DEF u
<1>4. m # NoModel /\ u.new # NoModel
  BY <1>2, ModelType, Zenon
<1>5. CASE u.err
  BY <1>3, <1>5, Zenon DEF IsUpdateOf
<1>6. CASE ~u.err
  <2>1. addUpdateOperation(m, row) = UpdateBetween(m, u.new)
    BY <1>2, <1>3, <1>4, <1>6, Zenon DEF UpdateBetween, RowUpdateBetween, modifyUpdate
  <2>2. Allowed(m, u.new)
    BY <1>2, <1>6, Zenon DEF Allowed
  <2> QED
    BY <1>2, <2>1, <2>2, Zenon DEF IsUpdateOf, Models
<1> QED
  BY <1>5, <1>6, Zenon

\* A list of mutations, which is refused if one of them is.
LEMMA MutateIs ==
  ASSUME NEW C \in SUBSET Column, NEW m \in ModelOn(C), NEW mutations, IsMutationListOn(C, mutations)
  PROVE  IsUpdateOf(C, m, addMutateOperation(m, mutations))
<1> DEFINE r == mutatedBy(m, mutations)
           invalid == \E n \in DOMAIN mutations :
                        /\ mutations[n].column \in DOMAIN m
                        /\ ~ValidateMutation(mutations[n].column, mutations[n].mutator)
           delta == [c \in DOMAIN r.differences |-> NativeToOvs(c, r.differences[c])]
<1>1. addMutateOperation(m, mutations) = IF invalid THEN Error
                                         ELSE IF DOMAIN r.differences = {} THEN NoUpdate
                                         ELSE modifyUpdate(m, r.new, delta)
  BY Zenon DEF addMutateOperation
<1>2. DOMAIN m = C /\ m # NoModel
  BY ModelType, Zenon
<1>3. CASE invalid
  <2> HIDE DEF invalid
  <2> QED
    BY <1>1, <1>3, Zenon DEF IsUpdateOf
<1>4. CASE ~invalid
  <2>2. MutatedFrom(C, m, r)
    BY <1>2, <1>4, MutatedByAll, Zenon
  <2> HIDE DEF r, invalid
  <2>3. /\ r.new \in ModelOn(C) /\ DOMAIN r.differences = Changed(m, r.new)
        /\ \A c \in Changed(m, r.new) : r.differences[c] = Delta(c, m[c], r.new[c])
        /\ \A c \in C \cap Immutable : r.new[c] = m[c]
    BY <2>2, ChangedColumns DEF MutatedFrom
  <2>4. delta = DeltaRow(m, r.new)
    BY <2>3, Zenon DEF DeltaRow
  <2> HIDE DEF delta
  <2>5. r.new # NoModel /\ (m = r.new <=> DOMAIN r.differences = {})
    BY <2>3, ModelType, SameModel
  <2>6. addMutateOperation(m, mutations) = UpdateBetween(m, r.new)
    BY <1>1, <1>2, <1>4, <2>4, <2>5, Zenon DEF UpdateBetween, RowUpdateBetween, modifyUpdate
  <2>7. Allowed(m, r.new)
    BY <2>3, ChangedColumns DEF Allowed
  <2> QED
    BY <2>3, <2>6, <2>7, Zenon DEF IsUpdateOf, Models
<1> QED
  BY <1>3, <1>4, Zenon

\* A deletion.
LEMMA DeleteIs ==
  ASSUME NEW C \in SUBSET Column, NEW m \in ModelOn(C)
  PROVE  IsUpdateOf(C, m, addDeleteOperation(m))
<1>1. m # NoModel
  BY ModelType, Zenon
<1>2. addDeleteOperation(m) = UpdateBetween(m, NoModel)
  BY <1>1, Zenon DEF addDeleteOperation, UpdateBetween, RowUpdateBetween
<1> QED
  BY <1>2, Zenon DEF IsUpdateOf, Allowed, Models

\* The row of a model can be read back as one.
LEMMA NewRowIsRow ==
  ASSUME NEW C \in SUBSET Column, NEW m \in ModelOn(C)
  PROVE  IsRow(NewRow(m))
<1> DEFINE K == {c \in DOMAIN m : ~IsDefaultValue(c, m[c])}
           row == [c \in K |-> NativeToOvs(c, m[c])]
<1>1. \A c \in C : NativeToOvs(c, m[c]) \in Ovs(c)
  <2> SUFFICES ASSUME NEW c \in C PROVE NativeToOvs(c, m[c]) \in Ovs(c)
    BY Zenon
  <2>1. m[c] \in Native(c)
    BY ModelType, Zenon
  <2>2. CASE Kind[c] = "optional"
    <3>1. m[c] \in Atom \cup {Nil}
      BY <2>1, <2>2, NativeType, Zenon
    <3> QED
      BY <2>2, <3>1, Zenon DEF NativeToOvs, Ovs
  <2>3. CASE Kind[c] # "optional"
    BY <2>1, <2>3, Zenon DEF NativeToOvs, Ovs
  <2> QED
    BY <2>2, <2>3, Zenon
<1>2. row = [c \in DOMAIN row |-> row[c]] /\ DOMAIN row = K
  BY Zenon
<1>3. K \subseteq C
  BY ModelType, Zenon
<1>4. \A c \in K : row[c] \in Ovs(c)
  BY <1>1, <1>3, Zenon
<1>5. NewRow(m) = row
  BY Zenon DEF NewRow
<1> HIDE DEF K, row
<1> QED
  BY <1>2, <1>3, <1>4, <1>5, Zenon DEF IsRow

\* What a client makes of the update2 between two models when it has the first.
LEMMA UpdateReceived ==
  ASSUME NEW C \in SUBSET Column, NEW m \in Models(C), NEW n \in Models(C), m # n, Allowed(m, n)
  PROVE  LET got == AddRowUpdate2(C, m, RowUpdateBetween(m, n))
         IN  got = UpdateBetween(m, n) /\ got # Error /\ got # NoUpdate /\ got.new = n
<1> DEFINE r == RowUpdateBetween(m, n)
           got == AddRowUpdate2(C, m, r)
<1>1. got = [old |-> m, new |-> n, rowUpdate2 |-> r]
  <2>1. CASE m = NoModel
    <3>1. n \in ModelOn(C) /\ r.op = "insert" /\ r.row = NewRow(n)
      BY <2>1, Zenon DEF Models, RowUpdateBetween
    <3> HIDE DEF r
    <3>2. got = [old |-> NoModel, new |-> CreateModel(C, r.row), rowUpdate2 |-> r]
      BY <3>1, Zenon DEF AddRowUpdate2
    <3> QED
      BY <2>1, <3>1, <3>2, ModelOfItsRow, Zenon
  <2>2. CASE m # NoModel /\ n = NoModel
    <3>1. r.op = "delete"
      BY <2>2, RowUpdateKinds, Zenon
    <3> HIDE DEF r
    <3> QED
      BY <2>2, <3>1, Zenon DEF AddRowUpdate2
  <2>3. CASE m # NoModel /\ n # NoModel
    <3>1. m \in ModelOn(C) /\ n \in ModelOn(C) /\ r.op = "modify" /\ r.row = DeltaRow(m, n)
      BY <2>3, Zenon DEF Models, RowUpdateBetween
    <3> DEFINE u == modifyModel(m, DeltaRow(m, n))
    <3>2. u.new = n /\ u.changed /\ ~u.err
      BY <2>3, <3>1, ModifyModelIs, Zenon DEF Allowed
    <3> HIDE DEF r, u
    <3>3. got = changeOf(m, u, r)
      BY <3>1, Zenon DEF AddRowUpdate2, u
    <3> QED
      BY <3>2, <3>3, Zenon DEF changeOf
  <2> QED
    BY <2>1, <2>2, <2>3, Zenon
<1>2. got = UpdateBetween(m, n)
  BY <1>1, Zenon DEF UpdateBetween
<1> HIDE DEF got
<1>3. got # Error /\ got # NoUpdate /\ got.new = n
  BY <1>1, <1>2, NoError, RowUpdateKinds
<1> QED
  BY <1>2, <1>3, Zenon DEF got

=============================================================================
