----------------------------- MODULE MCRowCache -----------------------------
(***************************************************************************)
(* A table with a plain column "name", an optional column "port" and a map *)
(* column "ids"; schema indexes on (name) and on (name, port), client      *)
(* indexes on the key "k" of ids and on its keys "k" and "j".              *)
(***************************************************************************)
EXTENDS Queries

CONSTANTS a, b, byName, byNamePort, byKey, byKeys

NoEntries == [k \in {} |-> a]
Single(v) == [k \in {"k"} |-> v]
Both == [k \in {"k", "j"} |-> a]

\* Map columns with and without the keys, and with the zero value.
MCMap == {NoEntries, Single(a), Single(Zero), Both}

MCModel == [name : {a, b}, port : {Nil, a}, ids : MCMap]
MCNewModel == [name |-> Zero, port |-> Nil, ids |-> NoEntries]

MCSchemaIndex == {byName, byNamePort}
MCIndexOrder == <<byName, byNamePort, byKey, byKeys>>
MCIndex == ToSet(MCIndexOrder)

Column(c) == [column |-> c, key |-> NoKey]
ColumnKey(c, k) == [column |-> c, key |-> k]

MCIndexColumns ==
  [i \in MCIndex |->
     CASE i = byName -> <<Column("name")>>
       [] i = byNamePort -> <<Column("name"), Column("port")>>
       [] i = byKey -> <<ColumnKey("ids", "k")>>
       [] i = byKeys -> <<ColumnKey("ids", "k"), ColumnKey("ids", "j")>>]

\* Models to look for: by UUID, by name, by name and port, by a key, by nothing.
Sought ==
  {[uuid |-> u, row |-> [MCNewModel EXCEPT !.name = b]] : u \in UUID}
    \cup {[uuid |-> Zero, row |-> m] :
            m \in {MCNewModel,
                   [MCNewModel EXCEPT !.name = a, !.port = a],
                   [MCNewModel EXCEPT !.ids = Single(a)]}}

MCModelLists == {<<m>> : m \in Sought} \cup {<<m, n>> : m, n \in Sought}

Compare(c, f, v) == [column |-> c, function |-> f, value |-> v]

FieldConditions ==
  {Compare("name", "==", a), Compare("port", "!=", Nil),
   Compare("port", "includes", a), Compare("ids", "includes", Single(a)),
   Compare("ids", "includes", [k \in {"j"} |-> a]), Compare("ids", "includes", Both),
   Compare("ids", "includes", Single(Zero)), Compare("ids", "excludes", Single(a))}

MCConditions == FieldConditions \cup {Compare("_uuid", "==", u) : u \in UUID}

MCConditionLists ==
  {<<c>> : c \in MCConditions}
    \cup {<<c, d>> : c \in FieldConditions, d \in MCConditions}
    \cup {<<Compare("ids", "includes", Single(a)), Compare("name", "==", a), c>> :
            c \in MCConditions}

MCPredicates == {{m \in MCModel : m.port = a}, {}}

Symmetry == Permutations(UUID)

=============================================================================
