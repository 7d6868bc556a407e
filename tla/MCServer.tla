------------------------------ MODULE MCServer ------------------------------
(***************************************************************************)
(* Two root rows with a name that is a schema index, strong references     *)
(* (kids) and weak references (pals) to leaves; a leaf with a strong       *)
(* reference to a sub-row, so that collecting the leaf collects that.      *)
(***************************************************************************)
EXTENDS ServerMonitor

MCColumn == {"name", "kids", "pals", "subs", "tag"}
MCKind == [name |-> "atom", kids |-> "set", pals |-> "set", subs |-> "set", tag |-> "atom"]
MCZeroAtom == [name |-> "", tag |-> ""]

MCUUID == {"r1", "r2", "n1", "s1"}
MCTableOf == [r1 |-> "root", r2 |-> "root", n1 |-> "leaf", s1 |-> "sub"]
MCColumnsOf == [root |-> {"name", "kids", "pals"}, leaf |-> {"subs"}, sub |-> {"tag"}]
MCRefKey == [name |-> "none", kids |-> "strong", pals |-> "weak", subs |-> "strong", tag |-> "none"]
MCRefValue == [c \in MCColumn |-> "none"]
MCMinLen == [c \in MCColumn |-> IF MCKind[c] = "atom" THEN 1 ELSE 0]
MCAtom == MCUUID \cup {"none", "x", "y", "", "a", "b"}
MCRequested == [root |-> {"name", "kids"}, leaf |-> {"subs"}]

InsertOf(u, row) == [op |-> "insert", uuid |-> u, explicit |-> FALSE, name |-> NoName, row |-> row]
InsertNamed(u, n, row) == [InsertOf(u, row) EXCEPT !.name = n]
InsertAs(u, row) == [InsertOf(u, row) EXCEPT !.explicit = TRUE]
ByUUID(u) == {[column |-> "_uuid", value |-> u]}
ByName(v) == {[column |-> "name", value |-> v]}
UpdateOf(t, where, row) == [op |-> "update", table |-> t, where |-> where, row |-> row]
MutateOf(t, where, c, mutator, v) ==
  [op |-> "mutate", table |-> t, where |-> where,
   mutations |-> <<[column |-> c, mutator |-> mutator, operand |-> v]>>]
DeleteOf(t, where) == [op |-> "delete", table |-> t, where |-> where]
SelectOf(t, where) == [op |-> "select", table |-> t, where |-> where]
WaitFor(v, until) ==
  [op |-> "wait", table |-> "root", where |-> {}, columns |-> {"name"},
   rows |-> <<[name |-> v]>>, until |-> until, timeout |-> TRUE]
Comment == [op |-> "comment"]

Named(v) == [name |-> v]

MCTransactions ==
  { \* roots, also with a name that is taken, and with a UUID that exists
    <<InsertOf("r1", Named("a"))>>,
    <<InsertAs("r1", Named("a"))>>,
    <<InsertOf("r2", Named("b"))>>,
    <<UpdateOf("root", ByUUID("r2"), Named("a"))>>,
    <<UpdateOf("root", ByName("a"), Named("b")), SelectOf("root", {})>>,
    <<DeleteOf("root", ByName("a")), InsertOf("r2", Named("a"))>>,
    \* a name that passes from one row to another
    <<UpdateOf("root", ByUUID("r1"), Named("b")), UpdateOf("root", ByUUID("r2"), Named("a"))>>,
    \* leaves with and without references
    <<InsertNamed("n1", "x", [subs |-> {}]), MutateOf("root", {}, "kids", "insert", {"x"})>>,
    <<InsertNamed("s1", "y", [tag |-> ""]), InsertNamed("n1", "x", [subs |-> {"y"}]),
      MutateOf("root", ByUUID("r1"), "kids", "insert", {"x"})>>,
    <<InsertOf("n1", [subs |-> {}]), MutateOf("root", {}, "pals", "insert", {"n1"})>>,
    <<UpdateOf("root", {}, [kids |-> {}]), Comment>>,
    <<DeleteOf("leaf", {})>>,
    <<UpdateOf("leaf", {}, [subs |-> {}])>>,
    <<WaitFor("a", "=="), DeleteOf("root", {})>> }

-----------------------------------------------------------------------------
(* A root row with two leaves and an optional weak reference (best) to one *)
(* of them, which moves to the other one before the first is removed.      *)

HangColumn == {"name", "kids", "best", "tag"}
HangKind == [name |-> "atom", kids |-> "set", best |-> "optional", tag |-> "atom"]
HangUUID == {"r1", "n1", "n2"}
HangTableOf == [r1 |-> "root", n1 |-> "leaf", n2 |-> "leaf"]
HangColumnsOf == [root |-> {"name", "kids", "best"}, leaf |-> {"tag"}]
HangRefKey == [name |-> "none", kids |-> "strong", best |-> "weak", tag |-> "none"]
HangNone == [c \in HangColumn |-> "none"]
HangMinLen == [c \in HangColumn |-> IF HangKind[c] = "atom" THEN 1 ELSE 0]
HangAtom == HangUUID \cup {"none", "", "a"}

HangTransactions ==
  { <<InsertOf("n1", [tag |-> ""]), InsertOf("n2", [tag |-> ""]),
      InsertOf("r1", [name |-> "a", kids |-> {"n1", "n2"}, best |-> {"n1"}])>>,
    <<UpdateOf("root", {}, [best |-> {"n2"}])>>,
    <<UpdateOf("root", {}, [best |-> {}])>>,
    <<MutateOf("root", {}, "kids", "delete", {"n1"})>> }

-----------------------------------------------------------------------------
(* A root row with a leaf that has a leaf of its own, and weak references  *)
(* to both: the leaves are collected one turn after the other.             *)

WeakColumn == {"name", "kids", "pals", "subs"}
WeakKind == [name |-> "atom", kids |-> "set", pals |-> "set", subs |-> "set"]
WeakColumnsOf == [root |-> {"name", "kids", "pals"}, leaf |-> {"subs"}]
WeakRefKey == [name |-> "none", kids |-> "strong", pals |-> "weak", subs |-> "strong"]
WeakNone == [c \in WeakColumn |-> "none"]
WeakMinLen == [c \in WeakColumn |-> IF WeakKind[c] = "atom" THEN 1 ELSE 0]

WeakTransactions ==
  { <<InsertOf("n2", [subs |-> {}]), InsertOf("n1", [subs |-> {"n2"}]),
      InsertOf("r1", [name |-> "a", kids |-> {"n1"}, pals |-> {"n1", "n2"}])>>,
    <<MutateOf("root", {}, "kids", "delete", {"n1"})>>,
    <<DeleteOf("root", {})>> }

=============================================================================
