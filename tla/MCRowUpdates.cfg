SPECIFICATION Spec
CONSTANTS
  Absent = Absent
  Nil = Nil
  NoModel = NoModel
  Error = Error
  Column <- MCColumn
  Kind <- MCKind
  Immutable = {"k"}
  ZeroAtom <- MCZeroAtom
  Rows <- MCRows
  MutationLists <- MCMutationLists
  Bounded <- MCBounded
  Atom <- MCAtom
INVARIANTS
  
  
  PlainUpdateFaithful
  OnlyReinsertRefused
