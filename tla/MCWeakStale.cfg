SPECIFICATION Spec
CONSTANTS
  Absent = Absent
  Nil = Nil
  NoModel = NoModel
  Error = Error
  NoRefs = NoRefs
  NoUUID = "none"
  Stray = {"none"}
  Name = {}
  NoName = NoName
  NoConn = NoConn
  Column <- WeakColumn
  Kind <- WeakKind
  Immutable = {}
  ZeroAtom <- MCZeroAtom
  Atom <- HangAtom
  UUID <- HangUUID
  TableOf <- HangTableOf
  ColumnsOf <- WeakColumnsOf
  Root = {"root"}
  RefKey <- WeakRefKey
  RefValue <- WeakNone
  MinLen <- WeakMinLen
  IndexedTable = "root"
  IndexedColumn = "name"
  Transactions <- WeakTransactions
  Conn = {}
  Requested <- MCRequested
  MonitorKinds = {"conditional"}
INVARIANT
  WeakReferencesRemoved
