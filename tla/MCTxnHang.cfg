SPECIFICATION Spec
CONSTANTS
  Absent = Absent
  Nil = Nil
  NoModel = NoModel
  Error = Error
  NoRefs = NoRefs
  NoUUID = "none"
  Stray = {"none"}
  Name = {}
  NoName = NoName
  NoConn = NoConn
  Column <- HangColumn
  Kind <- HangKind
  Immutable = {}
  ZeroAtom <- MCZeroAtom
  Atom <- HangAtom
  UUID <- HangUUID
  TableOf <- HangTableOf
  ColumnsOf <- HangColumnsOf
  Root = {"root"}
  RefKey <- HangRefKey
  RefValue <- HangNone
  MinLen <- HangMinLen
  IndexedTable = "root"
  IndexedColumn = "name"
  Transactions <- HangTransactions
  Conn = {}
  Requested <- MCRequested
  MonitorKinds = {"conditional"}
PROPERTY
  TransactReturns
