SPECIFICATION Spec
CONSTANTS
  Absent = Absent
  Nil = Nil
  NoModel = NoModel
  Error = Error
  NoRefs = NoRefs
  NoUUID = "none"
  Stray = {"none", "x", "y"}
  Name = {"x", "y"}
  NoName = NoName
  NoConn = NoConn
  Column <- MCColumn
  Kind <- MCKind
  Immutable = {}
  ZeroAtom <- MCZeroAtom
  Atom <- MCAtom
  UUID <- MCUUID
  TableOf <- MCTableOf
  ColumnsOf <- MCColumnsOf
  Root = {"root"}
  RefKey <- MCRefKey
  RefValue <- MCRefValue
  MinLen <- MCMinLen
  IndexedTable = "root"
  IndexedColumn = "name"
  Transactions <- MCTransactions
  Conn = {c1}
  Requested <- MCRequested
  MonitorKinds = {"conditional", "original"}
INVARIANTS
  
  
  
  IndexUnique
  MonitorsFollow
PROPERTY
  TransactReturns
