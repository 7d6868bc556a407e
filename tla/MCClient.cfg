SPECIFICATION Spec
CONSTANTS
  e1 = e1
  e2 = e2
  Endpoint = {e1, e2}
  Slot = {n1, n2}
  NoConn = NoConn
  User = User
  Nobody = Nobody
  EndpointLists <- MCEndpointLists
  Patient = TRUE
  Deadlines = TRUE
INVARIANTS
  TypeOK
  ActiveEndpointFirst
  ConnectionsWatched
  ConnectedHasCache
PROPERTIES
  ClosedStaysClosed
  CloseCompletes
  
  SilenceNoticed
  LeaderLossHandled
