SPECIFICATION FairSpec
CONSTANTS
  c1 = c1
  Server = Server
  Clients <- MCClients
  Endpoints <- MCEndpoints
  ReadSize = 1
  PipeSize = 3
  MaxUid = 2
  Loading = 1
INVARIANTS
  SendsAreExclusive
  NoLostWakeup
  ShutdownFlushes
PROPERTIES
  ImplementsRPC
  RequestsAreAnswered
  CloseReturns
