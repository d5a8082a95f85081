SPECIFICATION SharedSpec
CONSTANTS
  ta = ta
  tb = tb
  tc = tc
  c1 = c1
  c2 = c2
  h1 = h1
  h2 = h2
  h3 = h3
  pBasic = pBasic
  pBearer = pBearer
  pToken = pToken
  pCorp = pCorp
  unknown = unknown
  hostA = hostA
  hostB = hostB
  Threads = {ta, tb, tc}
  Connections = {c1, c2}
  MinSize = 1
  MaxSize = 2
  Nobody = Nobody
  None = None
  Borrowers = {ta, tb, tc}
  Handles = {h1, h2, h3}
  Clients = {c1, c2}
  MinIdle = 1
  MaxTotal = 2
  NoHandle = NoHandle
  NoClient = NoClient
  Callers = {ta, tb}
  Profiles = {pBasic, pBearer, pToken}
  AuthFile <- McAuthFile
  TlsFile <- McTlsFile
  AuthType <- McAuthType
  HasToken = {pBearer}
  Ttl <- McTtl
  HttpRequests <- McRequests
  AnyPort = AnyPort
  NoProfile = NoProfile
  DefaultTls = DefaultTls
  FetchTime = 2
  MaxClock = 5
INVARIANTS PermitsConserved StatsExact TokensInTime
PROPERTIES LockReleased ImplementsHandleLease RequestsEnd
CHECK_DEADLOCK FALSE
