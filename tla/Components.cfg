SPECIFICATION MCSpec
SYMMETRY WorkerSymmetry
CONSTANTS
    h1 = h1  h2 = h2  s1 = s1  s2 = s2  s3 = s3  k1 = k1  k2 = k2  k3 = k3
    secretA = secretA  secretB = secretB  w1 = w1  w2 = w2  g1 = g1  g2 = g2
    keyA = keyA  keyB = keyB  id1 = id1  idC = idC  file1 = file1
    c1 = c1  c2 = c2  c3 = c3  a1 = a1  ga = ga  gb = gb  u1 = u1  u2 = u2
    Worker = {w1, w2}  Request <- TheRequest  TokenConfig <- TheTokenConfig
    Environment <- TheEnvironment  NoHost = NoHost
    BUDGET = 1  WINDOW = 2  MAX_TIME = 2  MAX_ARRIVALS = 3
    Key = {k1, k2, k3}  Snapshot = {s1, s2, s3}  ScanId = {1, 2, 3}  HostId = {h1, h2}
    ScanOf <- TheScanOf  HostOf <- TheHostOf  AtStart = {s2, s3}  KeyOf <- TheKeyOf
    CollectedAt <- TheCollectedAt
    Host = {g1, g2}  Address <- TheAddress  Port <- ThePort  DEFAULT = "22"  Auth <- TheAuth
    HostKey = {keyA, keyB}  Certificate = Certificate  Books <- TheBooks
    Identity = {id1, idC, file1}  Identities <- TheIdentities  Credential <- TheCredential  MAX_ATTEMPTS = 2
    Scan = {c1, c2, c3}  Addr = {a1}  AddrOf <- TheAddrOf  Candidates <- TheCandidates
    Excluded <- TheExcluded  MAX_CONCURRENT = 1  MAX_PROBES = 2  INTERVAL = 2
    Requests <- TheRequests
    Pid = {1, 2}  NoPid = NoPid  Program = {ga, gb}  NoProgram = NoProgram
    Service <- TheService  Tables <- TheTables  MAX_EVENTS = 2
    Reported = {g1, g2}  Writer = {w1, w2}  NoReport = NoReport  Torn = Torn
    Updater = {u1, u2}  Versions = {1, 2}  INSTALLED = 1  NoFile = NoFile
    OnWindows = FALSE  Failed = Failed  Rank <- TheRank
    Catalogue <- TheCatalogue  Registry <- TheRegistry  NameOrder <- TheNameOrder
    Questions <- TheQuestions
INVARIANTS
    TypeOK
    PortalIsScoped
    TrustIsPinned
    HostsAreSpared
    ScansAreTruthful
    LeftoversAreWhole
    
    DifferencesAreTold
    NamesAreEarned
    TextsAreContained
PROPERTIES
    OnlyOwnRequestsDeny
