SPECIFICATION MCSpec
CONSTANTS
    t1 = t1  t2 = t2  t3 = t3  p1 = p1  p2 = p2  k1 = k1  s1 = s1  d1 = d1
    c1 = c1  c2 = c2  a1 = a1  a2 = a2
    Process = {p1, p2}  Thread = {t1, t2, t3}  ProcOf <- TheProcOf  Puts <- ThePuts
    Reader = {}  Mutex = {m1, m2}  Key = {k1}  Snapshot = {s1}  ScanId = {1}  HostId = {d1}
    ScanOf <- TheScanOf  HostOf <- TheHostOf
    Nobody = Nobody  NoMutex = NoMutex  NoFile = NoFile  Torn = Torn  Failed = Failed
    Task = {h1, h2}  Concurrency = 0  MAX_ATTEMPTS = 2
    ProbeScan = {c1, c2}  Addr = {a1, a2}  AddrOf <- TheAddrOf  Candidates <- TheCandidates
    Excluded <- TheExcluded  MAX_CONCURRENT = 1  MAX_PROBES = 1  INTERVAL = 2
    Requests <- TheRequests
    Caller = {w1, w2}  NoPayload = NoPayload  PIPE = 1  STDERR = 2  MAX_CHANGES = 1
INVARIANTS
    TypeOK
    OnePayload
PROPERTIES
    RequestsAreSpaced
    RunsEnd
    WaitsEnd
\* A fan-out stops where its scanner and its store hang; what may not stop is what the
\* properties say.
CHECK_DEADLOCK FALSE
