SPECIFICATION Spec
SYMMETRY MutexSymmetry
CONSTANTS
    t1 = t1  t2 = t2  t3 = t3
    p1 = p1  p2 = p2
    k1 = k1  k2 = k2
    s1 = s1  s2 = s2  h1 = h1  h2 = h2
    Process <- MCProcess
    Thread <- MCThread
    ProcOf <- MCProcOf
    Puts <- WritersPuts
    Reader = {t2}
    Mutex = {m1, m2}
    Key = {k1, k2}
    Snapshot <- MCSnapshot
    ScanId = {1, 2}
    HostId = {h1, h2}
    ScanOf <- MCScanOf
    HostOf <- MCHostOf
    Nobody = Nobody
    NoMutex = NoMutex
    NoFile = NoFile
    Torn = Torn
    Failed = Failed
INVARIANTS
    TypeOK
    IndexIntact
    OneEntryPerKey
    AnswersStand
    LockedOnlyByOthers
    ReadersFindContent
    ListedCanBeFetched
PROPERTIES
    IndexOnlyGrows
    ImplementsPort
