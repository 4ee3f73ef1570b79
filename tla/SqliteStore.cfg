SPECIFICATION FairSpec
CONSTANTS
    t1 = t1  t2 = t2  t3 = t3  c1 = c1  c2 = c2  k1 = k1  k2 = k2
    s1 = s1  s2 = s2  s3 = s3  h1 = h1  h2 = h2
    Conn <- MCConn
    Thread <- MCThread
    ConnOf <- MCConnOf
    Puts <- MCPuts
    Reader = {t2}
    Key = {k1, k2}
    Snapshot <- MCSnapshot
    ScanId = {1, 2}
    HostId = {h1, h2}
    ScanOf <- MCScanOf
    HostOf <- MCHostOf
    Nobody = Nobody
    Busy = Busy
    Failed = Failed
INVARIANTS
    TypeOK
    CheckStillHolds
PROPERTIES
    ImplementsPort
    LocksAreReleased
