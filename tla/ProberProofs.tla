----------------------------- MODULE ProberProofs -----------------------------
(***************************************************************************)
(* Proofs about Prober, for any scans, addresses, candidates, exclusions,   *)
(* limits and interval.                                                    *)
(*                                                                         *)
(* The inductive invariant IInv says where a scan may be with which target *)
(* (TargetInv), that the permits of an address are held by exactly the     *)
(* scans that are past the semaphore (PermitInv), that each of those and of *)
(* the ones that queue for a permit was counted (BudgetInv), and that who  *)
(* sleeps owns the gate and sleeps at least until its stamp (GateInv),     *)
(* which is never due within the interval (PaceInv).                       *)
(***************************************************************************)
EXTENDS Prober, FiniteSetTheorems, TLAPS

\* The places of a scan that has a candidate, of a probe that was counted, and of
\* one that has its permit.
Permitted == {"throttle", "gate", "sleep", "request"}
Counted   == {"permit"} \union Permitted
Targeting == {"connect", "reserve"} \union Counted

Probing(places, k, a) == {s \in Scan : place[s] \in places /\ kind[s] = k /\ AddrOf[s] = a}

\* The shape of the data.
BudgetsInv ==
    /\ issued \in [Kinds -> [Addr -> 0 .. MAX_PROBES]]
    /\ holders \in [Kinds -> [Addr -> SUBSET Scan]]
    /\ waiters \in [Kinds -> [Addr -> Seq(Scan)]]

PacingInv ==
    /\ gate \in [Kinds -> Seq(Scan)]
    /\ next_allowed \in [Kinds -> 0 .. INTERVAL]
    /\ since \in [Kinds -> 0 .. INTERVAL]

ScansInv ==
    /\ place \in [Scan -> Places]
    /\ port \in [Scan -> 0 .. Len(Candidates)]
    /\ kind \in [Scan -> Kinds]
    /\ sleeping \in [Scan -> Nat]

\* A scan that has a candidate has one that is not excluded, so nothing excluded is reached.
TargetInv ==
    /\ \A s \in Scan : place[s] \in Targeting =>
         port[s] \in 1 .. Len(Candidates) /\ Target(s) \notin Excluded
    /\ contacted \intersect Excluded = {}

PermitInv ==
    \A k \in Kinds, a \in Addr :
        /\ holders[k][a] = Probing(Permitted, k, a)
        /\ Cardinality(holders[k][a]) =< MAX_CONCURRENT

BudgetInv == \A k \in Kinds, a \in Addr : Cardinality(Probing(Counted, k, a)) =< issued[k][a]

GateInv ==
    \A s \in Scan : place[s] = "sleep" =>
        OwnsGate(s) /\ sleeping[s] >= next_allowed[kind[s]]

PaceInv == \A k \in Kinds : since[k] + next_allowed[k] >= INTERVAL

IInv ==
    /\ BudgetsInv
    /\ PacingInv
    /\ ScansInv
    /\ TargetInv
    /\ PermitInv
    /\ BudgetInv
    /\ GateInv
    /\ PaceInv

\* The data has the type that the runs check.
LEMMA DataIsTyped == BudgetsInv /\ PacingInv /\ ScansInv => TypeOK
BY DEF BudgetsInv, PacingInv, ScansInv, TypeOK

-----------------------------------------------------------------------------
(* The operators *)

\* Writing one value of a table by prober and address leaves it a table.
LEMMA BudgetsTyped ==
    ASSUME BudgetsInv, NEW k \in Kinds, NEW a \in Addr
    PROVE  /\ \A n \in 0 .. MAX_PROBES : OfPair(issued, k, a, n) \in [Kinds -> [Addr -> 0 .. MAX_PROBES]]
           /\ \A h \in SUBSET Scan : OfPair(holders, k, a, h) \in [Kinds -> [Addr -> SUBSET Scan]]
           /\ \A q \in Seq(Scan) : OfPair(waiters, k, a, q) \in [Kinds -> [Addr -> Seq(Scan)]]
<1>1. \A n \in 0 .. MAX_PROBES : OfPair(issued, k, a, n) \in [Kinds -> [Addr -> 0 .. MAX_PROBES]]
  BY DEF BudgetsInv, OfPair
<1>2. \A h \in SUBSET Scan : OfPair(holders, k, a, h) \in [Kinds -> [Addr -> SUBSET Scan]]
  BY DEF BudgetsInv, OfPair
<1>3. \A q \in Seq(Scan) : OfPair(waiters, k, a, q) \in [Kinds -> [Addr -> Seq(Scan)]]
  BY DEF BudgetsInv, OfPair
<1> QED
  BY <1>1, <1>2, <1>3

\* A queue keeps its first when another one leaves.
LEMMA LeaveIs ==
    ASSUME NEW queue \in Seq(Scan), NEW s \in Scan
    PROVE  /\ Leave(queue, s) \in Seq(Scan)
           /\ (queue # <<>> /\ Head(queue) # s) =>
                Leave(queue, s) # <<>> /\ Head(Leave(queue, s)) = Head(queue)
<1>1. CASE ~ \E i \in DOMAIN queue : queue[i] = s
  BY <1>1 DEF Leave
<1>2. CASE \E i \in DOMAIN queue : queue[i] = s
  <2> DEFINE i == CHOOSE i \in DOMAIN queue : queue[i] = s
  <2>1. i \in 1 .. Len(queue) /\ queue[i] = s
    BY <1>2
  <2>2. Leave(queue, s) = SubSeq(queue, 1, i - 1) \o SubSeq(queue, i + 1, Len(queue))
    BY <1>2 DEF Leave, RemoveAt
  <2> HIDE DEF i
  <2>3. SubSeq(queue, 1, i - 1) \in Seq(Scan) /\ SubSeq(queue, i + 1, Len(queue)) \in Seq(Scan)
    BY <2>1
  <2>4. Leave(queue, s) \in Seq(Scan)
    BY <2>2, <2>3
  <2>5. ASSUME queue # <<>>, Head(queue) # s
        PROVE  Leave(queue, s) # <<>> /\ Head(Leave(queue, s)) = Head(queue)
    <3>1. i >= 2
      BY <2>1, <2>5
    <3>2. Len(SubSeq(queue, 1, i - 1)) >= 1 /\ SubSeq(queue, 1, i - 1)[1] = queue[1]
      BY <2>1, <3>1
    <3>3. Len(Leave(queue, s)) >= 1 /\ Leave(queue, s)[1] = queue[1]
      BY <2>2, <2>3, <3>2
    <3> QED
      BY <3>3, <2>4, <2>5
  <2> QED
    BY <2>4, <2>5
<1> QED
  BY <1>1, <1>2

\* Scans are finitely many, so those in some places can be counted.
LEMMA ProbingFinite ==
    ASSUME ProberAssumption, NEW places, NEW k, NEW a
    PROVE  /\ IsFiniteSet(Probing(places, k, a))
           /\ Cardinality(Probing(places, k, a)) \in Nat
<1>1. Probing(places, k, a) \subseteq Scan
  BY DEF Probing
<1> QED
  BY <1>1, ProberAssumption, FS_Subset, FS_CardinalityType DEF ProberAssumption

-----------------------------------------------------------------------------
(* What keeps the parts of the invariant *)

\* A step after which no more scans have a counted probe.
LEMMA BudgetKept ==
    ASSUME ProberAssumption, BudgetsInv, BudgetInv, UNCHANGED issued,
           \A t \in Scan : place'[t] \in Counted => place[t] \in Counted /\ kind'[t] = kind[t]
    PROVE  BudgetInv'
<1> SUFFICES ASSUME NEW k \in Kinds, NEW a \in Addr
             PROVE  Cardinality(Probing(Counted, k, a))' =< issued[k][a]
  BY DEF BudgetInv
<1>1. Probing(Counted, k, a)' \subseteq Probing(Counted, k, a)
  BY DEF Probing
<1>2. Cardinality(Probing(Counted, k, a)') =< Cardinality(Probing(Counted, k, a))
  BY <1>1, ProbingFinite, FS_Subset
<1>3. Cardinality(Probing(Counted, k, a)') \in Nat
  BY <1>1, ProbingFinite, FS_Subset, FS_CardinalityType
<1>4. issued[k][a] \in Nat
  BY DEF BudgetsInv, ProberAssumption
<1> QED
  BY <1>2, <1>3, <1>4, ProbingFinite DEF BudgetInv

\* A step after which the same scans are past the semaphore.
LEMMA PermitKept ==
    ASSUME PermitInv, UNCHANGED holders,
           \A t \in Scan :
               /\ place'[t] \in Permitted <=> place[t] \in Permitted
               /\ place[t] \in Permitted => kind'[t] = kind[t]
    PROVE  PermitInv'
<1>1. ASSUME NEW k \in Kinds, NEW a \in Addr
      PROVE  Probing(Permitted, k, a)' = Probing(Permitted, k, a)
  BY DEF Probing
<1> QED
  BY <1>1 DEF PermitInv

\* A scan that had a permit or none gives it back.
LEMMA PermitGiven ==
    ASSUME ProberAssumption, BudgetsInv, ScansInv, PermitInv, NEW s \in Scan, place'[s] \notin Permitted,
           holders' = OfPair(holders, kind[s], AddrOf[s], holders[kind[s]][AddrOf[s]] \ {s}),
           \A t \in Scan \ {s} : place'[t] = place[t] /\ kind'[t] = kind[t]
    PROVE  PermitInv'
<1> DEFINE k == kind[s]  a == AddrOf[s]
<1>1. k \in Kinds /\ a \in Addr
  BY DEF ScansInv, ProberAssumption
<1>2. /\ holders'[k][a] = holders[k][a] \ {s}
      /\ \A l \in Kinds, b \in Addr : l # k \/ b # a => holders'[l][b] = holders[l][b]
  BY <1>1 DEF BudgetsInv, OfPair
<1> HIDE DEF k, a
<1> SUFFICES ASSUME NEW l \in Kinds, NEW b \in Addr
             PROVE  /\ holders'[l][b] = Probing(Permitted, l, b)'
                    /\ Cardinality(holders'[l][b]) =< MAX_CONCURRENT
  BY DEF PermitInv
<1>3. Probing(Permitted, l, b)' = Probing(Permitted, l, b) \ {s}
  BY DEF Probing
<1>4. s \in Probing(Permitted, l, b) => l = k /\ b = a
  BY DEF Probing, k, a
<1>5. holders'[l][b] = holders[l][b] \ {s}
  BY <1>2, <1>4, ZenonT(60) DEF PermitInv
<1>6. Cardinality(holders[l][b] \ {s}) =< Cardinality(holders[l][b])
      /\ Cardinality(holders[l][b] \ {s}) \in Nat /\ Cardinality(holders[l][b]) \in Nat
  BY ProbingFinite, FS_Subset, FS_CardinalityType DEF PermitInv
<1>7. Cardinality(holders[l][b] \ {s}) =< MAX_CONCURRENT
  BY <1>6 DEF PermitInv, ProberAssumption
<1> QED
  BY <1>3, <1>5, <1>7 DEF PermitInv

\* A step that leaves the sleepers, their gates and the stamps alone.
LEMMA GateKept ==
    ASSUME GateInv, UNCHANGED <<gate, next_allowed>>,
           \A t \in Scan : place'[t] = "sleep" =>
             place[t] = "sleep" /\ kind'[t] = kind[t] /\ sleeping'[t] = sleeping[t]
    PROVE  GateInv'
BY DEF GateInv, OwnsGate

-----------------------------------------------------------------------------
(* The invariant *)

\* The first states satisfy the invariant: no probe runs and no gate is taken.
LEMMA InitIInv == ProberAssumption /\ Init => IInv
<1> SUFFICES ASSUME ProberAssumption, Init PROVE IInv
  OBVIOUS
<1>1. BudgetsInv /\ PacingInv /\ ScansInv
  BY DEF Init, BudgetsInv, PacingInv, ScansInv, Places, Kinds, ProberAssumption
<1>2. TargetInv
  BY DEF Init, TargetInv, Targeting, Counted, Permitted
<1>3. \A k, a : Probing(Permitted, k, a) = {} /\ Probing(Counted, k, a) = {}
  BY DEF Init, Probing, Counted, Permitted
<1>4. PermitInv
  BY <1>3, FS_EmptySet DEF Init, PermitInv, Permitted, ProberAssumption
<1>5. BudgetInv
  <2> SUFFICES ASSUME NEW k \in Kinds, NEW a \in Addr
               PROVE  Cardinality(Probing(Counted, k, a)) =< issued[k][a]
    BY DEF BudgetInv
  <2>1. issued[k][a] = 0
    BY DEF Init
  <2> QED
    BY <1>3, <2>1, FS_EmptySet
<1>6. GateInv /\ PaceInv
  BY DEF Init, GateInv, PaceInv, ProberAssumption
<1> QED
  BY <1>1, <1>2, <1>4, <1>5, <1>6 DEF IInv

-----------------------------------------------------------------------------
\* Every step of a probe, of the gate or of the clock keeps the invariant.
LEMMA NextIInv == ProberAssumption /\ IInv /\ [Next]_prober_vars => IInv'
<1> SUFFICES ASSUME ProberAssumption, IInv, [Next]_prober_vars PROVE IInv'
  OBVIOUS
<1> USE DEF Kinds, budgets, pacing, scans
<1>a. BudgetsInv /\ PacingInv /\ ScansInv /\ TargetInv /\ PermitInv /\ BudgetInv /\ GateInv /\ PaceInv
  BY DEF IInv
<1>1. ASSUME NEW s \in Scan, NextPort(s)
      PROVE  IInv'
  <2>1. BudgetsInv'
    BY <1>a, <1>1 DEF BudgetsInv, ScansInv, OfPair, ProberAssumption, NextPort
  <2>2. PacingInv'
    BY <1>a, <1>1 DEF PacingInv, ScansInv, NextPort
  <2>3. ScansInv'
    <3>1. Len(Candidates) \in Nat /\ port[s] \in 0 .. Len(Candidates)
      BY <1>a DEF ScansInv, ProberAssumption
    <3>2. port[s] # Len(Candidates) => port[s] + 1 \in 0 .. Len(Candidates)
      BY <3>1
    <3>3. port' \in [Scan -> 0 .. Len(Candidates)]
      BY <1>a, <1>1, <3>2 DEF ScansInv, NextPort
    <3>4. place' \in [Scan -> Places]
      BY <1>a, <1>1 DEF ScansInv, Places, NextPort
    <3> QED
      BY <1>a, <1>1, <3>3, <3>4 DEF ScansInv, NextPort
  <2>4. TargetInv'
    <3>1. \A t \in Scan \ {s} : place'[t] = place[t] /\ Target(t)' = Target(t) /\ port'[t] = port[t]
      BY <1>1, <1>a DEF NextPort, Target, ScansInv
    <3>2. place'[s] \in Targeting => port'[s] \in 1 .. Len(Candidates) /\ Target(s)' \notin Excluded
      <4>1. port[s] \in 0 .. Len(Candidates) /\ Len(Candidates) \in Nat
        BY <1>a DEF ScansInv, ProberAssumption
      <4>2. CASE port[s] = Len(Candidates)
        BY <1>1, <1>a, <4>2 DEF NextPort, ScansInv, Targeting, Counted, Permitted
      <4>3. CASE port[s] # Len(Candidates)
        <5>1. port'[s] = port[s] + 1
          BY <1>1, <1>a, <4>3 DEF NextPort, ScansInv
        <5>2. Target(s)' = <<AddrOf[s], Candidates[port[s] + 1]>>
          BY <5>1 DEF Target
        <5>3. place'[s] \in Targeting => Target(s)' \notin Excluded
          BY <1>1, <1>a, <4>3, <5>2 DEF NextPort, ScansInv, Targeting, Counted, Permitted
        <5> QED
          BY <4>1, <4>3, <5>1, <5>3
      <4> QED
        BY <4>2, <4>3
    <3> QED
      BY <3>1, <3>2, <1>1, <1>a DEF TargetInv, NextPort
  <2>5. PermitInv'
    BY <1>a, <1>1, PermitKept DEF Permitted, Counted, ScansInv, NextPort
  <2>6. BudgetInv'
    BY <1>a, <1>1, BudgetKept DEF Permitted, Counted, ScansInv, NextPort
  <2>7. GateInv'
    BY <1>a, <1>1, GateKept DEF ScansInv, NextPort
  <2>8. PaceInv'
    BY <1>a, <1>1 DEF PaceInv, NextPort
  <2> QED
    BY <2>1, <2>2, <2>3, <2>4, <2>5, <2>6, <2>7, <2>8 DEF IInv
<1>2. ASSUME NEW s \in Scan, TcpConnect(s)
      PROVE  IInv'
  <2>1. BudgetsInv'
    BY <1>a, <1>2 DEF BudgetsInv, ScansInv, OfPair, ProberAssumption, TcpConnect
  <2>2. PacingInv'
    BY <1>a, <1>2 DEF PacingInv, ScansInv, TcpConnect
  <2>3. ScansInv'
    BY <1>a, <1>2 DEF ScansInv, Places, TcpConnect
  <2>4. TargetInv'
    BY <1>a, <1>2 DEF TargetInv, Target, Targeting, Permitted, Counted, ScansInv, TcpConnect
  <2>5. PermitInv'
    BY <1>a, <1>2, PermitKept DEF Permitted, Counted, ScansInv, TcpConnect
  <2>6. BudgetInv'
    BY <1>a, <1>2, BudgetKept DEF Permitted, Counted, ScansInv, TcpConnect
  <2>7. GateInv'
    BY <1>a, <1>2, GateKept DEF ScansInv, TcpConnect
  <2>8. PaceInv'
    BY <1>a, <1>2 DEF PaceInv, TcpConnect
  <2> QED
    BY <2>1, <2>2, <2>3, <2>4, <2>5, <2>6, <2>7, <2>8 DEF IInv
<1>3. ASSUME NEW s \in Scan, Reserve(s)
      PROVE  IInv'
  <2>1. BudgetsInv'
    <3>1. kind[s] \in Kinds /\ AddrOf[s] \in Addr
      BY <1>a DEF ScansInv, ProberAssumption
    <3>2. CASE UNCHANGED <<issued, waiters>>
      BY <1>a, <1>3, <3>2 DEF Reserve, BudgetsInv
    <3>3. CASE /\ issued[kind[s]][AddrOf[s]] < MAX_PROBES
               /\ issued' = OfPair(issued, kind[s], AddrOf[s], issued[kind[s]][AddrOf[s]] + 1)
               /\ waiters' = OfPair(waiters, kind[s], AddrOf[s], Append(waiters[kind[s]][AddrOf[s]], s))
      <4>1. /\ issued[kind[s]][AddrOf[s]] + 1 \in 0 .. MAX_PROBES
            /\ Append(waiters[kind[s]][AddrOf[s]], s) \in Seq(Scan)
        BY <1>a, <3>1, <3>3, SMTT(30) DEF BudgetsInv, ProberAssumption
      <4> QED
        BY <1>a, <1>3, <3>1, <3>3, <4>1, BudgetsTyped DEF Reserve, BudgetsInv
    <3>4. issued[kind[s]][AddrOf[s]] >= MAX_PROBES \/ issued[kind[s]][AddrOf[s]] < MAX_PROBES
      BY <1>a, <3>1 DEF BudgetsInv, ProberAssumption
    <3> QED
      BY <1>3, <3>2, <3>3, <3>4 DEF Reserve
  <2>2. PacingInv'
    BY <1>a, <1>3 DEF PacingInv, ScansInv, Reserve
  <2>3. ScansInv'
    BY <1>a, <1>3 DEF ScansInv, Places, Reserve, EndProbe
  <2>4. TargetInv'
    BY <1>a, <1>3 DEF TargetInv, Target, Targeting, Permitted, Counted, ScansInv, Reserve,
       EndProbe
  <2>5. PermitInv'
    BY <1>a, <1>3, PermitKept DEF Permitted, Counted, ScansInv, Reserve, EndProbe
  <2>6. BudgetInv'
    <3> DEFINE k == kind[s]  a == AddrOf[s]
    <3>1. k \in Kinds /\ a \in Addr
      BY <1>a DEF ScansInv, ProberAssumption
    <3>2. CASE UNCHANGED issued /\ place'[s] \notin Counted
      <4>1. \A t \in Scan : place'[t] \in Counted => place[t] \in Counted /\ kind'[t] = kind[t]
        BY <1>3, <1>a, <3>2 DEF Reserve, EndProbe, ScansInv
      <4> QED
        BY <1>a, <3>2, <4>1, BudgetKept
    <3>3. CASE /\ issued' = OfPair(issued, k, a, issued[k][a] + 1)
               /\ place' = [place EXCEPT ![s] = "permit"] /\ kind' = kind
      <4> SUFFICES ASSUME NEW l \in Kinds, NEW b \in Addr
                   PROVE  Cardinality(Probing(Counted, l, b)') =< issued'[l][b]
        BY DEF BudgetInv
      <4>1. /\ issued'[k][a] = issued[k][a] + 1
            /\ \A m \in Kinds, c \in Addr : m # k \/ c # a => issued'[m][c] = issued[m][c]
        BY <3>1, <3>3, <1>a DEF BudgetsInv, OfPair
      <4>2. issued[l][b] \in Nat /\ issued[k][a] \in Nat
        BY <1>a, <3>1 DEF BudgetsInv, ProberAssumption
      <4>3. s \notin Probing(Counted, l, b)
        BY <1>3 DEF Probing, Reserve, Permitted, Counted
      <4>4. CASE l = k /\ b = a
        <5>1. Probing(Counted, l, b)' = Probing(Counted, l, b) \union {s}
          BY <3>3, <4>4, <1>a DEF Probing, Permitted, Counted, ScansInv
        <5>2. Cardinality(Probing(Counted, l, b)') = Cardinality(Probing(Counted, l, b)) + 1
          BY <5>1, <4>3, ProbingFinite, FS_AddElement
        <5> QED
          BY <5>2, <4>1, <4>2, <4>4, <1>a, ProbingFinite DEF BudgetInv
      <4>5. CASE ~(l = k /\ b = a)
        <5>1. Probing(Counted, l, b)' = Probing(Counted, l, b)
          BY <3>3, <4>5, <4>3, <1>a DEF Probing, Permitted, Counted, ScansInv
        <5> QED
          BY <5>1, <4>1, <4>5, <1>a DEF BudgetInv
      <4> QED
        BY <4>4, <4>5
    <3>4. CASE EndProbe(s) /\ UNCHANGED issued
      <4>1. place'[s] \notin Counted
        BY <1>a, <3>4 DEF EndProbe, ScansInv, Counted, Permitted
      <4> QED
        BY <3>2, <3>4, <4>1
    <3> QED
      BY <3>3, <3>4, <1>3 DEF Reserve
  <2>7. GateInv'
    BY <1>a, <1>3, GateKept DEF ScansInv, Reserve, EndProbe
  <2>8. PaceInv'
    BY <1>a, <1>3 DEF PaceInv, Reserve
  <2> QED
    BY <2>1, <2>2, <2>3, <2>4, <2>5, <2>6, <2>7, <2>8 DEF IInv
<1>4. ASSUME NEW s \in Scan, AcquirePermit(s)
      PROVE  IInv'
  <2>1. BudgetsInv'
    <3>1. kind[s] \in Kinds /\ AddrOf[s] \in Addr
      BY <1>a DEF ScansInv, ProberAssumption
    <3>2. /\ waiters[kind[s]][AddrOf[s]] \in Seq(Scan)
          /\ holders[kind[s]][AddrOf[s]] \union {s} \in SUBSET Scan
      BY <1>a, <3>1 DEF BudgetsInv
    <3>3. Tail(waiters[kind[s]][AddrOf[s]]) \in Seq(Scan)
      BY <1>4, <3>2 DEF AcquirePermit
    <3> QED
      BY <1>a, <1>4, <3>1, <3>2, <3>3, BudgetsTyped DEF AcquirePermit, BudgetsInv
  <2>2. PacingInv'
    BY <1>a, <1>4 DEF PacingInv, ScansInv, AcquirePermit
  <2>3. ScansInv'
    BY <1>a, <1>4 DEF ScansInv, Places, AcquirePermit
  <2>4. TargetInv'
    BY <1>a, <1>4 DEF TargetInv, Target, Targeting, Permitted, Counted, ScansInv, AcquirePermit
  <2>5. PermitInv'
    <3> DEFINE k == kind[s]  a == AddrOf[s]
    <3>1. k \in Kinds /\ a \in Addr
      BY <1>a DEF ScansInv, ProberAssumption
    <3> SUFFICES ASSUME NEW l \in Kinds, NEW b \in Addr
                 PROVE  /\ holders'[l][b] = Probing(Permitted, l, b)'
                        /\ Cardinality(holders'[l][b]) =< MAX_CONCURRENT
      BY DEF PermitInv
    <3>2. /\ holders'[k][a] = holders[k][a] \union {s}
          /\ \A m \in Kinds, c \in Addr : m # k \/ c # a => holders'[m][c] = holders[m][c]
      BY <3>1, <1>4, <1>a DEF AcquirePermit, BudgetsInv, OfPair
    <3>3. s \notin Probing(Permitted, l, b)
      BY <1>4 DEF Probing, AcquirePermit, Permitted
    <3>4. CASE l = k /\ b = a
      <4>1. Probing(Permitted, l, b)' = Probing(Permitted, l, b) \union {s}
        BY <1>4, <3>4, <1>a DEF AcquirePermit, Probing, Permitted, ScansInv
      <4>2. holders'[l][b] = Probing(Permitted, l, b)'
        BY <3>2, <3>4, <4>1, <1>a DEF PermitInv
      <4>3. Cardinality(holders'[l][b]) = Cardinality(holders[l][b]) + 1
        <5>1. Cardinality(Probing(Permitted, l, b) \union {s}) = Cardinality(Probing(Permitted, l, b)) + 1
          BY <3>3, ProbingFinite, FS_AddElement
        <5>2. holders[l][b] = Probing(Permitted, l, b)
          BY <1>a DEF PermitInv
        <5> QED
          BY <4>1, <4>2, <5>1, <5>2
      <4>4. Cardinality(holders[l][b]) < MAX_CONCURRENT /\ Cardinality(holders[l][b]) \in Nat
        BY <1>4, <1>a, <3>4, ProbingFinite DEF AcquirePermit, PermitInv
      <4> QED
        BY <4>2, <4>3, <4>4 DEF ProberAssumption
    <3>5. CASE ~(l = k /\ b = a)
      <4>1. Probing(Permitted, l, b)' = Probing(Permitted, l, b)
        BY <1>4, <3>3, <3>5, <1>a DEF AcquirePermit, Probing, Permitted, ScansInv
      <4> QED
        BY <4>1, <3>2, <3>5, <1>a DEF PermitInv
    <3> QED
      BY <3>4, <3>5
  <2>6. BudgetInv'
    BY <1>a, <1>4, BudgetKept DEF Permitted, Counted, ScansInv, AcquirePermit
  <2>7. GateInv'
    BY <1>a, <1>4, GateKept DEF ScansInv, AcquirePermit
  <2>8. PaceInv'
    BY <1>a, <1>4 DEF PaceInv, AcquirePermit
  <2> QED
    BY <2>1, <2>2, <2>3, <2>4, <2>5, <2>6, <2>7, <2>8 DEF IInv
<1>5. ASSUME NEW s \in Scan, Throttle(s)
      PROVE  IInv'
  <2>1. BudgetsInv'
    BY <1>a, <1>5 DEF BudgetsInv, ScansInv, OfPair, ProberAssumption, Throttle
  <2>2. PacingInv'
    BY <1>a, <1>5 DEF PacingInv, ScansInv, Throttle
  <2>3. ScansInv'
    BY <1>a, <1>5 DEF ScansInv, Places, Throttle
  <2>4. TargetInv'
    BY <1>a, <1>5 DEF TargetInv, Target, Targeting, Permitted, Counted, ScansInv, Throttle
  <2>5. PermitInv'
    BY <1>a, <1>5, PermitKept DEF Permitted, Counted, ScansInv, Throttle
  <2>6. BudgetInv'
    BY <1>a, <1>5, BudgetKept DEF Permitted, Counted, ScansInv, Throttle
  <2>7. GateInv'
    <3>1. \A t \in Scan : place'[t] = "sleep" => t # s /\ place[t] = "sleep"
      BY <1>5, <1>a DEF Throttle, ScansInv
    <3>2. \A q \in Seq(Scan) : q # <<>> => Append(q, s) # <<>> /\ Head(Append(q, s)) = Head(q)
      OBVIOUS
    <3>3. \A l \in Kinds : gate[l] # <<>> => gate'[l] # <<>> /\ Head(gate'[l]) = Head(gate[l])
      BY <1>5, <1>a, <3>2 DEF Throttle, PacingInv, ScansInv
    <3> QED
      BY <1>5, <1>a, <3>1, <3>3 DEF Throttle, GateInv, OwnsGate, ScansInv
  <2>8. PaceInv'
    BY <1>a, <1>5 DEF PaceInv, Throttle
  <2> QED
    BY <2>1, <2>2, <2>3, <2>4, <2>5, <2>6, <2>7, <2>8 DEF IInv
<1>6. ASSUME NEW s \in Scan, OwnGate(s)
      PROVE  IInv'
  <2>1. BudgetsInv'
    BY <1>a, <1>6 DEF BudgetsInv, ScansInv, OfPair, ProberAssumption, OwnGate
  <2>2. PacingInv'
    BY <1>a, <1>6 DEF PacingInv, ScansInv, OwnGate
  <2>3. ScansInv'
    <3>1. next_allowed[kind[s]] \in Nat
      BY <1>a DEF ScansInv, PacingInv, ProberAssumption
    <3> QED
      BY <1>a, <1>6, <3>1 DEF ScansInv, Places, OwnGate
  <2>4. TargetInv'
    BY <1>a, <1>6 DEF TargetInv, Target, Targeting, Permitted, Counted, ScansInv, OwnGate
  <2>5. PermitInv'
    BY <1>a, <1>6, PermitKept DEF Permitted, Counted, ScansInv, OwnGate
  <2>6. BudgetInv'
    BY <1>a, <1>6, BudgetKept DEF Permitted, Counted, ScansInv, OwnGate
  <2>7. GateInv'
    BY <1>6, <1>a, SMTT(30) DEF OwnGate, GateInv, OwnsGate, ScansInv, PacingInv
  <2>8. PaceInv'
    BY <1>a, <1>6 DEF PaceInv, OwnGate
  <2> QED
    BY <2>1, <2>2, <2>3, <2>4, <2>5, <2>6, <2>7, <2>8 DEF IInv
<1>7. ASSUME NEW s \in Scan, Pass(s)
      PROVE  IInv'
  <2>1. BudgetsInv'
    BY <1>a, <1>7 DEF BudgetsInv, ScansInv, OfPair, ProberAssumption, Pass
  <2>2. PacingInv'
    <3>1. kind[s] \in Kinds /\ gate[kind[s]] \in Seq(Scan) /\ gate[kind[s]] # <<>>
      BY <1>a, <1>7 DEF PacingInv, ScansInv, Pass, GateInv, OwnsGate
    <3>2. Tail(gate[kind[s]]) \in Seq(Scan) /\ 0 \in 0 .. INTERVAL /\ INTERVAL \in 0 .. INTERVAL
      BY <3>1 DEF ProberAssumption
    <3> QED
      BY <1>a, <1>7, <3>1, <3>2 DEF PacingInv, Pass
  <2>3. ScansInv'
    BY <1>a, <1>7 DEF ScansInv, Places, Pass
  <2>4. TargetInv'
    BY <1>a, <1>7 DEF TargetInv, Target, Targeting, Permitted, Counted, ScansInv, Pass
  <2>5. PermitInv'
    BY <1>a, <1>7, PermitKept DEF Permitted, Counted, ScansInv, Pass
  <2>6. BudgetInv'
    BY <1>a, <1>7, BudgetKept DEF Permitted, Counted, ScansInv, Pass
  <2>7. GateInv'
    <3> SUFFICES ASSUME NEW t \in Scan, place'[t] = "sleep"
                 PROVE  OwnsGate(t)' /\ sleeping'[t] >= next_allowed'[kind'[t]]
      BY DEF GateInv
    <3>1. t # s /\ place[t] = "sleep"
      BY <1>7, <1>a DEF Pass, ScansInv
    <3>2. kind[t] # kind[s]
      BY <1>7, <1>a, <3>1 DEF Pass, GateInv, OwnsGate
    <3> QED
      BY <1>7, <1>a, <3>1, <3>2 DEF Pass, GateInv, OwnsGate, ScansInv, PacingInv
  <2>8. PaceInv'
    BY <1>7, <1>a DEF Pass, PaceInv, PacingInv, ProberAssumption
  <2> QED
    BY <2>1, <2>2, <2>3, <2>4, <2>5, <2>6, <2>7, <2>8 DEF IInv
<1>8. ASSUME NEW s \in Scan, Answer(s)
      PROVE  IInv'
  <2>1. BudgetsInv'
    <3>1. kind[s] \in Kinds /\ AddrOf[s] \in Addr
      BY <1>a DEF ScansInv, ProberAssumption
    <3>2. holders[kind[s]][AddrOf[s]] \ {s} \in SUBSET Scan
      BY <1>a, <3>1 DEF BudgetsInv
    <3>3. CASE UNCHANGED holders
      BY <1>a, <1>8, <3>3 DEF Answer, BudgetsInv
    <3>4. CASE holders' = OfPair(holders, kind[s], AddrOf[s], holders[kind[s]][AddrOf[s]] \ {s})
      <4>1. holders' \in [Kinds -> [Addr -> SUBSET Scan]]
        BY <1>a, <3>1, <3>2, <3>4, BudgetsTyped
      <4> QED
        BY <1>a, <1>8, <4>1 DEF Answer, BudgetsInv
    <3> QED
      BY <1>8, <3>3, <3>4 DEF Answer
  <2>2. PacingInv'
    BY <1>a, <1>8 DEF PacingInv, ScansInv, Answer
  <2>3. ScansInv'
    BY <1>a, <1>8 DEF ScansInv, Places, Answer, EndProbe
  <2>4. TargetInv'
    BY <1>a, <1>8 DEF TargetInv, Target, Targeting, Permitted, Counted, ScansInv, Answer, EndProbe
  <2>5. PermitInv'
    <3>1. CASE todo[s] > 1
      BY <1>8, <1>a, <3>1, PermitKept DEF Answer, Permitted, ScansInv
    <3>2. CASE ~(todo[s] > 1)
      <4>1. place'[s] \notin Permitted
        BY <1>8, <1>a, <3>2 DEF Answer, EndProbe, Permitted, ScansInv
      <4>2. \A t \in Scan \ {s} : place'[t] = place[t] /\ kind'[t] = kind[t]
        BY <1>8, <1>a, <3>2 DEF Answer, EndProbe, ScansInv
      <4> QED
        BY <1>8, <1>a, <3>2, <4>1, <4>2, PermitGiven DEF Answer
    <3> QED
      BY <3>1, <3>2
  <2>6. BudgetInv'
    BY <1>a, <1>8, BudgetKept DEF Permitted, Counted, ScansInv, Answer, EndProbe
  <2>7. GateInv'
    BY <1>a, <1>8, GateKept DEF ScansInv, Answer, EndProbe
  <2>8. PaceInv'
    BY <1>a, <1>8 DEF PaceInv, Answer
  <2> QED
    BY <2>1, <2>2, <2>3, <2>4, <2>5, <2>6, <2>7, <2>8 DEF IInv
<1>9. ASSUME NEW s \in Scan, Cancel(s)
      PROVE  IInv'
  <2>1. BudgetsInv'
    <3>1. \A k \in Kinds, a \in Addr : Leave(waiters[k][a], s) \in Seq(Scan)
      BY <1>a, LeaveIs DEF BudgetsInv
    <3>2. kind[s] \in Kinds /\ AddrOf[s] \in Addr
      BY <1>a DEF ScansInv, ProberAssumption
    <3>3. holders[kind[s]][AddrOf[s]] \ {s} \in SUBSET Scan
      BY <1>a, <3>2 DEF BudgetsInv
    <3>4. holders' \in [Kinds -> [Addr -> SUBSET Scan]]
      BY <1>a, <1>9, <3>2, <3>3, BudgetsTyped DEF Cancel
    <3>5. waiters' \in [Kinds -> [Addr -> Seq(Scan)]]
      BY <1>a, <1>9, <3>1, <3>2, BudgetsTyped DEF Cancel
    <3> QED
      BY <1>a, <1>9, <3>4, <3>5 DEF BudgetsInv, Cancel
  <2>2. PacingInv'
    <3>1. \A k \in Kinds : Leave(gate[k], s) \in Seq(Scan)
      BY <1>a, LeaveIs DEF PacingInv
    <3> QED
      BY <1>a, <1>9, <3>1 DEF PacingInv, ScansInv, Cancel
  <2>3. ScansInv'
    BY <1>a, <1>9 DEF ScansInv, Places, Cancel
  <2>4. TargetInv'
    BY <1>a, <1>9 DEF TargetInv, Target, Targeting, Permitted, Counted, ScansInv, Cancel
  <2>5. PermitInv'
    BY <1>9, <1>a, PermitGiven DEF Cancel, Permitted, ScansInv
  <2>6. BudgetInv'
    BY <1>a, <1>9, BudgetKept DEF Permitted, Counted, ScansInv, Cancel
  <2>7. GateInv'
    <3> SUFFICES ASSUME NEW t \in Scan, place'[t] = "sleep"
                 PROVE  OwnsGate(t)' /\ sleeping'[t] >= next_allowed'[kind'[t]]
      BY DEF GateInv
    <3>1. /\ t # s /\ place[t] = "sleep" /\ kind' = kind /\ next_allowed' = next_allowed
          /\ sleeping'[t] = sleeping[t]
      BY <1>9, <1>a DEF Cancel, ScansInv
    <3>2. gate[kind[t]] # <<>> /\ Head(gate[kind[t]]) = t /\ gate[kind[t]] \in Seq(Scan)
      BY <1>a, <3>1 DEF GateInv, OwnsGate, ScansInv, PacingInv
    <3>3. gate'[kind[t]] = gate[kind[t]] \/ gate'[kind[t]] = Leave(gate[kind[t]], s)
      BY <1>9, <1>a DEF Cancel, ScansInv, PacingInv
    <3>4. gate'[kind[t]] # <<>> /\ Head(gate'[kind[t]]) = t
      BY <3>1, <3>2, <3>3, LeaveIs
    <3> QED
      BY <1>a, <3>1, <3>4 DEF GateInv, OwnsGate
  <2>8. PaceInv'
    BY <1>a, <1>9 DEF PaceInv, Cancel
  <2> QED
    BY <2>1, <2>2, <2>3, <2>4, <2>5, <2>6, <2>7, <2>8 DEF IInv
<1>10. ASSUME Tick
       PROVE  IInv'
  <2>1. /\ BudgetsInv' /\ PacingInv' /\ ScansInv'
        /\ \A k \in Kinds : next_allowed'[k] = Sooner(next_allowed[k])
        /\ \A t \in Scan : sleeping'[t] = Sooner(sleeping[t])
    <3>1. BudgetsInv'
      BY <1>a, <1>10 DEF BudgetsInv, Tick
    <3>2. \A n \in Nat : Sooner(n) \in Nat /\ (n \in 0 .. INTERVAL => Sooner(n) \in 0 .. INTERVAL)
      BY DEF Sooner, ProberAssumption
    <3>3. PacingInv'
      <4>1. \A k \in Kinds : next_allowed[k] \in Nat /\ next_allowed[k] \in 0 .. INTERVAL
                             /\ since[k] \in 0 .. INTERVAL
        BY <1>a DEF PacingInv, ProberAssumption
      <4>2. \A n \in 0 .. INTERVAL : (IF n < INTERVAL THEN n + 1 ELSE n) \in 0 .. INTERVAL
        BY DEF ProberAssumption
      <4>3. next_allowed' \in [Kinds -> 0 .. INTERVAL]
        BY <1>10, <3>2, <4>1 DEF Tick
      <4>4. since' \in [Kinds -> 0 .. INTERVAL]
        BY <1>10, <4>1, <4>2 DEF Tick
      <4> QED
        BY <1>a, <1>10, <4>3, <4>4 DEF PacingInv, Tick
    <3>4. ScansInv'
      BY <1>a, <1>10, <3>2 DEF ScansInv, Tick
    <3> QED
      BY <3>1, <3>3, <3>4, <1>10 DEF Tick
  <2>2. TargetInv'
    BY <1>a, <1>10 DEF TargetInv, Target, Tick
  <2>3. PermitInv'
    BY <1>a, <1>10, PermitKept DEF Tick
  <2>4. BudgetInv'
    BY <1>a, <1>10, BudgetKept DEF Tick
  <2>5. GateInv'
    <3>1. \A m \in Nat, n \in Nat : m >= n => Sooner(m) >= Sooner(n)
      BY DEF Sooner
    <3>2. \A t \in Scan : kind[t] \in Kinds /\ sleeping[t] \in Nat /\ next_allowed[kind[t]] \in Nat
      BY <1>a DEF PacingInv, ScansInv, ProberAssumption
    <3>3. UNCHANGED <<gate, place, kind>>
      BY <1>10 DEF Tick
    <3> QED
      BY <1>a, <2>1, <3>1, <3>2, <3>3 DEF GateInv, OwnsGate
  <2>6. PaceInv'
    BY <1>a, <1>10, <2>1, SMTT(30) DEF PaceInv, Tick, Sooner, PacingInv, ProberAssumption
  <2> QED
    BY <2>1, <2>2, <2>3, <2>4, <2>5, <2>6 DEF IInv
<1>11. ASSUME UNCHANGED prober_vars
       PROVE  IInv'
  <2>1. BudgetsInv' /\ PacingInv' /\ ScansInv' /\ TargetInv'
    BY <1>a, <1>11 DEF BudgetsInv, PacingInv, ScansInv, TargetInv, Target, prober_vars
  <2>2. PermitInv' /\ BudgetInv'
    BY <1>a, <1>11, PermitKept, BudgetKept DEF prober_vars
  <2>3. GateInv' /\ PaceInv'
    BY <1>a, <1>11 DEF GateInv, OwnsGate, PaceInv, prober_vars
  <2> QED
    BY <2>1, <2>2, <2>3 DEF IInv
<1> QED
  BY <1>1, <1>2, <1>3, <1>4, <1>5, <1>6, <1>7, <1>8, <1>9, <1>10, <1>11
  DEF Next, Step, Terminated

\* The invariant holds in every state a probe run reaches.
LEMMA Invariance == ProberAssumption => (Spec => []IInv)
<1> SUFFICES ASSUME ProberAssumption PROVE Spec => []IInv
  OBVIOUS
<1>1. Init => IInv
  BY InitIInv
<1>2. IInv /\ [Next]_prober_vars => IInv'
  BY NextIInv
<1> QED
  BY <1>1, <1>2, PTL DEF Spec

-----------------------------------------------------------------------------
(* The properties *)

\* What the tables, queues and places of the two probers and of the scans hold.
THEOREM TypeCorrect == ProberAssumption => (Spec => []TypeOK)
<1> SUFFICES ASSUME ProberAssumption PROVE Spec => []TypeOK
  OBVIOUS
<1>1. IInv => TypeOK
  BY DataIsTyped DEF IInv
<1> QED
  BY <1>1, Invariance, PTL

\* The promise of HostsAreSpared holds wherever the invariant does.
LEMMA InvSparesHosts == ProberAssumption /\ IInv => HostsAreSpared
<1> SUFFICES ASSUME ProberAssumption, IInv PROVE HostsAreSpared
  OBVIOUS
<1>1. contacted \intersect Excluded = {}
  BY DEF IInv, TargetInv
<1> SUFFICES ASSUME NEW k \in Kinds, NEW a \in Addr
             PROVE  /\ Cardinality(holders[k][a]) =< MAX_CONCURRENT
                    /\ issued[k][a] =< MAX_PROBES
                    /\ \A s \in holders[k][a] : ~Over(s) /\ kind[s] = k
                    /\ Cardinality({s \in Scan : kind[s] = k /\ AddrOf[s] = a
                           /\ place[s] \in {"throttle", "gate", "sleep", "request"}}) =< issued[k][a]
  BY <1>1 DEF HostsAreSpared
<1>2. Cardinality(holders[k][a]) =< MAX_CONCURRENT
  BY DEF IInv, PermitInv
<1>3. issued[k][a] =< MAX_PROBES /\ issued[k][a] \in Nat
  BY DEF IInv, BudgetsInv, ProberAssumption
<1>4. \A s \in holders[k][a] : ~Over(s) /\ kind[s] = k
  BY DEF IInv, PermitInv, Probing, Permitted, Over
<1>5. Cardinality(Probing(Permitted, k, a)) =< Cardinality(Probing(Counted, k, a))
  <2>1. Probing(Permitted, k, a) \subseteq Probing(Counted, k, a)
    BY DEF Probing, Counted
  <2> QED
    BY <2>1, ProbingFinite, FS_Subset
<1>6. Cardinality(Probing(Counted, k, a)) =< issued[k][a]
  BY DEF IInv, BudgetInv
<1>7. Cardinality(Probing(Permitted, k, a)) =< issued[k][a]
  BY <1>3, <1>5, <1>6, ProbingFinite
<1>8. {s \in Scan : kind[s] = k /\ AddrOf[s] = a /\ place[s] \in {"throttle", "gate", "sleep", "request"}}
        = Probing(Permitted, k, a)
  BY DEF Probing, Permitted
<1> QED
  BY <1>2, <1>3, <1>4, <1>7, <1>8

\* No address is probed above its limits, nor at all where it is excluded.
THEOREM HostsSpared == ProberAssumption => (Spec => []HostsAreSpared)
<1> SUFFICES ASSUME ProberAssumption PROVE Spec => []HostsAreSpared
  OBVIOUS
<1>1. IInv => HostsAreSpared
  BY InvSparesHosts
<1> QED
  BY <1>1, Invariance, PTL

\* The one step that lets a request through finds the interval over.
LEMMA StepSpacesRequests ==
    ASSUME ProberAssumption, IInv, [Next]_prober_vars, NEW s \in Scan,
           place[s] = "sleep", place'[s] = "request"
    PROVE  since[kind[s]] = INTERVAL
<1> USE DEF budgets, pacing, scans
<1>1. ScansInv /\ PacingInv /\ GateInv /\ PaceInv
  BY DEF IInv
<1>2. Pass(s)
  <2>1. ASSUME NEW t \in Scan, Step(t) \/ Cancel(t)
        PROVE  t = s
    BY <1>1, <2>1 DEF Step, Cancel, NextPort, TcpConnect, Reserve, EndProbe, AcquirePermit,
       Throttle,
                      OwnGate, Pass, Answer, ScansInv
  <2>2. ~Cancel(s)
    BY <1>1 DEF Cancel, ScansInv
  <2>3. Step(s) => Pass(s)
    BY <1>1 DEF Step, NextPort, TcpConnect, Reserve, AcquirePermit, Throttle, OwnGate, Pass,
       Answer
  <2>4. ~Tick /\ ~Terminated /\ ~UNCHANGED prober_vars
    BY DEF Tick, Terminated, prober_vars
  <2> QED
    BY <2>1, <2>2, <2>3, <2>4 DEF Next
<1>3. next_allowed[kind[s]] = 0
  BY <1>1, <1>2 DEF Pass, GateInv, PacingInv, ScansInv, ProberAssumption
<1> QED
  BY <1>1, <1>3 DEF PaceInv, PacingInv, ScansInv, ProberAssumption

\* Whatever scans are dropped, a prober lets no two requests through within the interval.
THEOREM RequestsSpaced == ProberAssumption => (Spec => RequestsAreSpaced)
<1> SUFFICES ASSUME ProberAssumption PROVE Spec => RequestsAreSpaced
  OBVIOUS
<1> DEFINE Spaced == \A k \in Kinds :
                       (\E s \in Scan : kind[s] = k /\ place[s] = "sleep" /\ place'[s] = "request")
                         => since[k] = INTERVAL
<1>1. IInv /\ [Next]_prober_vars => Spaced
  BY StepSpacesRequests
<1>2. [][Spaced]_prober_vars => RequestsAreSpaced
  BY DEF RequestsAreSpaced
<1> HIDE DEF Spaced
<1>3. IInv /\ [Next]_prober_vars => [Spaced]_prober_vars
  BY <1>1
<1> QED
  BY <1>2, <1>3, Invariance, PTL DEF Spec
=============================================================================
