------------------------- MODULE RemoteArtifactProofs -------------------------
(***************************************************************************)
(* What holds of every attempt on every host, for any number of both. The  *)
(* inductive invariant IInv says where the guard of a host is (HostState)  *)
(* and, path by path, what the attempt has done so far (PathState). A step *)
(* of a host changes one path, its own (OtherPath), so the proof that it   *)
(* keeps the invariant is about that path alone.                           *)
(***************************************************************************)
EXTENDS RemoteArtifact, TLAPS

\* The guard exists, armed, from the end of the push to the removal.
HostState(h) ==
    /\ pc[h] \in Awaits => attempt[h] \in 1..MAX_ATTEMPTS
    /\ pc[h] = "ready" => attempt[h] < MAX_ATTEMPTS
    /\ guard[h] = IF pc[h] \in {"hash", "collect"} THEN "armed"
                  ELSE IF pc[h] = "remove" THEN "disarmed" ELSE "none"
    /\ pc[h] = "collect" => bytes[h] = expected[h]

Untouched(p) ==
    /\ asked[p] = 0
    /\ events[p] = {}
    /\ detached[p] = "none"

\* A path whose attempt is still to come.
ToCome(p) == Untouched(p) /\ file[p] = None

\* A path whose attempt is under way, by where it is.
UnderWay(p, there, pushed) ==
    /\ there \in {"connect", "push", "write"} => Untouched(p)
    /\ there \in {"hash", "collect"} =>
         asked[p] = 0 /\ events[p] = {"pushed"} /\ detached[p] = "none" /\ file[p] = pushed
    /\ there = "remove" => asked[p] = 1 /\ events[p] = {"pushed"} /\ detached[p] = "none"

\* A path whose attempt is behind its host.
Behind(p) ==
    /\ asked[p] = IF "pushed" \in events[p] THEN 1 ELSE 0
    /\ "pushed" \in events[p] /\ file[p] # None =>
         "refused" \in events[p] \/ "interrupted" \in events[p]

PathState(p) ==
    /\ p[2] > attempt[p[1]] => ToCome(p)
    /\ p[2] = attempt[p[1]] => UnderWay(p, pc[p[1]], bytes[p[1]])
    /\ Over(p) => Behind(p)

IInv ==
    /\ TypeOK
    /\ \A h \in Host : HostState(h)
    /\ \A p \in Path : PathState(p)

-----------------------------------------------------------------------------

\* A path is a host and the number of an attempt.
LEMMA PathParts ==
    ASSUME NEW p \in Path
    PROVE  p[1] \in Host /\ p[2] \in 1..MAX_ATTEMPTS /\ p = <<p[1], p[2]>>
BY DEF Path

\* The path of the attempt a host is at.
LEMMA PathOfType ==
    ASSUME NEW h \in Host, attempt[h] \in 1..MAX_ATTEMPTS
    PROVE  PathOf(h) \in Path /\ PathOf(h)[1] = h /\ PathOf(h)[2] = attempt[h]
BY DEF PathOf, Path

\* Nothing that is recorded for path p changes.
SamePath(p) ==
    /\ file'[p] = file[p]
    /\ asked'[p] = asked[p]
    /\ events'[p] = events[p]
    /\ detached'[p] = detached[p]

\* No host but h moves.
OnlyMoves(h) ==
    /\ attempt' = attempt
    /\ \A k \in Host \ {h} : pc'[k] = pc[k] /\ bytes'[k] = bytes[k] /\ guard'[k] = guard[k]
                             /\ expected'[k] = expected[k]

\* What a step of h does not change: the state of the other hosts.
LEMMA OtherHost ==
    ASSUME NEW h \in Host, OnlyMoves(h), NEW k \in Host, k # h, HostState(k)
    PROVE  HostState(k)'
BY DEF OnlyMoves, HostState

\* ... and the state of the paths of other hosts and of other attempts.
LEMMA OtherPath ==
    ASSUME TypeOK, NEW h \in Host, OnlyMoves(h),
           NEW p \in Path, p # PathOf(h), SamePath(p), PathState(p)
    PROVE  PathState(p)'
<1>1. p[1] # h \/ p[2] # attempt[h]
  BY PathParts DEF PathOf
<1>2. p[1] \in Host /\ p[2] \in 1..MAX_ATTEMPTS /\ attempt[p[1]] \in 0..MAX_ATTEMPTS
  BY PathParts DEF TypeOK
<1>3. CASE p[1] # h
  <2>1. pc'[p[1]] = pc[p[1]] /\ bytes'[p[1]] = bytes[p[1]] /\ attempt' = attempt
    BY <1>2, <1>3 DEF OnlyMoves
  <2> QED
    BY <2>1 DEF SamePath, PathState, ToCome, UnderWay, Untouched, Behind, Over
<1>4. CASE p[1] = h /\ p[2] # attempt[h]
  <2>1. attempt'[p[1]] = attempt[p[1]] /\ p[2] # attempt[p[1]]
    BY <1>4 DEF OnlyMoves
  <2>2. p[2] > attempt[p[1]] => ToCome(p)'
    BY DEF PathState, ToCome, Untouched, SamePath
  <2>3. attempt[p[1]] > p[2] => Behind(p)'
    BY DEF PathState, Behind, SamePath, Over
  <2>4. Over(p)' => attempt[p[1]] > p[2]
    BY <2>1 DEF Over
  <2> QED
    BY <2>1, <2>2, <2>3, <2>4 DEF PathState
<1> QED
  BY <1>1, <1>3, <1>4

\* A step of h keeps the invariant when it keeps the types, the state of h
\* and the state of the path h is at, and changes nothing else.
LEMMA StepOfHost ==
    ASSUME IInv, NEW h \in Host, attempt[h] \in 1..MAX_ATTEMPTS, OnlyMoves(h), TypeOK',
           HostState(h)', NEW q \in Path, q = PathOf(h), PathState(q)',
           \A p \in Path \ {q} : SamePath(p)
    PROVE  IInv'
<1>1. ASSUME NEW k \in Host
      PROVE  HostState(k)'
  BY OtherHost DEF IInv
<1>2. ASSUME NEW p \in Path, p # q
      PROVE  PathState(p)'
  BY <1>2, OtherPath DEF IInv
<1> QED
  BY <1>1, <1>2 DEF IInv

\* No host has begun.
LEMMA InitIInv == Init => IInv
<1> SUFFICES ASSUME Init PROVE IInv
  OBVIOUS
<1> USE ArtifactAssumption DEF Init
<1>1. TypeOK
  BY DEF TypeOK, Locations
<1>2. ASSUME NEW h \in Host
      PROVE  HostState(h)
  BY DEF HostState, Awaits
<1>3. ASSUME NEW p \in Path
      PROVE  PathState(p)
  BY PathParts DEF PathState, ToCome, UnderWay, Untouched, Behind, Over
<1> QED
  BY <1>1, <1>2, <1>3 DEF IInv

\* Beginning an attempt: its path is untouched, the one before is behind.
LEMMA BeginIInv ==
    ASSUME IInv, NEW h \in Host, BeginAttempt(h)
    PROVE  IInv'
<1> USE ArtifactAssumption DEF BeginAttempt, Goto, call, history
<1>0. attempt[h] \in 0..(MAX_ATTEMPTS - 1) /\ HostState(h) /\ pc[h] = "ready"
  BY DEF IInv, TypeOK, HostState
<1>1. TypeOK'
  BY <1>0 DEF IInv, TypeOK, Locations, Awaits
<1>2. ASSUME NEW k \in Host
      PROVE  HostState(k)'
  BY <1>0 DEF IInv, TypeOK, HostState, Awaits
<1>3. ASSUME NEW p \in Path
      PROVE  PathState(p)'
  <2>0. /\ p[1] \in Host /\ p[2] \in 1..MAX_ATTEMPTS /\ PathState(p)
        /\ attempt[p[1]] \in 0..MAX_ATTEMPTS
        /\ SamePath(p) /\ bytes' = bytes
    BY PathParts DEF IInv, TypeOK, SamePath
  <2>1. CASE p[1] # h
    <3>1. pc'[p[1]] = pc[p[1]] /\ attempt'[p[1]] = attempt[p[1]]
      BY <2>0, <2>1 DEF IInv, TypeOK
    <3> QED
      BY <2>0, <3>1 DEF SamePath, PathState, ToCome, UnderWay, Untouched, Behind, Over
  <2>2. CASE p[1] = h
    <3>1. attempt'[p[1]] = attempt[h] + 1 /\ pc'[p[1]] \in {"connect", "ended"}
      BY <2>2 DEF IInv, TypeOK
    <3>2. CASE p[2] > attempt[h]
      <4>1. ToCome(p)' /\ ToCome(p)
        BY <2>0, <2>2, <3>2 DEF PathState, SamePath, ToCome, Untouched
      <4> QED
        BY <4>1, <2>0, <3>1 DEF PathState, UnderWay, ToCome, Untouched, Behind
    <3>3. CASE p[2] <= attempt[h]
      <4>1. Behind(p)
        BY <1>0, <2>0, <2>2, <3>3 DEF PathState, Over
      <4> QED
        BY <4>1, <2>0, <3>1, <3>3, <1>0 DEF PathState, SamePath, Behind
    <3> QED
      BY <3>2, <3>3, <2>0, <1>0
  <2> QED
    BY <2>1, <2>2
<1> QED
  BY <1>1, <1>2, <1>3 DEF IInv

\* Connecting: nothing is on the target yet.
LEMMA ConnectIInv ==
    ASSUME IInv, NEW h \in Host, Connect(h)
    PROVE  IInv'
<1> USE ArtifactAssumption DEF Connect, Goto, Return, call, history
<1>p. PICK q \in Path : q = PathOf(h) /\ q[1] = h /\ q[2] = attempt[h]
  BY PathOfType DEF IInv, HostState, Awaits
<1>q. q = PathOf(h)
  BY <1>p
<1>0. /\ attempt[h] \in 1..MAX_ATTEMPTS /\ q \in Path /\ q[1] = h /\ q[2] = attempt[h]
      /\ HostState(h) /\ PathState(q) /\ TypeOK
  BY <1>p DEF IInv, HostState, Awaits
<1>a. UnderWay(q, pc[h], bytes[h])
  BY <1>0 DEF PathState
<1>1. OnlyMoves(h)
  BY <1>0 DEF OnlyMoves, TypeOK
<1>2. ASSUME NEW p \in Path \ {q}
      PROVE  SamePath(p)
  BY <1>0, <1>q DEF SamePath, TypeOK
<1>3. TypeOK'
  BY <1>0, <1>a, <1>q DEF TypeOK, UnderWay, Untouched, Locations, Awaits, Verdict, Event
<1>4. HostState(h)'
  BY <1>0, <1>a, <1>q DEF TypeOK, HostState, UnderWay, Awaits
<1>5. PathState(q)'
  <2>1. attempt'[h] = q[2] /\ q[1] = h
    BY <1>0
  <2>2. UnderWay(q, pc[h], bytes[h])'
    BY <1>0, <1>a, <1>q DEF TypeOK, HostState, UnderWay, Untouched
  <2>3. pc'[h] \in {"ready", "ended"} => Behind(q)'
    BY <1>0, <1>a, <1>q DEF TypeOK, HostState, UnderWay, Untouched, Behind
  <2> QED
    BY <2>1, <2>2, <2>3, <1>0 DEF PathState, Over
<1> QED
  BY <1>0, <1>1, <1>2, <1>3, <1>4, <1>5, <1>q, StepOfHost

\* Creating the file: no guard yet.
LEMMA CreateIInv ==
    ASSUME IInv, NEW h \in Host, CreateArtifact(h)
    PROVE  IInv'
<1> USE ArtifactAssumption DEF CreateArtifact, Goto, call, history
<1>p. PICK q \in Path : q = PathOf(h) /\ q[1] = h /\ q[2] = attempt[h]
  BY PathOfType DEF IInv, HostState, Awaits
<1>q. q = PathOf(h)
  BY <1>p
<1>0. /\ attempt[h] \in 1..MAX_ATTEMPTS /\ q \in Path /\ q[1] = h /\ q[2] = attempt[h]
      /\ HostState(h) /\ PathState(q) /\ TypeOK
  BY <1>p DEF IInv, HostState, Awaits
<1>a. UnderWay(q, pc[h], bytes[h])
  BY <1>0 DEF PathState
<1>1. OnlyMoves(h)
  BY <1>0 DEF OnlyMoves, TypeOK
<1>2. ASSUME NEW p \in Path \ {q}
      PROVE  SamePath(p)
  BY <1>0, <1>q DEF SamePath, TypeOK
<1>3. TypeOK'
  BY <1>0, <1>a, <1>q DEF TypeOK, UnderWay, Untouched, Locations, Awaits, Verdict, Event
<1>4. HostState(h)'
  BY <1>0, <1>a, <1>q DEF TypeOK, HostState, UnderWay, Awaits
<1>5. PathState(q)'
  <2>1. attempt'[h] = q[2] /\ q[1] = h
    BY <1>0
  <2>2. UnderWay(q, pc[h], bytes[h])'
    BY <1>0, <1>a, <1>q DEF TypeOK, HostState, UnderWay, Untouched
  <2>3. pc'[h] \in {"ready", "ended"} => Behind(q)'
    BY <1>0, <1>a, <1>q DEF TypeOK, HostState, UnderWay, Untouched, Behind
  <2> QED
    BY <2>1, <2>2, <2>3, <1>0 DEF PathState, Over
<1> QED
  BY <1>0, <1>1, <1>2, <1>3, <1>4, <1>5, <1>q, StepOfHost

\* The end of the push: the guard is armed.
LEMMA PushIInv ==
    ASSUME IInv, NEW h \in Host, FinishPush(h)
    PROVE  IInv'
<1> USE ArtifactAssumption DEF FinishPush, Goto, Note, call, history
<1>p. PICK q \in Path : q = PathOf(h) /\ q[1] = h /\ q[2] = attempt[h]
  BY PathOfType DEF IInv, HostState, Awaits
<1>q. q = PathOf(h)
  BY <1>p
<1>0. /\ attempt[h] \in 1..MAX_ATTEMPTS /\ q \in Path /\ q[1] = h /\ q[2] = attempt[h]
      /\ HostState(h) /\ PathState(q) /\ TypeOK
  BY <1>p DEF IInv, HostState, Awaits
<1>a. UnderWay(q, pc[h], bytes[h])
  BY <1>0 DEF PathState
<1>1. OnlyMoves(h)
  BY <1>0 DEF OnlyMoves, TypeOK
<1>2. ASSUME NEW p \in Path \ {q}
      PROVE  SamePath(p)
  BY <1>0, <1>q DEF SamePath, TypeOK
<1>3. TypeOK'
  BY <1>0, <1>a, <1>q DEF TypeOK, UnderWay, Untouched, Locations, Awaits, Verdict, Event
<1>4. HostState(h)'
  BY <1>0, <1>a, <1>q DEF TypeOK, HostState, UnderWay, Awaits
<1>5. PathState(q)'
  <2>1. attempt'[h] = q[2] /\ q[1] = h
    BY <1>0
  <2>2. UnderWay(q, pc[h], bytes[h])'
    BY <1>0, <1>a, <1>q DEF TypeOK, HostState, UnderWay, Untouched
  <2>3. pc'[h] \in {"ready", "ended"} => Behind(q)'
    BY <1>0, <1>a, <1>q DEF TypeOK, HostState, UnderWay, Untouched, Behind
  <2> QED
    BY <2>1, <2>2, <2>3, <1>0 DEF PathState, Over
<1> QED
  BY <1>0, <1>1, <1>2, <1>3, <1>4, <1>5, <1>q, StepOfHost

\* A failed push: no guard, and nothing that Behind asks for.
LEMMA PushFailsIInv ==
    ASSUME IInv, NEW h \in Host, PushFails(h)
    PROVE  IInv'
<1> USE ArtifactAssumption DEF PushFails, Goto, Return, call, history
<1>p. PICK q \in Path : q = PathOf(h) /\ q[1] = h /\ q[2] = attempt[h]
  BY PathOfType DEF IInv, HostState, Awaits
<1>q. q = PathOf(h)
  BY <1>p
<1>0. /\ attempt[h] \in 1..MAX_ATTEMPTS /\ q \in Path /\ q[1] = h /\ q[2] = attempt[h]
      /\ HostState(h) /\ PathState(q) /\ TypeOK
  BY <1>p DEF IInv, HostState, Awaits
<1>a. UnderWay(q, pc[h], bytes[h])
  BY <1>0 DEF PathState
<1>1. OnlyMoves(h)
  BY <1>0 DEF OnlyMoves, TypeOK
<1>2. ASSUME NEW p \in Path \ {q}
      PROVE  SamePath(p)
  BY <1>0, <1>q DEF SamePath, TypeOK
<1>3. TypeOK'
  BY <1>0, <1>a, <1>q DEF TypeOK, UnderWay, Untouched, Locations, Awaits, Verdict, Event
<1>4. HostState(h)'
  BY <1>0, <1>a, <1>q DEF TypeOK, HostState, UnderWay, Awaits
<1>5. PathState(q)'
  <2>1. attempt'[h] = q[2] /\ q[1] = h
    BY <1>0
  <2>2. UnderWay(q, pc[h], bytes[h])'
    BY <1>0, <1>a, <1>q DEF TypeOK, HostState, UnderWay, Untouched
  <2>3. pc'[h] \in {"ready", "ended"} => Behind(q)'
    BY <1>0, <1>a, <1>q DEF TypeOK, HostState, UnderWay, Untouched, Behind
  <2> QED
    BY <2>1, <2>2, <2>3, <1>0 DEF PathState, Over
<1> QED
  BY <1>0, <1>1, <1>2, <1>3, <1>4, <1>5, <1>q, StepOfHost

\* The check of the hash: what runs is what was hashed.
LEMMA SelfHashIInv ==
    ASSUME IInv, NEW h \in Host, SelfHash(h)
    PROVE  IInv'
<1> USE ArtifactAssumption DEF SelfHash, Goto, RemoveNow, call, history
<1>p. PICK q \in Path : q = PathOf(h) /\ q[1] = h /\ q[2] = attempt[h]
  BY PathOfType DEF IInv, HostState, Awaits
<1>q. q = PathOf(h)
  BY <1>p
<1>0. /\ attempt[h] \in 1..MAX_ATTEMPTS /\ q \in Path /\ q[1] = h /\ q[2] = attempt[h]
      /\ HostState(h) /\ PathState(q) /\ TypeOK
  BY <1>p DEF IInv, HostState, Awaits
<1>a. UnderWay(q, pc[h], bytes[h])
  BY <1>0 DEF PathState
<1>1. OnlyMoves(h)
  BY <1>0 DEF OnlyMoves, TypeOK
<1>2. ASSUME NEW p \in Path \ {q}
      PROVE  SamePath(p)
  BY <1>0, <1>q DEF SamePath, TypeOK
<1>3. TypeOK'
  BY <1>0, <1>a, <1>q DEF TypeOK, UnderWay, Untouched, Locations, Awaits, Verdict, Event
<1>4. HostState(h)'
  BY <1>0, <1>a, <1>q DEF TypeOK, HostState, UnderWay, Awaits
<1>5. PathState(q)'
  <2>1. attempt'[h] = q[2] /\ q[1] = h
    BY <1>0
  <2>2. UnderWay(q, pc[h], bytes[h])'
    BY <1>0, <1>a, <1>q DEF TypeOK, HostState, UnderWay, Untouched
  <2>3. pc'[h] \in {"ready", "ended"} => Behind(q)'
    BY <1>0, <1>a, <1>q DEF TypeOK, HostState, UnderWay, Untouched, Behind
  <2> QED
    BY <2>1, <2>2, <2>3, <1>0 DEF PathState, Over
<1> QED
  BY <1>0, <1>1, <1>2, <1>3, <1>4, <1>5, <1>q, StepOfHost

\* The scan: the removal is asked for.
LEMMA CollectIInv ==
    ASSUME IInv, NEW h \in Host, Collect(h)
    PROVE  IInv'
<1> USE ArtifactAssumption DEF Collect, Goto, RemoveNow, call, history
<1>p. PICK q \in Path : q = PathOf(h) /\ q[1] = h /\ q[2] = attempt[h]
  BY PathOfType DEF IInv, HostState, Awaits
<1>q. q = PathOf(h)
  BY <1>p
<1>0. /\ attempt[h] \in 1..MAX_ATTEMPTS /\ q \in Path /\ q[1] = h /\ q[2] = attempt[h]
      /\ HostState(h) /\ PathState(q) /\ TypeOK
  BY <1>p DEF IInv, HostState, Awaits
<1>a. UnderWay(q, pc[h], bytes[h])
  BY <1>0 DEF PathState
<1>1. OnlyMoves(h)
  BY <1>0 DEF OnlyMoves, TypeOK
<1>2. ASSUME NEW p \in Path \ {q}
      PROVE  SamePath(p)
  BY <1>0, <1>q DEF SamePath, TypeOK
<1>3. TypeOK'
  BY <1>0, <1>a, <1>q DEF TypeOK, UnderWay, Untouched, Locations, Awaits, Verdict, Event
<1>4. HostState(h)'
  BY <1>0, <1>a, <1>q DEF TypeOK, HostState, UnderWay, Awaits
<1>5. PathState(q)'
  <2>1. attempt'[h] = q[2] /\ q[1] = h
    BY <1>0
  <2>2. UnderWay(q, pc[h], bytes[h])'
    BY <1>0, <1>a, <1>q DEF TypeOK, HostState, UnderWay, Untouched
  <2>3. pc'[h] \in {"ready", "ended"} => Behind(q)'
    BY <1>0, <1>a, <1>q DEF TypeOK, HostState, UnderWay, Untouched, Behind
  <2> QED
    BY <2>1, <2>2, <2>3, <1>0 DEF PathState, Over
<1> QED
  BY <1>0, <1>1, <1>2, <1>3, <1>4, <1>5, <1>q, StepOfHost

\* A failed command: the removal is asked for.
LEMMA ExecFailsIInv ==
    ASSUME IInv, NEW h \in Host, ExecFails(h)
    PROVE  IInv'
<1> USE ArtifactAssumption DEF ExecFails, Goto, RemoveNow, call, history
<1>p. PICK q \in Path : q = PathOf(h) /\ q[1] = h /\ q[2] = attempt[h]
  BY PathOfType DEF IInv, HostState, Awaits
<1>q. q = PathOf(h)
  BY <1>p
<1>0. /\ attempt[h] \in 1..MAX_ATTEMPTS /\ q \in Path /\ q[1] = h /\ q[2] = attempt[h]
      /\ HostState(h) /\ PathState(q) /\ TypeOK
  BY <1>p DEF IInv, HostState, Awaits
<1>a. UnderWay(q, pc[h], bytes[h])
  BY <1>0 DEF PathState
<1>1. OnlyMoves(h)
  BY <1>0 DEF OnlyMoves, TypeOK
<1>2. ASSUME NEW p \in Path \ {q}
      PROVE  SamePath(p)
  BY <1>0, <1>q DEF SamePath, TypeOK
<1>3. TypeOK'
  BY <1>0, <1>a, <1>q DEF TypeOK, UnderWay, Untouched, Locations, Awaits, Verdict, Event
<1>4. HostState(h)'
  BY <1>0, <1>a, <1>q DEF TypeOK, HostState, UnderWay, Awaits
<1>5. PathState(q)'
  <2>1. attempt'[h] = q[2] /\ q[1] = h
    BY <1>0
  <2>2. UnderWay(q, pc[h], bytes[h])'
    BY <1>0, <1>a, <1>q DEF TypeOK, HostState, UnderWay, Untouched
  <2>3. pc'[h] \in {"ready", "ended"} => Behind(q)'
    BY <1>0, <1>a, <1>q DEF TypeOK, HostState, UnderWay, Untouched, Behind
  <2> QED
    BY <2>1, <2>2, <2>3, <1>0 DEF PathState, Over
<1> QED
  BY <1>0, <1>1, <1>2, <1>3, <1>4, <1>5, <1>q, StepOfHost

\* The end of the removal: the file is gone, or the target refused.
LEMMA RemoveIInv ==
    ASSUME IInv, NEW h \in Host, FinishRemove(h)
    PROVE  IInv'
<1> USE ArtifactAssumption DEF FinishRemove, Goto, Return, Note, DropGuard, call, history
<1>p. PICK q \in Path : q = PathOf(h) /\ q[1] = h /\ q[2] = attempt[h]
  BY PathOfType DEF IInv, HostState, Awaits
<1>q. q = PathOf(h)
  BY <1>p
<1>0. /\ attempt[h] \in 1..MAX_ATTEMPTS /\ q \in Path /\ q[1] = h /\ q[2] = attempt[h]
      /\ HostState(h) /\ PathState(q) /\ TypeOK
  BY <1>p DEF IInv, HostState, Awaits
<1>a. UnderWay(q, pc[h], bytes[h])
  BY <1>0 DEF PathState
<1>1. OnlyMoves(h)
  BY <1>0 DEF OnlyMoves, TypeOK
<1>2. ASSUME NEW p \in Path \ {q}
      PROVE  SamePath(p)
  BY <1>0, <1>q DEF SamePath, TypeOK
<1>3. TypeOK'
  BY <1>0, <1>a, <1>q DEF TypeOK, UnderWay, Untouched, Locations, Awaits, Verdict, Event
<1>4. HostState(h)'
  BY <1>0, <1>a, <1>q DEF TypeOK, HostState, UnderWay, Awaits
<1>5. PathState(q)'
  <2>1. attempt'[h] = q[2] /\ q[1] = h
    BY <1>0
  <2>2. UnderWay(q, pc[h], bytes[h])'
    BY <1>0, <1>a, <1>q DEF TypeOK, HostState, UnderWay, Untouched
  <2>3. pc'[h] \in {"ready", "ended"} => Behind(q)'
    BY <1>0, <1>a, <1>q DEF TypeOK, HostState, UnderWay, Untouched, Behind
  <2> QED
    BY <2>1, <2>2, <2>3, <1>0 DEF PathState, Over
<1> QED
  BY <1>0, <1>1, <1>2, <1>3, <1>4, <1>5, <1>q, StepOfHost

\* An interruption: an armed guard asks for the removal, and only it.
LEMMA InterruptIInv ==
    ASSUME IInv, NEW h \in Host, Interrupt(h)
    PROVE  IInv'
<1> USE ArtifactAssumption DEF Interrupt, Goto, Note, DropGuard, call, history
<1>p. PICK q \in Path : q = PathOf(h) /\ q[1] = h /\ q[2] = attempt[h]
  BY PathOfType DEF IInv, HostState, Awaits
<1>q. q = PathOf(h)
  BY <1>p
<1>0. /\ attempt[h] \in 1..MAX_ATTEMPTS /\ q \in Path /\ q[1] = h /\ q[2] = attempt[h]
      /\ HostState(h) /\ PathState(q) /\ TypeOK
  BY <1>p DEF IInv, HostState, Awaits
<1>a. UnderWay(q, pc[h], bytes[h])
  BY <1>0 DEF PathState
<1>1. OnlyMoves(h)
  BY <1>0 DEF OnlyMoves, TypeOK
<1>2. ASSUME NEW p \in Path \ {q}
      PROVE  SamePath(p)
  BY <1>0, <1>q DEF SamePath, TypeOK
<1>3. TypeOK'
  BY <1>0, <1>a, <1>q DEF TypeOK, UnderWay, Untouched, Locations, Awaits, Verdict, Event
<1>4. HostState(h)'
  BY <1>0, <1>a, <1>q DEF TypeOK, HostState, UnderWay, Awaits
<1>5. PathState(q)'
  <2>1. attempt'[h] = q[2] /\ q[1] = h
    BY <1>0
  <2>2. UnderWay(q, pc[h], bytes[h])'
    BY <1>0, <1>a, <1>q DEF TypeOK, HostState, UnderWay, Untouched
  <2>3. pc'[h] \in {"ready", "ended"} => Behind(q)'
    <3>1. events'[q] = events[q] \union {"interrupted"}
      BY <1>0, <1>q DEF TypeOK
    <3>2. CASE pc[h] \in {"connect", "push", "write"}
      <4>1. asked'[q] = 0 /\ events[q] = {}
        BY <3>2, <1>0, <1>a, <1>q DEF TypeOK, HostState, UnderWay, Untouched
      <4> QED
        BY <3>1, <4>1 DEF Behind
    <3>3. CASE pc[h] \in {"hash", "collect"}
      <4>1. asked'[q] = 1 /\ events[q] = {"pushed"}
        BY <3>3, <1>0, <1>a, <1>q DEF TypeOK, HostState, UnderWay
      <4> QED
        BY <3>1, <4>1 DEF Behind
    <3>4. CASE pc[h] = "remove"
      <4>1. asked'[q] = 1 /\ events[q] = {"pushed"}
        BY <3>4, <1>0, <1>a, <1>q DEF TypeOK, HostState, UnderWay
      <4> QED
        BY <3>1, <4>1 DEF Behind
    <3> QED
      BY <3>2, <3>3, <3>4 DEF Awaits
  <2> QED
    BY <2>1, <2>2, <2>3, <1>0 DEF PathState, Over
<1> QED
  BY <1>0, <1>1, <1>2, <1>3, <1>4, <1>5, <1>q, StepOfHost

\* An interruption between attempts leaves every path as it is.
LEMMA BackoffIInv ==
    ASSUME IInv, NEW h \in Host, InterruptBackoff(h)
    PROVE  IInv'
<1> USE ArtifactAssumption DEF InterruptBackoff, Goto, call, history
<1>1. TypeOK'
  BY DEF IInv, TypeOK, Locations
<1>2. ASSUME NEW k \in Host
      PROVE  HostState(k)'
  BY DEF IInv, TypeOK, HostState, Awaits
<1>3. ASSUME NEW p \in Path
      PROVE  PathState(p)'
  <2>1. p[1] \in Host /\ PathState(p) /\ pc \in [Host -> Locations]
    BY PathParts DEF IInv, TypeOK
  <2>2. CASE p[1] # h
    <3>1. pc'[p[1]] = pc[p[1]]
      BY <2>1, <2>2
    <3> QED
      BY <2>1, <3>1 DEF PathState, ToCome, UnderWay, Untouched, Behind, Over
  <2>3. CASE p[1] = h
    <3>1. pc[p[1]] = "ready" /\ pc'[p[1]] = "ended"
      BY <2>1, <2>3
    <3> QED
      BY <2>1, <3>1 DEF PathState, ToCome, UnderWay, Untouched, Behind, Over
  <2> QED
    BY <2>2, <2>3
<1> QED
  BY <1>1, <1>2, <1>3 DEF IInv

\* A detached removal is of a path that is behind, and leaves it so.
LEMMA DetachedIInv ==
    ASSUME IInv, NEW q \in Path, RemoveDetached(q)
    PROVE  IInv'
<1> USE ArtifactAssumption DEF RemoveDetached, call, history
<1>1. TypeOK'
  BY DEF IInv, TypeOK, Event
<1>2. ASSUME NEW k \in Host
      PROVE  HostState(k)'
  BY DEF IInv, HostState
<1>3. ASSUME NEW p \in Path
      PROVE  PathState(p)'
  <2>1. p[1] \in Host /\ p[2] \in 1..MAX_ATTEMPTS /\ PathState(p) /\ TypeOK
        /\ attempt[p[1]] \in 0..MAX_ATTEMPTS /\ pc[p[1]] \in Locations
    BY PathParts DEF IInv, TypeOK
  <2>2. CASE p # q
    <3>1. SamePath(p)
      BY <2>1, <2>2 DEF SamePath, TypeOK
    <3> QED
      BY <2>1, <3>1 DEF SamePath, PathState, ToCome, UnderWay, Untouched, Behind, Over
  <2>3. CASE p = q
    <3>1. Over(p) /\ Behind(p) /\ ~(p[2] > attempt[p[1]])
      BY <2>1, <2>3 DEF PathState, Over, ToCome, UnderWay, Untouched, Locations, Awaits
    <3>2. Behind(p)'
      BY <2>1, <2>3, <3>1 DEF Behind, TypeOK
    <3> QED
      BY <3>1, <3>2 DEF PathState, UnderWay, Over, Awaits
  <2> QED
    BY <2>2, <2>3
<1> QED
  BY <1>1, <1>2, <1>3 DEF IInv

\* The end of the runtime drops spawned removals, all of paths that are behind.
LEMMA ShutdownIInv ==
    ASSUME IInv, Shutdown
    PROVE  IInv'
<1> USE ArtifactAssumption DEF Shutdown, call, history
<1>1. TypeOK'
  BY DEF IInv, TypeOK
<1>2. ASSUME NEW k \in Host
      PROVE  HostState(k)'
  BY DEF IInv, HostState
<1>3. ASSUME NEW p \in Path
      PROVE  PathState(p)'
  <2>1. PathState(p) /\ pc[p[1]] = "ended" /\ detached[p] \in {"none", "spawned", "ended", "dropped"}
    BY PathParts DEF IInv, TypeOK
  <2>2. detached'[p] = IF detached[p] = "spawned" THEN "dropped" ELSE detached[p]
    OBVIOUS
  <2> QED
    BY <2>1, <2>2 DEF PathState, ToCome, UnderWay, Untouched, Behind, Over
<1> QED
  BY <1>1, <1>2, <1>3 DEF IInv

\* Every step keeps the invariant.
LEMMA NextIInv == IInv /\ [Next]_vars => IInv'
<1> SUFFICES ASSUME IInv, [Next]_vars PROVE IInv'
  OBVIOUS
<1>1. ASSUME Update
      PROVE  IInv'
  BY <1>1 DEF Update, IInv, TypeOK, HostState, PathState, ToCome, UnderWay, Untouched, Behind,
              Over, call, history
<1>2. ASSUME UNCHANGED vars
      PROVE  IInv'
  BY <1>2 DEF vars, IInv, TypeOK, HostState, PathState, ToCome, UnderWay, Untouched, Behind,
              Over, call, history
<1> QED
  BY <1>1, <1>2, BeginIInv, ConnectIInv, CreateIInv, PushIInv, PushFailsIInv, SelfHashIInv,
     CollectIInv, ExecFailsIInv, RemoveIInv, InterruptIInv, BackoffIInv, DetachedIInv,
     ShutdownIInv DEF Next, Terminated

\* IInv is an invariant.
LEMMA Invariance == Spec => []IInv
<1> QED
  BY InitIInv, NextIInv, PTL DEF Spec

-----------------------------------------------------------------------------

\* Every variable keeps its type: no host makes a MAX_ATTEMPTS + 1st attempt.
THEOREM TypeCorrect == Spec => []TypeOK
<1>1. IInv => TypeOK
  BY DEF IInv
<1> QED
  BY <1>1, Invariance, PTL

\* The collector that runs on a target is the executable that was hashed.
THEOREM CollectorIsVerified == Spec => []RunsWhatWasHashed
<1>1. IInv => RunsWhatWasHashed
  <2> SUFFICES ASSUME IInv, NEW h \in Host, pc[h] = "collect"
               PROVE  file[PathOf(h)] = expected[h]
    BY DEF RunsWhatWasHashed
  <2>1. attempt[h] \in 1..MAX_ATTEMPTS /\ bytes[h] = expected[h]
    BY DEF IInv, HostState, Awaits
  <2> QED
    BY <2>1, PathOfType DEF IInv, PathState, UnderWay
<1> QED
  BY <1>1, Invariance, PTL

\* The removal of an artifact is asked for exactly once.
THEOREM OneRemovalPerArtifact == Spec => []RemovalAskedOnce
<1>1. IInv => RemovalAskedOnce
  <2> SUFFICES ASSUME IInv, NEW p \in Path
               PROVE  /\ asked[p] <= 1
                      /\ Over(p) => (asked[p] = 1 <=> "pushed" \in events[p])
    BY DEF RemovalAskedOnce
  <2>1. /\ p[1] \in Host /\ p[2] \in 1..MAX_ATTEMPTS /\ PathState(p)
        /\ attempt[p[1]] \in 0..MAX_ATTEMPTS /\ pc[p[1]] \in Locations
    BY PathParts DEF IInv, TypeOK
  <2>2. CASE Over(p)
    BY <2>1, <2>2 DEF PathState, Behind
  <2>3. CASE ~Over(p)
    BY <2>1, <2>3 DEF PathState, Over, ToCome, UnderWay, Untouched, Locations, Awaits
  <2> QED
    BY <2>2, <2>3
<1> QED
  BY <1>1, Invariance, PTL

\* An attempt that returns has taken its artifact away, or was refused.
THEOREM ReturnCleansUp == Spec => []ReturnLeavesNothing
<1>1. IInv => ReturnLeavesNothing
  BY DEF IInv, ReturnLeavesNothing, PathState, Behind
<1> QED
  BY <1>1, Invariance, PTL

=============================================================================
