---------------------------- MODULE RemoteArtifact ----------------------------
(***************************************************************************)
(* The collector binary that an Execute-tier scan leaves on a target: the  *)
(* attempts of SshHostScanner::scan_execute (adapters/remote_scanner) and  *)
(* push_exec_collect_remove with its RemoteArtifactGuard                   *)
(* (adapters/ssh_transport).                                               *)
(*                                                                         *)
(* Every attempt hashes this process's own executable, connects, pushes    *)
(* it to a fresh path, has it hash itself, runs it, and removes it. An     *)
(* attempt can be interrupted at every await, by the host's time budget or *)
(* by a panic; the guard's Drop then spawns a removal that nobody waits    *)
(* for, and that dies with the runtime. Another process may replace the    *)
(* local executable at any time (anne update).                             *)
(*                                                                         *)
(* The target answers honestly but may fail any request, with or without   *)
(* having carried it out. A path is the host and the number of the         *)
(* attempt: no two random paths are equal.                                 *)
(***************************************************************************)
EXTENDS Naturals

CONSTANTS
    Host,
    MAX_ATTEMPTS,   \* attempts per host, the first included
    Binary,         \* versions of the anne executable
    None,           \* no file, or no verdict yet
    Partial         \* a file that was created and is not known to be whole

ASSUME ArtifactAssumption ==
    /\ MAX_ATTEMPTS \in Nat \ {0}
    /\ {None, Partial} \intersect Binary = {}
    /\ None # Partial

VARIABLES
    exe,        \* the version at the path of the local executable
    pc,         \* where each host's scan is
    attempt,    \* the attempt each host is at
    expected,   \* expected_hash of that attempt, as the version it is of
    bytes,      \* what push has read of the local executable
    verdict,    \* what run_and_collect returned
    guard,      \* the RemoteArtifactGuard: none, armed or disarmed
    file,       \* what each remote path holds
    detached,   \* the removal that Drop spawned for each path
    runtime,    \* up, until every host has ended
    asked,      \* removals asked for, per path
    events      \* what happened to the attempt of each path (a history)

call    == <<expected, bytes, verdict>>
history == <<asked, events>>
vars    == <<exe, pc, attempt, call, guard, file, detached, runtime, history>>

Path == Host \X (1..MAX_ATTEMPTS)
PathOf(h) == <<h, attempt[h]>>

\* The awaits an attempt can be interrupted at. What lies between two of them
\* runs in one poll.
Awaits == {"connect", "push", "write", "hash", "collect", "remove"}
Locations == Awaits \union {"ready", "ended"}
Verdict == {"snapshot", "retryable", "fatal"}
Event == {"pushed", "refused", "interrupted"}

Init ==
    /\ exe \in Binary
    /\ pc = [h \in Host |-> "ready"]
    /\ attempt = [h \in Host |-> 0]
    /\ expected = [h \in Host |-> None]
    /\ bytes = [h \in Host |-> None]
    /\ verdict = [h \in Host |-> None]
    /\ guard = [h \in Host |-> "none"]
    /\ file = [p \in Path |-> None]
    /\ detached = [p \in Path |-> "none"]
    /\ runtime = "up"
    /\ asked = [p \in Path |-> 0]
    /\ events = [p \in Path |-> {}]

Goto(h, there) == pc' = [pc EXCEPT ![h] = there]

Note(h, E) == events' = [events EXCEPT ![PathOf(h)] = @ \union E]

\* Mutant: off by one in the attempt count.
ReturnOnceMore(h, v) ==
    Goto(h, IF v = "retryable" /\ attempt[h] <= MAX_ATTEMPTS THEN "ready" ELSE "ended")

\* The attempt returns v: a retryable error is tried again after a backoff
\* while there are attempts left, anything else ends the host.
Return(h, v) ==
    Goto(h, IF v = "retryable" /\ attempt[h] < MAX_ATTEMPTS THEN "ready" ELSE "ended")

\* The guard goes out of scope: unless it was disarmed, Drop spawns a removal.
DropGuard(h) ==
    /\ guard' = [guard EXCEPT ![h] = "none"]
    /\ IF guard[h] = "armed"
         THEN /\ detached' = [detached EXCEPT ![PathOf(h)] = "spawned"]
              /\ asked' = [asked EXCEPT ![PathOf(h)] = @ + 1]
         ELSE UNCHANGED <<detached, asked>>

-----------------------------------------------------------------------------
(* One attempt *)

\* Hash the local executable, or fail to; both happen before the first await.
BeginAttempt(h) ==
    /\ pc[h] = "ready"
    /\ attempt' = [attempt EXCEPT ![h] = @ + 1]
    /\ \/ expected' = [expected EXCEPT ![h] = exe] /\ Goto(h, "connect")
       \/ Goto(h, "ended") /\ UNCHANGED expected
    /\ UNCHANGED <<exe, bytes, verdict, guard, file, detached, runtime, history>>

\* The handshake, host key check and authentication end.
Connect(h) ==
    /\ pc[h] = "connect"
    /\ \/ Goto(h, "push")
       \/ \E v \in {"retryable", "fatal"} : Return(h, v)
    /\ UNCHANGED <<exe, attempt, call, guard, file, detached, runtime, history>>

\* push reads the local executable again and creates the remote file.
CreateArtifact(h) ==
    /\ pc[h] = "push"
    /\ bytes' = [bytes EXCEPT ![h] = exe]
    /\ file' = [file EXCEPT ![PathOf(h)] = Partial]
    /\ Goto(h, "write")
    /\ UNCHANGED <<exe, attempt, expected, verdict, guard, detached, runtime, history>>

\* The file is written and closed; only now is there a guard.
FinishPush(h) ==
    /\ pc[h] = "write"
    /\ file' = [file EXCEPT ![PathOf(h)] = bytes[h]]
    /\ guard' = [guard EXCEPT ![h] = "armed"]
    /\ Note(h, {"pushed"})
    /\ Goto(h, "hash")
    /\ UNCHANGED <<exe, attempt, call, detached, runtime, asked>>

\* push fails, to be retried: before the file was created or after.
PushFails(h) ==
    /\ pc[h] \in {"push", "write"}
    /\ Return(h, "retryable")
    /\ UNCHANGED <<exe, attempt, call, guard, file, detached, runtime, history>>

\* Mutant: remove_now leaves the guard armed.
RemoveStillArmed(h, v) ==
    /\ verdict' = [verdict EXCEPT ![h] = v]
    /\ asked' = [asked EXCEPT ![PathOf(h)] = @ + 1]
    /\ Goto(h, "remove")
    /\ UNCHANGED <<expected, bytes, guard>>

\* Mutant: on an error the removal is asked for and not awaited.
RemoveUnlessError(h, v) ==
    IF v = "snapshot"
    THEN /\ verdict' = [verdict EXCEPT ![h] = v]
         /\ guard' = [guard EXCEPT ![h] = "disarmed"]
         /\ asked' = [asked EXCEPT ![PathOf(h)] = @ + 1]
         /\ Goto(h, "remove")
         /\ UNCHANGED <<expected, bytes>>
    ELSE /\ guard' = [guard EXCEPT ![h] = "none"]
         /\ asked' = [asked EXCEPT ![PathOf(h)] = @ + 1]
         /\ Return(h, v)
         /\ UNCHANGED call

\* run_and_collect has returned v. remove_now disarms the guard and asks for
\* the removal before anything else can run.
RemoveNow(h, v) ==
    /\ verdict' = [verdict EXCEPT ![h] = v]
    /\ guard' = [guard EXCEPT ![h] = "disarmed"]
    /\ asked' = [asked EXCEPT ![PathOf(h)] = @ + 1]
    /\ Goto(h, "remove")
    /\ UNCHANGED <<expected, bytes>>

\* Mutant: the echoed hash is not compared.
SelfHashUnread(h) ==
    /\ pc[h] = "hash"
    /\ Goto(h, "collect")
    /\ UNCHANGED <<exe, attempt, call, guard, file, detached, runtime, history>>

\* The artifact runs with --self-hash and echoes the hash of what ran. A
\* partial file echoes no hash that was expected.
SelfHash(h) ==
    /\ pc[h] = "hash"
    /\ IF file[PathOf(h)] = expected[h]
         THEN Goto(h, "collect") /\ UNCHANGED <<call, guard, asked>>
         ELSE RemoveNow(h, "fatal")
    /\ UNCHANGED <<exe, attempt, file, detached, runtime, events>>

\* The artifact runs with scan --emit-json and the snapshot decodes.
Collect(h) ==
    /\ pc[h] = "collect"
    /\ RemoveNow(h, "snapshot")
    /\ UNCHANGED <<exe, attempt, file, detached, runtime, events>>

\* Either command fails: no exit status, too much output, JSON that does not
\* decode.
ExecFails(h) ==
    /\ pc[h] \in {"hash", "collect"}
    /\ \E v \in {"retryable", "fatal"} : RemoveNow(h, v)
    /\ UNCHANGED <<exe, attempt, file, detached, runtime, events>>

\* The removal ends, done or refused; either way the verdict is returned.
FinishRemove(h) ==
    /\ pc[h] = "remove"
    /\ \/ file' = [file EXCEPT ![PathOf(h)] = None] /\ UNCHANGED events
       \/ Note(h, {"refused"}) /\ UNCHANGED file
    /\ Return(h, verdict[h])
    /\ DropGuard(h)
    /\ UNCHANGED <<exe, attempt, call, runtime>>

\* The host's budget ends, or the task panics, at an await. A removal under
\* way may have reached the target, or not.
Interrupt(h) ==
    /\ pc[h] \in Awaits
    /\ \/ UNCHANGED file
       \/ pc[h] = "remove" /\ file' = [file EXCEPT ![PathOf(h)] = None]
    /\ DropGuard(h)
    /\ Note(h, {"interrupted"})
    /\ Goto(h, "ended")
    /\ UNCHANGED <<exe, attempt, call, runtime>>

\* The same before the first attempt or during a backoff, with no guard about.
InterruptBackoff(h) ==
    /\ pc[h] = "ready"
    /\ Goto(h, "ended")
    /\ UNCHANGED <<exe, attempt, call, guard, file, detached, runtime, history>>

-----------------------------------------------------------------------------
(* Around the attempts *)

\* A spawned removal ends, done or refused, while the runtime polls it.
RemoveDetached(p) ==
    /\ detached[p] = "spawned"
    /\ \/ file' = [file EXCEPT ![p] = None] /\ UNCHANGED events
       \/ events' = [events EXCEPT ![p] = @ \union {"refused"}] /\ UNCHANGED file
    /\ detached' = [detached EXCEPT ![p] = "ended"]
    /\ UNCHANGED <<exe, pc, attempt, call, guard, runtime, asked>>

\* The fan-out has returned and main drops the runtime, and with it every
\* spawned task that has not ended.
Shutdown ==
    /\ runtime = "up"
    /\ \A h \in Host : pc[h] = "ended"
    /\ runtime' = "down"
    /\ detached' = [p \in Path |-> IF detached[p] = "spawned" THEN "dropped" ELSE detached[p]]
    /\ UNCHANGED <<exe, pc, attempt, call, guard, file, history>>

\* Another process puts another version in the executable's place.
Update ==
    /\ runtime = "up"
    /\ \E b \in Binary \ {exe} : exe' = b
    /\ UNCHANGED <<pc, attempt, call, guard, file, detached, runtime, history>>

Terminated == runtime = "down" /\ UNCHANGED vars

Next ==
    \/ \E h \in Host :
        \/ BeginAttempt(h)
        \/ Connect(h)
        \/ CreateArtifact(h)
        \/ FinishPush(h)
        \/ PushFails(h)
        \/ SelfHash(h)
        \/ Collect(h)
        \/ ExecFails(h)
        \/ FinishRemove(h)
        \/ Interrupt(h)
        \/ InterruptBackoff(h)
    \/ \E p \in Path : RemoveDetached(p)
    \/ Shutdown
    \/ Update
    \/ Terminated

Spec == Init /\ [][Next]_vars

-----------------------------------------------------------------------------
(* What makes the use of a target correct *)

TypeOK ==
    /\ exe \in Binary
    /\ pc \in [Host -> Locations]
    /\ attempt \in [Host -> 0..MAX_ATTEMPTS]
    /\ expected \in [Host -> Binary \union {None}]
    /\ bytes \in [Host -> Binary \union {None}]
    /\ verdict \in [Host -> Verdict \union {None}]
    /\ guard \in [Host -> {"none", "armed", "disarmed"}]
    /\ file \in [Path -> Binary \union {None, Partial}]
    /\ detached \in [Path -> {"none", "spawned", "ended", "dropped"}]
    /\ runtime \in {"up", "down"}
    /\ asked \in [Path -> 0..2]
    /\ events \in [Path -> SUBSET Event]

\* The attempt of a path is behind its host.
Over(p) ==
    \/ attempt[p[1]] > p[2]
    \/ attempt[p[1]] = p[2] /\ pc[p[1]] \in {"ready", "ended"}

\* The collector that is run is the executable that was hashed before the
\* push: not one that replaced it in between, not a part of it, and not one
\* that a removal for another attempt has taken away.
RunsWhatWasHashed ==
    \A h \in Host : pc[h] = "collect" => file[PathOf(h)] = expected[h]

\* Once the push is complete, the artifact's removal is asked for exactly
\* once, by remove_now or by Drop and never by both, however the attempt ends.
RemovalAskedOnce ==
    \A p \in Path :
        /\ asked[p] <= 1
        /\ Over(p) => (asked[p] = 1 <=> "pushed" \in events[p])

\* "Cleanup for all of those is a real, verified guarantee": an attempt that
\* completed its push and was not interrupted leaves nothing on the target
\* when it returns, unless the target refused the removal.
ReturnLeavesNothing ==
    \A p \in Path :
        Over(p) /\ "pushed" \in events[p] /\ file[p] # None =>
            events[p] \intersect {"refused", "interrupted"} # {}

\* "Guaranteeing cleanup on every code path this function can structurally
\* reach" (ssh_transport/mod.rs): the same of every attempt that was not
\* interrupted, a failed push included.
CleanupOnEveryPath ==
    \A p \in Path :
        Over(p) /\ file[p] # None =>
            events[p] \intersect {"refused", "interrupted"} # {}

\* "Guarantees remote cleanup [...] on exit paths its own code can't
\* structurally reach" (RemoteArtifactGuard): an artifact that an interrupted
\* attempt with a guard leaves behind has been handed to a detached removal.
InterruptionIsCovered ==
    \A p \in Path :
        {"pushed", "interrupted"} \subseteq events[p] /\ "refused" \notin events[p]
        /\ file[p] # None => detached[p] # "none"

=============================================================================
