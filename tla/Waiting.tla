-------------------------------- MODULE Waiting --------------------------------
(***************************************************************************)
(* Everything of this program that waits for a lock, a permit, a gate, a   *)
(* pipe or a timer, one component at a time: a behaviour picks one, and    *)
(* the others stay at their start. The constants are those of the          *)
(* components.                                                             *)
(***************************************************************************)
EXTENDS Naturals, Sequences, FiniteSets

CONSTANTS
    \* FsSnapshotStore
    Process, Thread, ProcOf, Puts, Reader, Mutex, Key, Snapshot, ScanId, HostId, ScanOf, HostOf,
    Nobody, NoMutex, NoFile, Torn, Failed,
    \* Fanout
    Task, Concurrency, MAX_ATTEMPTS,
    \* Prober
    ProbeScan, Addr, AddrOf, Candidates, Excluded, MAX_CONCURRENT, MAX_PROBES, INTERVAL, Requests,
    \* PowerShellCollector
    Caller, NoPayload, PIPE, STDERR, MAX_CHANGES

VARIABLES
    component,
    fs_pc, fs_req, loc, reply, registry, arc, mutex, flock, index, indexTmp, content, contentTmp,
    fs_answered, fetched, listed,
    fan_pc, permits, strategy, attempt, outcome, snapshot, job, recorded, answered, started,
    finished, results, phase, exitCode,
    issued, holders, waiters, gate, next_allowed, place, port, kind, todo, sleeping, endpoints,
    since, contacted,
    host, hanging, cached, ps_place, child, pipe, written, output, unremoved, parsed, ps_answer

FS == INSTANCE FsSnapshotStore WITH pc <- fs_pc, req <- fs_req, answered <- fs_answered
FO == INSTANCE Fanout WITH pc <- fan_pc
PR == INSTANCE Prober WITH Scan <- ProbeScan
PS == INSTANCE PowerShellCollector WITH place <- ps_place, answer <- ps_answer

ASSUME WaitingAssumption ==
    /\ FS!StoreAssumption /\ FO!FanoutAssumption /\ PR!ProberAssumption /\ PS!PowerShellAssumption

-----------------------------------------------------------------------------
fs_all == <<fs_pc, fs_req, loc, reply, registry, arc, mutex, flock, index, indexTmp, content,
            contentTmp, fs_answered, fetched, listed>>
fanout_all == <<fan_pc, permits, strategy, attempt, outcome, snapshot, job, recorded, answered,
                started, finished, results, phase, exitCode>>
prober_all == <<issued, holders, waiters, gate, next_allowed, place, port, kind, todo, sleeping,
                endpoints, since, contacted>>
ps_all == <<host, hanging, cached, ps_place, child, pipe, written, output, unremoved, parsed,
            ps_answer>>
all == <<component, fs_all, fanout_all, prober_all, ps_all>>

Names == {"store", "fanout", "prober", "powershell"}

Init == component \in Names /\ FS!Init /\ FO!Init /\ PR!Init /\ PS!Init

Next ==
    \/ component = "store" /\ FS!Next /\ UNCHANGED <<component, fanout_all, prober_all, ps_all>>
    \/ component = "fanout" /\ FO!Next /\ UNCHANGED <<component, fs_all, prober_all, ps_all>>
    \/ component = "prober" /\ PR!Next /\ UNCHANGED <<component, fs_all, fanout_all, ps_all>>
    \/ component = "powershell" /\ PS!Next
         /\ UNCHANGED <<component, fs_all, fanout_all, prober_all>>

\* Each component's own fairness (FS!FairSpec, FO!Fairness, PR!Fairness, PS!Fairness), for
\* the behaviours that are the component's.
Fairness ==
    /\ \A t \in Thread : WF_fs_all(component = "store" /\ FS!Step(t))
    /\ \A t \in Task :
        /\ WF_fanout_all(component = "fanout" /\ FO!AcquirePermit(t))
        /\ WF_fanout_all(component = "fanout" /\ FO!BudgetElapses(t))
        /\ WF_fanout_all(component = "fanout" /\ FO!ReleasePermit(t))
        /\ WF_fanout_all(component = "fanout" /\ (FO!JoinFinished(t) \/ FO!JoinPanicked(t)))
    /\ WF_fanout_all(component = "fanout" /\ FO!Return)
    /\ \A s \in ProbeScan : WF_prober_all(component = "prober" /\ PR!Step(s))
    /\ WF_prober_all(component = "prober" /\ PR!Tick)
    /\ \A c \in Caller :
        /\ WF_ps_all(component = "powershell" /\ PS!Call(c))
        /\ WF_ps_all(component = "powershell" /\ PS!Script(c))
        /\ WF_ps_all(component = "powershell" /\ c \in hanging /\ PS!Timeout(c))

Spec == Init /\ [][Next]_all /\ Fairness

-----------------------------------------------------------------------------
\* The state of every component has its type.
TypeOK == FS!TypeOK /\ FO!TypeOK /\ PR!TypeOK /\ PS!TypeOK

\* See PowerShellCollector: calls that ran the script twice agree on what a script that ended
\* well reported, and leave neither a child nor a file that could have been removed.
OnePayload == PS!PayloadsAgree /\ PS!NothingIsLeft

\* See Prober: whoever is cancelled, requests keep their distance.
RequestsAreSpaced == PR!RequestsAreSpaced

\* See Fanout: run_fanout returns whatever hangs, and the process exits once the filesystem
\* answers.
RunsEnd == component = "fanout" => FO!RunReturns /\ FO!ProcessExits

\* See FsSnapshotStore, Prober and PowerShellCollector: whoever takes the mutex or the advisory
\* lock gives it back; probing scans that nobody cancels get through their ports; and calls
\* of the collector end.
WaitsEnd ==
    /\ component = "store" => FS!LocksAreReleased
    /\ component = "prober" => PR!ScansEnd
    /\ component = "powershell" => PS!CallsReturn

=============================================================================
