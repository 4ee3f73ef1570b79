------------------------------- MODULE LocalScan -------------------------------
(***************************************************************************)
(* anne scan on its own host: scan_local asks one collector for sockets,   *)
(* processes, services and firewall rules, one after the other, while the  *)
(* host goes on (application/collect.rs; the CLI's scan.rs,                *)
(* collector_factory.rs and firewall_mapping.rs; the Linux, Windows and    *)
(* PowerShell collectors).                                                 *)
(*                                                                         *)
(* A process is a program that runs under a pid; a pid may be reused. What *)
(* is shown of a process by default is only its pid and its services: its  *)
(* path and its command line have to be asked for.                         *)
(***************************************************************************)
EXTENDS Naturals, Sequences, FiniteSets, SequencesExt

CONSTANTS
    Pid, NoPid,         \* NoPid: a socket whose owner is not told, or pid 0
    Program, NoProgram,
    Service,            \* per program: the services it hosts
    Tables,             \* the socket tables the host may have: sequences of [port, pid]
    MAX_EVENTS          \* processes that start or end during the scan

LocalScanAssumption ==
    /\ NoPid \notin Pid /\ NoProgram \notin Program
    /\ Tables \subseteq Seq([port : Nat, pid : Pid \union {NoPid}]) /\ <<>> \in Tables
    /\ MAX_EVENTS \in Nat

VARIABLES
    collector,      \* LocalCollectorSet: "linux", "powershell", "native" or "stub"
    request,        \* "local", "emit", "target" or "emit_target"
    flags, config,  \* the fields asked for on the command line, in [scan]
    running,        \* per pid: the program, or NoProgram
    events,
    stage,          \* where scan_local and its caller are
    sockets,        \* what listening_endpoints returned
    todo,           \* those of them still to resolve
    processes,      \* the process map: per pid a program, or NoProgram
    services,       \* the service map of the Windows collectors
    collected,      \* Vec<CollectedEndpoint>
    rules,          \* "none", "unavailable" or "some"
    outcome,        \* what the caller sees: "pending", "stored", "printed", "cut_off" or "nothing"
    exit,           \* ExitCode
    ran,            \* history: every program that ran under each pid
    opened,         \* history: per pid, the program that held the listed sockets
    failed          \* history: the sections of the script that failed

environment == <<running, events, ran>>
settings == <<collector, request, flags, config>>
scan_vars == <<settings, environment, stage, sockets, todo, processes, services, collected,
               rules, outcome, exit, opened, failed>>

\* for_this_platform: which collector there is depends on the build, and on Windows on whether
\* the helper script could be written.
Collectors == {"linux", "powershell", "native", "stub"}

Fields == {"path", "command_line"}
Nobody == [p \in Pid |-> NoProgram]

\* Mutant: the configuration overrides the command line.
RedactionConfigWins == IF config = {} THEN {} ELSE Fields

\* RedactionPolicy: a flag or a setting turns a field on.
Redaction == flags \union config

Init ==
    /\ collector \in Collectors
    /\ request \in {"local", "emit", "target", "emit_target"}
    /\ flags \in {{}, {"path"}} /\ config \in {{}, {"command_line"}}
    /\ running \in {r \in [Pid -> Program] : \A p, q \in Pid : r[p] = r[q] => p = q}
    /\ events = 0
    /\ stage = "start"
    /\ sockets = <<>> /\ todo = <<>> /\ collected = <<>>
    /\ processes = Nobody /\ services = Nobody
    /\ rules = "none" /\ outcome = "pending" /\ exit = "none"
    /\ ran = [p \in Pid |-> {running[p]}]
    /\ opened = Nobody
    /\ failed = {}

-----------------------------------------------------------------------------
\* The host goes on.
ProcessEnds(p) ==
    /\ events < MAX_EVENTS /\ stage # "done" /\ running[p] # NoProgram
    /\ running' = [running EXCEPT ![p] = NoProgram]
    /\ events' = events + 1
    /\ UNCHANGED <<settings, ran, stage, sockets, todo, processes, services, collected, rules,
                   outcome, exit, opened, failed>>

ProcessStarts(p) ==
    /\ events < MAX_EVENTS /\ stage # "done" /\ running[p] = NoProgram
    /\ \E g \in Program :
         /\ running' = [running EXCEPT ![p] = g]
         /\ ran' = [ran EXCEPT ![p] = @ \union {g}]
    /\ events' = events + 1
    /\ UNCHANGED <<settings, stage, sockets, todo, processes, services, collected, rules,
                   outcome, exit, opened, failed>>

-----------------------------------------------------------------------------
End(what, code) ==
    /\ stage' = "done"
    /\ outcome' = what
    /\ exit' = code

\* resolve_config, and what run refuses or acknowledges without a scan.
Start ==
    /\ stage = "start"
    /\ \/ End("nothing", "config_or_arg_error")
       \/ request = "emit_target" /\ End("nothing", "config_or_arg_error")
       \/ request = "target" /\ End("nothing", "clean")
       \/ /\ request \in {"local", "emit"}
          /\ stage' = "sockets" /\ UNCHANGED <<outcome, exit>>
    /\ UNCHANGED <<settings, environment, sockets, todo, processes, services, collected, rules,
                   opened, failed>>

\* A source fails, or a value does not parse: the scan ends without a snapshot. While it
\* resolves, that is a socket's protocol or address, or its process, services or signature.
Abort ==
    /\ \/ stage \in {"sockets", "processes", "services", "rules", "profiles"}
       \/ stage = "resolve" /\ todo # <<>>
    /\ collector # "stub"
    /\ End("nothing", "operational_error")
    /\ UNCHANGED <<settings, environment, sockets, todo, processes, services, collected, rules,
                   opened, failed>>

\* A process takes its sockets with it: who is told as an owner runs.
OwnersRun(table) ==
    \A i \in DOMAIN table : table[i].pid = NoPid \/ running[table[i].pid] # NoProgram

\* listening_endpoints. The stub has none.
ListSockets ==
    /\ stage = "sockets"
    /\ sockets' \in (IF collector = "stub" THEN {<<>>} ELSE {t \in Tables : OwnersRun(t)})
    /\ todo' = sockets'
    /\ opened' = running
    /\ stage' = IF collector = "stub" THEN "resolve" ELSE "processes"
    /\ UNCHANGED <<settings, environment, processes, services, collected, rules, outcome,
                   exit, failed>>

\* The process map: System::new_all at the first describe, or a section of the script,
\* which leaves an empty list when it fails.
ReadProcesses ==
    /\ stage = "processes"
    /\ \/ processes' = running /\ UNCHANGED failed
       \/ /\ collector = "powershell"
          /\ failed' = failed \union {"processes"} /\ UNCHANGED processes
    /\ stage' = IF collector = "linux" THEN "resolve" ELSE "services"
    /\ UNCHANGED <<settings, environment, sockets, todo, services, collected, rules, outcome,
                   exit, opened>>

\* Windows reads all services once; Linux reads a pid's when it resolves it.
ReadServices ==
    /\ stage = "services"
    /\ \/ services' = running /\ UNCHANGED failed
       \/ /\ collector = "powershell"
          /\ failed' = failed \union {"services"} /\ UNCHANGED services
    /\ stage' = "resolve"
    /\ UNCHANGED <<settings, environment, sockets, todo, processes, collected, rules, outcome,
                   exit, opened>>

HostedBy(program) == IF program = NoProgram THEN {} ELSE Service[program]

\* Fold into Endpoint: whatever is not resolved has no process at all.
Unattributed(s, why) ==
    [port |-> s.port, attribution |-> why, pid |-> NoPid, program |-> NoProgram,
     services |-> {}, fields |-> {}, signature |-> "unknown"]

\* verify, of a path: WinVerifyTrust or the script says what is known of the file.
Verified == IF collector = "linux" THEN "not_applicable" ELSE "verified"

\* resolve_process for a pid that is in the map.
Resolved(s) ==
    [port |-> s.port, attribution |-> "resolved", pid |-> s.pid,
     program |-> processes[s.pid],
     services |-> HostedBy(IF collector = "linux" THEN running[s.pid] ELSE services[s.pid]),
     fields |-> Redaction,
     signature |-> IF "path" \in Redaction THEN Verified ELSE "unknown"]

\* Mutant: an endpoint whose process is gone is dropped.
ResolveNextDropsGone ==
    /\ stage = "resolve" /\ todo # <<>> /\ Head(todo).port # 0
    /\ LET s == Head(todo)
       IN  collected' = IF s.pid = NoPid THEN Append(collected, Unattributed(s, "unresolved"))
                        ELSE IF processes[s.pid] = NoProgram THEN collected
                        ELSE Append(collected, Resolved(s))
    /\ todo' = Tail(todo)
    /\ UNCHANGED <<settings, environment, stage, sockets, processes, services, rules, outcome, exit,
                   opened, failed>>

\* collect_endpoints: the next socket, whose port must be one.
ResolveNext ==
    /\ stage = "resolve" /\ todo # <<>> /\ Head(todo).port # 0
    /\ LET s == Head(todo)
       IN  collected' = Append(collected,
             IF s.pid = NoPid THEN Unattributed(s, "unresolved")
             ELSE IF processes[s.pid] = NoProgram THEN Unattributed(s, "gone")
             ELSE Resolved(s))
    /\ todo' = Tail(todo)
    /\ UNCHANGED <<settings, environment, stage, sockets, processes, services, rules, outcome, exit,
                   opened, failed>>

\* Port::try_from refuses 0, and one such socket ends the whole scan.
RefusePort ==
    /\ stage = "resolve" /\ todo # <<>> /\ Head(todo).port = 0
    /\ End("nothing", "operational_error")
    /\ UNCHANGED <<settings, environment, sockets, todo, processes, services, collected, rules,
                   opened, failed>>

AllResolved ==
    /\ stage = "resolve" /\ todo = <<>>
    /\ stage' = "rules"
    /\ UNCHANGED <<settings, environment, sockets, todo, processes, services, collected, rules,
                   outcome, exit, opened, failed>>

\* What inbound_rules may answer. Only the collector for Linux says that the policy source
\* cannot be queried; the others fail, or find rules or none.
Policies ==
    CASE collector = "stub" -> {"none"}
      [] collector = "linux" -> {"none", "some", "unavailable"}
      [] OTHER -> {"none", "some"}

\* A policy source that cannot be queried is no reason to stop.
InboundRules ==
    /\ stage = "rules"
    /\ rules' \in Policies
    /\ stage' = "profiles"
    /\ UNCHANGED <<settings, environment, sockets, todo, processes, services, collected, outcome,
                   exit, opened, failed>>

\* profiles, and ScanSnapshot::new.
Profiles ==
    /\ stage = "profiles"
    /\ stage' = IF request = "emit" THEN "emit" ELSE "open_store"
    /\ UNCHANGED <<settings, environment, sockets, todo, processes, services, collected, rules,
                   outcome, exit, opened, failed>>

\* run_emit_json writes the snapshot to stdout. A write that fails is an error of the program;
\* but what fits stdout's buffer is written only as the program ends, and nobody looks
\* whether it could be.
EmitJson ==
    /\ stage = "emit"
    /\ \/ End("printed", "clean")
       \/ End("cut_off", "operational_error")
       \/ End("cut_off", "clean")
    /\ UNCHANGED <<settings, environment, sockets, todo, processes, services, collected, rules,
                   opened, failed>>

\* build_store.
OpenStore ==
    /\ stage = "open_store"
    /\ \/ stage' = "persist" /\ UNCHANGED <<outcome, exit>>
       \/ End("nothing", "config_or_arg_error")
    /\ UNCHANGED <<settings, environment, sockets, todo, processes, services, collected, rules,
                   opened, failed>>

\* Mutant: a failed put is reported and forgotten.
PersistAnyway ==
    /\ stage = "persist"
    /\ \E what \in {"stored", "nothing"} : End(what, "clean")
    /\ UNCHANGED <<settings, environment, sockets, todo, processes, services, collected, rules,
                   opened, failed>>

\* persist: put under a fresh key.
Persist ==
    /\ stage = "persist"
    /\ End("stored", "clean") \/ End("nothing", "operational_error")
    /\ UNCHANGED <<settings, environment, sockets, todo, processes, services, collected, rules,
                   opened, failed>>

Terminated == stage = "done" /\ UNCHANGED scan_vars

Next ==
    \/ \E p \in Pid : ProcessEnds(p) \/ ProcessStarts(p)
    \/ Start \/ Abort \/ ListSockets \/ ReadProcesses \/ ReadServices
    \/ ResolveNext \/ RefusePort \/ AllResolved \/ InboundRules \/ Profiles
    \/ EmitJson \/ OpenStore \/ Persist
    \/ Terminated

Spec == Init /\ [][Next]_scan_vars

-----------------------------------------------------------------------------
TypeOK ==
    /\ stage \in {"start", "sockets", "processes", "services", "resolve", "rules", "profiles",
                  "emit", "open_store", "persist", "done"}
    /\ running \in [Pid -> Program \union {NoProgram}]
    /\ processes \in [Pid -> Program \union {NoProgram}]
    /\ services \in [Pid -> Program \union {NoProgram}]
    /\ rules \in {"none", "unavailable", "some"}
    /\ outcome \in {"pending", "stored", "printed", "cut_off", "nothing"}
    /\ exit \in {"none", "clean", "config_or_arg_error", "operational_error"}

Kept == outcome \in {"stored", "printed"}
Reused(p) == Cardinality(ran[p]) > 1

\* A snapshot that is kept has every socket that was listed, also when its process ended
\* before it was described, and none that could not be an endpoint.
EndpointsSurvive ==
    /\ Kept => [i \in DOMAIN collected |-> collected[i].port] = [i \in DOMAIN sockets |-> sockets[i].port]
    /\ \A i \in DOMAIN collected : collected[i].port # 0

\* What an endpoint says of its process was so during the scan: the program did run
\* under that pid; and unless another program took the pid over meanwhile it is the one
\* that held the socket, with its own services or, when it ended in between, none. A
\* process is called gone only if it ended, or if the script could not list processes.
AttributionIsTrue ==
    \A i \in DOMAIN collected :
        LET e == collected[i]
        IN  /\ e.attribution = "resolved" =>
                 /\ e.program \in ran[e.pid]
                 /\ e.services \in {HostedBy(g) : g \in ran[e.pid] \union {NoProgram}}
                 /\ ~Reused(e.pid) => e.program = opened[e.pid]
            /\ e.attribution = "gone" => events > 0 \/ "processes" \in failed

\* No field of a process is collected that neither a flag nor the configuration asked
\* for, and none that was asked for is left out; a signature is looked at only
\* where the path may be.
OnlyWhatWasAskedFor ==
    \A i \in DOMAIN collected :
        LET e == collected[i]
        IN  /\ e.fields = IF e.attribution = "resolved" THEN flags \union config ELSE {}
            /\ e.signature # "unknown" => "path" \in flags \union config

\* Exit code 0 means that a whole snapshot is in the store or was handed to stdout, whose end
\* alone may be lost unseen (or that the single target was acknowledged); nothing is whole in
\* the store or on stdout with any other code.
ExitIsTruthful ==
    stage = "done" =>
        /\ exit = "clean" => Kept \/ request = "target" \/ outcome = "cut_off"
        /\ Kept => exit = "clean"
        /\ Kept \/ outcome = "cut_off" => (outcome # "stored" <=> request = "emit")

=============================================================================
