------------------------------- MODULE Components -------------------------------
(***************************************************************************)
(* The components that run beside each other in one process and share no   *)
(* state, one at a time: a behaviour picks one, and the others stay at     *)
(* their start. The constants are those of the components. Answering adds  *)
(* the portal and the pure parts.                                          *)
(***************************************************************************)
EXTENDS Answering

CONSTANTS
    \* HostKeys
    Host, Address, Port, DEFAULT, Auth, HostKey, Certificate, Books, Identity, Identities,
    Credential, MAX_ATTEMPTS,
    \* Prober
    Scan, Addr, AddrOf, Candidates, Excluded, MAX_CONCURRENT, MAX_PROBES, INTERVAL, Requests,
    \* LocalScan
    Pid, NoPid, Program, NoProgram, Service, Tables, MAX_EVENTS,
    \* Progress, ReportWriter, SelfUpdate
    Reported, Writer, NoReport, Torn, Updater, Versions, INSTALLED, NoFile

VARIABLES
    component,
    book, accept_new, accepted, step, offered, offers, strategy, attempts, result, used, refusals,
    before,
    issued, holders, waiters, gate, next_allowed, place, port, kind, todo, sleeping, endpoints,
    since, contacted,
    collector, request, flags, config, running, events, stage, sockets, scan_todo, processes,
    services, collected, rules, outcome, exit, ran, opened, failed,
    terminal, bars, spinner, finished, finish_calls, task, told, run,
    output, temporary, writing, told_written,
    windows, published, latest, args, current, release, at, open, target, staged, backup, content,
    consented, verified, status

HK == INSTANCE HostKeys
PR == INSTANCE Prober
LS == INSTANCE LocalScan WITH todo <- scan_todo
PG == INSTANCE Progress
RW == INSTANCE ReportWriter
SU == INSTANCE SelfUpdate

ASSUME ComponentsAssumption ==
    /\ PO!PortalAssumption /\ HK!HostKeysAssumption /\ PR!ProberAssumption
    /\ LS!LocalScanAssumption /\ RW!ReportWriterAssumption /\ SU!SelfUpdateAssumption
    /\ RU!RulesAssumption

-----------------------------------------------------------------------------
keys_all == <<book, accept_new, accepted, step, offered, offers, strategy, attempts, result, used,
              refusals, before>>
prober_all == <<issued, holders, waiters, gate, next_allowed, place, port, kind, todo, sleeping,
                endpoints, since, contacted>>
scan_all == <<collector, request, flags, config, running, events, stage, sockets, scan_todo,
              processes, services, collected, rules, outcome, exit, ran, opened, failed>>
progress_all == <<terminal, bars, spinner, finished, finish_calls, task, told, run>>
report_all == <<output, temporary, writing, told_written>>
update_all == <<windows, published, latest, args, current, release, at, open, target, staged,
                backup, content, consented, verified, status>>
all == <<component, portal_all, keys_all, prober_all, scan_all, progress_all, report_all, update_all,
         rules_all>>

Names == {"portal", "keys", "prober", "scan", "progress", "report", "update", "rules"}

Init ==
    /\ component \in Names
    /\ PO!Init /\ HK!Init /\ PR!Init /\ LS!Init /\ PG!Init /\ RW!Init /\ SU!Init
    /\ IF component = "rules" THEN RU!Init
       ELSE question = "none" /\ answered = FALSE /\ answer = "none"

Next ==
    /\ UNCHANGED component
    /\ \/ component = "portal" /\ PO!Next
       \/ component # "portal" /\ UNCHANGED portal_all
    /\ \/ component = "keys" /\ HK!Next
       \/ component # "keys" /\ UNCHANGED keys_all
    /\ \/ component = "prober" /\ PR!Next
       \/ component # "prober" /\ UNCHANGED prober_all
    /\ \/ component = "scan" /\ LS!Next
       \/ component # "scan" /\ UNCHANGED scan_all
    /\ \/ component = "progress" /\ PG!Next
       \/ component # "progress" /\ UNCHANGED progress_all
    /\ \/ component = "report" /\ RW!Next
       \/ component # "report" /\ UNCHANGED report_all
    /\ \/ component = "update" /\ SU!Next
       \/ component # "update" /\ UNCHANGED update_all
    /\ \/ component = "rules" /\ RU!Next
       \/ component # "rules" /\ UNCHANGED rules_all

Spec == Init /\ [][Next]_all

-----------------------------------------------------------------------------
\* A component that is not picked stays at its start.
Of(name, claim) == component = name => claim

\* The state of the component has its type.
TypeOK ==
    /\ Of("portal", PO!TypeOK) /\ Of("keys", HK!TypeOK) /\ Of("prober", PR!TypeOK)
    /\ Of("scan", LS!TypeOK) /\ Of("progress", PG!TypeOK) /\ Of("report", RW!TypeOK)
    /\ Of("update", SU!TypeOK) /\ Of("rules", RU!TypeOK)

\* See Portal: what is shown is in the caller's scope and misses nothing in it, and no caller
\* gets more than two budgets through in the time of one.
PortalIsScoped ==
    Of("portal", PO!ReadsAreScoped /\ PO!ViewsAreComplete /\ PO!AtMostTwoBudgets)

\* See Portal: only one's own requests are counted against one.
OnlyOwnRequestsDeny == PO!OnlyOwnRequestsDeny

\* See HostKeys: keys are pinned, a changed one ends the scan, and the server is offered
\* nothing but the identities the inventory names.
TrustIsPinned ==
    Of("keys", HK!KeysArePinned /\ HK!ChangedKeysEndTheScan /\ HK!OnlyTheNamedIdentity)

\* See Prober: the limits of an address hold, whoever is cancelled.
HostsAreSpared == Of("prober", PR!HostsAreSpared)

\* See LocalScan: the snapshot is what was there and what was asked for, and the exit code
\* tells whether there is one.
ScansAreTruthful ==
    Of("scan", /\ LS!EndpointsSurvive /\ LS!AttributionIsTrue
               /\ LS!OnlyWhatWasAskedFor /\ LS!ExitIsTruthful)

\* See Progress, ReportWriter and SelfUpdate: however a run, a writer or an update ends, what
\* it leaves on the terminal and on disk is whole and true.
LeftoversAreWhole ==
    /\ Of("progress", PG!SpinnersEndOnce)
    /\ Of("report", RW!ReportsAreWhole)
    /\ Of("update", SU!UpdatesAreSafe)

\* See Rules: what an endpoint is said to be follows from the system's tables.
VerdictsAreSound == Of("rules", RU!VerdictsAreSound)

\* See Rules: what changed is told, once, and by every rendering alike.
DifferencesAreTold == Of("rules", RU!DifferencesAreTold)

\* See Rules: names are given for evidence, findings for what was seen.
NamesAreEarned == Of("rules", RU!NamesAreEarned)

\* See Rules: what may not be shown is not, and what was not read is not made up.
TextsAreContained == Of("rules", RU!TextsAreContained)

=============================================================================
