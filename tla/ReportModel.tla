------------------------------- MODULE ReportModel -------------------------------
(***************************************************************************)
(* The view model every report is rendered from (domain/report_model.rs):  *)
(* snapshots with their verdicts taken and their command lines redacted,   *)
(* the drift of one of them, and the counts over all; and the one sentence *)
(* the summary singles out (domain/annotations.rs).                        *)
(***************************************************************************)
EXTENDS Drift, Findings

-----------------------------------------------------------------------------
\* report_model.rs: the view enumerations mirror the domain's one for one.
NoCommand == [length |-> 0, matches |-> <<>>]

Fidelity(strategy) == IF strategy = "Probe" THEN "Inferred" ELSE "Authoritative"

FirewallRuleView(rule) ==
    [display_name |-> rule.display_name, direction |-> rule.direction, action |-> rule.action,
     protocol |-> rule.protocol, port_spec_label |-> DisplayLabel(rule.port_spec),
     program_filter |-> rule.program, service_filter |-> rule.service, enabled |-> rule.enabled]

EndpointView(e, snapshot) ==
    LET verdict == Evaluate(e, snapshot.firewall_rules)
        line == Redact(e.command_line.length, e.command_line.matches)
    IN  [protocol |-> e.protocol, bind_address |-> e.address, port |-> e.port,
         process_path |-> e.process_path, hosted_services |-> e.services,
         signature_status |-> e.signature, exposure |-> e.exposure,
         reachability |-> verdict.reachability,
         matched_rules |-> [i \in DOMAIN verdict.matched |-> FirewallRuleView(verdict.matched[i])],
         command_line |-> line.output, command_line_redactions |-> line.markers]

HostSection(snapshot) ==
    [host_id |-> snapshot.host_id, scan_id |-> snapshot.scan_id, strategy |-> snapshot.strategy,
     fidelity |-> Fidelity(snapshot.strategy),
     endpoints |-> [i \in DOMAIN snapshot.endpoints |->
                      EndpointView(snapshot.endpoints[i], snapshot)],
     profile_ports |-> SummarizeInboundPorts(snapshot.firewall_rules, snapshot.profiles)]

Exposures == <<"Loopback", "SpecificInterface", "AllInterfaces">>
Reachabilities == {"LocalOnly", "Blocked", "Allowed", "DefaultAction", "Indeterminate"}
Severities == <<"Low", "Medium", "High", "Critical">>

PositionIn(seq, x) == CHOOSE i \in DOMAIN seq : seq[i] = x
SeverityRank(severity) == PositionIn(Severities, severity)

HowMany(seq, Test(_)) == Cardinality({i \in DOMAIN seq : Test(seq[i])})

\* Verdicts are taken anew, over the snapshots and not over the sections.
Rollup(snapshots, drift) ==
    LET of(snapshot) == [i \in DOMAIN snapshot.endpoints |->
                           [exposure |-> snapshot.endpoints[i].exposure,
                            signature |-> snapshot.endpoints[i].signature,
                            reachability |-> ReachabilityIn(snapshot, snapshot.endpoints[i])]]
        all == FlattenSeq([i \in DOMAIN snapshots |-> of(snapshots[i])])
    IN  [hosts_scanned |-> Len(snapshots),
         by_exposure |-> [x \in ToSet(Exposures) |-> HowMany(all, LAMBDA e : e.exposure = x)],
         by_reachability |-> [x \in Reachabilities |->
                                HowMany(all, LAMBDA e : e.reachability = x)],
         unsigned_binaries |-> HowMany(all, LAMBDA e : e.signature = "Unsigned"),
         drift_by_severity |-> [x \in ToSet(Severities) |->
                                  HowMany(drift, LAMBDA entry : entry.severity = x)]]

SectionSortKey(host) == <<Rank[host.host_id], Rank[host.scan_id]>>

\* No drift report counts as one without entries. What was suppressed is not carried over.
Build(snapshots, drift, no_redact_confirmed) ==
    IF ~no_redact_confirmed THEN Failed
    ELSE [hosts |-> SortByKey([i \in DOMAIN snapshots |-> HostSection(snapshots[i])],
                              SectionSortKey),
          drift |-> drift, rollup |-> Rollup(snapshots, drift), redaction_enabled |-> TRUE]

-----------------------------------------------------------------------------
\* annotations.rs
\* The first of the worst.
HighestSeverityDrift(entries) ==
    LET worst == {i \in DOMAIN entries : \A j \in DOMAIN entries :
                    SeverityRank(entries[j].severity) <= SeverityRank(entries[i].severity)}
    IN  entries[Min(worst)]

IsExposedUnsigned(e) == e.signature_status = "Unsigned" /\ e.exposure = "AllInterfaces"

\* Of every host, the lowest port, then the lowest host.
MostExposedUnsignedListener(model) ==
    LET listeners(host) == Selected(host.endpoints, IsExposedUnsigned)
        all == FlattenSeq([h \in DOMAIN model.hosts |->
                 [i \in DOMAIN listeners(model.hosts[h]) |->
                    [port |-> listeners(model.hosts[h])[i].port,
                     host_id |-> model.hosts[h].host_id]]])
        key(listener) == <<listener.port, Rank[listener.host_id]>>
    IN  IF all = <<>> THEN <<>> ELSE <<SortByKey(all, key)[1]>>

\* The order of the headlines' first words: "A new", "An", "Port", "Reachability", "The".
Headlines == <<"EndpointAppeared", "EndpointDisappeared", "Port", "ReachabilityChanged",
               "SignatureChanged", "RuleSetChanged", "ProcessChanged">>

AnnotationForDrift(entry) ==
    [severity |-> entry.severity, headline |-> entry.kind.name, about |-> entry.endpoint_key,
     leader_target |-> "DriftTimeline"]

AnnotationForExposedListener(listener) ==
    [severity |-> "Critical", headline |-> "Port", about |-> listener,
     leader_target |-> "ExposureMap"]

\* Nothing to say gives no annotation.
SelectAnnotation(model) ==
    LET listener == MostExposedUnsignedListener(model)
        candidates ==
          (IF model.drift = <<>> THEN <<>>
           ELSE <<AnnotationForDrift(HighestSeverityDrift(model.drift))>>)
          \o [i \in DOMAIN listener |-> AnnotationForExposedListener(listener[i])]
        key(c) == <<0 - SeverityRank(c.severity), PositionIn(Headlines, c.headline)>>
    IN  IF candidates = <<>> THEN <<>> ELSE <<SortByKey(candidates, key)[1]>>

DriftTotal(rollup) ==
    FoldLeft(LAMBDA acc, x : acc + rollup.drift_by_severity[x], 0, Severities)

HasNoFindings(rollup) ==
    /\ rollup.by_exposure["AllInterfaces"] = 0
    /\ rollup.unsigned_binaries = 0
    /\ DriftTotal(rollup) = 0

ExecutiveSummary(rollup) ==
    IF HasNoFindings(rollup) THEN [hosts |-> rollup.hosts_scanned, findings |-> "none"]
    ELSE [hosts |-> rollup.hosts_scanned,
          findings |-> <<rollup.by_exposure["AllInterfaces"], rollup.unsigned_binaries,
                         DriftTotal(rollup)>>]

=============================================================================
