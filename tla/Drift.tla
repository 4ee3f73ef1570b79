---------------------------------- MODULE Drift ----------------------------------
(***************************************************************************)
(* Snapshots and what changed between two of them: domain/endpoint.rs and  *)
(* domain/snapshot.rs, which order what a collector found, and             *)
(* domain/drift.rs, which joins two snapshots by the key of an endpoint.   *)
(***************************************************************************)
EXTENDS Reachability, Integers

EPHEMERAL_PORT_THRESHOLD == 49152

-----------------------------------------------------------------------------
\* The stable sort by a key that need not be unique.
Ahead(a, b) == \* lexicographically, strictly
    \E i \in DOMAIN a : a[i] < b[i] /\ \A j \in 1 .. i - 1 : a[j] = b[j]

SortByKey(seq, Key(_)) == Sorted(seq, LAMBDA a, b : Ahead(Key(a), Key(b)))

EndpointSortKey(e) == <<Rank[e.protocol], Rank[e.address], e.port>>
RuleSortKey(rule) == <<Rank[rule.rule_id]>>
ProfileSortKey(profile) == <<Rank[profile.profile]>>

NewEndpoint(protocol, address, port, pid, path, services, signature, command_line) ==
    [protocol |-> protocol, address |-> address, port |-> port, process_id |-> pid,
     process_path |-> path, services |-> services, signature |-> signature,
     command_line |-> command_line, exposure |-> Classify(address)]

NewSnapshot(host, scan, strategy, endpoints, rules, profiles) ==
    [host_id |-> host, scan_id |-> scan, strategy |-> strategy,
     endpoints |-> SortByKey(endpoints, EndpointSortKey),
     firewall_rules |-> SortByKey(rules, RuleSortKey),
     profiles |-> SortByKey(profiles, ProfileSortKey)]

-----------------------------------------------------------------------------
\* drift.rs
EndpointKey(e) == <<e.protocol, e.address, e.port>>

Positions(endpoints, key) == {i \in DOMAIN endpoints : EndpointKey(endpoints[i]) = key}

\* The map from keys to endpoints keeps the last of those that share one.
ByKey(endpoints, key) == endpoints[Max(Positions(endpoints, key))]

Keys(endpoints) == {EndpointKey(endpoints[i]) : i \in DOMAIN endpoints}

Kind(name) == [name |-> name]
ReachabilityChange(before, after) ==
    [name |-> "ReachabilityChanged", before |-> before, after |-> after]

ByExposure(exposure, all, specific, loopback) ==
    CASE exposure = "AllInterfaces" -> all
      [] exposure = "SpecificInterface" -> specific
      [] exposure = "Loopback" -> loopback

ReachabilitySeverity(kind, exposure) ==
    CASE kind.after = "Allowed" /\ kind.before # "Allowed" ->
           ByExposure(exposure, "Critical", "High", "Low")
      [] kind.before = "Allowed" /\ kind.after # "Allowed" -> "Low"
      [] OTHER -> "Medium"

SeverityFor(kind, exposure) ==
    CASE kind.name = "EndpointAppeared" -> ByExposure(exposure, "Critical", "High", "Low")
      [] kind.name = "EndpointDisappeared" -> "Low"
      [] kind.name = "ReachabilityChanged" -> ReachabilitySeverity(kind, exposure)
      [] kind.name \in {"ProcessChanged", "SignatureChanged"} ->
           ByExposure(exposure, "High", "Medium", "Medium")
      [] kind.name = "RuleSetChanged" -> "Medium"

Entry(kind, key, exposure) ==
    [kind |-> kind, endpoint_key |-> key, severity |-> SeverityFor(kind, exposure)]

EndpointEntry(kind, e) == Entry(kind, EndpointKey(e), e.exposure)
Entries(kind, endpoints) == [i \in DOMAIN endpoints |-> EndpointEntry(kind, endpoints[i])]

Unmatched(endpoints, others) ==
    Selected(endpoints, LAMBDA e : EndpointKey(e) \notin Keys(others))

ReachabilityIn(snapshot, e) == Evaluate(e, snapshot.firewall_rules).reachability

\* What changed about one endpoint of the current snapshot that the baseline's map knows.
Changes(baseline, current, e) ==
    LET was == ByKey(baseline.endpoints, EndpointKey(e))
        before == ReachabilityIn(baseline, was)
        after == ReachabilityIn(current, e)
        entry(changed, kind) == IF changed THEN <<EndpointEntry(kind, e)>> ELSE <<>>
    IN  entry(was.process_path # e.process_path, Kind("ProcessChanged"))
        \o entry(was.signature # e.signature, Kind("SignatureChanged"))
        \o entry(before # after, ReachabilityChange(before, after))

NoKey == <<>>

\* In the order of the snapshots: appeared, disappeared, changed, the rules.
AllEntries(baseline, current) ==
    LET shared == Selected(current.endpoints,
                    LAMBDA e : EndpointKey(e) \in Keys(baseline.endpoints))
    IN  Entries(Kind("EndpointAppeared"), Unmatched(current.endpoints, baseline.endpoints))
        \o Entries(Kind("EndpointDisappeared"), Unmatched(baseline.endpoints, current.endpoints))
        \o FlattenSeq([i \in DOMAIN shared |-> Changes(baseline, current, shared[i])])
        \o (IF baseline.firewall_rules = current.firewall_rules THEN <<>>
            ELSE <<Entry(Kind("RuleSetChanged"), NoKey, "SpecificInterface")>>)

\* Mutant: whatever happens on an ephemeral port is churn.
IsEphemeral(entry) == entry.endpoint_key # NoKey /\ entry.endpoint_key[3] > EPHEMERAL_PORT_THRESHOLD

IsEphemeralChurn(entry) ==
    /\ entry.kind.name \in {"EndpointAppeared", "EndpointDisappeared"}
    /\ entry.endpoint_key[3] > EPHEMERAL_PORT_THRESHOLD

WithoutChurn(all) ==
    LET kept == Selected(all, LAMBDA entry : ~IsEphemeralChurn(entry))
    IN  [entries |-> kept, suppressed_ephemeral |-> Len(all) - Len(kept)]

Diff(baseline, current) == WithoutChurn(AllEntries(baseline, current))

=============================================================================
