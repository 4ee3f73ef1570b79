---------------------------------- MODULE Rules ----------------------------------
(***************************************************************************)
(* The pure parts of anne at work: a question is put to one of them - over *)
(* which inputs is for Questions to say - and the answer is what the code  *)
(* makes of it. The questions follow a scan through the program: what a    *)
(* collector reads, the rules and the verdicts, the probe's findings and   *)
(* names, snapshots and what changed between them, the reports, the exit   *)
(* code.                                                                   *)
(***************************************************************************)
EXTENDS CommandLine, Decoders, Identification, BuildTasks

CONSTANT Questions \* from each topic to the set of its inputs

PartSpecs ==
    [kind : {"any"}] \cup [kind : {"single"}, port : Nat]
      \cup [kind : {"range"}, start : Nat, end : Nat] \cup [kind : {"dynamic"}, keyword : STRING]

PortSpecs == PartSpecs \cup [kind : {"list"}, specs : Seq(PartSpecs)]

Paths == {NoPath} \cup [name : STRING, casing : {"lower", "upper"}, variable : BOOLEAN]
RuleActions == {"Allow", "Block"}
RuleDirections == {"Inbound", "Outbound"}
PolicyStores == {"Local", "GroupPolicy", "Dynamic", "Static"}

FirewallRule ==
    [rule_id : STRING, display_name : STRING, direction : RuleDirections, action : RuleActions,
     protocol : {"tcp", "udp"}, port_spec : PortSpecs, program : Paths, service : SUBSET STRING,
     enabled : BOOLEAN, policy_store : PolicyStores]

PortParts ==
    [form : {"word"}, word : STRING] \cup [form : {"number"}, value : Nat]
      \cup [form : {"span"}, start : Nat, end : Nat]

\* The rows of WMI: rules, and their filters of ports, programs and services.
RuleRows ==
    [instance_id : STRING, display_name : STRING, direction : Nat, action : Nat, enabled : Nat,
     policy_store : Nat]

PortRows == [instance_id : STRING, protocol : STRING, local_port : Seq(PortParts)]
ProgramRows == [instance_id : STRING, program : STRING]
ServiceRows == [instance_id : STRING, service : STRING]

\* The catalogue, what was seen of a service, and what the host says of it.
CatalogueRows ==
    [name : STRING, category : STRING, confidence : ToSet(Tiers),
     matchers : Seq([kind : STRING, name : STRING, stems : SUBSET STRING]),
     patterns : SUBSET Seq(STRING), version_capture : SUBSET STRING]

EvidenceRows == [kind : STRING, name : STRING, text : SUBSET (STRING \X STRING)]

LocalIdentities ==
    [kind : {"Inferred"}, evidence : Seq(EvidenceRows)]
      \cup [kind : {"Authoritative"}, pid : Nat, process_path : STRING,
            service_name : SUBSET STRING, signature : STRING]

CertificateRows ==
    [parses : BOOLEAN, subject : STRING, issuer : STRING,
     names : SUBSET [kind : STRING, text : STRING, length : Nat], not_after : Int,
     key_algorithm : STRING, key_parses : BOOLEAN, key_bits : Nat, signature_algorithm : STRING]

\* What a pattern may match of a text: something, and within it.
MatchesIn(length) ==
    {m \in [start : 0 .. length, end : 0 .. length, category : STRING] : m.start < m.end}

HeaderRows ==
    [name : STRING, text : BOOLEAN,
     value : [text : STRING]
               \cup [subdomains : BOOLEAN, has_max_age : BOOLEAN, number : BOOLEAN, max_age : Int]]

\* Messages of netlink have attributes, those that name tables and chains bytes. What a chain of
\* the input hook becomes.
Sequence(s) == s \in Seq(ToSet(s))

MessageIsTyped(message) ==
    /\ message.len \in Nat /\ Sequence(message.payload)
    /\ \A a \in ToSet(message.payload) : a.type \in {"table", "name"} =>
         a.value \in Seq(Nat) /\ Failed # DecodeNlaString(a.value)

ChainNames == SUBSET Seq(Nat)
ChainRules ==
    [rule_id : ChainNames \X ChainNames, display_name : ChainNames, direction : {"Inbound"},
     action : RuleActions, protocol : {"tcp", "udp"}, port_spec : {Anything}, program : {NoPath},
     service : {{}}, enabled : {TRUE}, policy_store : {"Local"}]

\* The lines of /proc/net and the processes, and the parts of the helper's payload.
LineRows == [fields : Nat, state : STRING, address : Seq(Seq(Nat)), port : Nat, inode : Nat]
ProcessRows == [pid : Nat, readable : BOOLEAN, sockets : SUBSET Nat]
SocketRows == [local_address : STRING, local_port : Nat, owning_process : Nat]
PayloadRules ==
    [rule_id : STRING, display_name : STRING, direction : STRING, action : STRING,
     protocol : STRING, local_ports : Seq(PortParts), program_filter : STRING,
     service_filter : STRING, enabled : BOOLEAN, policy_store_source_type : STRING,
     policy_store_source : STRING]

\* The artifacts of a release, and the lines of its scorecard's annotations.
ArtifactRows == [name : STRING, content : STRING]
AnnotationRows == [indent : Nat, content : STRING, value : STRING, reason : BOOLEAN]

\* Texts are redacted and responses cut, messages and lines are read, settings and releases made
\* of what has its type; a variable of the environment is set once.
TextsAssumption ==
    /\ "redact" \in DOMAIN Questions =>
         \A input \in Questions.redact :
           input.length \in Nat /\ input.matches \in Seq(Seq(MatchesIn(input.length)))
    /\ "response" \in DOMAIN Questions =>
         \A input \in Questions.response :
           /\ input.chunks \in Seq(Seq(STRING)) /\ input.cap \in Nat
           /\ input.headers \in Seq(HeaderRows)
    /\ "netfilter" \in DOMAIN Questions =>
         \A input \in Questions.netfilter :
           /\ Sequence(input.buffers)
           /\ \A buffer \in ToSet(input.buffers) :
                Sequence(buffer) /\ \A message \in ToSet(buffer) : MessageIsTyped(message)
    /\ "proc" \in DOMAIN Questions =>
         \A input \in Questions.proc :
           /\ input.lines \in Seq(LineRows) /\ input.lines # <<>>
           /\ input.processes \in Seq(ProcessRows)
    /\ "payload" \in DOMAIN Questions =>
         \A input \in Questions.payload :
           /\ input.tcp_endpoints \in Seq(SocketRows) /\ input.udp_endpoints \in Seq(SocketRows)
           /\ input.firewall_rules \in Seq(PayloadRules)
    /\ "config" \in DOMAIN Questions =>
         \A input \in Questions.config :
           \A v, w \in input.variables : EnvKey(v) = EnvKey(w) => v = w
    /\ "release" \in DOMAIN Questions =>
         \A input \in Questions.release :
           /\ input.artifacts \in Seq(ArtifactRows)
           /\ \A i \in DOMAIN input.artifacts : NameOrder[Digest(input.artifacts[i].content)] \in Nat
           /\ input.fonts \in Seq(DOMAIN input.assets.files)
    /\ "scorecard" \in DOMAIN Questions =>
         \A input \in Questions.scorecard : input \in Seq(AnnotationRows)
    /\ Failed \notin Seq(ChainNames) \cup Seq(ChainRules)
    /\ Failed \notin [scan : {ScanDefaults}, remote : {RemoteDefaults}, store : {NotSaid}]

\* A verdict is asked for over the rules of a snapshot, a specification for the parts of a
\* text, rules for the rows of WMI, names for what was seen, and a conversion that failed has
\* no value.
RulesAssumption ==
    /\ DOMAIN Questions \subseteq STRING
    /\ "verdict" \in DOMAIN Questions =>
         \A input \in Questions.verdict : input.rules \in Seq(FirewallRule)
    /\ "ports" \in DOMAIN Questions =>
         \A input \in Questions.ports : input.text \in Seq(PortParts) /\ input.probes \subseteq Nat
    /\ "mapping" \in DOMAIN Questions =>
         \A input \in Questions.mapping :
           /\ input.rules \in Seq(RuleRows) /\ input.ports \in Seq(PortRows)
           /\ input.programs \in Seq(ProgramRows) /\ input.services \in Seq(ServiceRows)
           /\ \A i \in DOMAIN input.services : Failed # {input.services[i].service}
    /\ Catalogue \in Seq(CatalogueRows)
    /\ "identify" \in DOMAIN Questions =>
         \A input \in Questions.identify :
           /\ input.evidence \in Seq(EvidenceRows) /\ input.local \in LocalIdentities
           /\ input.local.kind = "Authoritative" =>
                \A n, o \in input.local.service_name : n = o
    /\ "pattern" \in DOMAIN Questions => \A input \in Questions.pattern : input \in Seq(STRING)
    /\ "tls" \in DOMAIN Questions =>
         \A input \in Questions.tls : input.certs \in Seq(CertificateRows)
    /\ Failed \notin PortSpecs \cup Nat \cup STRING \cup {Absent} \cup BOOLEAN \cup {{}}
    /\ Failed \notin Paths \cup RuleActions \cup RuleDirections \cup PolicyStores
    /\ Failed \notin Seq(FirewallRule)
    /\ TextsAssumption

VARIABLES
    question, \* a topic and an input
    answered, \* whether the code has run
    answer    \* what it returned

vars == <<question, answered, answer>>

Init ==
    /\ \E topic \in DOMAIN Questions : \E input \in Questions[topic] :
          question = [topic |-> topic, input |-> input]
    /\ answered = FALSE /\ answer = "none"

Reply(topic, value) ==
    /\ question.topic = topic /\ ~answered
    /\ answered' = TRUE /\ answer' = value
    /\ UNCHANGED question

in == question.input

-----------------------------------------------------------------------------
\* The verdict of rules over an endpoint, and the ports they open in each profile.
Judge ==
    Reply("verdict", [verdict |-> Evaluate(in.endpoint, in.rules),
                      reversed |-> Evaluate(in.endpoint, Reverse(in.rules)),
                      profiles |-> SummarizeInboundPorts(in.rules, in.profiles)])

ReadPorts == Reply("ports", [spec |-> ParsePortSpec(in.text)])

\* Rows of WMI to rules of the domain.
MapRules ==
    LET raws == QueryInboundRules(in.rules, in.ports, in.programs, in.services)
    IN  Reply("mapping", [raws |-> raws, rules |-> FirewallRulesFromRaw(raws),
                          profiles |-> ProfilesFromRaw(ProfilesFromWmi(in.profiles))])

\* Buffers of netlink to raw rules, and those to rules of the domain.
ReadNetfilter ==
    LET ruleset == ClassifyRuleset(QueryChains(in.buffers), in.legacy)
    IN  Reply("netfilter", [ruleset |-> ruleset,
                            rules |-> IF ruleset = Failed THEN Failed
                                      ELSE FirewallRulesFromRaw(ruleset)])

ReadProc == Reply("proc", ParseProcNet(in.lines, in.protocol, in.processes))

ReadPayload == Reply("payload", ParsePayload(in))

\* What a probe sees.
Handshake ==
    Reply("tls", [chain |-> ChainOf(in.certs),
                  findings |-> DeriveFindings(ChainOf(in.certs), in.probed),
                  evidence |-> EvidenceFromRecord(
                     [certificates |-> ChainOf(in.certs), protocol_version |-> in.version,
                      cipher_suite |-> "suite", alpn |-> in.alpn], in.probed)])

ReadResponse ==
    LET body == ReadCapped(in.chunks, in.cap)
    IN  Reply("response", [body |-> body, text |-> DecodeCappedBody(body),
                           evidence |-> EvidenceFromResponse(
                              [headers |-> in.headers, body |-> DecodeCappedBody(body)])])

CheckPattern == Reply("pattern", CheckComplexity(in))

\* What was seen, the names it gives, and what could be claimed on it with any confidence.
Identify ==
    LET names == Fingerprint(in.evidence)
        assigned == IdentityForPort(in.port, "tcp")
    IN  Reply("identify", [names |-> names, assigned |-> assigned,
                           claimed |-> UNION {NewIdentity("claimed", "Other", tier, in.evidence) :
                                                tier \in ToSet(Tiers)},
                           mismatches |-> UNION {DetectMismatch(in.port, a, names[i]) :
                                                   a \in assigned, i \in DOMAIN names},
                           reconciled |-> Reconcile(in.local, names)])

TakeOutSecrets == Reply("redact", Redact(in.length, in.matches))

\* What was collected, as a snapshot, in the order found and in another.
Gather ==
    LET snapshot(endpoints, rules) == NewSnapshot("h1", "s1", "LocalOnly", endpoints, rules, <<>>)
    IN  Reply("gather", [found |-> snapshot(in.endpoints, in.rules),
                         reordered |-> snapshot(Reverse(in.endpoints), Reverse(in.rules))])

\* Two snapshots, what changed, and every rendering of it.
Compared(drift, model) ==
    [drift |-> drift, back |-> Diff(in.current, in.baseline),
     model |-> model, csv |-> RenderCsv(model), sarif |-> RenderSarif(model),
     page |-> WriteReportStreaming(model), files |-> WriteReportSplit(model),
     diff |-> DiffCommand(in.baseline, in.current, in.threshold)]

Compare ==
    LET drift == Diff(in.baseline, in.current)
    IN  Reply("compare", Compared(drift, Build(<<in.current, in.other>>, drift.entries, TRUE)))

\* The diagrams of a host's section on their own.
Draw == Reply("draw", [exposure_map |-> ExposureMap(in), trust_quadrant |-> TrustQuadrant(in),
                       profile_bar_chart |-> ProfileBarChart(in)])

Report == Reply("report", ReportCommand(in.args, in.store, in.writable))

LoadConfig == Reply("config", ResolveConfig(in.config, in.file, in.variables))

ValidateInventory == Reply("inventory", InventoryCommand(in.readable, in.entries))

Release ==
    Reply("release", [lines |-> WriteManifest(in.artifacts),
                      verified |-> VerifyManifest(WriteManifest(in.artifacts), in.directory),
                      fonts |-> VendorFonts(in.fonts, in.outcome, in.assets),
                      built |-> BuildWindows(in.tools.xwin, in.tools.objdump, in.tools.imports)])

Exclude ==
    Reply("exclude", Excludes(ProbeExclusions(in.ports, in.cidrs), in.address, in.port))

ReadScorecard == Reply("scorecard", ScorecardAccepts(in, {"SAST"}))

Done == answered /\ UNCHANGED vars

Next ==
    \/ Judge \/ ReadPorts \/ MapRules \/ ReadNetfilter \/ ReadProc \/ ReadPayload
    \/ Handshake \/ ReadResponse \/ CheckPattern \/ Identify \/ TakeOutSecrets
    \/ Gather \/ Compare \/ Draw \/ Report \/ LoadConfig \/ ValidateInventory \/ Release
    \/ ReadScorecard \/ Exclude
    \/ Done

Spec == Init /\ [][Next]_vars

-----------------------------------------------------------------------------
\* Whether the question was about this topic and has been answered.
Told(topic) == answered /\ question.topic = topic

\* There is an answer when, and only when, the code has run.
TypeOK ==
    /\ question.topic \in STRING /\ answered \in BOOLEAN
    /\ ~answered => answer = "none"

Items(seq) == ToSet(seq)
SameItems(a, b) ==
    Len(a) = Len(b) /\ \A x \in Items(a) : HowMany(a, LAMBDA y : y = x)
                                             = HowMany(b, LAMBDA y : y = x)
Ascending(seq, Key(_)) == \A i \in 1 .. Len(seq) - 1 : ~Ahead(Key(seq[i + 1]), Key(seq[i]))

-----------------------------------------------------------------------------
\* A specification that names a keyword, alone or in its list.
NamesKeyword(spec) ==
    \/ spec.kind = "dynamic"
    \/ spec.kind = "list" /\ \E i \in DOMAIN spec.specs : spec.specs[i].kind = "dynamic"

\* What an endpoint is said to be follows from the rules that concern it and not from their
\* order - loopback before all, a block before any allow, an allow before the default; a keyword
\* that is a rule's whole specification leaves it undecided, and nothing without a keyword does
\* (reachability.rs). A keyword within a list is UnresolvedPortsAreNotAllowed's.
VerdictFollowsFromRules ==
    Told("verdict") =>
      LET said == answer.verdict.reachability
          concerned == {rule \in Items(in.rules) : RuleApplies(rule, in.endpoint)}
          allows == {rule \in concerned : rule.action = "Allow"}
          off_host == in.endpoint.exposure # "Loopback"
      IN  /\ said = "LocalOnly" <=> ~off_host
          /\ said = "Blocked" <=> off_host /\ concerned # allows
          /\ said = "DefaultAction" <=> off_host /\ concerned = {}
          /\ said \in {"Allowed", "Indeterminate"} <=>
               off_host /\ concerned = allows /\ concerned # {}
          /\ off_host /\ concerned = allows /\ (\E rule \in allows : rule.port_spec.kind = "dynamic")
               => said = "Indeterminate"
          /\ said = "Indeterminate" => \E rule \in allows : NamesKeyword(rule.port_spec)
          /\ answer.reversed.reachability = said

\* The rules that a verdict names are rules that led to it; and a profile lists just the enabled
\* inbound allows (profile_ports.rs).
VerdictNamesItsRules ==
    Told("verdict") =>
      LET v == answer.verdict
          concerned == {rule \in Items(in.rules) : RuleApplies(rule, in.endpoint)}
      IN  /\ v.reachability \in {"Allowed", "Indeterminate"} =>
               Items(v.matched) = {rule \in concerned : rule.action = "Allow"}
          /\ v.reachability = "Blocked" =>
               \E rule \in concerned : rule.action = "Block" /\ v.matched = <<rule>>
          /\ v.reachability \in {"LocalOnly", "DefaultAction"} => v.matched = <<>>
          /\ \A rule \in Items(v.matched) :
                /\ rule.service \subseteq in.endpoint.services
                /\ rule.program.name \in {NoPath.name, in.endpoint.process_path.name}
          /\ \A i \in DOMAIN answer.profiles :
                Len(answer.profiles[i].allowed)
                  = HowMany(in.rules, LAMBDA rule : rule.enabled /\ rule.action = "Allow"
                                                    /\ rule.direction = "Inbound")

\* A part of a text can be read, and names a port.
WellFormed(part) ==
    \/ part.form = "number" /\ part.value \in 1 .. MaxPort
    \/ part.form = "span" /\ 1 <= part.start /\ part.start <= part.end /\ part.end <= MaxPort
    \/ part.form = "word" /\ part.word \in Keywords \cup {"any", "*"}

Names(part, port) ==
    \/ part.form = "number" /\ part.value = port
    \/ part.form = "span" /\ port \in part.start .. part.end
    \/ part.form = "word"

\* A text of ports is refused or opens exactly the ports its parts name (port_spec.rs).
PortsAreRead ==
    Told("ports") =>
      LET spec == answer.spec
      IN  /\ spec # Failed <=> \A i \in DOMAIN in.text : WellFormed(in.text[i])
          /\ spec # Failed => \A port \in in.probes :
               SpecMatches(spec, port) <=> \E i \in DOMAIN in.text : Names(in.text[i], port)

\* The filters of an instance in a table, where the last row counts, and what they name.
FilterRow(table, instance_id) ==
    LET rows == {i \in DOMAIN table : table[i].instance_id = instance_id}
    IN  IF rows = {} THEN {} ELSE {table[Max(rows)]}

Filters(table, row, field) ==
    {filter[field] : filter \in FilterRow(table, row.instance_id)} \ {Absent}

\* What is to become a rule, what of it can be read, and what a rule keeps of its row: of a
\* program or a service called "any" it says nothing, since WMI's word for no restriction
\* (firewall_join.rs:136-137) is kept as if it were a name.
Durable ==
    {i \in DOMAIN in.rules : in.rules[i].policy_store # 2 /\ in.rules[i].direction = 1}

Readable(row) ==
    /\ row.action \in {1, 2} /\ row.policy_store \in {0, 1, 3}
    /\ \A filter \in FilterRow(in.ports, row.instance_id) : ParsePortSpec(filter.local_port) # Failed
    /\ "" \notin Filters(in.programs, row, "program") \cup Filters(in.services, row, "service")

Protocols(row) ==
    LET named == Filters(in.ports, row, "protocol") \ {"any"}
    IN  IF named = {} THEN {"tcp", "udp"} ELSE named \cap {"tcp", "udp"}

Keeps(rule, row) ==
    /\ rule.rule_id = row.instance_id /\ rule.enabled = (row.enabled # 0)
    /\ rule.action = IF row.action = 1 THEN "Allow" ELSE "Block"
    /\ rule.protocol \in Protocols(row)
    /\ \A filter \in FilterRow(in.ports, row.instance_id) :
          filter.local_port # <<>> => rule.port_spec = ParsePortSpec(filter.local_port)
    /\ LET programs == Filters(in.programs, row, "program")
       IN  programs = {"any"} \/ programs = IF rule.program = NoPath THEN {} ELSE {rule.program.name}
    /\ LET services == Filters(in.services, row, "service")
       IN  services = {"any"} \/ services = rule.service

\* From WMI's tables to rules: every durable inbound row becomes a rule for each protocol it is
\* about, with the filters of its own instance and no other's; a row that cannot be read fails
\* the whole reading, so no restriction and no rule is lost (firewall_join, firewall_mapping).
RestrictionsSurvive ==
    Told("mapping") =>
      LET readable == \A i \in Durable : Readable(in.rules[i])
      IN  /\ Len(answer.raws) = Cardinality(Durable)
          /\ answer.rules # Failed <=> readable
          /\ readable =>
               /\ \A rule \in Items(answer.rules) : \E i \in Durable : Keeps(rule, in.rules[i])
               /\ \A i \in Durable :
                    {rule.protocol : rule \in {r \in Items(answer.rules) : Keeps(r, in.rules[i])}}
                      = Protocols(in.rules[i])

\* From what the system's tables say to the verdict, nothing is read that is not there and
\* nothing restrictive is lost on the way.
VerdictsAreSound ==
    VerdictFollowsFromRules /\ VerdictNamesItsRules /\ PortsAreRead /\ RestrictionsSurvive

-----------------------------------------------------------------------------
Holders(snapshot, key) == {e \in Items(snapshot.endpoints) : EndpointKey(e) = key}
HoldersOf(snapshot, key) == HowMany(snapshot.endpoints, LAMBDA e : EndpointKey(e) = key)
KeysAreOwn(snapshot) == Len(snapshot.endpoints) = Cardinality(Keys(snapshot.endpoints))

\* What comes with a key that was not there is told of each of its endpoints, except on an
\* ephemeral port, where it is counted. What changed under a key that stays is told: if an
\* endpoint is like none there was, certainly, and only if two of them differ; where a key is one
\* endpoint's own that is just when they differ, and once. The rules are told of once. The way
\* back tells the same story, and the exit code says whether any of it is grave (drift.rs).
EveryDifferenceIsTold ==
    Told("compare") =>
      LET a == in.baseline
          b == in.current
          keys == Keys(a.endpoints) \cup Keys(b.endpoints)
          ephemeral == {key \in keys : key[3] > EPHEMERAL_PORT_THRESHOLD}
          told(entries, name, key) ==
            HowMany(entries, LAMBDA entry : entry.kind.name = name /\ entry.endpoint_key = key)
          said(name, key) == told(answer.drift.entries, name, key)
          new(from, to, key) == IF Holders(from, key) = {} THEN HoldersOf(to, key) ELSE 0
          Changed(name, What(_, _)) ==
            \A key \in keys :
              LET before == {What(a, e) : e \in Holders(a, key)}
                  after == {What(b, e) : e \in Holders(b, key)}
              IN  /\ before # {} /\ ~(after \subseteq before) => said(name, key) > 0
                  /\ said(name, key) > 0 => \E x \in before, y \in after : x # y
                  /\ said(name, key) <= HoldersOf(b, key)
      IN  /\ \A key \in keys \ ephemeral : /\ said("EndpointAppeared", key) = new(a, b, key)
                                          /\ said("EndpointDisappeared", key) = new(b, a, key)
          /\ \A key \in ephemeral :
               said("EndpointAppeared", key) = 0 /\ said("EndpointDisappeared", key) = 0
          /\ answer.drift.suppressed_ephemeral
               = MapThenSumSet(LAMBDA key : new(a, b, key) + new(b, a, key), ephemeral)
          /\ Changed("ProcessChanged", LAMBDA s, e : e.process_path)
          /\ Changed("SignatureChanged", LAMBDA s, e : e.signature)
          /\ Changed("ReachabilityChanged", ReachabilityIn)
          /\ said("RuleSetChanged", NoKey) = IF a.firewall_rules = b.firewall_rules THEN 0 ELSE 1
          /\ answer.back.suppressed_ephemeral = answer.drift.suppressed_ephemeral
          /\ \A key \in keys : /\ told(answer.back.entries, "EndpointAppeared", key)
                                   = said("EndpointDisappeared", key)
                              /\ told(answer.back.entries, "EndpointDisappeared", key)
                                   = said("EndpointAppeared", key)
          /\ KeysAreOwn(a) /\ KeysAreOwn(b) => Len(answer.back.entries) = Len(answer.drift.entries)
          /\ answer.diff.code = DriftDetected
               <=> \E i \in DOMAIN answer.diff.output :
                     SeverityRank(answer.diff.output[i].severity) >= SeverityRank(in.threshold)

\* Counts, tables and files of one model agree: each endpoint is a row of every table and
\* counted once, each entry is a result, and what leads to a section leads to one that is
\* there (report_model.rs, report_render.rs, html_report).
RenderingsAgree ==
    Told("compare") =>
      LET model == answer.model
          page == answer.page
          sections == SubSeq(page, 3, Len(page) - 1)
          count(table) == MapThenSumSet(LAMBDA x : table[x], DOMAIN table)
      IN  /\ Len(answer.csv) = count(model.rollup.by_exposure)
          /\ Len(answer.csv) = page[2].endpoints_total
          /\ \A r \in Reachabilities : model.rollup.by_reachability[r]
                                         = HowMany(answer.csv, LAMBDA row : row.reachability = r)
          /\ Len(answer.sarif.results) = Len(model.drift)
          /\ \A result \in Items(answer.sarif.results) :
                result.rule_id \in Items(answer.sarif.rules) /\ result.message[3] = <<>>
          /\ SameItems(page[2].drift_by_severity, model.drift)
          /\ SameItems(page[2].drift_by_kind, model.drift)
          /\ Ascending(page[2].drift_by_severity, WorstFirst)
          /\ Len(sections) = Len(model.hosts)
          /\ \A i \in DOMAIN sections :
                /\ SameItems(sections[i].by_port, sections[i].by_exposure)
                /\ SameItems(sections[i].by_port, sections[i].by_reachability)
                /\ Len(sections[i].by_port) = Len(model.hosts[i].endpoints)
                /\ Ascending(sections[i].by_reachability,
                             LAMBDA row : <<ReachabilityRank(row.reachability), row.port>>)
                /\ \A j \in DOMAIN sections : sections[i].sort_group = sections[j].sort_group => i = j
          /\ {n.target : n \in Items(page[2].nav_entries)}
               = {[anchor |-> sections[i].anchor] : i \in DOMAIN sections}
          /\ {n.target : n \in Items(answer.files.index.nav_entries)} = DOMAIN answer.files.files

\* The one sentence singled out is there when there is something to say, and nothing worse is
\* left unsaid; a summary without findings has none (annotations.rs).
TheWorstIsSaid ==
    Told("compare") =>
      LET model == answer.model
          said == answer.page[2].annotation
          severities == {entry.severity : entry \in Items(model.drift)}
          listening == {e \in UNION {Items(host.endpoints) : host \in Items(model.hosts)} :
                          IsExposedUnsigned(e)}
      IN  /\ said = <<>> <=> severities = {} /\ listening = {}
          /\ said # <<>> => /\ \A s \in severities : SeverityRank(s) <= SeverityRank(said[1].severity)
                            /\ listening # {} => said[1].severity = "Critical"
          /\ HasNoFindings(model.rollup) => said = <<>>

\* A shape within an area of a canvas, and shapes that keep out of each other's way.
Inside(shape, x, y, w, h) ==
    /\ shape.x >= x /\ shape.x + shape.w <= x + w
    /\ shape.y >= y /\ shape.y + shape.h <= y + h

Apart(a, b) == \/ a.x + a.w <= b.x \/ b.x + b.w <= a.x
               \/ a.y + a.h <= b.y \/ b.y + b.h <= a.y

Holds(diagram) ==
    \A i \in DOMAIN diagram.shapes :
       /\ Inside(diagram.shapes[i], 0, 0, diagram.width, diagram.height)
       /\ \A j \in 1 .. i - 1 : Apart(diagram.shapes[i], diagram.shapes[j])

\* The map of a host has a box for each endpoint, or one for all of them when they are too many.
\* The quadrant has no such limit: its markers keep to the cell of what they say as long as a
\* cell holds them, twelve rows of twelve, and grow out of it, and of the canvas, beyond that
\* (exposure_map.rs, trust_quadrant.rs:70-86).
CELL_HOLDS == 144

MapHolds(host, map) ==
    /\ Holds(map)
    /\ Len(host.endpoints) > NODE_DENSITY_THRESHOLD => Len(map.shapes) = 1
    /\ Len(host.endpoints) <= NODE_DENSITY_THRESHOLD =>
         \A e \in Items(host.endpoints) :
            HowMany(map.shapes, LAMBDA shape : shape.w = PORT_WIDTH /\ shape.shows = e)
              = HowMany(host.endpoints, LAMBDA x : x = e)

QuadrantHolds(host, quadrant) ==
    LET open(e) == e.exposure = "AllInterfaces"
        untrusted(e) == e.signature_status # "Signed"
        crowd == [o, u \in BOOLEAN |-> HowMany(host.endpoints, LAMBDA x : <<open(x), untrusted(x)>> = <<o, u>>)]
    IN  /\ [i \in DOMAIN quadrant.shapes |-> quadrant.shapes[i].shows] = host.endpoints
        /\ \A i \in DOMAIN quadrant.shapes :
             LET e == host.endpoints[i]
             IN  crowd[open(e), untrusted(e)] <= CELL_HOLDS =>
                   /\ Inside(quadrant.shapes[i], IF open(e) THEN 200 ELSE 40,
                             IF untrusted(e) THEN 200 ELSE 40, CELL_SIZE, CELL_SIZE)
                   /\ \A j \in 1 .. i - 1 : Apart(quadrant.shapes[i], quadrant.shapes[j])

\* No shape of a report leaves its canvas or lies on another, and none is left out, for as many
\* endpoints as the diagrams are made for and at most one bar for each kind of profile
\* (html_report/diagrams, svg.rs).
DiagramsHold ==
    /\ Told("compare") =>
         LET model == answer.model
             sections == SubSeq(answer.page, 3, Len(answer.page) - 1)
         IN  /\ \A i \in DOMAIN sections : /\ MapHolds(model.hosts[i], sections[i].exposure_map)
                                           /\ QuadrantHolds(model.hosts[i], sections[i].trust_quadrant)
                                           /\ Holds(sections[i].profile_bar_chart)
             /\ \A timeline \in Items(answer.page[2].drift_timeline) : Holds(timeline)
    /\ Told("draw") =>
         /\ MapHolds(in, answer.exposure_map) /\ QuadrantHolds(in, answer.trust_quadrant)
         /\ Holds(answer.profile_bar_chart)

\* Endpoints with keys of their own give one snapshot whatever order they were found in
\* (snapshot.rs), so that only what changed is told.
OrderIsForgotten ==
    /\ Told("gather")
    /\ Len(in.endpoints) = Cardinality(Keys(in.endpoints))
    /\ Len(in.rules) = Cardinality({rule.rule_id : rule \in Items(in.rules)})
    => answer.found = answer.reordered

\* What changed is told, all of it and once, and every rendering tells the same.
DifferencesAreTold ==
    /\ EveryDifferenceIsTold /\ RenderingsAgree /\ TheWorstIsSaid /\ DiagramsHold
    /\ OrderIsForgotten

\* "Two snapshots built from the same underlying data - regardless of the order the collector
\* happened to enumerate it in - serialize to byte-identical JSON" (snapshot.rs:10-13). Two
\* sockets may share a port (SO_REUSEPORT); the sort is stable, so they stay as found.
SameDataSameSnapshot == Told("gather") => answer.found = answer.reordered

\* "An applicable allow rule uses a dynamic port keyword whose concrete range cannot be
\* statically resolved here. Never collapsed into Allowed" (reachability.rs:22-25). A list is
\* not asked for the keywords in it, although they match whatever the port is.
UnresolvedPortsAreNotAllowed ==
    Told("verdict") =>
      (answer.verdict.reachability = "Allowed"
         => \E rule \in Items(answer.verdict.matched) :
              LET spec == rule.port_spec
              IN  spec.kind = "list" => \E i \in DOMAIN spec.specs :
                     spec.specs[i].kind # "dynamic" /\ PartMatches(spec.specs[i], in.endpoint.port))

-----------------------------------------------------------------------------
\* A name stands on what was seen: an identity above "assigned" on some evidence that is not a
\* port, its version on a text it matched, and the port's own name is never more than assigned
\* (fingerprint.rs, service_identity.rs, port_registry.rs).
IdentitiesStandOnEvidence ==
    Told("identify") =>
      /\ \A name \in Items(answer.names) :
           /\ name.evidence # <<>> /\ Items(name.evidence) \subseteq Items(in.evidence)
           /\ name.confidence # "Assigned" => \E e \in Items(name.evidence) : ~IsPortAssignmentOnly(e)
           /\ \A v \in name.version : v # "" /\ \E e \in Items(name.evidence) :
                                        \E word \in e.text : word[2] = v
      /\ \A name \in answer.claimed :
           /\ name.evidence # <<>>
           /\ name.confidence # "Assigned" => \E e \in Items(name.evidence) : ~IsPortAssignmentOnly(e)
      /\ \A a \in answer.assigned :
           a.confidence = "Assigned" /\ \A e \in Items(a.evidence) : IsPortAssignmentOnly(e)
      /\ \A a \in answer.assigned : \A name \in Items(answer.names) :
           (\E m \in answer.mismatches : m.observed = name) <=> a.name # name.name
      /\ answer.assigned = {} => answer.mismatches = {}

\* What the host says of itself stands beside what a probe infers, and neither is turned into
\* the other: a conflict needs both (reconciliation.rs).
BothViewsStand ==
    Told("identify") =>
      LET both == answer.reconciled
      IN  /\ both.local = in.local /\ both.remote = answer.names
          /\ in.local.kind = "Inferred" => both.local_identity = Unset /\ ~both.conflict
          /\ answer.names = <<>> => ~both.conflict
          /\ both.conflict => both.local_identity \cap both.remote_identity = {}

\* The groups of a pattern, by the parentheses that are not escaped.
Groups(p) ==
    {g \in (DOMAIN p) \X (DOMAIN p) :
       /\ g[1] < g[2] /\ Symbol(p, g[1], "(") /\ Symbol(p, g[2], ")")
       /\ Depth(p, g[1], g[2]) = 0 /\ \A k \in g[1] .. g[2] - 1 : Depth(p, g[1], k) > 0}
Quantifies(p, k) ==
    Symbol(p, k, "*") \/ (Symbol(p, k, "?") /\ ~(k > 1 /\ Symbol(p, k - 1, "(")))

\* The check of a pattern refuses one that is too long, and finds the groups that hold a
\* quantifier of their own and are quantified, and nothing else (fingerprint.rs).
NestedQuantifiersAreFound ==
    Told("pattern") =>
      (answer <=> /\ Len(in) <= MAX_PATTERN_LEN
                  /\ \A g \in Groups(in) :
                       ~ /\ \E k \in g[1] + 1 .. g[2] - 1 : Quantifies(in, k) /\ Depth(in, g[1], k) = 1
                         /\ g[2] < Len(in) /\ in[g[2] + 1] \in Quantifiers)

HowManyFindings(findings, what) == HowMany(findings, LAMBDA f : f[1] = what)

\* Every weak key of a chain is a finding, not the leaf's only; a link that does not hold is
\* one; and the evidence repeats them all. Nothing is found in a chain nobody could read
\* (tls_probe.rs).
FindingsAreComplete ==
    Told("tls") =>
      LET chain == answer.chain
      IN  /\ HowManyFindings(answer.findings, "weak-key")
               = Cardinality({i \in DOMAIN in.certs : in.certs[i].parses /\ (
                    \/ in.certs[i].key_algorithm = "rsa" /\ in.certs[i].key_bits < MIN_RSA_KEY_BITS
                    \/ in.certs[i].key_algorithm = "ec" /\ in.certs[i].key_bits < MIN_EC_KEY_BITS
                    \/ in.certs[i].key_algorithm \in {"rsa", "ec"} /\ ~in.certs[i].key_parses)})
          /\ chain = <<>> => answer.findings = <<>>
          /\ HowManyFindings(answer.findings, "expired")
               + HowManyFindings(answer.findings, "expiring") <= 1
          /\ \A i \in DOMAIN answer.findings : \E j \in DOMAIN answer.evidence :
                answer.evidence[j] = Banner(answer.findings[i])
          /\ HowManyFindings(answer.findings, "incomplete-chain") = 1
               <=> \E i \in 1 .. Len(chain) - 1 : chain[i].issuer # chain[i + 1].subject

\* Names are given for evidence, findings for what was seen.
NamesAreEarned ==
    /\ IdentitiesStandOnEvidence /\ BothViewsStand /\ NestedQuantifiersAreFound
    /\ FindingsAreComplete

-----------------------------------------------------------------------------
\* A body never outgrows its cap, read or decoded, and is the beginning of what was sent; a
\* header that may hold a secret is never quoted (prober.rs).
ResponsesAreContained ==
    Told("response") =>
      /\ Len(answer.body) <= in.cap
      /\ IsPrefix(answer.body, FlattenSeq(in.chunks))
      /\ Len(answer.body) < in.cap => answer.body = FlattenSeq(in.chunks)
      /\ Total(answer.text) <= Len(answer.body)
      /\ \A i \in DOMAIN answer.evidence :
            answer.evidence[i].kind = "header" => answer.evidence[i].name \notin REDACTED_HEADERS

\* The claims on a text do not overlap; every match is covered or touched by one; what is left
\* is the text outside them, in order, with one marker for each (redaction.rs).
SecretsAreTakenOut ==
    Told("redact") =>
      LET claims == Claimed(in.matches)
          spans == Items(FlattenSeq(in.matches))
          hidden == UNION {c.start .. c.end - 1 : c \in Items(claims)}
          left == Selected(answer.output, LAMBDA x : x[1] = "text")
      IN  /\ \A i, j \in DOMAIN claims : i < j => claims[i].end <= claims[j].start
          /\ \A span \in spans : span \in Items(claims)
                                   \/ (span.start .. span.end - 1) \cap hidden # {}
          /\ [i \in DOMAIN left |-> left[i][2]]
               = Selected([k \in 1 .. in.length |-> k - 1], LAMBDA k : k \notin hidden)
          /\ Len(answer.output) = Len(left) + Len(claims)
          /\ Len(answer.markers) = Len(claims)

\* The messages of a buffer that are heard: whole ones, in front of anything else and up to the
\* one that ends the dump.
Ends(message) == message.type \in {"done", "error"}
Intact(message) == message.len >= HEADER /\ message.whole
Heard(buffer) ==
    {buffer[j] : j \in {j \in DOMAIN buffer : /\ \A k \in 1 .. j : Intact(buffer[k])
                                             /\ \A k \in 1 .. j - 1 : ~Ends(buffer[k])}}

\* The chains of the input hook among messages, and a rule that says of everything what the
\* policy of a chain says of what no rule of it decides.
InputChains(messages) ==
    {chain \in {ParseChainPayload(m.payload) : m \in {m \in messages : m.type = "newchain"}} :
       chain.hooknum = {LOCAL_IN}}

StandsFor(rule, chain) ==
    /\ rule.rule_id = <<chain.table, chain.name>> /\ rule.port_spec = Anything
    /\ rule.action = IF chain.policy = {DROP} THEN "Block" ELSE "Allow"

\* A ruleset is read from a dump that was ended, and not by an error; every chain of the input
\* hook heard before the end, in whatever buffer, is a rule for both protocols with the chain's
\* own policy, and no rule is made up; without a chain iptables has none either. A message that
\* is cut off ends its buffer unnoticed (nft_wire.rs:147-171): what was behind it in that
\* buffer is not missed. A payload that is truncated or of another version is an error, and what
\* restricts no port said so; a socket has a line, and its owner held it (payload.rs, proc_net.rs).
SourcesAreWhole ==
    /\ Told("netfilter") /\ answer.ruleset # Failed =>
         LET ends == {i \in DOMAIN in.buffers : \E m \in Heard(in.buffers[i]) : Ends(m)}
             heard == UNION {Heard(in.buffers[i]) : i \in 1 .. Min(ends)}
         IN  /\ ends # {} /\ \A m \in heard : m.type # "error"
             /\ InputChains(heard) = {} => ~in.legacy
             /\ answer.rules # Failed
             /\ \A chain \in InputChains(heard) : \A protocol \in {"tcp", "udp"} :
                  \E rule \in Items(answer.rules) : StandsFor(rule, chain) /\ rule.protocol = protocol
             /\ \A rule \in Items(answer.rules) : \E chain \in InputChains(heard) : StandsFor(rule, chain)
    /\ Told("payload") =>
         /\ answer # Failed => ~in.truncated /\ in.schema_version = SCHEMA_VERSION
         /\ answer # Failed =>
              Len(answer.endpoints) = Len(in.tcp_endpoints) + Len(in.udp_endpoints)
              /\ \A i \in DOMAIN answer.firewall_rules :
                   answer.firewall_rules[i].local_port_spec = <<>>
                     <=> Items(in.firewall_rules[i].local_ports) \subseteq {Word("any"), Word("")}
    /\ Told("proc") =>
         /\ \A e \in Items(answer) : \E line \in Items(Tail(in.lines)) :
              /\ line.port = e.local_port /\ (in.protocol = "tcp" => line.state = TCP_LISTEN)
              /\ \A pid \in e.owning_pid : \E process \in Items(in.processes) :
                   process.pid = pid /\ line.inode \in process.sockets /\ process.readable
         /\ Len(answer) < Len(in.lines)

\* The layers of the configuration, last wins, and nothing unknown is passed over; what ends
\* with an error shows no report, and only readable, whole inputs end clean (config, cli.rs,
\* application/report.rs, inventory.rs).
CommandsEndTruly ==
    /\ Told("config") =>
         /\ ~in.config.said <=> answer # Failed /\ ~answer.store.said
         /\ answer # Failed /\ in.config.said =>
              /\ \A v \in in.variables : v.separated /\ v.value # Failed
              /\ \A v \in in.variables : v.section = "remote" => answer.remote[v.field] = v.value
              /\ \A key \in DOMAIN in.file \ {EnvKey(v) : v \in in.variables} :
                   key[1] = "remote" => answer.remote[key[2]] = in.file[key]
    /\ Told("report") =>
         /\ answer.code = ConfigOrArgError
               <=> in.args.split # Nothing /\ (in.args.format # "html" \/ in.args.output # Nothing)
         /\ answer.code = Clean => in.writable /\ LoadSnapshot(in.args.target, in.store) # Failed
         /\ answer.code # Clean => answer.output = Nothing
    /\ Told("inventory") =>
         (answer.code = Clean <=> /\ in.readable /\ in.entries # Failed /\ in.entries # <<>>
                                  /\ \A i \in DOMAIN in.entries : HostParses(in.entries[i]))

\* A manifest verifies just when every artifact is still what it was, wherever it stands in the
\* list; fonts are replaced one by one, and the manifest names them only when all of them are
\* new; an accepted annotation has checks and reasons, known ones (xtask).
ReleasesAreWhole ==
    /\ Told("release") =>
         /\ answer.verified <=> \A a \in Items(in.artifacts) :
              a.name \in DOMAIN in.directory /\ in.directory[a.name] = a.content
         /\ answer.fonts.manifest # in.assets.manifest => answer.fonts.ok
         /\ answer.fonts.ok => \A f \in Items(in.fonts) : answer.fonts.assets[f] = "new"
         /\ answer.built => "vcruntime" \notin in.tools.imports /\ in.tools.objdump = "ok"
    /\ Told("scorecard") /\ answer =>
         \A i \in DOMAIN in : in[i].content = "- checks:" =>
           \E j \in i + 1 .. Len(in) : in[j].content = "reasons:"

\* The metadata services of the clouds are never probed, whatever else is excluded
\* (application/identify.rs).
ExclusionsHold ==
    Told("exclude") =>
      /\ in.address \in {"169.254.169.254", "169.254.170.2"} => answer
      /\ answer <=> \/ in.port \in in.ports
                    \/ in.address \in UNION (in.cidrs \cup DEFAULT_EXCLUDED_CIDRS)

\* Texts are contained: what may not be shown is not, what was not read is not made up.
TextsAreContained ==
    /\ ResponsesAreContained /\ SecretsAreTakenOut /\ SourcesAreWhole /\ CommandsEndTruly
    /\ ReleasesAreWhole /\ ExclusionsHold

=============================================================================
