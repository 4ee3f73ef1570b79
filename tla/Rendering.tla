-------------------------------- MODULE Rendering --------------------------------
(***************************************************************************)
(* What the renderers make of a report model: CSV and SARIF                *)
(* (domain/report_render.rs), the HTML pages with their sorted tables      *)
(* (adapters/html_report) and the diagrams in them (html_report/diagrams), *)
(* which place shapes on a canvas.                                         *)
(*                                                                         *)
(* Labels are the values they name; where a table is sorted by label, the  *)
(* label's place in the alphabet stands for it.                            *)
(***************************************************************************)
EXTENDS ReportModel

Position(order, x) == PositionIn(order, x) - 1

-----------------------------------------------------------------------------
\* report_render.rs: the header is there whatever follows.
CsvRow(host, e) ==
    [host_id |-> host.host_id, protocol |-> e.protocol, bind_address |-> e.bind_address,
     port |-> e.port, process_path |-> e.process_path, hosted_services |-> e.hosted_services,
     signature_status |-> e.signature_status, exposure |-> e.exposure,
     reachability |-> e.reachability]

RenderJson(model) == model \* the view model's own serialization

RenderCsv(model) ==
    FlattenSeq([h \in DOMAIN model.hosts |->
      [i \in DOMAIN model.hosts[h].endpoints |->
         CsvRow(model.hosts[h], model.hosts[h].endpoints[i])]])

DRIFT_RULES == <<"EndpointAppeared", "EndpointDisappeared", "ReachabilityChanged",
                 "ProcessChanged", "SignatureChanged", "RuleSetChanged">>

SarifLevel(severity) ==
    CASE severity = "Low" -> "note"
      [] severity = "Medium" -> "warning"
      [] severity \in {"High", "Critical"} -> "error"

\* A host is named only where it can be no other.
SingleHostId(model) == IF Len(model.hosts) = 1 THEN <<model.hosts[1].host_id>> ELSE <<>>

SarifLocations(host, key) == IF host = <<>> /\ key = NoKey THEN <<>> ELSE <<host, key>>

SarifResult(entry, host) ==
    [rule_id |-> entry.kind.name, level |-> SarifLevel(entry.severity),
     message |-> <<entry.kind, entry.endpoint_key, host>>,
     locations |-> SarifLocations(host, entry.endpoint_key)]

RenderSarif(model) ==
    [rules |-> DRIFT_RULES,
     results |-> [i \in DOMAIN model.drift |->
                    SarifResult(model.drift[i], SingleHostId(model))]]

-----------------------------------------------------------------------------
\* html_report/view.rs: the most urgent verdict first.
Urgency == <<"Allowed", "DefaultAction", "Indeterminate", "Blocked", "LocalOnly">>
ReachabilityRank(reachability) == Position(Urgency, reachability)

TargetStrategyLabel ==
    [Execute |-> "executed remotely", Probe |-> "probed from outside", LocalOnly |-> "itself"]

HtmlRow(e) ==
    [protocol |-> e.protocol, bind_address |-> e.bind_address, port |-> e.port,
     process_path |-> e.process_path, hosted_services |-> e.hosted_services,
     signature |-> e.signature_status, exposure |-> e.exposure, reachability |-> e.reachability,
     command_line |-> e.command_line,
     redactions |-> [i \in DOMAIN e.command_line_redactions |->
                       e.command_line_redactions[i].category]]

PortDensityCells(host) ==
    [i \in DOMAIN host.endpoints |->
       [reachability |-> host.endpoints[i].reachability, port |-> host.endpoints[i].port]]

\* The labels of drift in alphabetical order; a changed verdict's also names both verdicts.
KindLabels == <<"EndpointAppeared", "EndpointDisappeared", "RuleSetChanged", "ProcessChanged",
                "ReachabilityChanged", "SignatureChanged">>
VerdictLabels == <<"Allowed", "Blocked", "DefaultAction", "Indeterminate", "LocalOnly">>

KindLabelKey(kind) ==
    <<Position(KindLabels, kind.name)>>
    \o (IF kind.name # "ReachabilityChanged" THEN <<0, 0>>
        ELSE <<Position(VerdictLabels, kind.before), Position(VerdictLabels, kind.after)>>)

WorstFirst(entry) == <<0 - SeverityRank(entry.severity)>>

DriftRowsBySeverity(entries) ==
    SortByKey(entries, LAMBDA entry : WorstFirst(entry) \o KindLabelKey(entry.kind))

DriftRowsByKind(entries) ==
    SortByKey(entries, LAMBDA entry : KindLabelKey(entry.kind) \o WorstFirst(entry))

-----------------------------------------------------------------------------
\* html_report/diagrams: a shape is where it lies and what it shows.
NODE_DENSITY_THRESHOLD == 60

Snap(value) == (value \div 4) * 4 \* Grid4: nothing is placed off the grid

Rect(x, y, w, h, shows) ==
    [x |-> Snap(x), y |-> Snap(y), w |-> Snap(w), h |-> Snap(h), shows |-> shows]

Canvas(width, height, shapes) ==
    [width |-> Snap(width), height |-> Snap(height), shapes |-> shapes]

\* exposure_map.rs: the host, then each interface and its ports, a row each.
HOST_WIDTH == 200
INTERFACE_WIDTH == 180
PORT_WIDTH == 160

ExposureMapRows(host) ==
    LET interfaces == ArrangedBy({e.bind_address : e \in ToSet(host.endpoints)},
                                 LAMBDA a, b : Rank[a] < Rank[b])
        ports(address) ==
          SortByKey(Selected(host.endpoints, LAMBDA e : e.bind_address = address),
                    LAMBDA e : <<ReachabilityRank(e.reachability), e.port>>)
        rows(address) ==
          LET found == ports(address)
          IN  <<[level |-> 24, wide |-> INTERFACE_WIDTH, shows |-> address]>>
                \o [i \in DOMAIN found |-> [level |-> 48, wide |-> PORT_WIDTH, shows |-> found[i]]]
    IN  <<[level |-> 0, wide |-> HOST_WIDTH, shows |-> host.host_id]>>
        \o FlattenSeq([i \in DOMAIN interfaces |-> rows(interfaces[i])])

ExposureMap(host) ==
    LET rows == ExposureMapRows(host)
    IN  IF Len(host.endpoints) > NODE_DENSITY_THRESHOLD
        THEN Canvas(800, 60, <<Rect(20, 20, 400, 24, Len(host.endpoints))>>)
        ELSE Canvas(800, 40 + 24 * Len(rows),
                    [i \in DOMAIN rows |-> Rect(20 + rows[i].level, 20 + 24 * (i - 1), rows[i].wide,
                                                20, rows[i].shows)])

\* rule_evaluation.rs: the names of the rules behind the verdicts, in the order of precedence.
RulesBehind(host, reachabilities) ==
    {rule.display_name : rule \in UNION {ToSet(e.matched_rules) :
        e \in {e \in ToSet(host.endpoints) : e.reachability \in reachabilities}}}

RuleEvaluation(host) ==
    <<RulesBehind(host, {"Blocked"}), RulesBehind(host, {"Allowed", "Indeterminate"}),
      HowMany(host.endpoints, LAMBDA e : e.reachability = "DefaultAction")>>

\* trust_quadrant.rs: markers fill the quadrant of their endpoint row by row.
CELL_SIZE == 160
MARKERS_PER_ROW == 12

Quadrant(e) == <<e.exposure = "AllInterfaces", e.signature_status # "Signed">>
QuadrantAt(flag) == 40 + IF flag THEN CELL_SIZE ELSE 0

Marker(host, i) ==
    LET e == host.endpoints[i]
        index == HowMany(SubSeq(host.endpoints, 1, i - 1), LAMBDA o : Quadrant(o) = Quadrant(e))
    IN  Rect(QuadrantAt(Quadrant(e)[1]) + 12 + (index % MARKERS_PER_ROW) * 12,
             QuadrantAt(Quadrant(e)[2]) + 12 + (index \div MARKERS_PER_ROW) * 12, 8, 8, e)

TrustQuadrant(host) == Canvas(400, 420, [i \in DOMAIN host.endpoints |-> Marker(host, i)])

\* profile_bar_chart.rs: the longest bar is as high as there is room, none is invisible.
MAX_BAR_HEIGHT == 160

BarHeight(count, most) ==
    LET height == (count * MAX_BAR_HEIGHT) \div most IN IF height < 8 THEN 8 ELSE height

ProfileBarChart(host) ==
    LET allowed(i) == Len(host.profile_ports[i].allowed)
        most == Max({allowed(i) : i \in DOMAIN host.profile_ports} \cup {1})
    IN  Canvas(600, 260,
               [i \in DOMAIN host.profile_ports |->
                  Rect(40 + 160 * (i - 1), 200 - BarHeight(allowed(i), most), 120,
                       BarHeight(allowed(i), most), host.profile_ports[i].profile)])

\* drift_timeline.rs: before, after, or both; the worse the larger.
BASELINE_X == 80
CURRENT_X == 520

TimelineMarkers(entry, i) ==
    LET size == 4 * SeverityRank(entry.severity)
        at(x) == Rect(x - size \div 2, 80 + 24 * i - size \div 2, size, size, entry)
    IN  CASE entry.kind.name = "EndpointAppeared" -> <<at(CURRENT_X)>>
          [] entry.kind.name = "EndpointDisappeared" -> <<at(BASELINE_X)>>
          [] OTHER -> <<at(BASELINE_X), at(CURRENT_X)>>

DriftTimeline(entries) ==
    Canvas(600, 120 + 24 * (IF entries = <<>> THEN 1 ELSE Len(entries)),
           FlattenSeq([i \in DOMAIN entries |-> TimelineMarkers(entries[i], i)]))

-----------------------------------------------------------------------------
\* html_report: pages. The radio group of a section is named by its index, so no two share one.
HostSectionTemplate(host, index) ==
    LET rows == [i \in DOMAIN host.endpoints |-> HtmlRow(host.endpoints[i])]
        wideness(row) == 0 - PositionIn(Exposures, row.exposure)
    IN  [anchor |-> host.host_id, sort_group |-> index, fidelity |-> host.fidelity,
         strategy |-> TargetStrategyLabel[host.strategy], endpoint_count |-> Len(rows),
         by_port |-> SortByKey(rows, LAMBDA row : <<row.port>>),
         by_exposure |-> SortByKey(rows, LAMBDA row : <<wideness(row), row.port>>),
         by_reachability |-> SortByKey(rows, LAMBDA row : <<ReachabilityRank(row.reachability),
                                                            row.port>>),
         grid_cells |-> PortDensityCells(host), exposure_map |-> ExposureMap(host),
         rule_evaluation |-> RuleEvaluation(host), trust_quadrant |-> TrustQuadrant(host),
         profile_bar_chart |-> ProfileBarChart(host)]

NavEntry(host, target) ==
    [host |-> host.host_id, fidelity |-> host.fidelity, endpoint_count |-> Len(host.endpoints),
     target |-> target]

\* The annotation's leader line is decoration: it names the diagram, it does not point at it.
SummaryTemplate(model, Target(_)) ==
    [executive_summary |-> ExecutiveSummary(model.rollup), annotation |-> SelectAnnotation(model),
     rollup |-> model.rollup,
     endpoints_total |-> Total([h \in DOMAIN model.hosts |-> Len(model.hosts[h].endpoints)]),
     nav_entries |-> [h \in DOMAIN model.hosts |->
                        NavEntry(model.hosts[h], Target(model.hosts[h]))],
     drift_by_severity |-> DriftRowsBySeverity(model.drift),
     drift_by_kind |-> DriftRowsByKind(model.drift),
     drift_timeline |-> When(model.drift # <<>>, DriftTimeline(model.drift))]

Sections(model) ==
    [h \in DOMAIN model.hosts |-> HostSectionTemplate(model.hosts[h], h - 1)]

AnchorFor(host) == [anchor |-> host.host_id]
SplitFileName(host) == [file |-> host.host_id]

\* One document: the head with the summary, the sections, the closing tags.
WriteReportStreaming(model) ==
    <<"head", SummaryTemplate(model, AnchorFor)>> \o Sections(model) \o <<"tail">>

\* A directory: a file for each host and then the index. A second section of a host is written
\* over the first.
WriteReportSplit(model) ==
    LET names == {SplitFileName(host) : host \in ToSet(model.hosts)}
        last(name) == Max({h \in DOMAIN model.hosts : SplitFileName(model.hosts[h]) = name})
    IN  [index |-> SummaryTemplate(model, SplitFileName),
         files |-> [name \in names |-> Sections(model)[last(name)]]]

=============================================================================
