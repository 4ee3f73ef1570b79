----------------------------- MODULE FirewallRules -----------------------------
(***************************************************************************)
(* How the firewall rules of a host become the rules the verdict is taken  *)
(* over: WMI rows joined by instance id (windows_collector/firewall_join   *)
(* and firewall.rs), or nftables base chains (linux_collector/nft_wire.rs),*)
(* give raw rules of text; firewall_mapping.rs parses those into           *)
(* FirewallRule values.                                                    *)
(*                                                                         *)
(* A raw text is a word modulo case and surrounding blanks; "absent" is an *)
(* Option that is None.                                                    *)
(***************************************************************************)
EXTENDS Reachability

Absent == "absent"

-----------------------------------------------------------------------------
\* The FromStr of the domain's enumerations.
ParseAction(text) ==
    CASE text = "allow" -> "Allow"
      [] text \in {"block", "deny"} -> "Block"
      [] OTHER -> Failed

ParseDirection(text) ==
    CASE text \in {"inbound", "in"} -> "Inbound"
      [] text \in {"outbound", "out"} -> "Outbound"
      [] OTHER -> Failed

ParsePolicyStore(text) ==
    CASE text \in {"local", "nftables"} -> "Local"
      [] text \in {"grouppolicy", "gpo"} -> "GroupPolicy"
      [] text = "dynamic" -> "Dynamic"
      [] text \in {"static", "persistentstore"} -> "Static"
      [] OTHER -> Failed

ParseProtocol(text) == IF text \in {"tcp", "udp"} THEN text ELSE Failed

ParseProfileKind(text) ==
    IF text \in {"domain", "private", "public"} THEN text ELSE Failed

\* A path or a service name must hold something.
ParseName(text) == IF text = "" THEN Failed ELSE text

-----------------------------------------------------------------------------
\* firewall_mapping.rs
ParsedPorts(raw) ==
    IF raw.local_port_spec = <<>> THEN Anything ELSE ParsePortSpec(raw.local_port_spec)

ParsedProgram(raw) ==
    CASE raw.program = Absent -> NoPath
      [] raw.program # Absent /\ ParseName(raw.program) = Failed -> Failed
      [] OTHER -> Path(ParseName(raw.program), "lower")

ParsedService(raw) ==
    CASE raw.service = Absent -> {}
      [] raw.service # Absent /\ ParseName(raw.service) = Failed -> Failed
      [] OTHER -> {ParseName(raw.service)}

\* A rule id that is no UUID is hashed into one: equal texts give equal ids.
RuleFor(raw, protocol) ==
    [rule_id |-> raw.rule_id, display_name |-> raw.display_name,
     direction |-> ParseDirection(raw.direction), action |-> ParseAction(raw.action),
     protocol |-> protocol, port_spec |-> ParsedPorts(raw), program |-> ParsedProgram(raw),
     service |-> ParsedService(raw), enabled |-> raw.enabled,
     policy_store |-> ParsePolicyStore(raw.policy_store)]

\* Every text but the protocol's must parse; a protocol the tool does not track gives no rule,
\* and no protocol gives one rule for each.
RulesFromRaw(raw) ==
    LET protocols == IF raw.protocol = Absent THEN <<"tcp", "udp">>
                     ELSE IF ParseProtocol(raw.protocol) = Failed THEN <<>> ELSE <<raw.protocol>>
        parsed == RuleFor(raw, Absent)
    IN  IF \E field \in DOMAIN parsed : parsed[field] = Failed THEN Failed
        ELSE [i \in DOMAIN protocols |-> RuleFor(raw, protocols[i])]

\* One rule that does not parse fails them all.
FirewallRulesFromRaw(raws) ==
    LET each == [i \in DOMAIN raws |-> RulesFromRaw(raws[i])]
    IN  IF \E i \in DOMAIN each : each[i] = Failed THEN Failed ELSE FlattenSeq(each)

ProfileFromRaw(raw) ==
    LET profile == [profile |-> ParseProfileKind(raw.name), enabled |-> raw.enabled,
                    default_inbound_action |-> ParseAction(raw.default_inbound_action),
                    default_outbound_action |-> ParseAction(raw.default_outbound_action)]
    IN  IF \E f \in DOMAIN profile : profile[f] = Failed THEN Failed ELSE profile

ProfilesFromRaw(raws) ==
    LET each == [i \in DOMAIN raws |-> ProfileFromRaw(raws[i])]
    IN  IF \E i \in DOMAIN each : each[i] = Failed THEN Failed ELSE each

-----------------------------------------------------------------------------
\* windows_collector/firewall_join.rs: a number the table does not know stays a number, which
\* the parse above then refuses.
DirectionText(n) == CASE n = 1 -> "inbound" [] n = 2 -> "outbound" [] OTHER -> "number"

ActionText(n) == CASE n = 1 -> "allow" [] n = 2 -> "block" [] OTHER -> "number"

PolicyStoreText(n) ==
    CASE n = 0 -> "local" [] n = 1 -> "grouppolicy" [] n = 2 -> "dynamic" [] n = 3 -> "static"
      [] OTHER -> "number"

\* The filter of an instance: the last of its rows, or one of absent fields.
FilterOf(filters, id, field, default) ==
    LET rows == {i \in DOMAIN filters : filters[i].instance_id = id}
    IN  IF rows = {} THEN default ELSE filters[Max(rows)][field]

NoneIfAny(text) == IF text = "any" THEN Absent ELSE text

RuleFromWmi(rule, port_filters) ==
    LET ports == FilterOf(port_filters, rule.instance_id, "local_port", <<>>)
    IN  [rule_id |-> rule.instance_id, display_name |-> rule.display_name,
         direction |-> DirectionText(rule.direction), action |-> ActionText(rule.action),
         protocol |-> NoneIfAny(FilterOf(port_filters, rule.instance_id, "protocol", Absent)),
         local_port_spec |-> IF ports = <<Word("any")>> THEN <<>> ELSE ports,
         program |-> Absent, service |-> Absent, enabled |-> rule.enabled # 0,
         policy_store |-> PolicyStoreText(rule.policy_store)]

\* The program and the service are taken as they are: "Any" is not read as no filter.
AssembleRules(rules, port_filters, app_filters, service_filters) ==
    [i \in DOMAIN rules |->
       [RuleFromWmi(rules[i], port_filters) EXCEPT
          !.program = FilterOf(app_filters, rules[i].instance_id, "program", Absent),
          !.service = FilterOf(service_filters, rules[i].instance_id, "service", Absent)]]

\* firewall.rs: dynamic rules are left out by the query, outbound ones after the join.
QueryInboundRules(rules, port_filters, app_filters, service_filters) ==
    LET durable == Selected(rules, LAMBDA rule : rule.policy_store # 2)
    IN  Selected(AssembleRules(durable, port_filters, app_filters, service_filters),
                  LAMBDA raw : raw.direction = "inbound")

ProfilesFromWmi(profiles) ==
    [i \in DOMAIN profiles |->
       [name |-> profiles[i].name, enabled |-> profiles[i].enabled # 0,
        default_inbound_action |-> ActionText(profiles[i].default_inbound_action),
        default_outbound_action |-> ActionText(profiles[i].default_outbound_action)]]

=============================================================================
