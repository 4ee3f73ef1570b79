----------------------------- MODULE Reachability -----------------------------
(***************************************************************************)
(* The firewall's grammar and the verdict over it: port specifications     *)
(* (domain/port_spec.rs), exposure (domain/exposure.rs), the verdict of    *)
(* the rules over an endpoint (domain/reachability.rs) and the ports each  *)
(* profile lets in (domain/profile_ports.rs).                              *)
(*                                                                         *)
(* A text is its parts: a port text is the sequence of its comma-separated *)
(* parts, each a word (modulo case), a number or a span; a path is a name  *)
(* and the casing it is spelled with, and may hold a placeholder.          *)
(***************************************************************************)
EXTENDS Selection

CONSTANTS
    OnWindows, \* cfg(windows)
    Rank,      \* the order of protocols, addresses, rule, host and scan ids, and profiles
    Failed     \* the Err of a conversion

MaxPort == 65535

-----------------------------------------------------------------------------
\* domain/port.rs and domain/port_spec.rs
Word(w) == [form |-> "word", word |-> w]
Number(n) == [form |-> "number", value |-> n]
Span(a, b) == [form |-> "span", start |-> a, end |-> b]

Keywords == {"rpc", "rpcepmap", "iphttpsin", "mdns", "teredo", "playtodiscovery"}

Anything == [kind |-> "any"]
Single(p) == [kind |-> "single", port |-> p]
PortRange(a, b) == [kind |-> "range", start |-> a, end |-> b]
Listed(specs) == [kind |-> "list", specs |-> specs]
Dynamic(k) == [kind |-> "dynamic", keyword |-> k]

PortOf(n) == IF n \in 1..MaxPort THEN n ELSE Failed

RangeOf(a, b) ==
    IF a \in 1..MaxPort /\ b \in 1..MaxPort /\ a <= b THEN PortRange(a, b) ELSE Failed

ParsePart(part) ==
    CASE part.form = "word" /\ part.word \in {"*", "any"} -> Anything
      [] part.form = "word" /\ part.word \in Keywords -> Dynamic(part.word)
      [] part.form = "span" -> RangeOf(part.start, part.end)
      [] part.form = "number" /\ PortOf(part.value) # Failed -> Single(part.value)
      [] OTHER -> Failed

\* Only the whole text is asked for a comma, so a list never holds a list.
ParsePortSpec(text) ==
    IF Len(text) = 1 THEN ParsePart(text[1])
    ELSE LET specs == [i \in DOMAIN text |-> ParsePart(text[i])]
         IN  IF \E i \in DOMAIN specs : specs[i] = Failed THEN Failed ELSE Listed(specs)

PartMatches(spec, port) ==
    CASE spec.kind = "single" -> spec.port = port
      [] spec.kind = "range" -> port \in spec.start .. spec.end
      [] OTHER -> TRUE

SpecMatches(spec, port) ==
    IF spec.kind = "list"
    THEN \E i \in DOMAIN spec.specs : PartMatches(spec.specs[i], port)
    ELSE PartMatches(spec, port)

\* The label of a specification: what it names, or only how many when a list is long.
LIST_SUMMARY_THRESHOLD == 4

DisplayLabel(spec) ==
    IF spec.kind = "list" /\ Len(spec.specs) > LIST_SUMMARY_THRESHOLD
    THEN [ports |-> Len(spec.specs)] ELSE [names |-> spec]

-----------------------------------------------------------------------------
\* domain/bind_address.rs, domain/exposure.rs: an address as far as its class goes. An IPv4
\* address mapped into IPv6 is neither loopback nor unspecified to the standard library.
Loopbacks == {"127.0.0.1", "127.8.8.8", "::1"}
Unspecified == {"0.0.0.0", "::"}

Classify(address) ==
    CASE address \in Loopbacks -> "Loopback"
      [] address \in Unspecified -> "AllInterfaces"
      [] OTHER -> "SpecificInterface"

-----------------------------------------------------------------------------
\* domain/reachability.rs
SYSTEM_PSEUDO_PATH == "system"

NoPath == [name |-> "none", casing |-> "none", variable |-> FALSE]
Path(name, casing) == [name |-> name, casing |-> casing, variable |-> FALSE]

IsSystem(path) == path.name = SYSTEM_PSEUDO_PATH /\ ~path.variable

CompareProgramPaths(filter, path) ==
    /\ filter.name = path.name /\ filter.variable = path.variable
    /\ IsSystem(filter) \/ IsSystem(path) \/ OnWindows \/ filter.casing = path.casing

\* The lookup of environment variables knows none: a placeholder stays in the filter as it is.
ProgramFilterMatches(filter, path) == path # NoPath /\ CompareProgramPaths(filter, path)

\* A filter that is absent matches everything.
RuleApplies(rule, endpoint) ==
    /\ rule.protocol = endpoint.protocol
    /\ SpecMatches(rule.port_spec, endpoint.port)
    /\ rule.program = NoPath \/ ProgramFilterMatches(rule.program, endpoint.process_path)
    /\ rule.service = {} \/ rule.service \subseteq endpoint.services

\* The places of the rules that apply to an endpoint and do this to it.
Applicable(endpoint, rules, action) ==
    {i \in DOMAIN rules : RuleApplies(rules[i], endpoint) /\ rules[i].action = action}

Allows(endpoint, rules) ==
    Selected(rules, LAMBDA rule : RuleApplies(rule, endpoint) /\ rule.action = "Allow")

Verdict(reachability, matched) == [reachability |-> reachability, matched |-> matched]

\* Mutant: an allow is found before a block is looked for.
EvaluateAllowFirst(endpoint, rules) ==
    LET blocks == Applicable(endpoint, rules, "Block")
        allows == Applicable(endpoint, rules, "Allow")
    IN  CASE endpoint.exposure = "Loopback" -> Verdict("LocalOnly", <<>>)
          [] endpoint.exposure # "Loopback" /\ allows # {} ->
               Verdict("Allowed", Allows(endpoint, rules))
          [] endpoint.exposure # "Loopback" /\ allows = {} /\ blocks # {} ->
               Verdict("Blocked", <<rules[Min(blocks)]>>)
          [] OTHER -> Verdict("DefaultAction", <<>>)

Evaluate(endpoint, rules) ==
    LET blocks == Applicable(endpoint, rules, "Block")
        allows == Applicable(endpoint, rules, "Allow")
    IN  CASE endpoint.exposure = "Loopback" -> Verdict("LocalOnly", <<>>)
          [] endpoint.exposure # "Loopback" /\ blocks # {} ->
               Verdict("Blocked", <<rules[Min(blocks)]>>)
          [] endpoint.exposure # "Loopback" /\ blocks = {} /\ allows = {} ->
               Verdict("DefaultAction", <<>>)
          [] endpoint.exposure # "Loopback" /\ blocks = {} /\ allows # {} ->
               Verdict(IF \E i \in allows : rules[i].port_spec.kind = "dynamic"
                       THEN "Indeterminate" ELSE "Allowed", Allows(endpoint, rules))

-----------------------------------------------------------------------------
\* domain/profile_ports.rs
InboundAllows(rules) ==
    Selected(rules, LAMBDA rule :
                rule.enabled /\ rule.direction = "Inbound" /\ rule.action = "Allow")

SummarizeInboundPorts(rules, profiles) ==
    LET allows == InboundAllows(rules)
        allowed == [i \in DOMAIN allows |-> [rule |-> allows[i].display_name,
                                             ports |-> DisplayLabel(allows[i].port_spec)]]
    IN  [i \in DOMAIN profiles |->
           [profile |-> profiles[i].profile, enabled |-> profiles[i].enabled,
            default_inbound_action |-> profiles[i].default_inbound_action, allowed |-> allowed]]

=============================================================================
