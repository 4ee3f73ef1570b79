------------------------------ MODULE RuleQuestions ------------------------------
(***************************************************************************)
(* The inputs the pure parts are asked about, each set small but holding   *)
(* the cases its code tells apart, and the values of their constants.      *)
(***************************************************************************)
EXTENDS Drift, TLC

AtMost(n, S) == UNION {[1..k -> S] : k \in 0..n}
Injective(seq) == \A i, j \in DOMAIN seq : seq[i] = seq[j] => i = j

TheRank ==
    [tcp |-> 1, udp |-> 2, r1 |-> 1, r2 |-> 2, r3 |-> 3, r4 |-> 4, r5 |-> 5, r6 |-> 6, r7 |-> 7,
     r8 |-> 8, r9 |-> 9, h1 |-> 1, h2 |-> 2, s1 |-> 1, s2 |-> 2, domain |-> 1, private |-> 2, public |-> 3]
    @@ ("0.0.0.0" :> 1 @@ "10.0.0.1" :> 2 @@ "127.0.0.1" :> 3)

-----------------------------------------------------------------------------
\* verdict: six endpoints, and up to three of nine rules in any order.
Nginx == Path("nginx", "lower")
System == Path(SYSTEM_PSEUDO_PATH, "lower")

Rule(id, action, protocol, spec, program, service, enabled) ==
    [rule_id |-> id, display_name |-> id, direction |-> "Inbound", action |-> action,
     protocol |-> protocol, port_spec |-> spec, program |-> program, service |-> service,
     enabled |-> enabled, policy_store |-> "Local"]

RulesAsked ==
    {Rule("r1", "Allow", "tcp", Anything, NoPath, {}, TRUE),
     Rule("r2", "Block", "tcp", Single(80), NoPath, {}, TRUE),
     Rule("r3", "Allow", "tcp", Single(80), Nginx, {}, TRUE),
     Rule("r4", "Block", "tcp", PortRange(80, 90), Path("nginx", "upper"), {}, TRUE),
     Rule("r5", "Allow", "udp", Dynamic("mdns"), NoPath, {}, TRUE),
     Rule("r6", "Allow", "tcp", Listed(<<Single(22), Single(80)>>), NoPath, {}, FALSE),
     Rule("r7", "Block", "udp", Anything, NoPath, {"w3svc"}, TRUE),
     Rule("r8", "Allow", "tcp", Anything, Path(SYSTEM_PSEUDO_PATH, "upper"), {}, TRUE),
     Rule("r9", "Allow", "tcp", Listed(<<Single(22), Dynamic("rpc")>>), NoPath, {}, TRUE)}

EndpointAsked(protocol, port, exposure, path, services) ==
    [protocol |-> protocol, port |-> port, exposure |-> exposure, process_path |-> path,
     services |-> services]

Profile(profile, enabled) ==
    [profile |-> profile, enabled |-> enabled, default_inbound_action |-> "Block"]

VerdictQuestions ==
    [endpoint : {EndpointAsked("tcp", 80, "AllInterfaces", Nginx, {}),
                 EndpointAsked("tcp", 80, "Loopback", Nginx, {}),
                 EndpointAsked("tcp", 445, "SpecificInterface", System, {}),
                 EndpointAsked("udp", 5353, "AllInterfaces", NoPath, {"w3svc", "was"}),
                 EndpointAsked("udp", 5353, "SpecificInterface", NoPath, {}),
                 EndpointAsked("tcp", 22, "AllInterfaces", NoPath, {})},
     rules : {seq \in AtMost(3, RulesAsked) : Injective(seq)},
     profiles : {<<Profile("domain", TRUE), Profile("public", FALSE)>>}]

\* ports: one or two parts.
PortQuestions ==
    [text : AtMost(2, {Word("any"), Word("rpc"), Word("bogus"), Number(0), Number(80),
                       Number(65536), Span(80, 90), Span(90, 80), Span(0, 5)}) \ {<<>>},
     probes : {{1, 80, 85, 90, 443}}]

-----------------------------------------------------------------------------
\* mapping: rows of two instances.
Row(id, direction, action, enabled, store) ==
    [instance_id |-> id, display_name |-> id, direction |-> direction, action |-> action,
     enabled |-> enabled, policy_store |-> store]

PortRow(id, protocol, ports) == [instance_id |-> id, protocol |-> protocol, local_port |-> ports]

MappingQuestions ==
    LET first == {Row("i1", 1, 1, 1, 0), Row("i1", 1, 2, 0, 1), Row("i1", 2, 1, 1, 0),
                  Row("i1", 1, 1, 1, 2), Row("i1", 1, 3, 1, 0), Row("i1", 1, 1, 1, 7)}
        second == Row("i2", 1, 2, 1, 3)
        profile == [name |-> "domain", enabled |-> 1, default_inbound_action |-> 2,
                    default_outbound_action |-> 1]
    IN  [rules : {<<row>> : row \in first} \cup {<<row, second>> : row \in first},
         ports : {<<>>, <<PortRow("i1", "tcp", <<Number(80)>>)>>,
                  <<PortRow("i1", "any", <<Word("any")>>), PortRow("i2", "icmp", <<Word("any")>>)>>,
                  <<PortRow("i1", "tcp", <<Number(0)>>)>>,
                  <<PortRow("i1", "tcp", <<Number(80)>>), PortRow("i1", "udp", <<Number(53)>>)>>,
                  <<PortRow("i1", "absent", <<>>)>>},
         programs : {<<>>, <<[instance_id |-> "i1", program |-> "svchost"]>>,
                     <<[instance_id |-> "i1", program |-> ""]>>,
                     <<[instance_id |-> "i1", program |-> "any"]>>,
                     <<[instance_id |-> "i1", program |-> "absent"]>>},
         services : {<<>>, <<[instance_id |-> "i1", service |-> "dns"]>>,
                     <<[instance_id |-> "i1", service |-> "any"]>>},
         profiles : {<<profile>>, <<[profile EXCEPT !.default_inbound_action = 0]>>}]

-----------------------------------------------------------------------------
\* netfilter: chains of the input and the forward hook, cut-off messages, and both ends.
Attribute(type, value) == [len |-> 8, whole |-> TRUE, type |-> type, value |-> value]
Message(type, payload) ==
    [len |-> 24, whole |-> TRUE, type |-> type, payload |-> payload, errno |-> 0]
Error(errno) == [Message("error", <<>>) EXCEPT !.errno = errno]

Chain(name, hook, policy) ==
    Message("newchain", <<Attribute("table", <<102, 0>>), Attribute("name", <<name, 0>>),
                          Attribute("hook", <<Attribute("hooknum", <<0, 0, 0, hook>>)>>),
                          Attribute("policy", <<0, 0, 0, policy>>)>>)

End == Message("done", <<>>)

Messages ==
    <<Chain(105, 1, 0), Chain(106, 1, 1), Chain(107, 2, 0),
      [Chain(105, 1, 0) EXCEPT !.whole = FALSE], [Chain(105, 1, 0) EXCEPT !.len = 8],
      Message("newchain", <<Attribute("name", <<105, 0>>)>>), End, Error(1), Error(2)>>

Buffers ==
    LET some == {[i \in DOMAIN seq |-> Messages[seq[i]]] : seq \in AtMost(2, DOMAIN Messages)}
    IN  {<<buffer>> : buffer \in some} \cup {<<Append(buffer, End)>> : buffer \in some}
        \cup {<<buffer, <<End>>>> : buffer \in some}

NetfilterQuestions == [buffers : Buffers, legacy : BOOLEAN]

\* proc: a header and one or two lines.
Line(fields, state, address, port, inode) ==
    [fields |-> fields, state |-> state, address |-> address, port |-> port, inode |-> inode]

ProcQuestions ==
    LET v4 == <<<<1, 0, 0, 127>>>>
        v6 == <<<<0, 0, 0, 0>>, <<0, 0, 0, 0>>, <<0, 0, 0, 0>>, <<0, 0, 0, 1>>>>
        header == Line(12, "st", <<>>, 0, 0)
        lines == {Line(12, "0a", v4, 80, 7), Line(12, "0a", v6, 443, 8), Line(12, "01", v4, 81, 9),
                  Line(4, "0a", v4, 82, 7), Line(12, "0a", <<<<1, 0, 0, 127>>, <<0, 0, 0, 0>>>>, 83, 7)}
        process(pid, readable, sockets) == [pid |-> pid, readable |-> readable, sockets |-> sockets]
    IN  [lines : {<<header>> \o seq : seq \in AtMost(2, lines)},
         protocol : {"tcp", "udp"},
         processes : {<<process(3, FALSE, {7}), process(4, TRUE, {7, 9}), process(5, TRUE, {7})>>,
                      <<>>}]

\* payload
PayloadQuestions ==
    LET socket(port) == [local_address |-> "0.0.0.0", local_port |-> port, owning_process |-> 4]
        rule(ports, store) ==
          [rule_id |-> "r1", display_name |-> "r1", direction |-> "inbound", action |-> "allow",
           protocol |-> "any", local_ports |-> ports, program_filter |-> "absent",
           service_filter |-> "absent", enabled |-> TRUE, policy_store_source_type |-> store,
           policy_store_source |-> "absent"]
    IN  [truncated : BOOLEAN, json : BOOLEAN, schema_name : {"windows-listening-surface", "other"},
         schema_version : {1, 2}, language_mode : {"absent"},
         tcp_endpoints : AtMost(1, {socket(80)}), udp_endpoints : AtMost(1, {socket(53)}),
         processes : {<<[process_id |-> 4, executable_path |-> "absent", command_line |-> "absent"]>>},
         services : {<<[name |-> "was", display_name |-> "WAS", process_id |-> {}]>>},
         firewall_rules : AtMost(2, {rule(<<Word("any")>>, "absent"), rule(<<Word("")>>, "absent"),
                                     rule(<<Number(80), Word("")>>, "gpo")}),
         firewall_profiles : {<<>>}]

-----------------------------------------------------------------------------
\* tls: chains of up to two certificates, good, weak, expired, cut off.
TlsQuestions ==
    LET leaf == [parses |-> TRUE, subject |-> "a", issuer |-> "ca",
                 names |-> {[kind |-> "dns", text |-> "a", length |-> 1]}, not_after |-> 400,
                 key_algorithm |-> "rsa", key_parses |-> TRUE, key_bits |-> 2048,
                 signature_algorithm |-> "sha256"]
        ca == [leaf EXCEPT !.subject = "ca", !.issuer = "ca", !.names = {}]
        certs == {leaf, ca, [leaf EXCEPT !.not_after = -1, !.key_bits = 1024],
                  [leaf EXCEPT !.not_after = 10, !.names = {[kind |-> "ip", text |-> "b", length |-> 4]}],
                  [ca EXCEPT !.key_algorithm = "ec", !.key_bits = 192, !.signature_algorithm = "sha1"],
                  [ca EXCEPT !.key_parses = FALSE], [leaf EXCEPT !.parses = FALSE]}
    IN  [certs : AtMost(2, certs), probed : {"a"}, version : {"TLSv1_0", "TLSv1_3"},
         alpn : {"none", "h2"}]

\* response: bodies in chunks around a cap, headers repeated and secret.
ResponseQuestions ==
    LET header(name, value) == [name |-> name, text |-> TRUE, value |-> value]
        hsts(age) == header("strict-transport-security",
                            [subdomains |-> TRUE, has_max_age |-> TRUE, number |-> TRUE,
                             max_age |-> age])
        cookie == header("set-cookie", [text |-> "secret"])
    IN  [chunks : AtMost(2, {<<"a">>, <<"a", "lead">>, <<"tail", "a">>, <<"bad", "a", "a">>}),
         cap : {2, 3, 4},
         headers : {<<>>, <<cookie, header("server", [text |-> "nginx"])>>, <<hsts(365), hsts(1)>>,
                    <<hsts(1), header("x-frame-options", [text |-> "DENY"])>>,
                    <<[header("authorization", [text |-> "secret"]) EXCEPT !.text = FALSE]>>}]

\* pattern: every sequence of up to five of the symbols the check knows.
PatternQuestions == AtMost(5, {"(", ")", "*", "?", "\\"})

\* identify
TheCatalogue ==
    LET entry(name, confidence, kind, capture) ==
          [name |-> name, category |-> "Other", confidence |-> confidence,
           matchers |-> <<[kind |-> kind, name |-> "server", stems |-> {name}]>>,
           patterns |-> {<<"(", "x", "*", ")">>}, version_capture |-> capture]
    IN  <<entry("nginx", "Confirmed", "header", {"nginx"}),
          entry("grafana", "Probable", "body", {"grafana"}),
          entry("ssh", "Heuristic", "banner", {}),
          [entry("careless", "Confirmed", "body", {}) EXCEPT !.patterns = {<<"(", "x", "*", ")", "*">>}],
          [entry("broken", "Confirmed", "body", {}) EXCEPT !.patterns = {<<"(", "*", ")">>}],
          [entry("empty", "Confirmed", "body", {}) EXCEPT !.matchers = <<>>]>>

TheRegistry ==
    LET row(port, name) == [fields |-> 3, port |-> port, protocol |-> "tcp", name |-> name]
    IN  <<row(80, "http"), row(22, "ssh"), row(80, "nginx"), row(-1, "bad"),
          [row(443, "https") EXCEPT !.fields = 2]>>

IdentifyQuestions ==
    LET says(kind, name, stem, version) ==
          [kind |-> kind, name |-> name, text |-> {<<stem, version>>}]
        seen(kind, name, stem) == says(kind, name, stem, "1.0")
        ours(service) == [kind |-> "Authoritative", pid |-> 4, process_path |-> "nginx",
                          service_name |-> service, signature |-> "Signed"]
    IN  [evidence : AtMost(2, {seen("header", "server", "nginx"), says("header", "server", "nginx", ""),
                               says("header", "x", "nginx", "2.0"), seen("body", "body", "grafana"),
                               seen("body", "body", "careless"), seen("body", "body", "broken"),
                               seen("banner", "banner", "ssh"),
                               [kind |-> "port", name |-> "http", text |-> {}]}),
         port : {80, 22, 443},
         local : {ours({}), ours({"grafana"}), [kind |-> "Inferred", evidence |-> <<>>]}]

\* redact: matches of three patterns; those of one do not overlap.
RedactQuestions ==
    LET span(start, end, category) == [start |-> start, end |-> end, category |-> category]
        lists(category, ends) == {[i \in DOMAIN list |-> span(list[i][1], list[i][2], category)] :
                                    list \in ends}
    IN  [length : {6},
         matches : {<<a, b, c>> : a \in lists("token", {<<>>, <<<<0, 2>>>>, <<<<0, 2>>, <<3, 5>>>>}),
                                  b \in lists("email", {<<>>, <<<<1, 3>>>>, <<<<2, 3>>, <<5, 6>>>>}),
                                  c \in lists("ip", {<<>>, <<<<0, 6>>>>, <<<<0, 1>>, <<4, 6>>>>})}]

-----------------------------------------------------------------------------
\* gather and compare: snapshots of up to two endpoints.
Found(protocol, address, port, pid, path, signature) ==
    NewEndpoint(protocol, address, port, pid, path, {}, signature,
                [length |-> 3, matches |-> <<<<[start |-> 0, end |-> 2, category |-> "token"]>>>>])

Web == Found("tcp", "0.0.0.0", 80, 1, Nginx, "Signed")
Dns == Found("udp", "127.0.0.1", 53, 2, NoPath, "Signed")
High == Found("tcp", "10.0.0.1", 50000, 3, NoPath, "Unsigned")
Twin == Found("tcp", "0.0.0.0", 80, 4, Nginx, "Signed") \* the port is shared

GatherQuestions(endpoints) ==
    [endpoints : {seq \in AtMost(2, endpoints) : Injective(seq)},
     rules : {seq \in AtMost(2, {rule \in RulesAsked : rule.rule_id \in {"r1", "r2"}}) :
                Injective(seq)}]

SnapshotOf(host, endpoints, rules) ==
    NewSnapshot(host, "s1", "LocalOnly", endpoints, rules, <<Profile("public", TRUE)>>)

Snapshots1 ==
    LET endpoints ==
          {<<>>, <<Web>>, <<[Web EXCEPT !.signature = "Unsigned"]>>,
           <<[Web EXCEPT !.process_path = System]>>, <<Web, High>>, <<High>>,
           <<[High EXCEPT !.signature = "Signed"]>>, <<[Web EXCEPT !.port = 50000], Web>>,
           <<Dns, Web>>, <<Dns, High>>, <<Web, [Twin EXCEPT !.signature = "Unsigned"]>>,
           <<Web, [Twin EXCEPT !.process_path = System]>>}
        rules == {<<>>} \cup {<<rule>> : rule \in {r \in RulesAsked : r.rule_id \in {"r1", "r2"}}}
    IN  {SnapshotOf("h1", e, r) : e \in endpoints, r \in rules}

CompareQuestions ==
    [baseline : Snapshots1, current : Snapshots1, other : {SnapshotOf("h2", <<Dns, Web>>, <<>>)},
     threshold : {"High"}]

\* draw: hosts of as many endpoints as each diagram holds and of one more, on two addresses with
\* and without a signature or all of one kind, with the ports of up to three profiles.
DrawQuestions ==
    LET seen(i, mixed) ==
          LET address == IF mixed /\ i % 2 = 1 THEN "10.0.0.1" ELSE "0.0.0.0"
          IN  [protocol |-> "tcp", bind_address |-> address, port |-> i,
               exposure |-> Classify(address), reachability |-> IF i % 5 = 0 THEN "Blocked" ELSE "Allowed",
               signature_status |-> IF mixed /\ i % 3 = 0 THEN "Signed" ELSE "Unsigned"]
        ports(n) == [profile |-> "public", allowed |-> [i \in 1 .. n |-> i]]
        host(n, mixed, p) ==
          [host_id |-> "h1", endpoints |-> [i \in 1 .. n |-> seen(i, mixed)], profile_ports |-> p]
    IN  {host(n, TRUE, p) : n \in {0, 13}, p \in {<<>>, <<ports(0), ports(40), ports(1)>>}}
          \cup {host(n, TRUE, <<>>) : n \in {60, 205}} \cup {host(n, FALSE, <<>>) : n \in {61, 144, 145}}

-----------------------------------------------------------------------------
\* report, config, inventory
ReportQuestions ==
    LET file == SnapshotOf("h1", <<Web>>, <<>>)
        target(uuid, length, id, found) ==
          [uuid |-> uuid, length |-> length, id |-> id, file |-> found]
    IN  [args : [target : {target(TRUE, 36, 1, file), target(TRUE, 32, 2, file),
                           target(FALSE, 36, 0, file), target(FALSE, 9, 0, file),
                           target(FALSE, 9, 0, Failed)},
                 split : {"nothing", "pages"}, output : {"nothing", "file"},
                 format : {"json", "csv", "sarif", "html"}],
         store : {Failed, [id \in {1} |-> SnapshotOf("h2", <<High>>, <<>>)]},
         writable : BOOLEAN]

ConfigQuestions ==
    LET named == [key \in {<<"store", "backend">>, <<"store", "path">>} |-> "files"]
        variable(section, field, value) ==
          [separated |-> TRUE, section |-> section, field |-> field, value |-> value]
        concurrency(n) == <<"remote", "concurrency">> :> n
    IN  [config : {[said |-> FALSE], [said |-> TRUE, value |-> "anne.toml"]},
         file : {Failed, <<>>, named, named @@ concurrency("4"), named @@ concurrency(Failed),
                 named @@ (<<"remote", "bogus">> :> "4")},
         variables : {{}, {variable("remote", "concurrency", "16")},
                      {variable("remote", "timeout", Failed)}, {variable("remote", "bogus", "1")},
                      {variable("store", "backend", "sqlite")},
                      {[variable("remote", "concurrency", "2") EXCEPT !.separated = FALSE]}}]

InventoryQuestions ==
    LET address(labels) == [ip |-> FALSE, length |-> 3, labels |-> labels, name |-> "web"]
        label == [length |-> 3, characters |-> TRUE, dash_at_end |-> FALSE]
        web == address(<<label>>)
        host == [host_id |-> [uuid |-> TRUE], address |-> web, port |-> 22, user |-> "anne",
                 auth |-> "agent"]
        entries == {host, [host EXCEPT !.port = 0], [host EXCEPT !.port = 65536],
                    [host EXCEPT !.host_id.uuid = FALSE], [host EXCEPT !.auth = "password"],
                    [host EXCEPT !.address = address(<<>>)], host @@ [jump |-> web],
                    host @@ [jump |-> address(<<[label EXCEPT !.dash_at_end = TRUE]>>)],
                    host @@ [password |-> "x"],
                    [field \in (DOMAIN host) \ {"user"} |-> host[field]]}
    IN  [readable : BOOLEAN,
         entries : {Failed, <<>>} \cup {<<entry>> : entry \in entries}
                     \cup {<<host, entry>> : entry \in entries}]

-----------------------------------------------------------------------------
\* release and scorecard
TheNameOrder == <<"sha256", "c1">> :> 2 @@ <<"sha256", "c2">> :> 1

ReleaseQuestions ==
    LET artifact(name, content) == [name |-> name, content |-> content]
    IN  [artifacts : {<<>>, <<artifact("x", "c1"), artifact("y", "c2")>>,
                      <<artifact("y", "c2"), artifact("x", "c1")>>},
         directory : UNION {[names -> {"c1", "c2"}] : names \in SUBSET {"x", "y"}},
         fonts : {<<"f1", "f2">>}, outcome : [{"f1", "f2"} -> {"woff2", "fails"}],
         assets : {[files |-> [f1 |-> "old", f2 |-> "old"], manifest |-> <<"f0">>]},
         tools : {[xwin |-> "ok", objdump |-> "ok", imports |-> {"kernel32"}],
                  [xwin |-> "ok", objdump |-> "ok", imports |-> {"kernel32", "vcruntime"}],
                  [xwin |-> "ok", objdump |-> "fails", imports |-> {}]}]

ExcludeQuestions ==
    [ports : {{}, {22}}, cidrs : {{}, {{"10.0.0.1", "10.0.0.2"}}}, port : {22, 80},
     address : {"10.0.0.1", "10.1.0.1", "169.254.169.254", "169.254.170.2"}]

ScorecardLines ==
    LET line(indent, content, value, reason) ==
          [indent |-> indent, content |-> content, value |-> value, reason |-> reason]
    IN  <<line(0, "annotations:", "", FALSE), line(2, "- checks:", "", FALSE),
          line(6, "- item", "SAST", FALSE), line(0, "", "", FALSE), line(4, "reasons:", "", FALSE),
          line(6, "- item", "test-data", TRUE), line(2, "- checks:", "", FALSE),
          line(6, "- item", "SAST", FALSE), line(4, "reasons:", "", FALSE),
          line(6, "- item", "test-data", TRUE)>>

\* Every way to leave lines out of a file of two annotations.
ScorecardQuestions ==
    {LET left == SelectSeq([i \in DOMAIN ScorecardLines |-> i], LAMBDA i : i \in kept)
     IN  [i \in DOMAIN left |-> ScorecardLines[left[i]]] : kept \in SUBSET DOMAIN ScorecardLines}

-----------------------------------------------------------------------------
TheQuestions ==
    [verdict |-> VerdictQuestions, ports |-> PortQuestions, mapping |-> MappingQuestions,
     netfilter |-> NetfilterQuestions, proc |-> ProcQuestions, payload |-> PayloadQuestions,
     tls |-> TlsQuestions, response |-> ResponseQuestions, pattern |-> PatternQuestions,
     identify |-> IdentifyQuestions, redact |-> RedactQuestions,
     gather |-> GatherQuestions({Web, Dns, High}), compare |-> CompareQuestions, draw |-> DrawQuestions,
     report |-> ReportQuestions, config |-> ConfigQuestions, inventory |-> InventoryQuestions,
     release |-> ReleaseQuestions, exclude |-> ExcludeQuestions, scorecard |-> ScorecardQuestions]

=============================================================================
