------------------------------- MODULE CommandLine -------------------------------
(***************************************************************************)
(* The anne binary around its components: the layered configuration        *)
(* (adapters/config), the inventory file (adapters/inventory.rs), the      *)
(* names it is given (domain/host_address.rs, ids.rs), the exclusions of a *)
(* probe (application/identify.rs), and the commands that only read -      *)
(* diff, report, inventory validate - with their exit codes (cli.rs,       *)
(* main.rs, lib.rs and the commands under application).                    *)
(***************************************************************************)
EXTENDS Rendering

Clean == 0
OperationalError == 1
ConfigOrArgError == 2
DriftDetected == 3

Exit(code, output) == [code |-> code, output |-> output]
Nothing == "nothing"

-----------------------------------------------------------------------------
\* adapters/config: a layer is a function from the keys it sets, a section and a field, to
\* values; Failed is a value its field cannot hold.

FieldsOf ==
    [scan |-> {"include_udp", "include_loopback", "skip_signature", "include_command_line",
               "include_executable_path", "include_service_path",
               "include_disabled_firewall_rules", "policy_store"},
     remote |-> {"concurrency", "timeout", "known_hosts", "accept_new"},
     report |-> {"formats", "output_dir", "theme", "fonts", "redaction"},
     store |-> {"backend", "path"},
     portal |-> {"tokens", "rate_limit_per_minute"}]

KnownKeys == UNION {{<<section, field>> : field \in FieldsOf[section]} :
                      section \in DOMAIN FieldsOf}

ScanDefaults ==
    [field \in FieldsOf.scan |-> IF field = "policy_store" THEN "Local" ELSE FALSE]

RemoteDefaults ==
    [concurrency |-> 8, timeout |-> "2m", known_hosts |-> "~/.ssh/known_hosts",
     accept_new |-> FALSE]

ReportDefaults ==
    [formats |-> <<"Json", "Html">>, output_dir |-> "./anne-reports", theme |-> "Auto",
     fonts |-> "Embed", redaction |-> TRUE]

PortalDefaults == [tokens |-> <<>>, rate_limit_per_minute |-> 120]

\* Where scans are kept is for the operator to say: the store has no defaults.
Defaults ==
    LET sections == [scan |-> ScanDefaults, remote |-> RemoteDefaults,
                     report |-> ReportDefaults, portal |-> PortalDefaults]
    IN  [key \in {k \in KnownKeys : k[1] # "store"} |-> sections[key[1]][key[2]]]

Over(upper, lower) == \* merge: what the upper layer sets wins
    [key \in DOMAIN upper \cup DOMAIN lower |->
       IF key \in DOMAIN upper THEN upper[key] ELSE lower[key]]

\* A variable without the separator is a key of its own at the top, which nothing knows.
EnvKey(variable) ==
    IF variable.separated THEN <<variable.section, variable.field>> ELSE <<variable.section, "">>

EnvLayer(variables) ==
    [key \in {EnvKey(v) : v \in variables} |->
       (CHOOSE v \in variables : EnvKey(v) = key).value]

\* A file that does not exist sets nothing; one that does not parse fails.
AnneConfigLoad(file, variables) ==
    LET merged == Over(EnvLayer(variables), Over(file, Defaults))
    IN  IF \/ file = Failed
           \/ DOMAIN merged # KnownKeys
           \/ \E key \in DOMAIN merged : merged[key] = Failed
        THEN Failed ELSE merged

\* application/scan.rs: without --config nothing is loaded, and no store is named.
NotSaid == [said |-> FALSE]
Said(x) == [said |-> TRUE, value |-> x]

ResolveConfig(config, file, variables) ==
    LET loaded == AnneConfigLoad(file, variables)
    IN  CASE ~config.said -> [scan |-> ScanDefaults, remote |-> RemoteDefaults, store |-> NotSaid]
          [] config.said /\ loaded = Failed -> Failed
          [] OTHER -> [scan |-> [f \in FieldsOf.scan |-> loaded[<<"scan", f>>]],
                       remote |-> [f \in FieldsOf.remote |-> loaded[<<"remote", f>>]],
                       store |-> Said(loaded[<<"store", "backend">>])]

-----------------------------------------------------------------------------
\* domain/host_address.rs: a label is how long it is and whether each of its characters, and
\* each of its ends, may be there.
ValidLabel(label) == label.length \in 1..63 /\ label.characters /\ ~label.dash_at_end

HostAddressOf(text) ==
    IF \/ text.ip
       \/ /\ text.length \in 1..253 /\ text.labels # <<>>
          /\ \A i \in DOMAIN text.labels : ValidLabel(text.labels[i])
    THEN text.name ELSE Failed

\* adapters/inventory.rs: an entry is the fields it has; jump and tags are optional.
RequiredHostFields == {"host_id", "address", "port", "user", "auth"}
OptionalHostFields == {"jump", "tags"}
AuthMethods == {"agent", "key_file", "key_from_keyring"}

\* The port's own deserialization asks only for sixteen bits: zero passes.
HostParses(entry) ==
    /\ RequiredHostFields \subseteq DOMAIN entry
    /\ DOMAIN entry \subseteq RequiredHostFields \cup OptionalHostFields
    /\ entry.host_id.uuid
    /\ HostAddressOf(entry.address) # Failed
    /\ entry.port \in 0..MaxPort
    /\ entry.auth \in AuthMethods
    /\ "jump" \in DOMAIN entry => HostAddressOf(entry.jump) # Failed

ParseInventory(entries) ==
    IF entries = Failed \/ \E i \in DOMAIN entries : ~HostParses(entries[i])
    THEN Failed ELSE entries

\* application/identify.rs: a range is the addresses in it. The metadata services of the clouds
\* are excluded whatever the operator names.
DEFAULT_EXCLUDED_CIDRS == {{"169.254.169.254"}, {"169.254.170.2"}}

ProbeExclusions(ports, cidrs) == [ports |-> ports, cidrs |-> DEFAULT_EXCLUDED_CIDRS \cup cidrs]

Excludes(exclusions, address, port) ==
    port \in exclusions.ports \/ \E cidr \in exclusions.cidrs : address \in cidr

-----------------------------------------------------------------------------
\* cli.rs: what the parser of arguments refuses, it ends with the code of bad arguments.
Conflicts(args) == args.output # Nothing /\ args.split # Nothing

\* application/diff.rs: files are snapshots, or fail to be.
DiffCommand(baseline, current, fail_on_drift) ==
    IF baseline = Failed \/ current = Failed THEN Exit(OperationalError, Nothing)
    ELSE LET entries == Diff(baseline, current).entries
             worst == \E i \in DOMAIN entries :
                        SeverityRank(entries[i].severity) >= SeverityRank(fail_on_drift)
         IN  Exit(IF worst THEN DriftDetected ELSE Clean, entries)

\* application/report.rs: a target as long as an id is one, whatever file has that name.
LooksLikeUuid(target) == target.length \in {32, 36}

\* The store is a function from ids to snapshots, or cannot be opened.
LoadFromStore(target, store) ==
    IF ~target.uuid \/ store = Failed THEN Failed
    ELSE IF target.id \in DOMAIN store THEN store[target.id] ELSE Failed

LoadSnapshot(target, store) ==
    IF LooksLikeUuid(target) THEN LoadFromStore(target, store) ELSE target.file

Rendered(model, format) ==
    CASE format = "json" -> RenderJson(model)
      [] format = "csv" -> RenderCsv(model)
      [] format = "sarif" -> RenderSarif(model)
      [] format = "html" -> WriteReportStreaming(model)

\* One snapshot, and no drift. What cannot be written is an operational error.
ReportCommand(args, store, writable) ==
    LET snapshot == LoadSnapshot(args.target, store)
        model == Build(<<snapshot>>, <<>>, TRUE)
        unfit == Conflicts(args) \/ (args.split # Nothing /\ args.format # "html")
    IN  CASE unfit -> Exit(ConfigOrArgError, Nothing)
          [] /\ ~unfit
             /\ (snapshot = Failed \/ ~writable) -> Exit(OperationalError, Nothing)
          [] OTHER -> Exit(Clean, IF args.split # Nothing THEN WriteReportSplit(model)
                                  ELSE Rendered(model, args.format))

\* application/inventory.rs: a file that parses to no host is an error of its own.
InventoryCommand(readable, entries) ==
    CASE ~readable -> Exit(OperationalError, Nothing)
      [] readable /\ ParseInventory(entries) = Failed -> Exit(ConfigOrArgError, Nothing)
      [] readable /\ ParseInventory(entries) = <<>> -> Exit(OperationalError, Nothing)
      [] OTHER -> Exit(Clean, Nothing)

=============================================================================
