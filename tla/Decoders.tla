-------------------------------- MODULE Decoders --------------------------------
(***************************************************************************)
(* What the collectors read from the operating system, and what they make  *)
(* of it: netlink buffers (linux_collector/nft_wire.rs, firewall.rs), the  *)
(* lines of /proc/net (proc_net.rs), and the PowerShell helper's payload   *)
(* (powershell_collector/payload.rs).                                      *)
(*                                                                         *)
(* A buffer is the sequence of the messages its lengths delimit, each with *)
(* the length it declares and whether it lies in the buffer as a whole;    *)
(* attributes alike. Numbers keep their bytes where the order matters.     *)
(***************************************************************************)
EXTENDS FirewallRules, FiniteSetsExt

LOCAL_IN == 1 \* NF_INET_LOCAL_IN
DROP == 0     \* NF_DROP
HEADER == 16  \* of a message
NLA_HEADER == 4

None == {} \* an Option; Some(x) is {x}

-----------------------------------------------------------------------------
\* nft_wire.rs
Big(bytes) == FoldLeft(LAMBDA acc, b : 256 * acc + b, 0, bytes)

\* Reading stops for good at the first piece that declares less than its own header or more
\* than there is.
ReadableUpTo(pieces, header) ==
    LET bad == {i \in DOMAIN pieces : pieces[i].len < header \/ ~pieces[i].whole}
    IN  SubSeq(pieces, 1, IF bad = {} THEN Len(pieces) ELSE Min(bad) - 1)

IterNlattrs(attributes) == ReadableUpTo(attributes, NLA_HEADER)

\* The last attribute of a type decides, also when it cannot be decoded.
LastOf(attributes, type, Decode(_)) ==
    LET at == {i \in DOMAIN IterNlattrs(attributes) : attributes[i].type = type}
    IN  IF at = {} THEN None ELSE Decode(attributes[Max(at)].value)

\* One trailing NUL goes; what is then empty, or no UTF-8, is no string.
DecodeNlaString(value) ==
    LET bytes == IF value # <<>> /\ Last(value) = 0 THEN Front(value) ELSE value
    IN  IF bytes = <<>> \/ \E i \in DOMAIN bytes : bytes[i] > 127 THEN None ELSE {bytes}

DecodeNlaU32(value) == IF Len(value) < 4 THEN None ELSE {Big(SubSeq(value, 1, 4))}

HookNumber(value) == LastOf(value, "hooknum", DecodeNlaU32)

\* A hook attribute without a hook number leaves the number an earlier one set.
HookOf(attributes) ==
    LET hooks == Selected(IterNlattrs(attributes),
                   LAMBDA a : a.type = "hook" /\ \E i \in DOMAIN IterNlattrs(a.value) :
                                                    a.value[i].type = "hooknum")
    IN  IF hooks = <<>> THEN None ELSE HookNumber(Last(hooks).value)

ParseChainPayload(attributes) ==
    [table |-> LastOf(attributes, "table", DecodeNlaString),
     name |-> LastOf(attributes, "name", DecodeNlaString),
     hooknum |-> HookOf(attributes),
     policy |-> LastOf(attributes, "policy", DecodeNlaU32)]

ClassifyErrno(errno) ==
    IF errno \in {1, 13} THEN "PermissionDenied" ELSE "Unreachable" \* EPERM, EACCES, negated

\* Everything up to the first end or error of the dump.
ParseNlBuffer(messages) ==
    LET readable == ReadableUpTo(messages, HEADER)
        ends == {i \in DOMAIN readable : readable[i].type \in {"done", "error"}}
        last == IF ends = {} THEN Len(readable) ELSE Min(ends)
        chains == Selected(SubSeq(readable, 1, last), LAMBDA msg : msg.type = "newchain")
    IN  [chains |-> [i \in DOMAIN chains |-> ParseChainPayload(chains[i].payload)],
         done |-> ends # {},
         error |-> IF ends # {} /\ readable[last].type = "error"
                   THEN ClassifyErrno(readable[last].errno) ELSE "none"]

\* A base chain of the input hook is a rule for everything; other chains say nothing.
NftChainToRawRule(chain) ==
    [rule_id |-> <<chain.table, chain.name>>, display_name |-> chain.name,
     direction |-> "inbound", action |-> IF chain.policy = {DROP} THEN "block" ELSE "allow",
     protocol |-> Absent, local_port_spec |-> <<>>, program |-> Absent, service |-> Absent,
     enabled |-> TRUE, policy_store |-> "nftables"]

\* An unreadable policy is never an empty one; nor is an empty one where iptables has content.
ClassifyRuleset(answer, legacy_iptables_active) ==
    LET base == Selected(answer.chains, LAMBDA chain : chain.hooknum = {LOCAL_IN})
    IN  IF answer.error # "none" \/ (base = <<>> /\ legacy_iptables_active) THEN Failed \* NoPolicySource
        ELSE [i \in DOMAIN base |-> NftChainToRawRule(base[i])]

\* firewall.rs: buffers are received until one says done; a socket that fails is an error.
QueryChains(buffers) ==
    LET outcomes == [i \in DOMAIN buffers |-> ParseNlBuffer(buffers[i])]
        ends == {i \in DOMAIN outcomes : outcomes[i].done}
    IN  IF ends = {} THEN [chains |-> <<>>, error |-> "Unreachable"]
        ELSE [chains |-> FlattenSeq([i \in 1..Min(ends) |-> outcomes[i].chains]),
              error |-> outcomes[Min(ends)].error]

-----------------------------------------------------------------------------
\* proc_net.rs: a line is its fields, an address the words of its hexadecimal text.
TCP_LISTEN == "0a"

\* Each word is in the byte order of the kernel, least significant first.
DecodeHexAddr(words) ==
    IF Len(words) \in {1, 4}
    THEN FlattenSeq([i \in DOMAIN words |-> Reverse(words[i])]) ELSE Failed

ParseFields(line, protocol, want_state, PidOf(_)) ==
    IF \/ line.fields < 10
       \/ want_state # "any" /\ line.state # want_state
       \/ DecodeHexAddr(line.address) = Failed
    THEN {}
    ELSE {[protocol |-> protocol, local_address |-> DecodeHexAddr(line.address),
           local_port |-> line.port, owning_pid |-> PidOf(line.inode)]}

\* The first process, in directory order, whose descriptors can be read and hold the socket.
InodeToPid(inode, processes) ==
    LET holders == {i \in DOMAIN processes :
                      processes[i].readable /\ inode \in processes[i].sockets}
    IN  IF holders = {} THEN None ELSE {processes[Min(holders)].pid}

ParseProcNet(lines, protocol, processes) ==
    LET parsed(line) == ParseFields(line, protocol, IF protocol = "tcp" THEN TCP_LISTEN ELSE "any",
                                    LAMBDA inode : InodeToPid(inode, processes))
        kept == Selected(Tail(lines), LAMBDA line : parsed(line) # {})
    IN  [i \in DOMAIN kept |-> CHOOSE e \in parsed(kept[i]) : TRUE]

-----------------------------------------------------------------------------
\* powershell_collector/payload.rs: a payload is its envelope; "absent" is a missing field.
SCHEMA_NAME == "windows-listening-surface"
SCHEMA_VERSION == 2

IntoRawEndpoint(socket, protocol) ==
    [protocol |-> protocol, local_address |-> socket.local_address,
     local_port |-> socket.local_port, owning_pid |-> socket.owning_process]

IntoRawProcess(process) ==
    [pid |-> process.process_id, path |-> process.executable_path,
     command_line |-> process.command_line]

\* 0 is the id of a service that does not run, and of one that does not say.
IntoHosted(service) ==
    [process_id |-> Max({0} \cup service.process_id),
     service |-> [name |-> service.name, display_name |-> service.display_name]]

LocalPortSpec(local_ports) == Selected(local_ports, LAMBDA p : p \notin {Word("any"), Word("")})

PolicyStoreOf(rule) ==
    CASE rule.policy_store_source_type # Absent -> rule.policy_store_source_type
      [] rule.policy_store_source_type = Absent /\ rule.policy_store_source # Absent ->
           rule.policy_store_source
      [] OTHER -> "local"

IntoRawRule(rule) ==
    [rule_id |-> rule.rule_id, display_name |-> rule.display_name,
     direction |-> rule.direction, action |-> rule.action,
     protocol |-> NoneIfAny(rule.protocol), local_port_spec |-> LocalPortSpec(rule.local_ports),
     program |-> rule.program_filter, service |-> rule.service_filter,
     enabled |-> rule.enabled, policy_store |-> PolicyStoreOf(rule)]

Each(f(_), seq) == [i \in DOMAIN seq |-> f(seq[i])]

\* A text that shows where -Depth cut the payload is refused before it is parsed, whatever it
\* parses to; then the envelope must parse and be of the one schema.
ParsePayload(payload) ==
    IF payload.truncated \/ ~payload.json
       \/ payload.schema_name # SCHEMA_NAME \/ payload.schema_version # SCHEMA_VERSION
    THEN Failed
    ELSE [language_mode |-> IF payload.language_mode = Absent THEN "FullLanguage"
                            ELSE payload.language_mode,
          endpoints |-> Each(LAMBDA s : IntoRawEndpoint(s, "tcp"), payload.tcp_endpoints)
                        \o Each(LAMBDA s : IntoRawEndpoint(s, "udp"), payload.udp_endpoints),
          processes |-> Each(IntoRawProcess, payload.processes),
          services |-> Each(IntoHosted, payload.services),
          firewall_rules |-> Each(IntoRawRule, payload.firewall_rules),
          firewall_profiles |-> payload.firewall_profiles]

=============================================================================
