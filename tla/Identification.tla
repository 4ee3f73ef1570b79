----------------------------- MODULE Identification -----------------------------
(***************************************************************************)
(* From evidence to names: the catalogue of fingerprints and its authoring *)
(* check (domain/fingerprint.rs), identities and their confidence          *)
(* (service_identity.rs), the port registry (port_registry.rs), the        *)
(* mismatch of the two (mismatch.rs) and the reconciliation with what the  *)
(* local collector knows (attribution.rs, reconciliation.rs).              *)
(*                                                                         *)
(* A text of evidence is the set of its words, pairs of a stem and a       *)
(* value; a pattern is a stem, and what it captures is the word's value.   *)
(***************************************************************************)
EXTENDS Selection

CONSTANTS Catalogue, Registry \* the two assets: sequences of rows

NoName == "none"
Unset == {}  \* an Option that is None; Some(x) is {x}

-----------------------------------------------------------------------------
\* evidence.rs and service_identity.rs
Evidence(kind, name, text) == [kind |-> kind, name |-> name, text |-> text]
PortAssignment(name) == Evidence("port", name, {})

Tiers == <<"Assigned", "Heuristic", "Probable", "Confirmed">> \* confidence.rs, weakest first
Tier(confidence) == CHOOSE i \in DOMAIN Tiers : Tiers[i] = confidence

IsPortAssignmentOnly(e) == e.kind = "port"

\* Mutant: whoever claims an identity gets it.
ClaimedIdentity(name, category, confidence, evidence) ==
    {[name |-> name, category |-> category, version |-> Unset, confidence |-> confidence,
      evidence |-> evidence]}

\* No evidence, no identity; and a port number alone never says more than that it is assigned.
NewIdentity(name, category, confidence, evidence) ==
    IF \/ evidence = <<>>
       \/ /\ Tier(confidence) > Tier("Assigned")
          /\ \A i \in DOMAIN evidence : IsPortAssignmentOnly(evidence[i])
    THEN Unset
    ELSE {[name |-> name, category |-> category, version |-> Unset, confidence |-> confidence,
           evidence |-> evidence]}

-----------------------------------------------------------------------------
\* fingerprint.rs: the authoring check, over the symbols of a pattern. "*" stands for the
\* symbols that are always quantifiers, "?" opens a modifier right after a parenthesis.
MAX_PATTERN_LEN == 256

Quantifiers == {"*", "?"}

MarkQuantifier(stack) == IF stack = <<>> THEN stack ELSE Append(Front(stack), TRUE)

ScanSymbol(pattern, state, i) ==
    LET ch == pattern[i]
        plain == [state EXCEPT !.opened = FALSE]
        had == state.stack # <<>> /\ Last(state.stack)
        next_is_quantifier == i < Len(pattern) /\ pattern[i + 1] \in Quantifiers
    IN  CASE state.escaped -> [plain EXCEPT !.escaped = FALSE]
          [] ~state.escaped /\ ch = "\\" -> [plain EXCEPT !.escaped = TRUE]
          [] ~state.escaped /\ ch = "(" ->
               [state EXCEPT !.stack = Append(@, FALSE), !.opened = TRUE]
          [] ~state.escaped /\ ch = ")" ->
               [plain EXCEPT !.stack = IF @ = <<>> THEN @ ELSE Front(@),
                             !.found = @ \/ (had /\ next_is_quantifier)]
          [] ~state.escaped /\ (ch = "*" \/ (ch = "?" /\ ~state.opened)) ->
               [plain EXCEPT !.stack = MarkQuantifier(@)]
          [] OTHER -> plain

Unscanned == [stack |-> <<>>, opened |-> FALSE, escaped |-> FALSE, found |-> FALSE]

HasNestedUnboundedQuantifier(pattern) ==
    LET scanned[i \in 0 .. Len(pattern)] ==
          IF i = 0 THEN Unscanned ELSE ScanSymbol(pattern, scanned[i - 1], i)
    IN  scanned[Len(pattern)].found

CheckComplexity(pattern) ==
    Len(pattern) <= MAX_PATTERN_LEN /\ ~HasNestedUnboundedQuantifier(pattern)

-----------------------------------------------------------------------------
\* fingerprint.rs: entries are records of the matchers they define, in the order tried.
MatcherKinds == <<"header", "prefix", "body", "tls", "banner", "alpn">>

KindOfEvidence == [header |-> "header", prefix |-> "body", body |-> "body", tls |-> "tls",
                   banner |-> "banner", alpn |-> "alpn"]

\* The symbols that are not escaped, and how many more groups are opened than closed.
Escaped(p, i) == LET run == {k \in 1 .. i - 1 : \A l \in k .. i - 1 : p[l] = "\\"}
                 IN  Cardinality(run) % 2 = 1
Symbol(p, i, ch) == p[i] = ch /\ ~Escaped(p, i)
Depth(p, i, k) == Cardinality({l \in i .. k : Symbol(p, l, "(")})
                    - Cardinality({l \in i .. k : Symbol(p, l, ")")})

\* The library's own parser, over these symbols: groups are closed, no escape is left open, and
\* what is repeated is there.
IsRegex(p) ==
    /\ \A k \in DOMAIN p : Depth(p, 1, k) >= 0
    /\ Depth(p, 1, Len(p)) = 0 /\ ~Escaped(p, Len(p) + 1)
    /\ \A k \in DOMAIN p : Symbol(p, k, "*") \/ Symbol(p, k, "?") => k > 1 /\ ~Symbol(p, k - 1, "(")

\* An entry with a pattern that fails its check or is none, or without a matcher, is dropped.
Compiles(entry) ==
    entry.matchers # <<>> /\ \A p \in entry.patterns : CheckComplexity(p) /\ IsRegex(p)

CompiledCatalogue == Selected(Catalogue, Compiles)

Stems(text) == {word[1] : word \in text}

Matches(matcher, e) ==
    /\ e.kind = KindOfEvidence[matcher.kind]
    /\ matcher.kind = "header" => e.name = matcher.name
    /\ Stems(e.text) \cap matcher.stems # {}

PushUnique(matched, item) == IF Contains(matched, item) THEN matched ELSE Append(matched, item)

MatchedBy(entry, evidence) ==
    LET ordered == FlattenSeq([k \in DOMAIN MatcherKinds |->
                     Selected(entry.matchers, LAMBDA m : m.kind = MatcherKinds[k])])
        hits == FlattenSeq([m \in DOMAIN ordered |->
                     Selected(evidence, LAMBDA e : Matches(ordered[m], e))])
        matched[i \in 0 .. Len(hits)] ==
          IF i = 0 THEN <<>> ELSE PushUnique(matched[i - 1], hits[i])
    IN  matched[Len(hits)]

\* What a word of a text captures, nothing when its group is left out of the match; and the
\* capture of the first matched text that has one. Protocols, ports and processes have none.
Captured(stem, e) == {word[2] : word \in {w \in e.text : w[1] = stem}} \ {""}

ExtractVersion(stem, matched) ==
    LET texts == Selected(matched, LAMBDA e : /\ e.kind \in {"header", "body", "banner", "tls"}
                                               /\ Captured(stem, e) # {})
    IN  IF texts = <<>> THEN Unset ELSE {CHOOSE value \in Captured(stem, texts[1]) : TRUE}

TryMatch(entry, evidence) ==
    LET matched == MatchedBy(entry, evidence)
        identities == NewIdentity(entry.name, entry.category, entry.confidence, matched)
        version == UNION {ExtractVersion(stem, matched) : stem \in entry.version_capture}
    IN  {[id EXCEPT !.version = version] : id \in identities}

Fingerprint(evidence) ==
    LET hits == Selected(CompiledCatalogue, LAMBDA entry : TryMatch(entry, evidence) # {})
    IN  [i \in DOMAIN hits |-> CHOOSE id \in TryMatch(hits[i], evidence) : TRUE]

-----------------------------------------------------------------------------
\* port_registry.rs: rows that do not parse are passed over, and a later row of a pair wins.
Usable(row) ==
    row.fields >= 3 /\ row.port \in Nat /\ row.protocol \in {"tcp", "udp"} /\ row.name # ""

RegistryName(port, protocol) ==
    LET rows == {i \in DOMAIN Registry : /\ Usable(Registry[i])
                                         /\ <<Registry[i].port, Registry[i].protocol>>
                                              = <<port, protocol>>}
    IN  IF rows = {} THEN NoName ELSE Registry[Max(rows)].name

IdentityForPort(port, protocol) ==
    LET name == RegistryName(port, protocol)
    IN  IF name = NoName THEN Unset
        ELSE NewIdentity(name, "Other", "Assigned", <<PortAssignment(name)>>)

\* mismatch.rs; names are modulo case.
DetectMismatch(port, assigned, observed) ==
    IF assigned.name = observed.name THEN Unset
    ELSE {[port |-> port, assigned |-> assigned, observed |-> observed]}

-----------------------------------------------------------------------------
\* attribution.rs and reconciliation.rs
Authoritative(pid, path, service, signature) ==
    [kind |-> "Authoritative", pid |-> pid, process_path |-> path, service_name |-> service,
     signature |-> signature]

Inferred(evidence) == [kind |-> "Inferred", evidence |-> evidence]

LocalIdentityLabel(local) ==
    CASE local.kind = "Inferred" -> Unset
      [] local.kind = "Authoritative" /\ local.service_name = Unset -> {local.process_path}
      [] local.kind = "Authoritative" /\ local.service_name # Unset -> local.service_name

Reconcile(local, remote) ==
    LET ours == LocalIdentityLabel(local)
        theirs == IF remote = <<>> THEN Unset ELSE {remote[1].name}
    IN  [local |-> local, local_identity |-> ours, remote |-> remote, remote_identity |-> theirs,
         conflict |-> ours # Unset /\ theirs # Unset /\ ours # theirs]

=============================================================================
