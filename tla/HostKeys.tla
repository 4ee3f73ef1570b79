------------------------------- MODULE HostKeys -------------------------------
(***************************************************************************)
(* How a fleet scan reaches a host over SSH: the strategy is resolved by a *)
(* trial connection, an Execute scan connects again, and a retry connects  *)
(* once more (adapters/remote_scanner/mod.rs). Every connection checks the *)
(* host's key against one KnownHosts book that all hosts share             *)
(* (ssh_transport/known_hosts.rs) and then authenticates with the one      *)
(* method the inventory names (ssh_transport/handler.rs).                  *)
(*                                                                         *)
(* The lookup and the recording of a new key are two critical sections. A  *)
(* label is a sequence of characters, because patterns match it character  *)
(* by character; keys are model values, and a certificate is no key.       *)
(* Pushing and running the collector is RemoteArtifact's part.             *)
(***************************************************************************)
EXTENDS Naturals, Sequences, FiniteSets

CONSTANTS
    Host,           \* inventory entries
    Address, Port,  \* per host: a sequence of characters, a port (DEFAULT is 22)
    DEFAULT,
    Auth,           \* per host: "agent", "keyfile" or "keyring"
    HostKey,        \* the keys a server may offer
    Certificate,    \* what a server with a certificate offers
    Books,          \* the known_hosts files to start from: sets of entries
    Identity,       \* what a client may offer to prove who it is
    Identities,     \* the ssh-agent's identities, in its order
    Credential,     \* the key that a key file or a keyring entry holds
    MAX_ATTEMPTS    \* fanout.rs: attempts per host

HostKeysAssumption ==
    /\ MAX_ATTEMPTS \in Nat \ {0}
    /\ Certificate \notin HostKey
    /\ Auth \in [Host -> {"agent", "keyfile", "keyring"}]
    /\ Identities \in Seq([id : Identity, certificate : BOOLEAN])
    /\ Credential \in [Host -> Identity]

VARIABLES
    book,           \* KnownHosts::file_entries
    accept_new,     \* [remote] accept_new
    accepted,       \* KnownHosts::accepted
    step,           \* per host: its place in the scan
    offered,        \* per host: what the server of this connection offered
    offers,         \* per host: the identities still to offer
    strategy,       \* per host: "unresolved", "execute" or "probe"
    attempts,       \* per host: scans begun
    result,         \* per host: "none", "session", "retryable" or "fatal"
    used,           \* history, per host: the identities offered to servers
    refusals,       \* history, per host: the keys refused as changed
    before          \* history, per host: the keys accepted when this lookup ran

book_vars == <<book, accept_new, accepted>>
vars == <<book_vars, step, offered, offers, strategy, attempts, result, used, refusals, before>>

-----------------------------------------------------------------------------
\* Mutant: "*" matches at least one character.
GlobMatchStarPlus(pattern, text) ==
    LET m[i \in 1 .. Len(pattern) + 1, j \in 1 .. Len(text) + 1] ==
          \/ i > Len(pattern) /\ j > Len(text)
          \/ /\ i =< Len(pattern) /\ j =< Len(text)
             /\ \/ pattern[i] = "*" /\ (m[i + 1, j + 1] \/ m[i, j + 1])
                \/ pattern[i] \in {"?", text[j]} /\ m[i + 1, j + 1]
    IN  m[1, 1]

\* glob_match_bytes, on the suffixes from i of the pattern and from j of the text.
GlobMatch(pattern, text) ==
    LET m[i \in 1 .. Len(pattern) + 1, j \in 1 .. Len(text) + 1] ==
          \/ i > Len(pattern) /\ j > Len(text)
          \/ /\ i =< Len(pattern)
             /\ \/ pattern[i] = "*" /\ (m[i + 1, j] \/ (j =< Len(text) /\ m[i, j + 1]))
                \/ /\ pattern[i] # "*" /\ j =< Len(text)
                   /\ pattern[i] \in {"?", text[j]}
                   /\ m[i + 1, j + 1]
    IN  m[1, 1]

\* A matching negated pattern rejects the whole entry. A hashed entry names the
\* label its digest was made of.
PatternMatches(entry, label) ==
    IF entry.hashed THEN entry.name = label
    ELSE LET hits == {p \in entry.patterns : GlobMatch(p.pattern, label)}
         IN  hits # {} /\ \A p \in hits : ~p.negate

\* The default port is left out of a label.
HostLabel(h) ==
    IF Port[h] = DEFAULT THEN Address[h]
    ELSE <<"[">> \o Address[h] \o <<"]", ":", Port[h]>>

FileKeys(label) == {e.key : e \in {x \in book : PatternMatches(x, label)}}
AcceptedKeys(label) == {a.key : a \in {x \in accepted : x.label = label}}

\* Mutant: only the file is read, not what was accepted in this run.
LookupFileOnly(label, key) ==
    CASE key \in FileKeys(label) -> "known"
      [] FileKeys(label) = {} -> "unknown"
      [] OTHER -> "changed"

\* Mutant: some other key on file does not matter.
LookupNeverChanged(label, key) ==
    IF key \in FileKeys(label) \union AcceptedKeys(label) THEN "known" ELSE "unknown"

Lookup(label, key) ==
    LET keys == FileKeys(label) \union AcceptedKeys(label)
    IN  CASE key \in keys -> "known"
          [] keys = {} -> "unknown"
          [] OTHER -> "changed"

-----------------------------------------------------------------------------
Init ==
    /\ book \in Books
    /\ accept_new \in BOOLEAN
    /\ accepted = {}
    /\ step = [h \in Host |-> "connect"]
    /\ offered = [h \in Host |-> Certificate]
    /\ offers = [h \in Host |-> <<>>]
    /\ strategy = [h \in Host |-> "unresolved"]
    /\ attempts = [h \in Host |-> 0]
    /\ result = [h \in Host |-> "none"]
    /\ used = [h \in Host |-> {}]
    /\ refusals = [h \in Host |-> {}]
    /\ before = [h \in Host |-> {}]

\* resolve_strategy: whatever goes wrong with the trial connection, its key
\* included, makes the host one to probe.
Resolve(h, to) ==
    /\ strategy' = [strategy EXCEPT ![h] = to]
    /\ step' = [step EXCEPT ![h] = IF to = "execute" THEN "connect" ELSE "done"]
    /\ UNCHANGED <<attempts, result>>

\* map_transport_error, and the retry loop of the fan-out.
FailScan(h, how) ==
    /\ result' = [result EXCEPT ![h] = how]
    /\ attempts' = [attempts EXCEPT ![h] = @ + 1]
    /\ step' = [step EXCEPT ![h] =
         IF how = "retryable" /\ attempts[h] + 1 < MAX_ATTEMPTS THEN "connect" ELSE "done"]
    /\ UNCHANGED strategy

Fail(h, how) ==
    IF strategy[h] = "unresolved" THEN Resolve(h, "probe") ELSE FailScan(h, how)

\* The TCP connection and the key exchange, up to check_server_key.
Connect(h) ==
    /\ step[h] = "connect"
    /\ \E k \in HostKey \union {Certificate} : offered' = [offered EXCEPT ![h] = k]
    /\ step' = [step EXCEPT ![h] = "check"]
    /\ UNCHANGED <<book_vars, offers, strategy, attempts, result, used, refusals, before>>

ConnectFails(h) ==
    /\ step[h] = "connect"
    /\ Fail(h, "retryable")
    /\ UNCHANGED <<book_vars, offered, offers, used, refusals, before>>

\* Mutant: a certificate is taken for the key inside it.
CertificateAccepted(h) ==
    /\ step[h] = "check" /\ offered[h] = Certificate
    /\ step' = [step EXCEPT ![h] = "authenticate"]
    /\ UNCHANGED <<book_vars, offered, offers, strategy, attempts, result, used, refusals, before>>

CertificateRefused(h) ==
    /\ step[h] = "check" /\ offered[h] = Certificate
    /\ Fail(h, "fatal")
    /\ UNCHANGED <<book_vars, offered, offers, used, refusals, before>>

\* Mutant: a changed key is a failure worth a retry.
RefusedRetryable(h) ==
    LET status == Lookup(HostLabel(h), offered[h])
    IN  /\ step[h] = "check" /\ offered[h] \in HostKey
        /\ status = "changed" \/ (status = "unknown" /\ ~accept_new)
        /\ refusals' = [refusals EXCEPT ![h] =
             IF status = "changed" THEN @ \union {offered[h]} ELSE @]
        /\ Fail(h, "retryable")
        /\ UNCHANGED <<book_vars, offered, offers, used, before>>

Refused(h) ==
    LET status == Lookup(HostLabel(h), offered[h])
    IN  /\ step[h] = "check" /\ offered[h] \in HostKey
        /\ status = "changed" \/ (status = "unknown" /\ ~accept_new)
        /\ refusals' = [refusals EXCEPT ![h] =
             IF status = "changed" THEN @ \union {offered[h]} ELSE @]
        /\ Fail(h, "fatal")
        /\ UNCHANGED <<book_vars, offered, offers, used, before>>

\* The lock is free between the lookup and the recording.
Trust(h) ==
    LET status == Lookup(HostLabel(h), offered[h])
    IN  /\ step[h] = "check" /\ offered[h] \in HostKey
        /\ status = "known" \/ (status = "unknown" /\ accept_new)
        /\ step' = [step EXCEPT ![h] = IF status = "known" THEN "authenticate" ELSE "record"]
        /\ before' = [before EXCEPT ![h] = AcceptedKeys(HostLabel(h))]
        /\ UNCHANGED <<book_vars, offered, offers, strategy, attempts, result, used, refusals>>

Record(h) ==
    /\ step[h] = "record"
    /\ accepted' = accepted \union {[label |-> HostLabel(h), key |-> offered[h]]}
    /\ step' = [step EXCEPT ![h] = "authenticate"]
    /\ UNCHANGED <<book, accept_new, offered, offers, strategy, attempts, result, used, refusals, before>>

-----------------------------------------------------------------------------
\* Mutant: the agent's identities follow the named credential.
CredentialsCascade(h) ==
    IF Auth[h] = "agent" THEN Identities
    ELSE <<[id |-> Credential[h], certificate |-> FALSE]>> \o Identities

\* What the one configured method offers.
Credentials(h) ==
    IF Auth[h] = "agent" THEN Identities
    ELSE <<[id |-> Credential[h], certificate |-> FALSE]>>

\* connect_agent and request_identities, load_secret_key, or the keyring lookup
\* on a blocking thread: each may fail before anything is offered.
LoadCredentials(h) ==
    /\ step[h] = "authenticate"
    /\ \/ /\ offers' = [offers EXCEPT ![h] = Credentials(h)]
          /\ step' = [step EXCEPT ![h] = "offer"]
          /\ UNCHANGED <<strategy, attempts, result>>
       \/ Fail(h, "retryable") /\ UNCHANGED offers
    /\ UNCHANGED <<book_vars, offered, used, refusals, before>>

\* One identity after the other, up to the first that the server takes; a certificate
\* identity is skipped.
Offer(h) ==
    /\ step[h] = "offer" /\ offers[h] # <<>>
    /\ IF Head(offers[h]).certificate
       THEN /\ offers' = [offers EXCEPT ![h] = Tail(@)]
            /\ UNCHANGED <<step, used>>
       ELSE /\ used' = [used EXCEPT ![h] = @ \union {Head(offers[h]).id}]
            /\ \/ step' = [step EXCEPT ![h] = "session"] /\ UNCHANGED offers
               \/ offers' = [offers EXCEPT ![h] = Tail(@)] /\ UNCHANGED step
    /\ UNCHANGED <<book_vars, offered, strategy, attempts, result, refusals, before>>

\* Every identity was refused, or signing failed.
OfferFails(h) ==
    /\ step[h] = "offer"
    /\ Fail(h, "retryable")
    /\ UNCHANGED <<book_vars, offered, offers, used, refusals, before>>

\* The trial session is dropped; the scan's session is used.
Session(h) ==
    /\ step[h] = "session"
    /\ IF strategy[h] = "unresolved" THEN Resolve(h, "execute")
       ELSE /\ result' = [result EXCEPT ![h] = "session"]
            /\ step' = [step EXCEPT ![h] = "done"]
            /\ UNCHANGED <<strategy, attempts>>
    /\ UNCHANGED <<book_vars, offered, offers, used, refusals, before>>

\* The session breaks while the collector is pushed or run, and is retried.
SessionLost(h) ==
    /\ step[h] = "session" /\ strategy[h] = "execute"
    /\ FailScan(h, "retryable")
    /\ UNCHANGED <<book_vars, offered, offers, used, refusals, before>>

\* STRATEGY_RESOLUTION_TIMEOUT at an await of the trial connection: what it had
\* recorded stays. check_server_key has no await between lookup and record.
ResolutionTimeout(h) ==
    /\ strategy[h] = "unresolved" /\ step[h] \in {"connect", "check", "authenticate", "offer"}
    /\ Resolve(h, "probe")
    /\ UNCHANGED <<book_vars, offered, offers, used, refusals, before>>

Terminated == (\A h \in Host : step[h] = "done") /\ UNCHANGED vars

Next ==
    \/ \E h \in Host :
         \/ Connect(h) \/ ConnectFails(h) \/ CertificateRefused(h) \/ Refused(h)
         \/ Trust(h) \/ Record(h) \/ LoadCredentials(h) \/ Offer(h) \/ OfferFails(h)
         \/ Session(h) \/ SessionLost(h) \/ ResolutionTimeout(h)
    \/ Terminated

Spec == Init /\ [][Next]_vars

-----------------------------------------------------------------------------
Steps == {"connect", "check", "record", "authenticate", "offer", "session", "done"}

TypeOK ==
    /\ book \in Books /\ accept_new \in BOOLEAN
    /\ accepted \subseteq [label : {HostLabel(h) : h \in Host}, key : HostKey]
    /\ step \in [Host -> Steps]
    /\ offered \in [Host -> HostKey \union {Certificate}]
    /\ strategy \in [Host -> {"unresolved", "execute", "probe"}]
    /\ attempts \in [Host -> 0 .. MAX_ATTEMPTS]
    /\ result \in [Host -> {"none", "session", "retryable", "fatal"}]

Trusting(h) == step[h] \in {"authenticate", "offer", "session"}

\* Whoever authenticates to a server has a key of it on record, and the key is
\* the file's where the file has one: an accepted key never stands beside it.
\* Of a host that is in no file, a connection that began its check after
\* another one was trusted accepts no other key, whichever host, trial, scan or
\* retry it belongs to: only checks that overlap may accept two.
KeysArePinned ==
    /\ \A h \in Host : Trusting(h) =>
         /\ Lookup(HostLabel(h), offered[h]) = "known"
         /\ accept_new \/ offered[h] \in FileKeys(HostLabel(h))
         /\ before[h] # {} => offered[h] \in before[h] \union FileKeys(HostLabel(h))
    /\ \A a \in accepted : FileKeys(a.label) = {}

\* A key that was refused as changed is never retried into acceptance: the scan
\* that met it ends there, as a failure.
ChangedKeysEndTheScan ==
    \A h \in Host : refusals[h] # {} /\ strategy[h] = "execute" =>
        step[h] = "done" /\ result[h] = "fatal"

\* A server is offered the identities of the method its inventory entry names,
\* no other, and never a certificate.
OnlyTheNamedIdentity ==
    \A h \in Host : used[h] \subseteq
        (IF Auth[h] = "agent"
         THEN {Identities[i].id : i \in {j \in DOMAIN Identities : ~Identities[j].certificate}}
         ELSE {Credential[h]})

=============================================================================
