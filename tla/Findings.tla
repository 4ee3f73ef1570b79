-------------------------------- MODULE Findings --------------------------------
(***************************************************************************)
(* What a probe's answer is taken to say: the certificates, version and    *)
(* protocol of a TLS handshake (adapters/tls_probe.rs), the headers and    *)
(* the body of an HTTP response (adapters/prober.rs), and how secrets are  *)
(* taken out of a text before it is reported (domain/redaction.rs).        *)
(*                                                                         *)
(* Names are modulo case. Time is in days around now, which is 0.          *)
(***************************************************************************)
EXTENDS Integers, Selection

-----------------------------------------------------------------------------
\* tls_probe.rs
MIN_RSA_KEY_BITS == 2048
MIN_EC_KEY_BITS == 224
EXPIRING_WINDOW == 30

Note(what) == <<what>>
About(what, detail) == <<what, detail>>
When(condition, finding) == IF condition THEN <<finding>> ELSE <<>>

\* A name of another kind, or an address of another length, is left out.
SanOf(names) ==
    {n.text : n \in {m \in names : \/ m.kind \in {"dns", "mail", "uri"}
                                   \/ m.kind = "ip" /\ m.length \in {4, 16}}}

\* A key that cannot be read has no bits. Certificates that do not parse are left out.
RecordOf(cert) ==
    [subject |-> cert.subject, issuer |-> cert.issuer, san |-> SanOf(cert.names),
     not_after |-> cert.not_after, key_algorithm |-> cert.key_algorithm,
     key_size_bits |-> IF cert.key_parses THEN cert.key_bits ELSE 0,
     signature_algorithm |-> cert.signature_algorithm, self_signed |-> cert.subject = cert.issuer]

ChainOf(certs) ==
    LET parsed == Selected(certs, LAMBDA cert : cert.parses)
    IN  [i \in DOMAIN parsed |-> RecordOf(parsed[i])]

IsWeakKey(algorithm, bits) ==
    \/ algorithm = "rsa" /\ bits < MIN_RSA_KEY_BITS
    \/ algorithm = "ec" /\ bits < MIN_EC_KEY_BITS

IncompleteChain(chain) == \E i \in 1 .. Len(chain) - 1 : chain[i].issuer # chain[i + 1].subject

LeafFindings(leaf, probed) ==
    When(leaf.self_signed, Note("self-signed"))
    \o When(leaf.not_after < 0, Note("expired"))
    \o When(leaf.not_after >= 0 /\ leaf.not_after < EXPIRING_WINDOW, Note("expiring"))
    \o When(leaf.san # {} /\ probed \notin leaf.san, About("hostname-mismatch", leaf.san))

KeyFindings(cert) ==
    When(IsWeakKey(cert.key_algorithm, cert.key_size_bits), About("weak-key", cert.key_size_bits))
    \o When(cert.signature_algorithm = "sha1", Note("weak-signature"))

DeriveFindings(chain, probed) ==
    (IF chain = <<>> THEN <<>> ELSE LeafFindings(chain[1], probed))
    \o FlattenSeq([i \in DOMAIN chain |-> KeyFindings(chain[i])])
    \o When(IncompleteChain(chain), Note("incomplete-chain"))

ProtocolVersionFinding(version) ==
    When(version \in {"TLSv1_0", "TLSv1_1"}, About("weak-protocol", version))

Banner(note) == [kind |-> "banner", text |-> note]

IsHttp2OrGrpc(alpn) == alpn \in {"h2", "grpc"}

\* The order is the report's.
EvidenceFromRecord(record, probed) ==
    LET findings == DeriveFindings(record.certificates, probed)
                      \o ProtocolVersionFinding(record.protocol_version)
    IN  When(record.certificates # <<>>, [kind |-> "tls", text |-> Note(record.certificates[1].subject)])
        \o <<Banner(Note(record.protocol_version)), Banner(Note(record.cipher_suite))>>
        \o When(record.alpn # "none", Banner(Note(record.alpn)))
        \o When(IsHttp2OrGrpc(record.alpn), [kind |-> "alpn", text |-> Note(record.alpn)])
        \o [i \in DOMAIN findings |-> Banner(findings[i])]

-----------------------------------------------------------------------------
\* prober.rs: a response is its headers, in order and possibly repeated, and its body.
REDACTED_HEADERS == {"set-cookie", "authorization"}
VERSION_DISCLOSURE_HEADERS == {"server", "x-powered-by", "x-aspnet-version"}
REQUIRED_SECURITY_HEADERS ==
    <<"strict-transport-security", "content-security-policy", "x-content-type-options",
      "x-frame-options", "referrer-policy">>
WEAK_MAX_AGE_DAYS == 182

HstsIsWeak(value) ==
    \/ ~value.subdomains
    \/ ~value.has_max_age
    \/ value.number /\ value.max_age < WEAK_MAX_AGE_DAYS

HeaderEvidence(header) ==
    IF header.name \in REDACTED_HEADERS \/ ~header.text THEN <<>>
    ELSE <<[kind |-> "header", name |-> header.name, text |-> header.value]>>
         \o When(header.name \in VERSION_DISCLOSURE_HEADERS,
                 [kind |-> "banner", name |-> "disclosure", text |-> header.name])

MissingHeaders(headers) ==
    Selected(REQUIRED_SECURITY_HEADERS,
              LAMBDA required : \A i \in DOMAIN headers : headers[i].name # required)

\* Only the first of several such headers is asked.
WeakHsts(headers) ==
    LET hsts == Selected(headers, LAMBDA h : h.name = "strict-transport-security")
    IN  hsts # <<>> /\ hsts[1].text /\ HstsIsWeak(hsts[1].value)

EvidenceFromResponse(response) ==
    LET missing == MissingHeaders(response.headers)
    IN  FlattenSeq([i \in DOMAIN response.headers |-> HeaderEvidence(response.headers[i])])
        \o [i \in DOMAIN missing |-> [kind |-> "banner", name |-> "missing", text |-> missing[i]]]
        \o When(WeakHsts(response.headers), [kind |-> "banner", name |-> "weak", text |-> "hsts"])
        \o When(response.body # <<>>, [kind |-> "body", name |-> "body", text |-> response.body])

\* A body arrives in chunks; what is over the cap is dropped unread.
Capped(buf, chunk, cap) ==
    LET room == cap - Len(buf)
    IN  IF room <= 0 THEN buf
        ELSE buf \o SubSeq(chunk, 1, IF Len(chunk) <= room THEN Len(chunk) ELSE room)

ReadCapped(chunks, cap) ==
    LET buf[i \in 0 .. Len(chunks)] ==
          IF i = 0 THEN <<>> ELSE Capped(buf[i - 1], chunks[i], cap)
    IN  buf[Len(chunks)]

\* Lossy decoding writes three bytes for one that is no UTF-8, so the text is cut again at the
\* last boundary of a character. A byte is "a", one of a two-byte character's ("lead", "tail"),
\* or "bad"; a character is its width.
Widths(bytes) ==
    LET at(i) == CASE bytes[i] = "a" -> <<1>>
                   [] bytes[i] = "lead" /\ i < Len(bytes) /\ bytes[i + 1] = "tail" -> <<2>>
                   [] bytes[i] = "tail" /\ i > 1 /\ bytes[i - 1] = "lead" -> <<>>
                   [] OTHER -> <<3>>
    IN  FlattenSeq([i \in DOMAIN bytes |-> at(i)])

Total(widths) ==
    LET sum[i \in 0 .. Len(widths)] == IF i = 0 THEN 0 ELSE sum[i - 1] + widths[i]
    IN  sum[Len(widths)]

DecodeCappedBody(bytes) ==
    LET kept == {n \in 0..Len(Widths(bytes)) : Total(SubSeq(Widths(bytes), 1, n)) <= Len(bytes)}
    IN  SubSeq(Widths(bytes), 1, CHOOSE n \in kept : \A o \in kept : o <= n)

-----------------------------------------------------------------------------
\* redaction.rs: per pattern, by priority, the matches it finds in the text: spans from a
\* first position up to, but not including, a last.
RangesOverlap(a, b) == a.start < b.end /\ b.start < a.end

\* Mutant: a match is claimed whatever is claimed already.
ClaimAgain(claimed, span) == Append(claimed, span)

Claim(claimed, span) ==
    IF \E i \in DOMAIN claimed : RangesOverlap(span, claimed[i]) THEN claimed
    ELSE Append(claimed, span)

Claimed(matches) ==
    LET spans == FlattenSeq(matches)
        claimed[i \in 0 .. Len(spans)] ==
          IF i = 0 THEN <<>> ELSE Claim(claimed[i - 1], spans[i])
        ByStart(a, b) == a.start < b.start
    IN  Sorted(claimed[Len(spans)], ByStart)

\* The text outside the claims, as positions, and a marker for each claim.
Redact(length, matches) ==
    LET claims == Claimed(matches)
        from(i) == IF i = 1 THEN 0 ELSE claims[i - 1].end
        until(i) == IF i > Len(claims) THEN length ELSE claims[i].start
        piece(i) == [k \in 1 .. until(i) - from(i) |-> <<"text", from(i) + k - 1>>]
        mark(i) == IF i > Len(claims) THEN <<>> ELSE <<<<"mark", claims[i].category>>>>
    IN  [output |-> FlattenSeq([i \in 1 .. Len(claims) + 1 |-> piece(i) \o mark(i)]),
         markers |-> [i \in DOMAIN claims |-> [category |-> claims[i].category,
                                               offset |-> claims[i].start]]]

=============================================================================
