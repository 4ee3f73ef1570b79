---------------------------- MODULE ComponentsProofs ----------------------------
(***************************************************************************)
(* Proofs about Components, for any values of the components' constants.   *)
(*                                                                         *)
(* Each component has an inductive invariant, found for it alone; a step of *)
(* the whole is a step of one component or leaves that component as it is,  *)
(* so all the invariants together are inductive. The prober's is proved in *)
(* ProberProofs, those of the portal and of the rules in AnsweringProofs;  *)
(* what the rules make of texts, but for redaction, comes first here.      *)
(***************************************************************************)
EXTENDS Components, AnsweringProofs

\* Finite sets and their sizes are the same in every component.
LEMMA SizesAgree ==
    \A S : /\ SU!Cardinality(S) = Cardinality(S) /\ LS!Cardinality(S) = Cardinality(S)
           /\ SU!IsFiniteSet(S) <=> IsFiniteSet(S)
BY DEF Cardinality, IsFiniteSet, SU!Cardinality, SU!IsFiniteSet, LS!Cardinality, LS!IsFiniteSet

-----------------------------------------------------------------------------
(* Responses: read within a cap, decoded and quoted. *)

\* One sequence behind another.
LEMMA JoinIs ==
    ASSUME NEW X, NEW a \in Seq(X), NEW b \in Seq(X)
    PROVE  /\ a \o b \in Seq(X) /\ Len(a \o b) = Len(a) + Len(b)
           /\ \A i \in 1 .. Len(a) : (a \o b)[i] = a[i]
           /\ \A i \in 1 .. Len(b) : (a \o b)[Len(a) + i] = b[i]
  OBVIOUS

\* The beginning of a text, within a cap, and all of it unless the cap is reached.
Begins(s, t) == Len(s) <= Len(t) /\ \A i \in 1 .. Len(s) : s[i] = t[i]
Within(buf, sent, cap) == Len(buf) <= cap /\ Begins(buf, sent) /\ (Len(buf) < cap => buf = sent)

\* A chunk more, as far as there is room.
LEMMA CappedKeeps ==
    ASSUME NEW X, NEW buf \in Seq(X), NEW sent \in Seq(X), NEW chunk \in Seq(X), NEW cap \in Nat,
           Within(buf, sent, cap)
    PROVE  RU!Capped(buf, chunk, cap) \in Seq(X)
           /\ Within(RU!Capped(buf, chunk, cap), sent \o chunk, cap)
<1> DEFINE room == cap - Len(buf)
           more == IF Len(chunk) <= room THEN Len(chunk) ELSE room
           joined == sent \o chunk
<1>1. /\ Len(buf) \in Nat /\ Len(sent) \in Nat /\ Len(chunk) \in Nat /\ Len(buf) <= cap
      /\ Len(buf) <= Len(sent) /\ \A i \in 1 .. Len(buf) : buf[i] = sent[i]
      /\ Len(buf) < cap => buf = sent
  BY DEF Within, Begins
<1>2. /\ joined \in Seq(X) /\ Len(joined) = Len(sent) + Len(chunk)
      /\ \A i \in 1 .. Len(sent) : joined[i] = sent[i]
      /\ \A i \in 1 .. Len(chunk) : joined[Len(sent) + i] = chunk[i]
  OBVIOUS
<1> HIDE DEF joined
<1>3. CASE room <= 0
  <2>1. RU!Capped(buf, chunk, cap) = buf /\ Len(buf) = cap
    BY <1>1, <1>3 DEF RU!Capped
  <2>2. Begins(buf, joined)
    BY <1>1, <1>2 DEF Begins
  <2> QED
    BY <1>1, <2>1, <2>2 DEF Within, joined
<1>4. CASE ~(room <= 0)
  <2> DEFINE first == SubSeq(chunk, 1, more)
  <2>1. RU!Capped(buf, chunk, cap) = buf \o first
    BY <1>4 DEF RU!Capped
  <2>2. /\ more \in 0 .. Len(chunk) /\ more <= room /\ (more < room => more = Len(chunk))
        /\ room \in Nat /\ room = cap - Len(buf)
    BY <1>1, <1>4
  <2> HIDE DEF more, room
  <2>3. /\ first \in Seq(X) /\ Len(first) = more /\ \A i \in 1 .. more : first[i] = chunk[i]
    BY <2>2
  <2>4. more = Len(chunk) => first = chunk
    BY <2>3
  <2> HIDE DEF first
  <2>5. buf = sent
    BY <1>1, <1>4, <2>2
  <2>6. /\ buf \o first \in Seq(X) /\ Len(buf \o first) = Len(buf) + more
        /\ \A i \in 1 .. Len(buf) : (buf \o first)[i] = buf[i]
        /\ \A i \in 1 .. more : (buf \o first)[Len(buf) + i] = first[i]
    <3>1. first \in Seq(X)
      BY <2>3
    <3>2. /\ buf \o first \in Seq(X) /\ Len(buf \o first) = Len(buf) + Len(first)
          /\ \A i \in 1 .. Len(buf) : (buf \o first)[i] = buf[i]
          /\ \A i \in 1 .. Len(first) : (buf \o first)[Len(buf) + i] = first[i]
      BY <3>1, JoinIs
    <3>3. Len(first) = more
      BY <2>3
    <3> QED
      BY <3>2, <3>3
  <2>7. Begins(buf \o first, joined)
    <3>1. Len(buf \o first) <= Len(joined)
      BY <1>1, <1>2, <2>2, <2>5, <2>6
    <3>2. ASSUME NEW i \in 1 .. Len(buf) + more PROVE (buf \o first)[i] = joined[i]
      <4>1. CASE i <= Len(buf)
        <5>1. i \in 1 .. Len(buf)
          BY <1>1, <2>2, <4>1
        <5> QED
          BY <1>2, <2>5, <2>6, <5>1
      <4>2. CASE ~(i <= Len(buf))
        <5>1. i - Len(buf) \in 1 .. more /\ i - Len(buf) \in 1 .. Len(chunk)
              /\ i = Len(buf) + (i - Len(buf))
          BY <1>1, <2>2, <4>2
        <5>2. (buf \o first)[i] = chunk[i - Len(buf)]
          BY <2>3, <2>6, <5>1
        <5>3. joined[i] = chunk[i - Len(buf)]
          BY <1>2, <2>5, <5>1
        <5> QED
          BY <5>2, <5>3
      <4> QED
        BY <4>1, <4>2
    <3> QED
      BY <2>6, <3>1, <3>2 DEF Begins
  <2>8. Len(buf \o first) <= cap /\ (Len(buf \o first) < cap => more = Len(chunk))
    BY <1>1, <2>2, <2>6
  <2>9. more = Len(chunk) => buf \o first = joined
    BY <2>4, <2>5 DEF joined
  <2> QED
    BY <2>1, <2>6, <2>7, <2>8, <2>9 DEF Within, joined
<1> QED
  BY <1>3, <1>4

\* What is read is the beginning of what was sent.
LEMMA BodyIs ==
    ASSUME NEW X, NEW chunks \in Seq(Seq(X)), NEW cap \in Nat
    PROVE  RU!ReadCapped(chunks, cap) \in Seq(X)
           /\ Within(RU!ReadCapped(chunks, cap), FlattenSeq(chunks), cap)
<1> DEFINE N == Len(chunks)
           Y == Seq(X)
           Unfold(f) == [i \in 0 .. N |-> IF i = 0 THEN <<>> ELSE RU!Capped(f[i - 1], chunks[i], cap)]
           buf == CHOOSE f : f = Unfold(f)
           turn == [i \in 1 .. N |-> [s \in Y |-> RU!Capped(s, chunks[i], cap)]]
<1>1. RU!ReadCapped(chunks, cap) = buf[N]
  BY DEF RU!ReadCapped
<1>2. N \in Nat /\ <<>> \in Y /\ \A i \in 1 .. N : chunks[i] \in Y
  OBVIOUS
<1>3. PICK F \in [0 .. N -> Y] :
        /\ F[0] = <<>> /\ FlattenSeq(chunks) = F[N]
        /\ \A i \in 1 .. N : F[i] = F[i - 1] \o chunks[i]
  BY FlattenUnfolds
<1> HIDE DEF Unfold, buf, N
<1>4. turn \in [1 .. N -> [Y -> Y]]
  <2>1. ASSUME NEW i \in 1 .. N, NEW s \in Y PROVE RU!Capped(s, chunks[i], cap) \in Y
    <3>1. chunks[i] \in Seq(X)
      BY <1>2
    <3>2. Len(s) \in Nat /\ Len(chunks[i]) \in Nat
      BY <3>1
    <3>3. \A k \in 0 .. Len(chunks[i]) : SubSeq(chunks[i], 1, k) \in Seq(X)
      BY <3>1
    <3>4. cap - Len(s) <= 0 \/ (IF Len(chunks[i]) <= cap - Len(s) THEN Len(chunks[i])
                                ELSE cap - Len(s)) \in 0 .. Len(chunks[i])
      BY <3>2
    <3> QED
      BY <3>3, <3>4 DEF RU!Capped
  <2> HIDE DEF Y
  <2> QED
    BY <2>1
<1>5. buf = Unfold(buf)
  <2>1. PICK f : Recursive(f, N, Y, <<>>, turn)
    <3> HIDE DEF turn, Y
    <3> QED
      BY <1>2, <1>4, Recurses
  <2>2. \A i \in 1 .. N : i - 1 \in 0 .. N
    BY <1>2
  <2>3. /\ f \in [0 .. N -> Y] /\ f[0] = <<>>
        /\ \A i \in 1 .. N : f[i] = RU!Capped(f[i - 1], chunks[i], cap)
    BY <2>1, <2>2 DEF Recursive
  <2>4. \A i \in 0 .. N : i # 0 => i \in 1 .. N
    BY <1>2
  <2>5. \A i \in 0 .. N : f[i] = IF i = 0 THEN <<>> ELSE RU!Capped(f[i - 1], chunks[i], cap)
    BY <2>3, <2>4
  <2>6. f = Unfold(f)
    BY <2>3, <2>5 DEF Unfold
  <2> QED
    BY <2>6 DEF buf
<1> HIDE DEF turn
<1> DEFINE G == {i \in 0 .. N : buf[i] \in Y /\ Within(buf[i], F[i], cap)}
<1>6. 0 \in G
  <2>1. buf[0] = <<>> /\ 0 \in 0 .. N
    BY <1>2, <1>5 DEF Unfold
  <2>2. Within(<<>>, <<>>, cap)
    BY DEF Within, Begins
  <2> QED
    BY <1>2, <1>3, <2>1, <2>2
<1>7. ASSUME NEW i \in 1 .. N, i - 1 \in G PROVE i \in G
  <2>1. i \in 0 .. N /\ i # 0 /\ i - 1 \in 0 .. N
    BY <1>2
  <2>2. buf[i] = RU!Capped(buf[i - 1], chunks[i], cap) /\ F[i] = F[i - 1] \o chunks[i]
    BY <1>3, <1>5, <2>1 DEF Unfold
  <2>3. /\ buf[i - 1] \in Seq(X) /\ Within(buf[i - 1], F[i - 1], cap)
        /\ F[i - 1] \in Seq(X) /\ chunks[i] \in Seq(X)
    BY <1>2, <1>3, <1>7, <2>1
  <2>4. buf[i] \in Seq(X) /\ Within(buf[i], F[i], cap)
    BY <2>2, <2>3, CappedKeeps
  <2> QED
    BY <2>1, <2>4
<1>8. N \in G
  <2> HIDE DEF G
  <2>1. 0 .. N \subseteq G
    BY <1>2, <1>6, <1>7, Inducts
  <2> QED
    BY <1>2, <2>1
<1> QED
  BY <1>1, <1>3, <1>8

\* A decoded body is no longer than what was read.
LEMMA DecodedIs ==
    ASSUME NEW bytes \in Seq(STRING)
    PROVE  RU!Total(RU!DecodeCappedBody(bytes)) <= Len(bytes)
<1> DEFINE W == RU!Widths(bytes)
           kept == {n \in 0 .. Len(W) : RU!Total(SubSeq(W, 1, n)) <= Len(bytes)}
           last == CHOOSE n \in kept : \A o \in kept : o <= n
<1>1. RU!DecodeCappedBody(bytes) = SubSeq(W, 1, last)
  BY DEF RU!DecodeCappedBody
<1>2. W \in Seq(Nat)
  <2> DEFINE placed(i) == CASE bytes[i] = "a" -> <<1>>
                        [] bytes[i] = "lead" /\ i < Len(bytes) /\ bytes[i + 1] = "tail" -> <<2>>
                        [] bytes[i] = "tail" /\ i > 1 /\ bytes[i - 1] = "lead" -> <<>>
                        [] OTHER -> <<3>>
             each == [i \in DOMAIN bytes |-> placed(i)]
             Y == Seq(Nat)
  <2>1. W = RU!FlattenSeq(each)
    BY DEF RU!Widths
  <2>2. <<1>> \in Y /\ <<2>> \in Y /\ <<3>> \in Y /\ <<>> \in Y
    OBVIOUS
  <2>3. \A i : placed(i) \in {<<1>>, <<2>>, <<3>>, <<>>}
    <3>1. TAKE i
    <3> DEFINE p == bytes[i] = "a"
               q == bytes[i] = "lead" /\ i < Len(bytes) /\ bytes[i + 1] = "tail"
               r == bytes[i] = "tail" /\ i > 1 /\ bytes[i - 1] = "lead"
    <3>2. placed(i) = CASE p -> <<1>> [] q -> <<2>> [] r -> <<>> [] OTHER -> <<3>>
      OBVIOUS
    <3> HIDE DEF p, q, r, placed
    <3> QED
      BY <3>2
  <2> HIDE DEF Y, placed
  <2>4. each \in Seq(Y)
    BY <2>2, <2>3
  <2> HIDE DEF each
  <2> QED
    BY <2>1, <2>4, FlattenItems, SameOperators DEF Y
<1> HIDE DEF W
<1>3. 0 \in kept
  <2>1. SubSeq(W, 1, 0) = <<>>
    BY <1>2
  <2>2. RU!Total(<<>>) = 0
    <3> DEFINE Unfold(f) == [i \in 0 .. Len(<<>>) |-> IF i = 0 THEN 0 ELSE f[i - 1] + <<>>[i]]
               sum == CHOOSE f : f = Unfold(f)
               zero == [i \in 0 .. 0 |-> 0]
    <3>1. RU!Total(<<>>) = sum[Len(<<>>)]
      BY DEF RU!Total
    <3>2. Len(<<>>) = 0
      OBVIOUS
    <3>3. zero = Unfold(zero)
      <4>1. \A i \in 0 .. 0 : i = 0
        OBVIOUS
      <4> QED
        BY <3>2, <4>1
    <3>4. sum = Unfold(sum)
      <4> HIDE DEF zero, Unfold
      <4> QED
        BY <3>3 DEF sum
    <3> HIDE DEF sum
    <3> QED
      BY <3>1, <3>2, <3>4
  <2>3. 0 \in 0 .. Len(W) /\ 0 <= Len(bytes)
    BY <1>2
  <2> QED
    BY <2>1, <2>2, <2>3
<1>4. last \in kept
  <2>1. Len(W) \in Nat /\ kept \in SUBSET (0 .. Len(W)) /\ kept # {}
    BY <1>2, <1>3
  <2> HIDE DEF kept
  <2>2. RU!Max(kept) \in kept /\ \A x \in kept : x <= RU!Max(kept)
    BY <2>1, GreatestIs
  <2> QED
    BY <2>2
<1> HIDE DEF last
<1> QED
  BY <1>1, <1>4

\* What is quoted of a response: never a header that may hold a secret.
Quoted(names, texts) ==
    {e \in [kind : {"header", "banner", "body"}, name : names, text : texts] :
       e.kind = "header" => e.name \notin RU!REDACTED_HEADERS}

\* What is quoted of a response is never a header that may hold a secret.
LEMMA QuotesAre ==
    ASSUME NEW X, NEW headers \in Seq(X), NEW body, NEW said,
           said.headers = headers, said.body = body
    PROVE  \A i \in DOMAIN RU!EvidenceFromResponse(said) :
             RU!EvidenceFromResponse(said)[i].kind = "header" =>
               RU!EvidenceFromResponse(said)[i].name \notin RU!REDACTED_HEADERS
<1> DEFINE missing == RU!MissingHeaders(headers)
           names == {headers[i].name : i \in DOMAIN headers}
                      \cup {"disclosure", "missing", "weak", "body"}
           texts == {headers[i].name : i \in DOMAIN headers}
                      \cup {headers[i].value : i \in DOMAIN headers}
                      \cup {missing[i] : i \in DOMAIN missing} \cup {"hsts", body}
           Q == Quoted(names, texts)
           each == [i \in DOMAIN headers |-> RU!HeaderEvidence(headers[i])]
           given == [i \in DOMAIN missing |->
                      [kind |-> "banner", name |-> "missing", text |-> missing[i]]]
           weak == RU!When(RU!WeakHsts(headers), [kind |-> "banner", name |-> "weak", text |-> "hsts"])
           rest == RU!When(body # <<>>, [kind |-> "body", name |-> "body", text |-> body])
<1>1. RU!EvidenceFromResponse(said) = RU!FlattenSeq(each) \o given \o weak \o rest
  BY DEF RU!EvidenceFromResponse
<1>2. \A condition, e : e \in Q => RU!When(condition, e) \in Seq(Q)
  <2> HIDE DEF Q
  <2> QED
    BY DEF RU!When
<1>3. each \in Seq(Seq(Q))
  <2>1. ASSUME NEW i \in DOMAIN headers PROVE each[i] \in Seq(Q)
    <3> DEFINE h == headers[i]
               quote == [kind |-> "header", name |-> h.name, text |-> h.value]
               note == [kind |-> "banner", name |-> "disclosure", text |-> h.name]
    <3>1. h.name \in names /\ h.name \in texts /\ h.value \in texts /\ "disclosure" \in names
      OBVIOUS
    <3> HIDE DEF names, texts, h
    <3>2. note \in Q
      BY <3>1 DEF Quoted
    <3>3. CASE h.name \in RU!REDACTED_HEADERS \/ ~h.text
      <4>1. each[i] = <<>>
        BY <3>3 DEF RU!HeaderEvidence, h
      <4> QED
        BY <4>1
    <3>4. CASE ~(h.name \in RU!REDACTED_HEADERS \/ ~h.text)
      <4>1. each[i] = <<quote>> \o RU!When(h.name \in RU!VERSION_DISCLOSURE_HEADERS, note)
        BY <3>4 DEF RU!HeaderEvidence, h
      <4>2. quote \in Q
        BY <3>1, <3>4 DEF Quoted
      <4>3. RU!When(h.name \in RU!VERSION_DISCLOSURE_HEADERS, note) \in Seq(Q)
        BY <1>2, <3>2
      <4>4. <<quote>> \in Seq(Q)
        BY <4>2
      <4> HIDE DEF Q, note, quote, each
      <4> QED
        BY <4>1, <4>3, <4>4
    <3> QED
      BY <3>3, <3>4
  <2>2. DOMAIN headers = 1 .. Len(headers) /\ Len(headers) \in Nat
    OBVIOUS
  <2> DEFINE Y == Seq(Q)
  <2>3. \A i \in DOMAIN headers : each[i] \in Y
    BY <2>1
  <2>4. each = [i \in 1 .. Len(headers) |-> each[i]]
    BY <2>2
  <2> HIDE DEF each, Y
  <2>5. each \in Seq(Y)
    BY <2>2, <2>3, <2>4
  <2> QED
    BY <2>5 DEF Y
<1>4. given \in Seq(Q)
  <2> DEFINE joined == RU!REQUIRED_SECURITY_HEADERS
             I == {i \in DOMAIN joined : \A k \in DOMAIN headers : headers[k].name # joined[i]}
  <2>1. missing = Picked(joined, I)
    BY DEF RU!MissingHeaders, RU!Selected, Picked
  <2>2. joined \in Seq({joined[i] : i \in 1 .. 5}) /\ I \in SUBSET DOMAIN joined
    BY DEF RU!REQUIRED_SECURITY_HEADERS
  <2> DEFINE Z == {joined[i] : i \in 1 .. 5}
  <2> HIDE DEF joined, I, Z
  <2>3. missing \in Seq(Z)
    BY <2>1, <2>2, PickedIs DEF Z
  <2>4. DOMAIN missing = 1 .. Len(missing) /\ Len(missing) \in Nat
    <3> HIDE DEF missing
    <3> QED
      BY <2>3
  <2>5. ASSUME NEW i \in DOMAIN missing PROVE given[i] \in Q
    <3>1. missing[i] \in texts /\ "missing" \in names
      OBVIOUS
    <3> HIDE DEF missing, texts, names
    <3> QED
      BY <3>1 DEF Quoted
  <2>6. given = [i \in 1 .. Len(missing) |-> given[i]]
    BY <2>4
  <2> HIDE DEF given, Q, missing
  <2> QED
    BY <2>4, <2>5, <2>6
<1>5. weak \in Seq(Q) /\ rest \in Seq(Q)
  <2>1. "weak" \in names /\ "hsts" \in texts /\ "body" \in names /\ body \in texts
    OBVIOUS
  <2> HIDE DEF names, texts
  <2>2. /\ [kind |-> "banner", name |-> "weak", text |-> "hsts"] \in Q
        /\ [kind |-> "body", name |-> "body", text |-> body] \in Q
    BY <2>1 DEF Quoted
  <2> HIDE DEF Q
  <2> QED
    BY <1>2, <2>2
<1> HIDE DEF each, given, weak, rest, names, texts, Q, missing
<1>6. RU!FlattenSeq(each) \in Seq(Q)
  BY <1>3, FlattenItems, SameOperators
<1>7. RU!EvidenceFromResponse(said) \in Seq(Q)
  BY <1>1, <1>4, <1>5, <1>6
<1>8. \A e \in Q : e.kind = "header" => e.name \notin RU!REDACTED_HEADERS
  BY DEF Q, Quoted
<1> QED
  BY <1>7, <1>8

-----------------------------------------------------------------------------
(* Sources: netlink, the payload of a Windows host, /proc/net. *)

\* A failed conversion is no name and no rule.
\* Pieces are read from the first one on.
LEMMA ReadableIs ==
    ASSUME NEW X, NEW pieces \in Seq(X), NEW header
    PROVE  /\ RU!ReadableUpTo(pieces, header) \in Seq(X)
           /\ Len(RU!ReadableUpTo(pieces, header)) <= Len(pieces)
           /\ \A i \in 1 .. Len(RU!ReadableUpTo(pieces, header)) :
                RU!ReadableUpTo(pieces, header)[i] = pieces[i]
           /\ \A i \in 1 .. Len(pieces) :
                i <= Len(RU!ReadableUpTo(pieces, header)) <=>
                  \A k \in 1 .. i : ~(pieces[k].len < header \/ ~pieces[k].whole)
<1> DEFINE bad == {i \in DOMAIN pieces : pieces[i].len < header \/ ~pieces[i].whole}
           n == IF bad = {} THEN Len(pieces) ELSE RU!Min(bad) - 1
<1>1. RU!ReadableUpTo(pieces, header) = SubSeq(pieces, 1, n)
  BY DEF RU!ReadableUpTo
<1>2. Len(pieces) \in Nat /\ bad \in SUBSET (1 .. Len(pieces)) /\ bad \in SUBSET Nat
  OBVIOUS
<1>3. bad # {} => RU!Min(bad) \in bad /\ \A k \in bad : RU!Min(bad) <= k
  <2> HIDE DEF bad
  <2> QED
    BY <1>2, LeastIs
<1>4. n \in 0 .. Len(pieces)
  <2>1. bad # {} => RU!Min(bad) \in 1 .. Len(pieces)
    BY <1>2, <1>3
  <2> HIDE DEF bad
  <2>2. CASE bad = {}
    BY <1>2, <2>2
  <2>3. CASE bad # {}
    <3>1. n = RU!Min(bad) - 1 /\ RU!Min(bad) \in 1 .. Len(pieces)
      BY <2>1, <2>3
    <3> QED
      BY <1>2, <3>1
  <2> QED
    BY <2>2, <2>3
<1>6. ASSUME NEW i \in 1 .. Len(pieces)
      PROVE  i <= n <=> \A k \in 1 .. i : k \notin bad
  <2> HIDE DEF bad
  <2>1. CASE bad = {}
    BY <1>2, <2>1
  <2>2. CASE bad # {}
    <3>1. n = RU!Min(bad) - 1 /\ RU!Min(bad) \in 1 .. Len(pieces)
      BY <1>2, <1>3, <2>2
    <3> HIDE DEF n
    <3>2. i <= n => \A k \in 1 .. i : k \notin bad
      BY <1>2, <1>3, <2>2, <3>1
    <3>3. (\A k \in 1 .. i : k \notin bad) => i <= n
      BY <1>2, <1>3, <2>2, <3>1
    <3> QED
      BY <3>2, <3>3
  <2> QED
    BY <2>1, <2>2
<1>7. \A i \in 1 .. Len(pieces) : \A k \in 1 .. i :
        k \notin bad <=> ~(pieces[k].len < header \/ ~pieces[k].whole)
  OBVIOUS
<1> HIDE DEF n, bad
<1>5. /\ SubSeq(pieces, 1, n) \in Seq(X) /\ Len(SubSeq(pieces, 1, n)) = n
      /\ \A i \in 1 .. n : SubSeq(pieces, 1, n)[i] = pieces[i]
  BY <1>2, <1>4
<1>8. Len(RU!ReadableUpTo(pieces, header)) = n
  BY <1>1, <1>5
<1>9. \A i \in 1 .. Len(pieces) :
        i <= Len(RU!ReadableUpTo(pieces, header)) <=>
          \A k \in 1 .. i : ~(pieces[k].len < header \/ ~pieces[k].whole)
  BY <1>6, <1>7, <1>8
<1> QED
  BY <1>1, <1>2, <1>4, <1>5, <1>9

\* A name is the bytes before its end, or none.
LEMMA NamesAreBytes ==
    ASSUME NEW value \in Seq(Nat)
    PROVE  RU!DecodeNlaString(value) \in RU!ChainNames
<1> DEFINE bytes == IF value # <<>> /\ RU!Last(value) = 0 THEN RU!Front(value) ELSE value
<1>1. bytes \in Seq(Nat)
  <2>1. value # <<>> => RU!Front(value) \in Seq(Nat)
    BY DEF RU!Front
  <2> QED
    BY <2>1
<1>2. RU!DecodeNlaString(value)
        = IF bytes = <<>> \/ \E i \in DOMAIN bytes : bytes[i] > 127 THEN {} ELSE {bytes}
  BY DEF RU!DecodeNlaString, RU!None
<1> HIDE DEF bytes
<1> QED
  BY <1>1, <1>2 DEF RU!ChainNames

\* The chain of a message is named, as is its table, or not.
NamedChain(chain) ==
    /\ chain.table \in RU!ChainNames \ {Failed} /\ chain.name \in RU!ChainNames \ {Failed}

\* A message that can be read names a chain and its table, or neither.
LEMMA ChainIsNamed ==
    ASSUME RU!RulesAssumption, NEW message, RU!MessageIsTyped(message)
    PROVE  NamedChain(RU!ParseChainPayload(message.payload))
<1> DEFINE attributes == message.payload
           X == RU!ToSet(attributes)
           placed(type) == {i \in DOMAIN RU!IterNlattrs(attributes) : attributes[i].type = type}
           value(type) == IF placed(type) = {} THEN {}
                          ELSE RU!DecodeNlaString(attributes[RU!Max(placed(type))].value)
<1>1. /\ RU!ParseChainPayload(attributes).table = value("table")
      /\ RU!ParseChainPayload(attributes).name = value("name")
  BY DEF RU!ParseChainPayload, RU!LastOf, RU!None
<1>2. /\ attributes \in Seq(X)
      /\ \A a \in X : a.type \in {"table", "name"} =>
           a.value \in Seq(Nat) /\ Failed # RU!DecodeNlaString(a.value)
  BY DEF RU!MessageIsTyped, RU!Sequence
<1>3. {} \in RU!ChainNames \ {Failed}
  BY DEF RU!ChainNames, RU!RulesAssumption
<1> HIDE DEF attributes
<1>4. ASSUME NEW type \in {"table", "name"} PROVE value(type) \in RU!ChainNames \ {Failed}
  <2>1. DOMAIN RU!IterNlattrs(attributes) \subseteq 1 .. Len(attributes) /\ Len(attributes) \in Nat
    <3> HIDE DEF X
    <3> QED
      BY <1>2, ReadableIs DEF RU!IterNlattrs
  <2>2. placed(type) \in SUBSET (0 .. Len(attributes)) /\ placed(type) \in SUBSET (1 .. Len(attributes))
    BY <2>1
  <2>3. CASE placed(type) = {}
    BY <2>3, <1>3
  <2>4. CASE placed(type) # {}
    <3> DEFINE m == RU!Max(placed(type))
    <3>1. m \in placed(type)
      <4> HIDE DEF placed
      <4> QED
        BY <2>1, <2>2, <2>4, GreatestIs
    <3>2. m \in 1 .. Len(attributes) /\ attributes[m].type = type /\ attributes[m] \in X
      BY <3>1, <2>2, <1>2
    <3>3. RU!DecodeNlaString(attributes[m].value) \in RU!ChainNames \ {Failed}
      <4> HIDE DEF m
      <4> QED
        BY <3>2, <1>2, NamesAreBytes
    <3>4. value(type) = RU!DecodeNlaString(attributes[m].value)
      BY <2>4
    <3> QED
      BY <3>3, <3>4
  <2> QED
    BY <2>3, <2>4
<1> HIDE DEF value
<1> QED
  BY <1>1, <1>4 DEF NamedChain, attributes

\* What a buffer says of chains, it says in messages heard in it.
ChainsIn(messages) == {RU!ParseChainPayload(m.payload) : m \in RU!ToSet(messages)}
NewChains(messages) == {m \in messages : m.type = "newchain"}

ReadOff(parsed, heard) ==
    /\ RU!Items(parsed.chains) = {RU!ParseChainPayload(m.payload) : m \in NewChains(heard)}
    /\ parsed.done <=> \E m \in heard : RU!Ends(m)
    /\ parsed.error = "none" => \A m \in heard : m.type # "error"

\* The chains of a buffer are in its messages.
LEMMA BufferIsRead ==
    ASSUME NEW messages, RU!Sequence(messages), \A m \in RU!ToSet(messages) : m.len \in Nat
    PROVE  /\ RU!ParseNlBuffer(messages).chains \in Seq(ChainsIn(messages))
           /\ ReadOff(RU!ParseNlBuffer(messages), RU!Heard(messages))
<1> DEFINE X == RU!ToSet(messages)
           readable == RU!ReadableUpTo(messages, RU!HEADER)
           ends == {i \in DOMAIN readable : readable[i].type \in {"done", "error"}}
           last == IF ends = {} THEN Len(readable) ELSE RU!Min(ends)
           until == SubSeq(readable, 1, last)
           I == {i \in DOMAIN until : until[i].type = "newchain"}
           chains == Picked(until, I)
           parsed == RU!ParseNlBuffer(messages)
           heard == RU!Heard(messages)
<1>1. /\ parsed.chains = [i \in DOMAIN chains |-> RU!ParseChainPayload(chains[i].payload)]
      /\ parsed.done = (ends # {})
      /\ parsed.error = IF ends # {} /\ readable[last].type = "error"
                        THEN RU!ClassifyErrno(readable[last].errno) ELSE "none"
  BY DEF RU!ParseNlBuffer, RU!Selected, Picked
<1> HIDE DEF parsed
<1>2. messages \in Seq(X) /\ DOMAIN messages = 1 .. Len(messages) /\ Len(messages) \in Nat
      /\ \A i \in 1 .. Len(messages) : messages[i] \in X /\ messages[i].len \in Nat
  BY DEF RU!Sequence, RU!ToSet
<1>3. /\ readable \in Seq(X) /\ Len(readable) \in 0 .. Len(messages)
      /\ \A i \in 1 .. Len(readable) : readable[i] = messages[i]
      /\ \A i \in 1 .. Len(messages) :
           i <= Len(readable) <=> \A k \in 1 .. i : RU!Intact(messages[k])
  <2>1. \A i \in 1 .. Len(messages) : \A k \in 1 .. i :
          ~(messages[k].len < RU!HEADER \/ ~messages[k].whole) <=> RU!Intact(messages[k])
    <3> TAKE i \in 1 .. Len(messages)
    <3> TAKE k \in 1 .. i
    <3>1. messages[k].len \in Nat /\ RU!HEADER \in Nat
      BY <1>2 DEF RU!HEADER
    <3> QED
      BY <3>1 DEF RU!Intact
  <2>2. /\ readable \in Seq(X) /\ Len(readable) <= Len(messages)
        /\ \A i \in 1 .. Len(readable) : readable[i] = messages[i]
        /\ \A i \in 1 .. Len(messages) :
             i <= Len(readable) <=>
               \A k \in 1 .. i : ~(messages[k].len < RU!HEADER \/ ~messages[k].whole)
    <3> HIDE DEF X
    <3> QED
      BY <1>2, ReadableIs
  <2>3. Len(readable) \in Nat
    BY <2>2
  <2> HIDE DEF readable, X
  <2> QED
    BY <1>2, <2>1, <2>2, <2>3
<1> HIDE DEF readable
<1>4. /\ last \in 0 .. Len(readable) /\ (ends # {} => last \in ends)
      /\ \A i \in ends : last <= i
      /\ \A i \in 1 .. Len(readable) : i \in ends <=> RU!Ends(messages[i])
  <2>1. Len(readable) \in Nat /\ ends \in SUBSET (1 .. Len(readable)) /\ ends \in SUBSET Nat
    BY <1>3
  <2>2. ends # {} => RU!Min(ends) \in ends /\ \A i \in ends : RU!Min(ends) <= i
    <3> HIDE DEF ends
    <3> QED
      BY <2>1, LeastIs
  <2>3. \A i \in 1 .. Len(readable) : i \in ends <=> RU!Ends(messages[i])
    BY <1>3, <2>1 DEF RU!Ends
  <2> HIDE DEF ends
  <2>4. CASE ends = {}
    <3>1. last = Len(readable)
      BY <2>4
    <3> HIDE DEF last
    <3>2. last \in 0 .. Len(readable)
      BY <2>1, <3>1
    <3> QED
      BY <2>3, <2>4, <3>2
  <2>5. CASE ends # {}
    <3>1. last = RU!Min(ends)
      BY <2>5
    <3> HIDE DEF last
    <3>2. last \in 1 .. Len(readable)
      BY <2>1, <2>2, <2>5, <3>1
    <3>3. last \in 0 .. Len(readable)
      BY <2>1, <3>2
    <3> QED
      BY <2>2, <2>3, <2>5, <3>1, <3>3
  <2> HIDE DEF last
  <2> QED
    BY <2>4, <2>5
<1>5. /\ ends \subseteq 1 .. Len(readable)
      /\ until \in Seq(X) /\ Len(until) = last /\ DOMAIN until = 1 .. last
      /\ \A i \in 1 .. last : until[i] = messages[i]
  <2>1. ends \subseteq 1 .. Len(readable)
    BY <1>3
  <2>2. Len(readable) \in Nat /\ last \in 0 .. Len(readable)
    BY <1>3, <1>4
  <2> HIDE DEF last, X, ends
  <2>3. until \in Seq(X) /\ Len(until) = last /\ DOMAIN until = 1 .. last
        /\ \A i \in 1 .. last : until[i] = readable[i]
    BY <1>3, <2>2
  <2>4. \A i \in 1 .. last : until[i] = messages[i]
    <3> TAKE i \in 1 .. last
    <3>1. i \in 1 .. Len(readable)
      BY <2>2
    <3> QED
      BY <1>3, <2>3, <3>1
  <2> HIDE DEF until
  <2> QED
    BY <2>1, <2>3, <2>4
<1> HIDE DEF last, ends, until
<1>6. heard = {messages[j] : j \in 1 .. last}
  <2> DEFINE places == {j \in DOMAIN messages : /\ \A k \in 1 .. j : RU!Intact(messages[k])
                                                /\ \A k \in 1 .. j - 1 : ~RU!Ends(messages[k])}
  <2>1. heard = {messages[j] : j \in places}
    BY DEF RU!Heard
  <2>2. ASSUME NEW j \in places PROVE j \in 1 .. last
    <3>1. j \in 1 .. Len(readable)
      BY <1>2, <1>3
    <3>2. CASE ends = {}
      BY <3>1, <3>2, <1>3 DEF last
    <3>3. CASE ends # {}
      <4>1. last \in ends /\ last \in 1 .. Len(readable)
        BY <1>4, <1>5, <3>3
      <4>2. RU!Ends(messages[last])
        BY <1>4, <4>1
      <4>3. last \notin 1 .. j - 1
        BY <4>2
      <4> QED
        BY <1>3, <3>1, <4>1, <4>3
    <3> QED
      BY <3>2, <3>3
  <2>3. ASSUME NEW j \in 1 .. last PROVE j \in places
    <3>1. j \in 1 .. Len(messages) /\ j <= Len(readable) /\ j \in Nat
      BY <1>3, <1>4
    <3>2. \A k \in 1 .. j - 1 : ~RU!Ends(messages[k])
      <4> SUFFICES ASSUME NEW k \in 1 .. j - 1, RU!Ends(messages[k]) PROVE FALSE
        OBVIOUS
      <4>1. k \in 1 .. Len(readable) /\ k < last
        BY <1>3, <1>4, <3>1
      <4>2. last <= k
        BY <1>4, <4>1
      <4> QED
        BY <1>3, <1>4, <4>1, <4>2
    <3> QED
      BY <1>2, <1>3, <3>1, <3>2
  <2> HIDE DEF places
  <2> QED
    BY <2>1, <2>2, <2>3
<1> HIDE DEF heard
<1>7. chains \in Seq(X) /\ RU!Items(chains) = NewChains(heard)
  <2>1. I \in SUBSET DOMAIN until
    OBVIOUS
  <2>2. chains \in Seq(X) /\ RU!Items(chains) = {until[i] : i \in I}
    <3> HIDE DEF I, X
    <3> QED
      BY <1>5, <2>1, PickedIs
  <2>3. {until[i] : i \in I} = NewChains(heard)
    BY <1>5, <1>6 DEF NewChains
  <2> QED
    BY <2>2, <2>3
<1> HIDE DEF chains
<1>8. parsed.chains \in Seq(ChainsIn(messages))
  <2>1. \A x \in X : RU!ParseChainPayload(x.payload) \in ChainsIn(messages)
    BY DEF ChainsIn
  <2> HIDE DEF X
  <2> QED
    BY <1>1, <1>7, <2>1
<1>9. RU!Items(parsed.chains) = {RU!ParseChainPayload(m.payload) : m \in NewChains(heard)}
  <2>1. RU!Items(parsed.chains) = {RU!ParseChainPayload(chains[i].payload) : i \in DOMAIN chains}
    BY <1>1 DEF RU!Items, RU!ToSet
  <2>2. NewChains(heard) = {chains[i] : i \in DOMAIN chains}
    BY <1>7 DEF RU!Items, RU!ToSet
  <2> QED
    BY <2>1, <2>2
<1>10. parsed.done <=> \E m \in heard : RU!Ends(m)
  <2>1. ASSUME ends # {} PROVE \E m \in heard : RU!Ends(m)
    <3>1. last \in 1 .. last /\ RU!Ends(messages[last])
      BY <1>3, <1>4, <1>5, <2>1
    <3> QED
      BY <1>6, <3>1
  <2>2. ASSUME NEW m \in heard, RU!Ends(m) PROVE ends # {}
    <3>1. PICK j \in 1 .. last : m = messages[j]
      BY <1>6
    <3> QED
      BY <1>3, <1>4, <2>2, <3>1
  <2> QED
    BY <1>1, <2>1, <2>2
<1>11. ASSUME parsed.error = "none", NEW m \in heard PROVE m.type # "error"
  <2> SUFFICES ASSUME m.type = "error" PROVE FALSE
    OBVIOUS
  <2>1. PICK j \in 1 .. last : m = messages[j]
    BY <1>6
  <2>2. j \in 1 .. Len(readable) /\ RU!Ends(messages[j])
    BY <1>3, <1>4, <2>1 DEF RU!Ends
  <2>3. j \in ends /\ j = last
    BY <1>3, <1>4, <2>1, <2>2
  <2>4. parsed.error = RU!ClassifyErrno(readable[last].errno)
    BY <1>1, <1>3, <2>1, <2>2, <2>3
  <2>5. RU!ClassifyErrno(readable[last].errno) \in {"PermissionDenied", "Unreachable"}
    BY DEF RU!ClassifyErrno
  <2> QED
    BY <1>11, <2>4, <2>5
<1> QED
  BY <1>8, <1>9, <1>10, <1>11 DEF ReadOff, parsed, heard

\* What a dump says of chains, it says in messages of its buffers.
ChainsOf(buffers) == UNION {ChainsIn(messages) : messages \in RU!ToSet(buffers)}

Whole(buffers) ==
    /\ RU!Sequence(buffers)
    /\ \A buffer \in RU!ToSet(buffers) :
         RU!Sequence(buffer) /\ \A message \in RU!ToSet(buffer) : RU!MessageIsTyped(message)

EndersOf(buffers) == {i \in DOMAIN buffers : RU!ParseNlBuffer(buffers[i]).done}

\* The chains of a dump are in the messages of its buffers.
LEMMA DumpIsRead ==
    ASSUME NEW buffers, Whole(buffers)
    PROVE  /\ RU!QueryChains(buffers).chains \in Seq(ChainsOf(buffers))
           /\ EndersOf(buffers) # {} =>
                RU!Items(RU!QueryChains(buffers).chains)
                  = UNION {RU!Items(RU!ParseNlBuffer(buffers[i]).chains) :
                             i \in 1 .. RU!Min(EndersOf(buffers))}
<1> DEFINE outcomes == [i \in DOMAIN buffers |-> RU!ParseNlBuffer(buffers[i])]
           ends == {i \in DOMAIN outcomes : outcomes[i].done}
           each == [i \in 1 .. RU!Min(ends) |-> outcomes[i].chains]
           C == ChainsOf(buffers)
           Y == Seq(C)
<1>6. ends = EndersOf(buffers)
  BY DEF EndersOf
<1>1. RU!QueryChains(buffers).chains = IF ends = {} THEN <<>> ELSE RU!FlattenSeq(each)
  BY DEF RU!QueryChains
<1>2. DOMAIN buffers = 1 .. Len(buffers) /\ Len(buffers) \in Nat
      /\ \A i \in DOMAIN buffers : buffers[i] \in RU!ToSet(buffers)
  BY DEF Whole, RU!Sequence, RU!ToSet
<1>3. \A i \in DOMAIN buffers : outcomes[i].chains \in Y
  <2> TAKE i \in DOMAIN buffers
  <2>1. RU!Sequence(buffers[i]) /\ \A m \in RU!ToSet(buffers[i]) : m.len \in Nat
    BY <1>2 DEF Whole, RU!MessageIsTyped
  <2>2. outcomes[i].chains \in Seq(ChainsIn(buffers[i]))
    BY <2>1, BufferIsRead
  <2>3. ChainsIn(buffers[i]) \subseteq C
    BY <1>2 DEF ChainsOf
  <2> HIDE DEF outcomes, C
  <2> QED
    BY <2>2, <2>3
<1>4. CASE ends = {}
  <2>1. <<>> \in Y
    OBVIOUS
  <2> QED
    BY <1>6, <1>1, <1>4, <2>1
<1>5. CASE ends # {}
  <2>1. ends \in SUBSET (1 .. Len(buffers)) /\ ends \in SUBSET Nat
    BY <1>2
  <2>2. RU!Min(ends) \in ends
    <3> HIDE DEF ends
    <3> QED
      BY <1>5, <2>1, LeastIs
  <2>3. RU!Min(ends) \in Nat /\ 1 .. RU!Min(ends) \subseteq DOMAIN buffers
    <3>1. RU!Min(ends) \in 1 .. Len(buffers)
      BY <2>1, <2>2
    <3> HIDE DEF ends, outcomes, each, Y
    <3> QED
      BY <1>2, <3>1
  <2> HIDE DEF ends, outcomes, Y
  <2>4. each \in Seq(Y)
    <3>1. \A i \in 1 .. RU!Min(ends) : each[i] \in Y
      BY <1>3, <2>3
    <3>2. each = [i \in 1 .. RU!Min(ends) |-> each[i]]
      OBVIOUS
    <3> HIDE DEF each
    <3> QED
      BY <2>3, <3>1, <3>2
  <2>5. FlattenSeq(each) \in Y
        /\ RU!Items(FlattenSeq(each)) = UNION {RU!Items(each[i]) : i \in 1 .. RU!Min(ends)}
    <3>0. Len(each) = RU!Min(ends)
      BY <2>3
    <3> HIDE DEF each, C
    <3>1. each \in Seq(Seq(C))
      BY <2>4 DEF Y
    <3>2. /\ FlattenSeq(each) \in Seq(C)
          /\ RU!Items(FlattenSeq(each)) = UNION {RU!Items(each[i]) : i \in 1 .. Len(each)}
      BY <3>1, FlattenItems
    <3> QED
      BY <3>0, <3>2 DEF Y
  <2>6. RU!QueryChains(buffers).chains = FlattenSeq(each)
    BY <1>1, <1>5, SameOperators
  <2>7. UNION {RU!Items(each[i]) : i \in 1 .. RU!Min(ends)}
          = UNION {RU!Items(RU!ParseNlBuffer(buffers[i]).chains) : i \in 1 .. RU!Min(ends)}
    <3>1. \A i \in 1 .. RU!Min(ends) : each[i] = RU!ParseNlBuffer(buffers[i]).chains
      BY <2>3 DEF outcomes
    <3> HIDE DEF each
    <3> QED
      BY <3>1
  <2> HIDE DEF each, C
  <2> QED
    BY <1>6, <2>5, <2>6, <2>7 DEF Y, C
<1> HIDE DEF ends, Y
<1> QED
  BY <1>4, <1>5

\* A chain that is named becomes a rule for each protocol.
LEMMA ChainIsRead ==
    ASSUME RU!RulesAssumption, NEW chain, NamedChain(chain)
    PROVE  LET raw == RU!NftChainToRawRule(chain)
               drops == RU!RulesFromRaw(raw)
           IN  /\ drops \in Seq(RU!ChainRules) /\ Len(drops) = 2
               /\ RU!StandsFor(drops[1], chain) /\ drops[1].protocol = "tcp"
               /\ RU!StandsFor(drops[2], chain) /\ drops[2].protocol = "udp"
<1> DEFINE raw == RU!NftChainToRawRule(chain)
           drops == RU!RulesFromRaw(raw)
           rule(protocol) == RU!RuleFor(raw, protocol)
<1>1. /\ raw.rule_id = <<chain.table, chain.name>> /\ raw.display_name = chain.name
      /\ raw.direction = "inbound" /\ raw.action \in {"block", "allow"}
      /\ raw.action = IF chain.policy = {RU!DROP} THEN "block" ELSE "allow"
      /\ raw.protocol = RU!Absent /\ raw.local_port_spec = <<>> /\ raw.program = RU!Absent
      /\ raw.service = RU!Absent /\ raw.enabled = TRUE /\ raw.policy_store = "nftables"
  BY DEF RU!NftChainToRawRule
<1>2. /\ chain.table \in RU!ChainNames /\ chain.name \in RU!ChainNames /\ chain.name # Failed
  BY DEF NamedChain
<1>3. /\ Failed \notin Seq(RU!ChainNames) /\ Failed \notin BOOLEAN \cup {{}, RU!Absent}
      /\ Failed \notin RU!PortSpecs /\ Failed \notin RU!Paths /\ Failed \notin STRING
      /\ Failed \notin RU!RuleActions /\ Failed \notin RU!RuleDirections
      /\ Failed \notin RU!PolicyStores
  BY DEF RU!RulesAssumption, RU!TextsAssumption
<1> HIDE DEF raw
<1>4. raw.rule_id \in RU!ChainNames \X RU!ChainNames /\ raw.rule_id \in Seq(RU!ChainNames)
  BY <1>1, <1>2
<1>5. /\ RU!ParseDirection(raw.direction) = "Inbound"
      /\ RU!ParseAction(raw.action) \in RU!RuleActions
      /\ RU!ParseAction(raw.action) = IF chain.policy = {RU!DROP} THEN "Block" ELSE "Allow"
      /\ RU!ParsePolicyStore(raw.policy_store) = "Local"
  <2>1. RU!ParseAction("allow") = "Allow" /\ RU!ParseAction("block") = "Block"
    BY DEF RU!ParseAction
  <2>2. RU!ParseDirection("inbound") = "Inbound"
    BY DEF RU!ParseDirection
  <2>3. RU!ParsePolicyStore("nftables") = "Local"
    BY DEF RU!ParsePolicyStore
  <2> QED
    BY <1>1, <2>1, <2>2, <2>3 DEF RU!RuleActions
<1>6. /\ RU!ParsedPorts(raw) = RU!Anything /\ RU!ParsedProgram(raw) = RU!NoPath
      /\ RU!ParsedService(raw) = {}
  BY <1>1 DEF RU!ParsedPorts, RU!ParsedProgram, RU!ParsedService
<1>7. /\ RU!Anything \in RU!PortSpecs /\ RU!NoPath \in RU!Paths /\ "Local" \in RU!PolicyStores
      /\ "Inbound" \in RU!RuleDirections
  BY DEF RU!Anything, RU!PortSpecs, RU!PartSpecs, RU!Paths, RU!PolicyStores, RU!RuleDirections
<1>8. ProtocolsOf(raw) = <<"tcp", "udp">>
  BY <1>1 DEF ProtocolsOf
<1>9. drops = [i \in DOMAIN ProtocolsOf(raw) |-> RU!RuleFor(raw, ProtocolsOf(raw)[i])]
  <2>1. Failed \notin {raw.rule_id, raw.display_name, raw.enabled, RU!Absent}
    BY <1>1, <1>2, <1>3, <1>4
  <2>2. /\ RU!ParseDirection(raw.direction) # Failed /\ RU!ParseAction(raw.action) # Failed
        /\ RU!ParsePolicyStore(raw.policy_store) # Failed
    BY <1>3, <1>5, <1>7
  <2>3. /\ RU!ParsedPorts(raw) # Failed /\ RU!ParsedProgram(raw) # Failed
        /\ RU!ParsedService(raw) # Failed
    BY <1>3, <1>6, <1>7
  <2> QED
    BY <2>1, <2>2, <2>3, RawIsRead
<1>10. ASSUME NEW protocol \in {"tcp", "udp"}
       PROVE  /\ rule(protocol) \in RU!ChainRules /\ rule(protocol).protocol = protocol
              /\ RU!StandsFor(rule(protocol), chain)
  <2>1. rule(protocol)
          = [rule_id |-> raw.rule_id, display_name |-> raw.display_name, direction |-> "Inbound",
             action |-> RU!ParseAction(raw.action), protocol |-> protocol,
             port_spec |-> RU!Anything, program |-> RU!NoPath, service |-> {},
             enabled |-> TRUE, policy_store |-> "Local"]
    BY <1>1, <1>5, <1>6 DEF RU!RuleFor
  <2> HIDE DEF rule
  <2> QED
    BY <2>1, <1>1, <1>2, <1>4, <1>5 DEF RU!ChainRules, RU!StandsFor
<1>11. drops = <<rule("tcp"), rule("udp")>>
  <2>1. DOMAIN <<"tcp", "udp">> = 1 .. 2 /\ <<"tcp", "udp">>[1] = "tcp" /\ <<"tcp", "udp">>[2] = "udp"
    OBVIOUS
  <2>2. drops = [i \in 1 .. 2 |-> rule(<<"tcp", "udp">>[i])]
    BY <1>8, <1>9, <2>1
  <2> HIDE DEF drops, rule
  <2> QED
    BY <2>1, <2>2
<1> HIDE DEF drops, rule
<1> QED
  BY <1>10, <1>11 DEF drops, raw

\* What is made of the buffers of a dump: nothing, or the rules of all chains of the input hook
\* heard in them.
FromNetfilter(buffers, legacy, read) ==
    LET ends == {i \in DOMAIN buffers : \E m \in RU!Heard(buffers[i]) : RU!Ends(m)}
        heard == UNION {RU!Heard(buffers[i]) : i \in 1 .. RU!Min(ends)}
    IN  /\ ends # {} /\ \A m \in heard : m.type # "error"
        /\ RU!InputChains(heard) = {} => ~legacy
        /\ read # Failed
        /\ \A chain \in RU!InputChains(heard) : \A protocol \in {"tcp", "udp"} :
             \E rule \in RU!Items(read) : RU!StandsFor(rule, chain) /\ rule.protocol = protocol
        /\ \A rule \in RU!Items(read) :
             \E chain \in RU!InputChains(heard) : RU!StandsFor(rule, chain)

\* A ruleset is read from a complete dump only, and each chain that drops becomes a rule.
LEMMA NetfilterIs ==
    ASSUME RU!RulesAssumption, NEW buffers, Whole(buffers), NEW legacy,
           RU!ClassifyRuleset(RU!QueryChains(buffers), legacy) # Failed
    PROVE  LET ruleset == RU!ClassifyRuleset(RU!QueryChains(buffers), legacy)
           IN  FromNetfilter(buffers, legacy, RU!FirewallRulesFromRaw(ruleset))
<1> DEFINE dump == RU!QueryChains(buffers)
           ruleset == RU!ClassifyRuleset(dump, legacy)
           read == RU!FirewallRulesFromRaw(ruleset)
           ends == {i \in DOMAIN buffers : RU!ParseNlBuffer(buffers[i]).done}
           outcomes == [i \in DOMAIN buffers |-> RU!ParseNlBuffer(buffers[i])]
           I == {i \in DOMAIN dump.chains : dump.chains[i].hooknum = {RU!LOCAL_IN}}
           base == Picked(dump.chains, I)
           C == ChainsOf(buffers)
           each == [i \in DOMAIN ruleset |-> RU!RulesFromRaw(ruleset[i])]
           enders == {i \in DOMAIN buffers : \E m \in RU!Heard(buffers[i]) : RU!Ends(m)}
           heard == UNION {RU!Heard(buffers[i]) : i \in 1 .. RU!Min(enders)}
           Y == Seq(RU!ChainRules)
<1>1. /\ dump.error = "none" /\ ~(base = <<>> /\ legacy)
      /\ ruleset = [i \in DOMAIN base |-> RU!NftChainToRawRule(base[i])]
  BY DEF RU!ClassifyRuleset, RU!Selected, Picked
<1>2. ends # {} /\ RU!ParseNlBuffer(buffers[RU!Min(ends)]).error = "none"
  <2> DEFINE last == {i \in DOMAIN outcomes : outcomes[i].done}
  <2>1. last = ends
    OBVIOUS
  <2>a. dump.error = IF last = {} THEN "Unreachable" ELSE outcomes[RU!Min(last)].error
    <3>1. dump = IF last = {} THEN [chains |-> <<>>, error |-> "Unreachable"]
                 ELSE [chains |-> RU!FlattenSeq([i \in 1 .. RU!Min(last) |-> outcomes[i].chains]),
                       error |-> outcomes[RU!Min(last)].error]
      BY DEF RU!QueryChains
    <3> HIDE DEF dump, last, outcomes
    <3> QED
      BY <3>1
  <2>2. dump.error = IF ends = {} THEN "Unreachable" ELSE outcomes[RU!Min(ends)].error
    <3> HIDE DEF dump, last, ends, outcomes
    <3> QED
      BY <2>1, <2>a
  <2>3. ends # {}
    BY <1>1, <2>2
  <2>4. RU!Min(ends) \in ends
    <3>1. ends \in SUBSET Nat
      BY DEF Whole, RU!Sequence
    <3> HIDE DEF ends
    <3> QED
      BY <2>3, <3>1, LeastIs
  <2>5. outcomes[RU!Min(ends)] = RU!ParseNlBuffer(buffers[RU!Min(ends)])
    BY <2>4
  <2> HIDE DEF ends, outcomes, dump
  <2> QED
    BY <1>1, <2>2, <2>3, <2>5
<1>15. \A i \in DOMAIN buffers : ReadOff(RU!ParseNlBuffer(buffers[i]), RU!Heard(buffers[i]))
  <2> TAKE i \in DOMAIN buffers
  <2>1. buffers[i] \in RU!ToSet(buffers)
    BY DEF RU!ToSet
  <2>2. RU!Sequence(buffers[i]) /\ \A m \in RU!ToSet(buffers[i]) : m.len \in Nat
    BY <2>1 DEF Whole, RU!MessageIsTyped
  <2> QED
    BY <2>2, BufferIsRead
<1>16. enders = ends
  BY <1>15 DEF ReadOff
<1>17. /\ RU!Min(ends) \in ends /\ 1 .. RU!Min(ends) \subseteq DOMAIN buffers
       /\ \A i \in 1 .. RU!Min(ends) : i = RU!Min(ends) \/ i \notin ends
  <2>1. DOMAIN buffers = 1 .. Len(buffers) /\ Len(buffers) \in Nat
    BY DEF Whole, RU!Sequence
  <2>2. ends \in SUBSET Nat /\ ends \in SUBSET (1 .. Len(buffers))
    BY <2>1
  <2> HIDE DEF ends
  <2>3. RU!Min(ends) \in ends /\ \A i \in ends : RU!Min(ends) <= i
    BY <1>2, <2>2, LeastIs
  <2>4. RU!Min(ends) \in 1 .. Len(buffers)
    BY <2>2, <2>3
  <2>5. \A i \in 1 .. RU!Min(ends) : i = RU!Min(ends) \/ i \notin ends
    BY <2>2, <2>3, <2>4
  <2>6. 1 .. RU!Min(ends) \subseteq 1 .. Len(buffers)
    BY <2>1, <2>4
  <2> QED
    BY <2>1, <2>3, <2>5, <2>6
<1>18. \A m \in heard : m.type # "error"
  <2> TAKE m \in heard
  <2>1. PICK i \in 1 .. RU!Min(ends) : m \in RU!Heard(buffers[i])
    BY <1>16
  <2>2. i \in DOMAIN buffers /\ ReadOff(RU!ParseNlBuffer(buffers[i]), RU!Heard(buffers[i]))
    BY <1>15, <1>17
  <2>3. CASE i = RU!Min(ends)
    BY <1>2, <2>1, <2>2, <2>3 DEF ReadOff
  <2>4. CASE i \notin ends
    <3>1. ~RU!Ends(m)
      BY <2>1, <2>2, <2>4 DEF ReadOff
    <3> QED
      BY <3>1 DEF RU!Ends
  <2> QED
    BY <1>17, <2>3, <2>4
<1>19. RU!Items(base) = RU!InputChains(heard)
  <2>1. /\ dump.chains \in Seq(C)
        /\ RU!Items(dump.chains)
             = UNION {RU!Items(RU!ParseNlBuffer(buffers[i]).chains) : i \in 1 .. RU!Min(ends)}
    <3>1. ends = EndersOf(buffers)
      BY DEF EndersOf
    <3> HIDE DEF ends, dump
    <3> QED
      BY <1>2, <3>1, DumpIsRead DEF dump
  <2>2. \A i \in 1 .. RU!Min(ends) :
          RU!Items(RU!ParseNlBuffer(buffers[i]).chains)
            = {RU!ParseChainPayload(m.payload) : m \in NewChains(RU!Heard(buffers[i]))}
    BY <1>15, <1>17 DEF ReadOff
  <2>3. RU!Items(dump.chains)
          = UNION {{RU!ParseChainPayload(m.payload) : m \in NewChains(RU!Heard(buffers[i]))} :
                     i \in 1 .. RU!Min(ends)}
    <3> HIDE DEF dump, ends
    <3> QED
      BY <2>1, <2>2
  <2>4. RU!Items(dump.chains) = {RU!ParseChainPayload(m.payload) : m \in NewChains(heard)}
    <3> DEFINE hearing == UNION {RU!Heard(buffers[i]) : i \in 1 .. RU!Min(ends)}
    <3>1. hearing = heard
      BY <1>16
    <3> HIDE DEF dump, ends, heard
    <3>2. RU!Items(dump.chains) = {RU!ParseChainPayload(m.payload) : m \in NewChains(hearing)}
      BY <2>3 DEF NewChains
    <3> HIDE DEF hearing
    <3> QED
      BY <3>1, <3>2
  <2>5. RU!Items(base) = {dump.chains[i] : i \in I}
    <3>1. I \in SUBSET DOMAIN dump.chains
      OBVIOUS
    <3> HIDE DEF dump, I, C
    <3> QED
      BY <2>1, <3>1, PickedIs
  <2>6. {dump.chains[i] : i \in I} = {c \in RU!Items(dump.chains) : c.hooknum = {RU!LOCAL_IN}}
    <3> HIDE DEF dump
    <3> QED
      BY DEF RU!Items, RU!ToSet
  <2> HIDE DEF base, dump, I, heard
  <2> QED
    BY <2>4, <2>5, <2>6 DEF RU!InputChains, NewChains
<1> HIDE DEF heard, enders
<1>3. base \in Seq(C)
  <2>1. dump.chains \in Seq(C)
    BY DumpIsRead
  <2>2. I \in SUBSET DOMAIN dump.chains
    OBVIOUS
  <2> HIDE DEF dump, I, C
  <2> QED
    BY <2>1, <2>2, PickedIs
<1>4. \A chain \in C : NamedChain(chain)
  <2> SUFFICES ASSUME NEW chain \in C PROVE NamedChain(chain)
    OBVIOUS
  <2>1. PICK messages \in RU!ToSet(buffers) : chain \in ChainsIn(messages)
    BY DEF ChainsOf
  <2>2. PICK m \in RU!ToSet(messages) : chain = RU!ParseChainPayload(m.payload)
    BY <2>1 DEF ChainsIn
  <2>3. RU!MessageIsTyped(m)
    BY <2>1, <2>2 DEF Whole
  <2> QED
    BY <2>2, <2>3, ChainIsNamed
<1> HIDE DEF base, dump, C
<1>5. /\ DOMAIN ruleset = 1 .. Len(base) /\ Len(ruleset) = Len(base) /\ Len(base) \in Nat
      /\ \A i \in 1 .. Len(base) : ruleset[i] = RU!NftChainToRawRule(base[i]) /\ NamedChain(base[i])
      /\ ruleset = <<>> <=> base = <<>>
  <2>1. DOMAIN base = 1 .. Len(base) /\ Len(base) \in Nat /\ \A i \in 1 .. Len(base) : base[i] \in C
    BY <1>3
  <2>2. DOMAIN ruleset = 1 .. Len(base)
        /\ \A i \in 1 .. Len(base) : ruleset[i] = RU!NftChainToRawRule(base[i])
    BY <1>1, <2>1
  <2>3. Len(ruleset) = Len(base)
    BY <1>1, <2>1
  <2>4. ruleset = <<>> <=> base = <<>>
    <3>1. ruleset = <<>> => 1 .. Len(base) = {}
      BY <2>2
    <3>2. base = <<>> => ruleset = <<>>
      BY <1>1
    <3>3. base \in Seq(C) /\ Len(base) = 0 => base = <<>>
      OBVIOUS
    <3>4. 1 .. Len(base) = {} => Len(base) = 0
      BY <2>1
    <3> HIDE DEF ruleset
    <3> QED
      BY <3>1, <3>2, <3>3, <3>4, <1>3
  <2> QED
    BY <1>4, <2>1, <2>2, <2>3, <2>4
<1> HIDE DEF ruleset
<1>6. \A i \in 1 .. Len(base) :
        /\ each[i] \in Y /\ Len(each[i]) = 2
        /\ RU!StandsFor(each[i][1], base[i]) /\ each[i][1].protocol = "tcp"
        /\ RU!StandsFor(each[i][2], base[i]) /\ each[i][2].protocol = "udp"
  BY <1>5, ChainIsRead
<1>7. each \in Seq(Seq(RU!ChainRules)) /\ Len(each) = Len(base) /\ DOMAIN each = 1 .. Len(base)
  <2>1. DOMAIN each = 1 .. Len(base) /\ each = [i \in 1 .. Len(base) |-> each[i]]
    BY <1>5
  <2> HIDE DEF each, Y
  <2>2. each \in Seq(Y) /\ Len(each) = Len(base)
    BY <1>5, <1>6, <2>1
  <2> QED
    BY <2>1, <2>2 DEF Y
<1>8. \A i \in 1 .. Len(base) : each[i] # Failed
  <2>1. Failed \notin Seq(RU!ChainRules)
    BY DEF RU!RulesAssumption, RU!TextsAssumption
  <2> QED
    BY <1>6, <2>1
<1>9. read = FlattenSeq(each)
  <2>1. read = IF \E i \in DOMAIN each : each[i] = Failed THEN Failed ELSE FlattenSeq(each)
    BY SameOperators DEF RU!FirewallRulesFromRaw
  <2> HIDE DEF each, read
  <2> QED
    BY <1>7, <1>8, <2>1
<1> HIDE DEF each, read
<1>10. /\ read \in Seq(RU!ChainRules)
       /\ RU!Items(read) = UNION {RU!Items(each[i]) : i \in 1 .. Len(base)}
  BY <1>7, <1>9, FlattenItems
<1>11. RU!Items(base) = {base[i] : i \in 1 .. Len(base)}
  <2>1. DOMAIN base = 1 .. Len(base)
    BY <1>3
  <2> QED
    BY <2>1 DEF RU!Items, RU!ToSet
<1>12. read # Failed
  BY <1>10 DEF RU!RulesAssumption, RU!TextsAssumption
<1>13. \A i \in 1 .. Len(base) : RU!Items(each[i]) = {each[i][1], each[i][2]}
  <2> TAKE i \in 1 .. Len(base)
  <2>1. DOMAIN each[i] = 1 .. 2
    BY <1>6
  <2> QED
    BY <2>1 DEF RU!Items, RU!ToSet
<1>14. RU!InputChains(heard) = {} => ~legacy
  <2>1. base # <<>> => 1 \in 1 .. Len(base)
    BY <1>3
  <2>2. RU!InputChains(heard) = {} => base = <<>>
    BY <1>11, <1>19, <2>1
  <2> QED
    BY <1>1, <2>2
<1>20. ASSUME NEW chain \in RU!InputChains(heard), NEW protocol \in {"tcp", "udp"}
       PROVE  \E rule \in RU!Items(read) : RU!StandsFor(rule, chain) /\ rule.protocol = protocol
  <2>1. PICK i \in 1 .. Len(base) : chain = base[i]
    BY <1>11, <1>19
  <2>2. {each[i][1], each[i][2]} \subseteq RU!Items(read)
    BY <1>10, <1>13
  <2> QED
    BY <1>6, <2>1, <2>2
<1>21. ASSUME NEW rule \in RU!Items(read)
       PROVE  \E chain \in RU!InputChains(heard) : RU!StandsFor(rule, chain)
  <2>1. PICK i \in 1 .. Len(base) : rule \in {each[i][1], each[i][2]}
    BY <1>10, <1>13
  <2>2. base[i] \in RU!InputChains(heard)
    BY <1>11, <1>19
  <2> QED
    BY <1>6, <2>1, <2>2
<1>22. enders # {}
  BY <1>2, <1>16
<1> HIDE DEF ends
<1> QED
  BY <1>12, <1>14, <1>18, <1>20, <1>21, <1>22 DEF FromNetfilter, heard, enders, ruleset, read, dump

\* What holds nothing is empty.
LEMMA EmptyIs ==
    ASSUME NEW X, NEW seq \in Seq(X)
    PROVE  seq = <<>> <=> RU!Items(seq) = {}
<1>1. seq = <<>> => RU!Items(seq) = {}
  <2>1. RU!Items(<<>>) = {}
    BY DEF RU!Items, RU!ToSet
  <2> QED
    BY <2>1
<1>2. seq # <<>> => seq[1] \in RU!Items(seq)
  <2>1. seq # <<>> => 1 \in DOMAIN seq
    OBVIOUS
  <2> QED
    BY <2>1 DEF RU!Items, RU!ToSet
<1> QED
  BY <1>1, <1>2

\* The ports that are left of a text's: none when it names no more than any.
LEMMA NoPortsLeft ==
    ASSUME NEW ports \in Seq(RU!PortParts)
    PROVE  RU!LocalPortSpec(ports) = <<>>
             <=> RU!Items(ports) \subseteq {RU!Word("any"), RU!Word("")}
<1> DEFINE any == {RU!Word("any"), RU!Word("")}
           I == {i \in DOMAIN ports : ports[i] \notin any}
<1>1. RU!LocalPortSpec(ports) = Picked(ports, I)
  BY DEF RU!LocalPortSpec, RU!Selected, Picked
<1>2. RU!Items(Picked(ports, I)) = {ports[i] : i \in I} /\ Picked(ports, I) \in Seq(RU!PortParts)
  <2>1. I \in SUBSET DOMAIN ports
    OBVIOUS
  <2> HIDE DEF I
  <2> QED
    BY <2>1, PickedIs
<1>3. RU!Items(ports) \subseteq any <=> I = {}
  BY DEF RU!Items, RU!ToSet
<1>4. Picked(ports, I) = <<>> <=> RU!Items(Picked(ports, I)) = {}
  <2> HIDE DEF I
  <2> QED
    BY <1>2, EmptyIs
<1> HIDE DEF I, any
<1>5. Picked(ports, I) = <<>> <=> I = {}
  BY <1>2, <1>4
<1> QED
  BY <1>1, <1>3, <1>5 DEF any

\* What is made of a payload that is whole and of the one schema.
FromPayload(payload, given) ==
    /\ ~payload.truncated /\ payload.schema_version = RU!SCHEMA_VERSION
    /\ Len(given.endpoints) = Len(payload.tcp_endpoints) + Len(payload.udp_endpoints)
    /\ \A i \in DOMAIN given.firewall_rules :
         given.firewall_rules[i].local_port_spec = <<>>
           <=> RU!Items(payload.firewall_rules[i].local_ports)
                 \subseteq {RU!Word("any"), RU!Word("")}

\* What was accepted is whole, and what restricts no port says so.
LEMMA PayloadIs ==
    ASSUME NEW payload, payload.tcp_endpoints \in Seq(RU!SocketRows),
           payload.udp_endpoints \in Seq(RU!SocketRows),
           payload.firewall_rules \in Seq(RU!PayloadRules), RU!ParsePayload(payload) # Failed
    PROVE  FromPayload(payload, RU!ParsePayload(payload))
<1> DEFINE given == RU!ParsePayload(payload)
           tcp == payload.tcp_endpoints
           udp == payload.udp_endpoints
           drops == payload.firewall_rules
           first == [i \in DOMAIN tcp |-> RU!IntoRawEndpoint(tcp[i], "tcp")]
           second == [i \in DOMAIN udp |-> RU!IntoRawEndpoint(udp[i], "udp")]
           raws == [i \in DOMAIN drops |-> RU!IntoRawRule(drops[i])]
<1>1. /\ ~payload.truncated /\ payload.schema_version = RU!SCHEMA_VERSION
      /\ given.endpoints = first \o second /\ given.firewall_rules = raws
  BY DEF RU!ParsePayload, RU!Each
<1>2. Len(first \o second) = Len(tcp) + Len(udp)
  <2> DEFINE X == {RU!IntoRawEndpoint(s, p) : s \in RU!SocketRows, p \in {"tcp", "udp"}}
  <2>1. first \in Seq(X) /\ Len(first) = Len(tcp)
    OBVIOUS
  <2>2. second \in Seq(X) /\ Len(second) = Len(udp)
    OBVIOUS
  <2> HIDE DEF first, second, X
  <2>3. \A a, b \in Seq(X) : Len(a \o b) = Len(a) + Len(b)
    OBVIOUS
  <2> QED
    BY <2>1, <2>2, <2>3
<1>3. \A i \in DOMAIN raws :
        raws[i].local_port_spec = <<>>
          <=> RU!Items(drops[i].local_ports) \subseteq {RU!Word("any"), RU!Word("")}
  <2> TAKE i \in DOMAIN raws
  <2>1. drops[i] \in RU!PayloadRules
    OBVIOUS
  <2>a. drops[i].local_ports \in Seq(RU!PortParts)
    <3> HIDE DEF drops
    <3> QED
      BY <2>1 DEF RU!PayloadRules
  <2>2. raws[i].local_port_spec = RU!LocalPortSpec(drops[i].local_ports)
    BY DEF RU!IntoRawRule
  <2> HIDE DEF raws, drops
  <2> QED
    BY <2>a, <2>2, NoPortsLeft
<1> HIDE DEF given, first, second, raws
<1> QED
  BY <1>1, <1>2, <1>3 DEF FromPayload, given

\* What is made of the lines of /proc/net: an endpoint of a line that is there, held by the
\* processes that can be read.
FromProc(lines, protocol, listed, given) ==
    /\ \A e \in RU!Items(given) : \E line \in RU!Items(Tail(lines)) :
         /\ line.port = e.local_port /\ (protocol = "tcp" => line.state = RU!TCP_LISTEN)
         /\ \A pid \in e.owning_pid : \E process \in RU!Items(listed) :
              process.pid = pid /\ line.inode \in process.sockets /\ process.readable
    /\ Len(given) < Len(lines)

\* Who holds an inode is a process that could be read.
LEMMA HolderIs ==
    ASSUME NEW listed \in Seq(RU!ProcessRows), NEW inode,
           NEW pid \in RU!InodeToPid(inode, listed)
    PROVE  \E process \in RU!Items(listed) :
             process.pid = pid /\ inode \in process.sockets /\ process.readable
<1> DEFINE owners == {i \in DOMAIN listed :
                         listed[i].readable /\ inode \in listed[i].sockets}
<1>1. owners # {} /\ pid = listed[RU!Min(owners)].pid
  BY DEF RU!InodeToPid, RU!None
<1>2. RU!Min(owners) \in owners
  <2>1. owners \in SUBSET Nat
    OBVIOUS
  <2> HIDE DEF owners
  <2> QED
    BY <1>1, <2>1, LeastIs
<1> QED
  BY <1>1, <1>2 DEF RU!Items, RU!ToSet

\* An endpoint is on a line behind the header, and its owner is a process that holds it.
LEMMA ProcIs ==
    ASSUME NEW lines \in Seq(RU!LineRows), lines # <<>>, NEW protocol,
           NEW listed \in Seq(RU!ProcessRows)
    PROVE  FromProc(lines, protocol, listed, RU!ParseProcNet(lines, protocol, listed))
<1> DEFINE given == RU!ParseProcNet(lines, protocol, listed)
           state == IF protocol = "tcp" THEN RU!TCP_LISTEN ELSE "any"
           parsed(line) ==
             IF \/ line.fields < 10
                \/ state # "any" /\ line.state # state
                \/ RU!DecodeHexAddr(line.address) = Failed
             THEN {}
             ELSE {[protocol |-> protocol, local_address |-> RU!DecodeHexAddr(line.address),
                    local_port |-> line.port,
                    owning_pid |-> RU!InodeToPid(line.inode, listed)]}
           body == Tail(lines)
           I == {i \in DOMAIN body : parsed(body[i]) # {}}
           kept == Picked(body, I)
<1>1. given = [i \in DOMAIN kept |-> CHOOSE e \in parsed(kept[i]) : TRUE]
  BY DEF RU!ParseProcNet, RU!ParseFields, RU!Selected, Picked
<1>2. body \in Seq(RU!LineRows) /\ Len(body) < Len(lines) /\ Len(body) \in Nat /\ Len(lines) \in Nat
  OBVIOUS
<1>3. RU!TCP_LISTEN # "any"
  BY DEF RU!TCP_LISTEN
<1>4. ASSUME NEW line, parsed(line) # {}
      PROVE  LET e == CHOOSE e \in parsed(line) : TRUE
             IN  /\ line.port = e.local_port /\ (protocol = "tcp" => line.state = RU!TCP_LISTEN)
                 /\ e.owning_pid = RU!InodeToPid(line.inode, listed)
  <2> DEFINE it == [protocol |-> protocol, local_address |-> RU!DecodeHexAddr(line.address),
                    local_port |-> line.port,
                    owning_pid |-> RU!InodeToPid(line.inode, listed)]
  <2>1. parsed(line) = {it} /\ ~(state # "any" /\ line.state # state)
    BY <1>4
  <2>2. it.local_port = line.port /\ it.owning_pid = RU!InodeToPid(line.inode, listed)
    OBVIOUS
  <2> HIDE DEF it, parsed
  <2>3. (CHOOSE e \in parsed(line) : TRUE) = it
    BY <2>1
  <2> QED
    BY <1>3, <2>1, <2>2, <2>3
<1> HIDE DEF parsed, body
<1>5. /\ kept \in Seq(RU!LineRows) /\ Len(kept) = Cardinality(I) /\ Cardinality(I) \in 0 .. Len(body)
      /\ RU!Items(kept) = {body[i] : i \in I}
  <2>1. I \in SUBSET DOMAIN body
    OBVIOUS
  <2> HIDE DEF I
  <2> QED
    BY <1>2, <2>1, PickedIs
<1> HIDE DEF kept
<1>a. DOMAIN kept = 1 .. Len(kept)
  BY <1>5
<1>6. Len(given) = Len(kept) /\ DOMAIN given = 1 .. Len(kept) /\ Len(given) < Len(lines)
  <2> DEFINE entry(i) == CHOOSE e \in parsed(kept[i]) : TRUE
  <2>1. given = [i \in 1 .. Len(kept) |-> entry(i)] /\ Len(kept) \in Nat
    BY <1>1, <1>5
  <2> HIDE DEF given, entry
  <2>2. Len(given) = Len(kept) /\ DOMAIN given = 1 .. Len(kept)
    BY <2>1
  <2> HIDE DEF I
  <2> QED
    BY <1>2, <1>5, <2>2
<1>7. ASSUME NEW e \in RU!Items(given)
      PROVE  \E line \in RU!Items(body) :
               /\ line.port = e.local_port /\ (protocol = "tcp" => line.state = RU!TCP_LISTEN)
               /\ \A pid \in e.owning_pid : \E process \in RU!Items(listed) :
                    process.pid = pid /\ line.inode \in process.sockets /\ process.readable
  <2>1. PICK i \in 1 .. Len(kept) : e = given[i]
    BY <1>6, <1>7 DEF RU!Items, RU!ToSet
  <2>2. e = CHOOSE x \in parsed(kept[i]) : TRUE
    BY <1>1, <1>5, <2>1
  <2>3. kept[i] \in RU!Items(kept)
    BY <1>a DEF RU!Items, RU!ToSet
  <2>4. PICK j \in I : kept[i] = body[j]
    BY <1>5, <2>3
  <2>5. kept[i] \in RU!Items(body) /\ parsed(kept[i]) # {}
    BY <2>4 DEF RU!Items, RU!ToSet
  <2>6. /\ kept[i].port = e.local_port
        /\ protocol = "tcp" => kept[i].state = RU!TCP_LISTEN
        /\ e.owning_pid = RU!InodeToPid(kept[i].inode, listed)
    BY <1>4, <2>2, <2>5
  <2> QED
    BY <2>5, <2>6, HolderIs
<1> QED
  BY <1>6, <1>7 DEF FromProc, given, body

-----------------------------------------------------------------------------
(* Commands and releases. *)

\* What the layers of the configuration come to: the last one wins, and nothing unknown or
\* unreadable is passed over.
FromConfig(asked, given) ==
    /\ ~asked.config.said <=> given # Failed /\ ~given.store.said
    /\ given # Failed /\ asked.config.said =>
         /\ \A v \in asked.variables : v.separated /\ v.value # Failed
         /\ \A v \in asked.variables : v.section = "remote" => given.remote[v.field] = v.value
         /\ \A key \in DOMAIN asked.file \ {RU!EnvKey(v) : v \in asked.variables} :
              key[1] = "remote" => given.remote[key[2]] = asked.file[key]

\* The known keys are those of the sections.
LEMMA KeysAreKnown ==
    /\ \A a, b : <<a, b>> \in RU!KnownKeys => b # "" /\ (a = "remote" => b \in RU!FieldsOf.remote)
    /\ \A key \in RU!KnownKeys : key[1] = "remote" =>
         key = <<"remote", key[2]>> /\ key[2] \in RU!FieldsOf.remote
<1>1. DOMAIN RU!FieldsOf = {"scan", "remote", "report", "store", "portal"}
  BY DEF RU!FieldsOf
<1>2. \A section \in DOMAIN RU!FieldsOf : "" \notin RU!FieldsOf[section]
  <2>1. /\ "" \notin RU!FieldsOf.scan /\ "" \notin RU!FieldsOf.remote
        /\ "" \notin RU!FieldsOf.report /\ "" \notin RU!FieldsOf.store
        /\ "" \notin RU!FieldsOf.portal
    BY DEF RU!FieldsOf
  <2> QED
    BY <1>1, <2>1
<1>3. ASSUME NEW key \in RU!KnownKeys
      PROVE  \E section \in DOMAIN RU!FieldsOf : \E field \in RU!FieldsOf[section] :
               key = <<section, field>>
  BY DEF RU!KnownKeys
<1>4. ASSUME NEW a, NEW b, <<a, b>> \in RU!KnownKeys
      PROVE  b # "" /\ (a = "remote" => b \in RU!FieldsOf.remote)
  <2>1. PICK section \in DOMAIN RU!FieldsOf : \E field \in RU!FieldsOf[section] :
          <<a, b>> = <<section, field>>
    BY <1>3, <1>4
  <2>2. a = section /\ b \in RU!FieldsOf[section] /\ a \in DOMAIN RU!FieldsOf
    BY <2>1
  <2>3. RU!FieldsOf["remote"] = RU!FieldsOf.remote
    OBVIOUS
  <2> QED
    BY <1>2, <2>2, <2>3
<1>5. ASSUME NEW key \in RU!KnownKeys, key[1] = "remote"
      PROVE  key = <<"remote", key[2]>> /\ key[2] \in RU!FieldsOf.remote
  <2>1. PICK section \in DOMAIN RU!FieldsOf : \E field \in RU!FieldsOf[section] :
          key = <<section, field>>
    BY <1>3
  <2>2. PICK field \in RU!FieldsOf[section] : key = <<section, field>>
    BY <2>1
  <2>3. section = "remote" /\ field = key[2]
    BY <1>5, <2>2
  <2> QED
    BY <2>2, <2>3
<1> QED
  BY <1>4, <1>5

\* What was loaded is what the layers say.
LEMMA ConfigIs ==
    ASSUME RU!RulesAssumption, NEW asked,
           \A v, w \in asked.variables : RU!EnvKey(v) = RU!EnvKey(w) => v = w
    PROVE  FromConfig(asked, RU!ResolveConfig(asked.config, asked.file, asked.variables))
<1> DEFINE given == RU!ResolveConfig(asked.config, asked.file, asked.variables)
           loaded == RU!AnneConfigLoad(asked.file, asked.variables)
           variables == asked.variables
           env == RU!EnvLayer(variables)
           lower == RU!Over(asked.file, RU!Defaults)
           merged == RU!Over(env, lower)
           keys == {RU!EnvKey(v) : v \in variables}
           plain == [scan |-> RU!ScanDefaults, remote |-> RU!RemoteDefaults, store |-> RU!NotSaid]
           full == [scan |-> [f \in RU!FieldsOf.scan |-> loaded[<<"scan", f>>]],
                    remote |-> [f \in RU!FieldsOf.remote |-> loaded[<<"remote", f>>]],
                    store |-> RU!Said(loaded[<<"store", "backend">>])]
<1>1. given = IF ~asked.config.said THEN plain ELSE IF loaded = Failed THEN Failed ELSE full
  <2> HIDE DEF loaded
  <2>1. given = CASE ~asked.config.said -> plain
                 [] asked.config.said /\ loaded = Failed -> Failed
                 [] OTHER -> full
    BY DEF RU!ResolveConfig, loaded
  <2> HIDE DEF given, plain, full
  <2> QED
    BY <2>1
<1>2. plain # Failed /\ plain.store.said = FALSE
  <2>1. plain \in [scan : {RU!ScanDefaults}, remote : {RU!RemoteDefaults}, store : {RU!NotSaid}]
    OBVIOUS
  <2>2. Failed \notin [scan : {RU!ScanDefaults}, remote : {RU!RemoteDefaults},
                       store : {RU!NotSaid}]
    BY DEF RU!RulesAssumption, RU!TextsAssumption
  <2>3. plain.store.said = FALSE
    BY DEF RU!NotSaid
  <2> HIDE DEF plain
  <2> QED
    BY <2>1, <2>2, <2>3
<1>3. full.store.said = TRUE
  BY DEF RU!Said
<1>4. \A f \in RU!FieldsOf.remote : full.remote[f] = loaded[<<"remote", f>>]
  OBVIOUS
<1> HIDE DEF plain, full, given
<1>5. ~asked.config.said <=> given # Failed /\ ~given.store.said
  BY <1>1, <1>2, <1>3
<1>6. ASSUME given # Failed, asked.config.said
      PROVE  /\ given = full /\ loaded = merged /\ DOMAIN merged = RU!KnownKeys
             /\ \A key \in DOMAIN merged : merged[key] # Failed
  <2>1. given = full /\ loaded # Failed
    BY <1>1, <1>6
  <2>2. loaded = IF \/ asked.file = Failed
                    \/ DOMAIN merged # RU!KnownKeys
                    \/ \E key \in DOMAIN merged : merged[key] = Failed
                 THEN Failed ELSE merged
    BY DEF RU!AnneConfigLoad
  <2> HIDE DEF loaded, merged
  <2> QED
    BY <2>1, <2>2
<1>7. /\ DOMAIN env = keys
      /\ \A v \in variables : env[RU!EnvKey(v)] = v.value
  <2>1. env = [key \in keys |-> (CHOOSE v \in variables : RU!EnvKey(v) = key).value]
    BY DEF RU!EnvLayer
  <2>2. ASSUME NEW v \in variables
        PROVE  (CHOOSE w \in variables : RU!EnvKey(w) = RU!EnvKey(v)) = v
    <3>1. \A w \in variables : RU!EnvKey(w) = RU!EnvKey(v) => w = v
      OBVIOUS
    <3> QED
      BY <3>1
  <2> HIDE DEF env
  <2> QED
    BY <2>1, <2>2
<1> HIDE DEF env
<1>8. /\ DOMAIN merged = keys \cup DOMAIN lower
      /\ \A key \in keys : merged[key] = env[key]
      /\ \A key \in DOMAIN lower \ keys : merged[key] = lower[key]
  BY <1>7 DEF RU!Over
<1>9. /\ DOMAIN asked.file \subseteq DOMAIN lower
      /\ \A key \in DOMAIN asked.file : lower[key] = asked.file[key]
  BY DEF RU!Over
<1> HIDE DEF merged, lower, loaded
<1>10. ASSUME given # Failed, asked.config.said, NEW v \in variables
       PROVE  /\ v.separated /\ v.value # Failed
              /\ v.section = "remote" => given.remote[v.field] = v.value
  <2>1. RU!EnvKey(v) \in RU!KnownKeys /\ merged[RU!EnvKey(v)] = v.value /\ v.value # Failed
    BY <1>6, <1>7, <1>8, <1>10
  <2>2. RU!EnvKey(v) = IF v.separated THEN <<v.section, v.field>> ELSE <<v.section, "">>
    BY DEF RU!EnvKey
  <2>3. v.separated
    BY <2>1, <2>2, KeysAreKnown
  <2>4. v.section = "remote" => v.field \in RU!FieldsOf.remote /\ RU!EnvKey(v) = <<"remote", v.field>>
    BY <2>1, <2>2, <2>3, KeysAreKnown
  <2> QED
    BY <1>4, <1>6, <1>10, <2>1, <2>3, <2>4
<1>11. ASSUME given # Failed, asked.config.said, NEW key \in DOMAIN asked.file \ keys,
              key[1] = "remote"
       PROVE  given.remote[key[2]] = asked.file[key]
  <2>1. key \in RU!KnownKeys /\ merged[key] = asked.file[key]
    BY <1>6, <1>8, <1>9, <1>11
  <2>2. key = <<"remote", key[2]>> /\ key[2] \in RU!FieldsOf.remote
    BY <2>1, <1>11, KeysAreKnown
  <2> QED
    BY <1>4, <1>6, <1>11, <2>1, <2>2
<1> QED
  BY <1>5, <1>10, <1>11 DEF FromConfig, given

\* How a report ends.
FromReport(asked, given) ==
    /\ given.code = RU!ConfigOrArgError
         <=> asked.args.split # RU!Nothing
               /\ (asked.args.format # "html" \/ asked.args.output # RU!Nothing)
    /\ given.code = RU!Clean => asked.writable /\ RU!LoadSnapshot(asked.args.target, asked.store) # Failed
    /\ given.code # RU!Clean => given.output = RU!Nothing

\* A report ends clean only for what could be loaded and written.
LEMMA ReportIs ==
    ASSUME NEW asked
    PROVE  FromReport(asked, RU!ReportCommand(asked.args, asked.store, asked.writable))
<1> DEFINE given == RU!ReportCommand(asked.args, asked.store, asked.writable)
           snapshot == RU!LoadSnapshot(asked.args.target, asked.store)
           model == RU!Build(<<snapshot>>, <<>>, TRUE)
           unfit == \/ RU!Conflicts(asked.args)
                    \/ asked.args.split # RU!Nothing /\ asked.args.format # "html"
           shown == IF asked.args.split # RU!Nothing THEN RU!WriteReportSplit(model)
                    ELSE RU!Rendered(model, asked.args.format)
<1>1. given = CASE unfit -> RU!Exit(RU!ConfigOrArgError, RU!Nothing)
               [] ~unfit /\ (snapshot = Failed \/ ~asked.writable) ->
                    RU!Exit(RU!OperationalError, RU!Nothing)
               [] OTHER -> RU!Exit(RU!Clean, shown)
  BY DEF RU!ReportCommand
<1>2. unfit <=> asked.args.split # RU!Nothing
                  /\ (asked.args.format # "html" \/ asked.args.output # RU!Nothing)
  BY DEF RU!Conflicts
<1>3. /\ RU!ConfigOrArgError # RU!OperationalError /\ RU!ConfigOrArgError # RU!Clean
      /\ RU!OperationalError # RU!Clean
  BY DEF RU!ConfigOrArgError, RU!OperationalError, RU!Clean
<1>4. \A code, text : RU!Exit(code, text).code = code /\ RU!Exit(code, text).output = text
  BY DEF RU!Exit
<1> HIDE DEF given, shown, unfit, snapshot
<1>5. \/ unfit /\ given = RU!Exit(RU!ConfigOrArgError, RU!Nothing)
      \/ ~unfit /\ given = RU!Exit(RU!OperationalError, RU!Nothing)
      \/ ~unfit /\ snapshot # Failed /\ asked.writable /\ given = RU!Exit(RU!Clean, shown)
  BY <1>1
<1>6. /\ given.code = RU!ConfigOrArgError <=> unfit
      /\ given.code = RU!Clean => asked.writable /\ snapshot # Failed
      /\ given.code # RU!Clean => given.output = RU!Nothing
  BY <1>3, <1>4, <1>5
<1> QED
  BY <1>2, <1>6 DEF FromReport, given, snapshot

\* How the check of an inventory ends.
LEMMA InventoryIs ==
    ASSUME NEW readable, NEW entries
    PROVE  RU!InventoryCommand(readable, entries).code = RU!Clean
             <=> /\ readable /\ entries # Failed /\ entries # <<>>
                 /\ \A i \in DOMAIN entries : RU!HostParses(entries[i])
<1> DEFINE hosts == RU!ParseInventory(entries)
           given == RU!InventoryCommand(readable, entries)
<1>1. given = CASE ~readable -> RU!Exit(RU!OperationalError, RU!Nothing)
               [] readable /\ hosts = Failed -> RU!Exit(RU!ConfigOrArgError, RU!Nothing)
               [] readable /\ hosts = <<>> -> RU!Exit(RU!OperationalError, RU!Nothing)
               [] OTHER -> RU!Exit(RU!Clean, RU!Nothing)
  BY DEF RU!InventoryCommand
<1>2. hosts = IF entries = Failed \/ \E i \in DOMAIN entries : ~RU!HostParses(entries[i])
              THEN Failed ELSE entries
  BY DEF RU!ParseInventory
<1>3. /\ RU!ConfigOrArgError # RU!Clean /\ RU!OperationalError # RU!Clean
      /\ \A code, text : RU!Exit(code, text).code = code
  BY DEF RU!ConfigOrArgError, RU!OperationalError, RU!Clean, RU!Exit
<1> HIDE DEF given, hosts
<1>4. given.code = RU!Clean <=> readable /\ hosts # Failed /\ hosts # <<>>
  <2>1. CASE ~readable
    BY <1>1, <1>3, <2>1
  <2>2. CASE readable /\ hosts = Failed
    BY <1>1, <1>3, <2>2
  <2>3. CASE readable /\ hosts # Failed /\ hosts = <<>>
    BY <1>1, <1>3, <2>3
  <2>4. CASE readable /\ hosts # Failed /\ hosts # <<>>
    BY <1>1, <1>3, <2>4
  <2> QED
    BY <2>1, <2>2, <2>3, <2>4
<1> QED
  BY <1>2, <1>4 DEF given

\* What is never probed.
LEMMA ExclusionIs ==
    ASSUME NEW asked
    PROVE  LET given == RU!Excludes(RU!ProbeExclusions(asked.ports, asked.cidrs), asked.address,
                                   asked.port)
           IN  /\ asked.address \in {"169.254.169.254", "169.254.170.2"} => given
               /\ given <=> \/ asked.port \in asked.ports
                           \/ asked.address \in UNION (asked.cidrs \cup RU!DEFAULT_EXCLUDED_CIDRS)
BY DEF RU!Excludes, RU!ProbeExclusions, RU!DEFAULT_EXCLUDED_CIDRS

\* What is made of artifacts, fonts and a binary.
FromRelease(asked, given) ==
    /\ given.verified <=> \A a \in RU!Items(asked.artifacts) :
         a.name \in DOMAIN asked.directory /\ asked.directory[a.name] = a.content
    /\ given.fonts.manifest # asked.assets.manifest => given.fonts.ok
    /\ given.fonts.ok => \A f \in RU!Items(asked.fonts) : given.fonts.assets[f] = "new"
    /\ given.built => "vcruntime" \notin asked.tools.imports /\ asked.tools.objdump = "ok"

\* A manifest has a line for each artifact, and no other.
LEMMA ManifestIs ==
    ASSUME NEW artifacts \in Seq(RU!ArtifactRows),
           \A i \in DOMAIN artifacts : NameOrder[RU!Digest(artifacts[i].content)] \in Nat
    PROVE  LET lines == RU!WriteManifest(artifacts)
           IN  /\ \A i \in DOMAIN lines : \E a \in RU!Items(artifacts) : lines[i] = RU!ChecksumLine(a)
               /\ \A a \in RU!Items(artifacts) : \E i \in DOMAIN lines : lines[i] = RU!ChecksumLine(a)
<1> DEFINE n == Len(artifacts)
           seq == [i \in DOMAIN artifacts |-> RU!ChecksumLine(artifacts[i])]
           key == [i \in DOMAIN seq |-> NameOrder[seq[i].digest]]
           lines == RU!WriteManifest(artifacts)
           X == {RU!ChecksumLine(a) : a \in RU!ArtifactRows}
           S == DOMAIN seq
           Less(i, j) == \/ NameOrder[seq[i].digest] < NameOrder[seq[j].digest]
                         \/ i < j /\ ~(NameOrder[seq[j].digest] < NameOrder[seq[i].digest])
<1>1. n \in Nat /\ DOMAIN artifacts = 1 .. n /\ seq \in Seq(X) /\ Len(seq) = n /\ S = 1 .. n
  OBVIOUS
<1>2. \A i \in S : seq[i] = RU!ChecksumLine(artifacts[i])
  OBVIOUS
<1>3. \A i \in S : key[i] \in Int /\ key[i] = NameOrder[seq[i].digest]
  BY DEF RU!ChecksumLine
<1>4. lines = RU!At(seq, RU!Arranged(S, {p \in S \X S : Less(p[1], p[2])}))
  BY DEF RU!WriteManifest, RU!Sorted, RU!ArrangedBy
<1> HIDE DEF lines, seq, X, n
<1>5. key \in [S -> Int]
  BY <1>3
<1>6. {p \in S \X S : Less(p[1], p[2])} = {p \in S \X S : Precedes(key, p[1], p[2])}
  BY <1>3 DEF Precedes
<1>7. lines = Ordered(seq, key)
  BY <1>4, <1>6 DEF Ordered
<1> HIDE DEF key
<1>8. PICK places : Orders(seq, key, places)
  BY <1>1, <1>5, OrderedIs
<1>9. /\ lines = [k \in 1 .. n |-> seq[places[k]]] /\ \A k \in 1 .. n : places[k] \in 1 .. n
      /\ \A i \in 1 .. n : \E k \in 1 .. n : places[k] = i
  BY <1>1, <1>7, <1>8 DEF Orders
<1>10. RU!Items(artifacts) = {artifacts[i] : i \in 1 .. n}
  BY <1>1 DEF RU!Items, RU!ToSet
<1>11. /\ DOMAIN lines = 1 .. n
       /\ \A k \in 1 .. n : lines[k] = RU!ChecksumLine(artifacts[places[k]])
  <2>1. \A i \in 1 .. n : seq[i] = RU!ChecksumLine(artifacts[i])
    BY <1>1, <1>2
  <2> QED
    BY <1>9, <2>1
<1>12. \A k \in DOMAIN lines : \E a \in RU!Items(artifacts) : lines[k] = RU!ChecksumLine(a)
  <2> TAKE k \in DOMAIN lines
  <2>1. artifacts[places[k]] \in RU!Items(artifacts)
    BY <1>9, <1>10, <1>11
  <2> QED
    BY <1>11, <2>1
<1>13. \A a \in RU!Items(artifacts) : \E k \in DOMAIN lines : lines[k] = RU!ChecksumLine(a)
  <2> TAKE a \in RU!Items(artifacts)
  <2>1. PICK i \in 1 .. n : a = artifacts[i]
    BY <1>10
  <2>2. PICK k \in 1 .. n : places[k] = i
    BY <1>9
  <2> QED
    BY <1>11, <2>1, <2>2
<1> QED
  BY <1>12, <1>13 DEF lines

\* A release verifies just when its artifacts are what they were.
LEMMA ReleaseIs ==
    ASSUME NEW asked, NEW given, asked.artifacts \in Seq(RU!ArtifactRows),
           \A i \in DOMAIN asked.artifacts :
             NameOrder[RU!Digest(asked.artifacts[i].content)] \in Nat,
           asked.fonts \in Seq(DOMAIN asked.assets.files),
           given.verified = RU!VerifyManifest(RU!WriteManifest(asked.artifacts), asked.directory),
           given.fonts = RU!VendorFonts(asked.fonts, asked.outcome, asked.assets),
           given.built = RU!BuildWindows(asked.tools.xwin, asked.tools.objdump, asked.tools.imports)
    PROVE  FromRelease(asked, given)
<1> DEFINE lines == RU!WriteManifest(asked.artifacts)
           fonts == asked.fonts
           unfit_fonts == {i \in DOMAIN fonts : asked.outcome[fonts[i]] # "woff2"}
           made == IF unfit_fonts = {} THEN fonts
                   ELSE SubSeq(fonts, 1, (CHOOSE i \in unfit_fonts : \A j \in unfit_fonts : i <= j) - 1)
<1>1. given.verified <=> \A a \in RU!Items(asked.artifacts) :
        a.name \in DOMAIN asked.directory /\ asked.directory[a.name] = a.content
  <2>1. given.verified <=> \A i \in DOMAIN lines :
          /\ lines[i].name \in DOMAIN asked.directory
          /\ lines[i].digest = RU!Digest(asked.directory[lines[i].name])
    BY DEF RU!VerifyManifest
  <2>2. \A a : RU!ChecksumLine(a).name = a.name /\ RU!ChecksumLine(a).digest = RU!Digest(a.content)
    BY DEF RU!ChecksumLine
  <2>3. \A x, y : RU!Digest(x) = RU!Digest(y) <=> x = y
    BY DEF RU!Digest
  <2>4. /\ \A i \in DOMAIN lines : \E a \in RU!Items(asked.artifacts) : lines[i] = RU!ChecksumLine(a)
        /\ \A a \in RU!Items(asked.artifacts) : \E i \in DOMAIN lines : lines[i] = RU!ChecksumLine(a)
    BY ManifestIs
  <2> HIDE DEF lines
  <2> QED
    BY <2>1, <2>2, <2>3, <2>4
<1>2. /\ given.fonts.assets = [f \in DOMAIN asked.assets.files |->
                                IF f \in RU!ToSet(made) THEN "new" ELSE asked.assets.files[f]]
      /\ given.fonts.manifest = (IF unfit_fonts = {} THEN fonts ELSE asked.assets.manifest)
      /\ given.fonts.ok = (unfit_fonts = {})
  BY DEF RU!VendorFonts
<1>3. \A f \in RU!Items(fonts) : f \in DOMAIN asked.assets.files /\ f \in RU!ToSet(fonts)
  BY DEF RU!Items, RU!ToSet
<1> HIDE DEF unfit_fonts
<1>4. /\ given.fonts.manifest # asked.assets.manifest => given.fonts.ok
      /\ given.fonts.ok => \A f \in RU!Items(fonts) : given.fonts.assets[f] = "new"
  BY <1>2, <1>3
<1>5. given.built => "vcruntime" \notin asked.tools.imports /\ asked.tools.objdump = "ok"
  BY DEF RU!BuildWindows, RU!VerifyStatic, RU!NamesDynamicCrtDll
<1> QED
  BY <1>1, <1>4, <1>5 DEF FromRelease

-----------------------------------------------------------------------------
(* The annotations of a scorecard. *)

\* The reading of a scorecard's annotations, while nothing is wrong.
Annotation == [checks : Seq(STRING), reasons : Seq(STRING)]
Noted ==
    [ok : {TRUE}, annotations : Seq(Annotation), section : {"none", "checks", "reasons"},
     seen : BOOLEAN]

\* One more item for the last annotation.
LEMMA ItemAdds ==
    ASSUME NEW s \in Noted, s.annotations # <<>>, NEW field \in {"checks", "reasons"},
           NEW value \in STRING
    PROVE  LET t == RU!AppendTo(s, field, value)
           IN  /\ t \in Noted /\ t.section = s.section
               /\ Len(t.annotations) = Len(s.annotations)
               /\ \A m \in 1 .. Len(s.annotations) :
                    field = "checks" \/ m # Len(s.annotations) =>
                      t.annotations[m].reasons = s.annotations[m].reasons
<1> DEFINE n == Len(s.annotations)
           last == [s.annotations[n] EXCEPT ![field] = Append(@, value)]
           list == [s.annotations EXCEPT ![n] = last]
           t == RU!AppendTo(s, field, value)
<1>1. s.annotations \in Seq(Annotation) /\ n \in 1 .. n /\ n \in Nat
  <2>1. s.annotations \in Seq(Annotation)
    BY DEF Noted
  <2> HIDE DEF Annotation
  <2> QED
    BY <2>1
<1>2. s.annotations[n] \in Annotation
  <2> HIDE DEF Annotation
  <2> QED
    BY <1>1
<1>3. last \in Annotation /\ (field = "checks" => last.reasons = s.annotations[n].reasons)
  <2> DEFINE a == s.annotations[n]
             Y == Seq(STRING)
             longer == Append(a[field], value)
  <2>1. a \in [checks : Y, reasons : Y]
    BY <1>2 DEF Annotation
  <2>2. longer \in Y
    <3>1. a[field] \in Seq(STRING)
      <4> HIDE DEF a
      <4> QED
        BY <2>1
    <3> QED
      BY <3>1
  <2>3. last = [a EXCEPT ![field] = longer]
    OBVIOUS
  <2> HIDE DEF a, Y, longer, last
  <2>4. last \in [checks : Y, reasons : Y] /\ (field = "checks" => last.reasons = a.reasons)
    BY <2>1, <2>2, <2>3
  <2> QED
    BY <2>4 DEF Annotation, Y, a
<1>4. t = [s EXCEPT !.annotations = list]
  BY DEF RU!AppendTo
<1> HIDE DEF last, t
<1>5. /\ list \in Seq(Annotation) /\ Len(list) = n
      /\ \A m \in 1 .. n : list[m] = IF m = n THEN last ELSE s.annotations[m]
  <2> HIDE DEF Annotation
  <2> QED
    BY <1>1, <1>3
<1> HIDE DEF list, n
<1>6. t \in Noted /\ t.section = s.section /\ t.annotations = list
  <2> HIDE DEF Annotation
  <2> QED
    BY <1>4, <1>5 DEF Noted
<1> QED
  BY <1>3, <1>5, <1>6 DEF t, n

\* What a line makes of what was read so far.
NotedOrWrong == Noted \cup {RU!Wrong}

Starts(s, t) ==
    /\ t.annotations = Append(s.annotations, [checks |-> <<>>, reasons |-> <<>>])
    /\ t.section = "checks"

GoesOn(s, t) ==
    /\ t.section = s.section /\ Len(t.annotations) = Len(s.annotations)
    /\ \A m \in 1 .. Len(s.annotations) :
         s.section = "checks" \/ m # Len(s.annotations) =>
           t.annotations[m].reasons = s.annotations[m].reasons

LineSays(s, line, t) ==
    \/ t = RU!Wrong
    \/ /\ s \in Noted /\ t \in Noted
       /\ \/ line.content = "- checks:" /\ Starts(s, t)
          \/ line.content = "reasons:"
          \/ line.content # "- checks:" /\ GoesOn(s, t)

\* A line is wrong or does one of these.
LEMMA LineIs ==
    ASSUME NEW s \in NotedOrWrong, NEW line \in RU!AnnotationRows
    PROVE  RU!ParseLine(s, line) \in NotedOrWrong /\ LineSays(s, line, RU!ParseLine(s, line))
<1> DEFINE t == RU!ParseLine(s, line)
           new == [checks |-> <<>>, reasons |-> <<>>]
           headed == [s EXCEPT !.seen = TRUE]
           started == [s EXCEPT !.annotations = Append(@, new), !.section = "checks"]
           explained == [s EXCEPT !.section = "reasons"]
<1>1. /\ line.content \in STRING /\ line.value \in STRING /\ line.reason \in BOOLEAN
  BY DEF RU!AnnotationRows
<1>2. RU!Wrong.ok = FALSE /\ RU!Wrong \in NotedOrWrong
  BY DEF RU!Wrong, NotedOrWrong
<1>3. CASE s = RU!Wrong
  <2>1. t = s
    BY <1>2, <1>3 DEF RU!ParseLine
  <2> QED
    BY <1>2, <1>3, <2>1 DEF LineSays
<1>4. CASE s \in Noted
  <2>1. s.ok = TRUE /\ s.annotations \in Seq(Annotation)
    <3> HIDE DEF Annotation
    <3> QED
      BY <1>4 DEF Noted
  <2>2. /\ headed \in Noted /\ headed.section = s.section /\ headed.annotations = s.annotations
    <3> HIDE DEF Annotation
    <3> QED
      BY <1>4 DEF Noted
  <2>3. started \in Noted /\ Starts(s, started)
    <3>1. new \in Annotation
      BY DEF Annotation
    <3> HIDE DEF new, Annotation
    <3>2. Append(s.annotations, new) \in Seq(Annotation)
      BY <2>1, <3>1
    <3>3. started \in Noted /\ started.annotations = Append(s.annotations, new)
          /\ started.section = "checks"
      BY <1>4, <3>2 DEF Noted
    <3> QED
      BY <3>3 DEF Starts, new
  <2>4. explained \in Noted
    <3> HIDE DEF Annotation
    <3> QED
      BY <1>4 DEF Noted
  <2>5. GoesOn(s, s) /\ GoesOn(s, headed)
    <3> HIDE DEF headed
    <3> QED
      BY <2>2 DEF GoesOn
  <2> HIDE DEF headed, started, explained
  <2>6. ASSUME line.content = "- item"
        PROVE  LET u == RU!ParseItem(s, line)
               IN  u = RU!Wrong \/ (u \in Noted /\ GoesOn(s, u))
    <3> DEFINE u == RU!ParseItem(s, line)
               checks == RU!AppendTo(s, "checks", line.value)
               reasons == RU!AppendTo(s, "reasons", line.value)
    <3>1. \/ u = RU!Wrong
          \/ s.annotations # <<>> /\ s.section = "checks" /\ u = checks
          \/ s.annotations # <<>> /\ s.section = "reasons" /\ u = reasons
      BY DEF RU!ParseItem
    <3>2. s.annotations # <<>> =>
            /\ checks \in Noted /\ checks.section = s.section
            /\ Len(checks.annotations) = Len(s.annotations)
            /\ \A m \in 1 .. Len(s.annotations) :
                 checks.annotations[m].reasons = s.annotations[m].reasons
      BY <1>1, <1>4, ItemAdds
    <3>3. s.annotations # <<>> =>
            /\ reasons \in Noted /\ reasons.section = s.section
            /\ Len(reasons.annotations) = Len(s.annotations)
            /\ \A m \in 1 .. Len(s.annotations) : m # Len(s.annotations) =>
                 reasons.annotations[m].reasons = s.annotations[m].reasons
      BY <1>1, <1>4, ItemAdds
    <3> HIDE DEF u, checks, reasons
    <3>4. ASSUME s.annotations # <<>>, s.section = "checks", u = checks
          PROVE  u \in Noted /\ GoesOn(s, u)
      BY <3>2, <3>4 DEF GoesOn
    <3>5. ASSUME s.annotations # <<>>, s.section = "reasons", u = reasons
          PROVE  u \in Noted /\ GoesOn(s, u)
      <4>1. s.section # "checks"
        BY <3>5
      <4> QED
        BY <3>3, <3>5, <4>1 DEF GoesOn
    <3>6. u = RU!Wrong \/ (u \in Noted /\ GoesOn(s, u))
      BY <3>1, <3>4, <3>5
    <3> QED
      BY <3>6 DEF u
  <2>7. \/ t = RU!Wrong
        \/ line.content \in {"", "#"} /\ t = s
        \/ line.content = "annotations:" /\ t = headed
        \/ line.content = "- checks:" /\ t = started
        \/ line.content = "reasons:" /\ t = explained
        \/ line.content = "- item" /\ t = RU!ParseItem(s, line)
    BY <2>1 DEF RU!ParseLine, RU!Blank, headed, started, explained
  <2> HIDE DEF t
  <2>8. LineSays(s, line, t)
    <3>1. line.content \in {"", "#", "annotations:", "- item"} => line.content # "- checks:"
      OBVIOUS
    <3> QED
      BY <1>4, <2>2, <2>3, <2>4, <2>5, <2>6, <2>7, <3>1 DEF LineSays
  <2>9. t \in NotedOrWrong
    BY <2>8 DEF LineSays, NotedOrWrong
  <2> QED
    BY <2>8, <2>9 DEF t
<1> QED
  BY <1>3, <1>4 DEF NotedOrWrong

\* A reason is still to come for the annotation that is being read, or was left out of another.
Owing(s) ==
    \E m \in 1 .. Len(s.annotations) :
       /\ s.annotations[m].reasons = <<>>
       /\ m = Len(s.annotations) => s.section = "checks"

\* The line p is answered by the line i.
Answered(lines, p, i) == \E q \in p + 1 .. i : lines[q].content = "reasons:"

Explained(lines, i, s) ==
    Owing(s) \/ \A p \in 1 .. i : lines[p].content = "- checks:" => Answered(lines, p, i)

\* Who starts an annotation owes it a reason.
LEMMA StartsOwing ==
    ASSUME NEW s \in Noted, NEW t \in Noted, Starts(s, t)
    PROVE  Owing(t)
<1> DEFINE x == [checks |-> <<>>, reasons |-> <<>>]
<1>1. s.annotations \in Seq(Annotation)
  <2> HIDE DEF Annotation
  <2> QED
    BY DEF Noted
<1>2. x \in Annotation /\ x.reasons = <<>>
  BY DEF Annotation
<1>3. \A seq \in Seq(Annotation) : \A y \in Annotation :
         LET longer == Append(seq, y)
         IN  Len(longer) \in 1 .. Len(longer) /\ longer[Len(longer)] = y
  <2> HIDE DEF Annotation, x
  <2> QED
    OBVIOUS
<1>4. t.annotations = Append(s.annotations, x) /\ t.section = "checks"
  BY DEF Starts
<1> HIDE DEF x, Annotation
<1>5. Len(t.annotations) \in 1 .. Len(t.annotations) /\ t.annotations[Len(t.annotations)] = x
  BY <1>1, <1>2, <1>3, <1>4
<1> QED
  BY <1>2, <1>4, <1>5 DEF Owing

\* What is owed stays owed while no reasons are announced.
LEMMA OwingGoesOn ==
    ASSUME NEW s, NEW t, GoesOn(s, t), Owing(s)
    PROVE  Owing(t)
<1>1. PICK m \in 1 .. Len(s.annotations) :
        s.annotations[m].reasons = <<>> /\ (m = Len(s.annotations) => s.section = "checks")
  BY DEF Owing
<1>2. s.section = "checks" \/ m # Len(s.annotations)
  BY <1>1
<1>3. t.annotations[m].reasons = <<>> /\ (m = Len(t.annotations) => t.section = "checks")
  BY <1>1, <1>2 DEF GoesOn
<1>4. m \in 1 .. Len(t.annotations)
  BY DEF GoesOn
<1> QED
  BY <1>3, <1>4 DEF Owing

\* What is answered stays answered, and is by the line that announces reasons.
LEMMA AnsweredOn ==
    ASSUME NEW lines, NEW i \in Nat, i # 0, NEW p \in 1 .. i
    PROVE  /\ p # i /\ Answered(lines, p, i - 1) => Answered(lines, p, i)
           /\ p # i /\ lines[i].content = "reasons:" => Answered(lines, p, i)
<1>1. \A q \in p + 1 .. i - 1 : q \in p + 1 .. i
  OBVIOUS
<1>2. p # i => i \in p + 1 .. i
  OBVIOUS
<1> QED
  BY <1>1, <1>2 DEF Answered

\* A line more, and every list of checks is still answered or owed a reason.
LEMMA LineExplains ==
    ASSUME NEW lines, NEW i \in Nat, i # 0, NEW s \in Noted, NEW t \in Noted,
           Explained(lines, i - 1, s), LineSays(s, lines[i], t)
    PROVE  Explained(lines, i, t)
<1>1. t # RU!Wrong
  BY DEF Noted, RU!Wrong
<1>2. CASE lines[i].content = "reasons:"
  <2>1. "reasons:" # "- checks:"
    OBVIOUS
  <2>2. \A p \in 1 .. i : lines[p].content = "- checks:" => p # i
    BY <1>2, <2>1
  <2> QED
    BY <1>2, <2>2, AnsweredOn DEF Explained
<1>3. CASE Starts(s, t)
  BY <1>3, StartsOwing DEF Explained
<1>4. CASE lines[i].content # "- checks:" /\ GoesOn(s, t)
  <2>1. CASE Owing(s)
    BY <1>4, <2>1, OwingGoesOn DEF Explained
  <2>2. CASE \A p \in 1 .. i - 1 : lines[p].content = "- checks:" => Answered(lines, p, i - 1)
    <3>1. \A p \in 1 .. i : p # i => p \in 1 .. i - 1
      OBVIOUS
    <3>2. \A p \in 1 .. i : lines[p].content = "- checks:" => Answered(lines, p, i)
      BY <1>4, <2>2, <3>1, AnsweredOn
    <3> QED
      BY <3>2 DEF Explained
  <2> QED
    BY <2>1, <2>2 DEF Explained
<1> QED
  BY <1>1, <1>2, <1>3, <1>4 DEF LineSays

\* While the lines are read, what they said is answered or owed.
LineRead(lines, i, s) == s = RU!Wrong \/ (s \in Noted /\ Explained(lines, i, s))

\* What was read so far is not wrong.
LEMMA NotWrong ==
    ASSUME NEW s \in Noted
    PROVE  s # RU!Wrong
<1>1. s.ok = TRUE
  BY DEF Noted
<1>2. RU!Wrong.ok = FALSE
  BY DEF RU!Wrong
<1> QED
  BY <1>1, <1>2

\* The line read next.
LEMMA LineReads ==
    ASSUME NEW lines \in Seq(RU!AnnotationRows), NEW i \in 1 .. Len(lines), NEW s,
           LineRead(lines, i - 1, s)
    PROVE  LineRead(lines, i, RU!ParseLine(s, lines[i]))
<1> DEFINE t == RU!ParseLine(s, lines[i])
<1>1. lines[i] \in RU!AnnotationRows /\ i \in Nat /\ i # 0
  <2> HIDE DEF RU!AnnotationRows
  <2> QED
    OBVIOUS
<1>2. s \in NotedOrWrong
  BY DEF LineRead, NotedOrWrong
<1>3. t \in NotedOrWrong /\ LineSays(s, lines[i], t)
  BY <1>1, <1>2, LineIs
<1> HIDE DEF t
<1>4. CASE t = RU!Wrong
  BY <1>4 DEF t, LineRead
<1>5. CASE t # RU!Wrong
  <2>1. t \in Noted /\ s \in Noted
    BY <1>3, <1>5 DEF NotedOrWrong, LineSays
  <2>2. s # RU!Wrong
    BY <2>1, NotWrong
  <2>3. Explained(lines, i - 1, s)
    BY <2>2 DEF LineRead
  <2>4. Explained(lines, i, t)
    BY <1>1, <1>3, <2>1, <2>3, LineExplains
  <2>5. LineRead(lines, i, t)
    BY <2>1, <2>4 DEF LineRead
  <2> QED
    BY <2>5 DEF t
<1> QED
  BY <1>4, <1>5

\* All the lines read.
LEMMA LinesAreRead ==
    ASSUME NEW lines \in Seq(RU!AnnotationRows)
    PROVE  \E s : /\ LineRead(lines, Len(lines), s)
                  /\ RU!ParseAnnotations(lines) = IF s.ok /\ s.seen THEN s ELSE RU!Wrong
<1> DEFINE n == Len(lines)
           turn == [i \in 1 .. n |-> [s \in NotedOrWrong |-> RU!ParseLine(s, lines[i])]]
           Unfold(f) == [i \in 0 .. n |-> IF i = 0 THEN RU!Unread
                                        ELSE RU!ParseLine(f[i - 1], lines[i])]
           state == CHOOSE f : f = Unfold(f)
<1>1. n \in Nat /\ n = Len(lines)
  OBVIOUS
<1>2. turn \in [1 .. n -> [NotedOrWrong -> NotedOrWrong]]
  <2>1. \A i \in 1 .. n : lines[i] \in RU!AnnotationRows
    <3> HIDE DEF RU!AnnotationRows
    <3> QED
      OBVIOUS
  <2> QED
    BY <2>1, LineIs
<1>3. RU!Unread \in Noted /\ RU!Unread \in NotedOrWrong /\ RU!Unread.annotations = <<>>
  <2>1. <<>> \in Seq(Annotation)
    OBVIOUS
  <2> HIDE DEF Annotation
  <2> QED
    BY <2>1 DEF RU!Unread, Noted, NotedOrWrong
<1>4. RU!ParseAnnotations(lines) = IF state[n].ok /\ state[n].seen THEN state[n] ELSE RU!Wrong
  BY DEF RU!ParseAnnotations
<1> HIDE DEF n
<1>5. state = Unfold(state)
  <2>0. PICK f : Recursive(f, n, NotedOrWrong, RU!Unread, turn)
    <3> HIDE DEF turn, Unfold, state
    <3> QED
      BY <1>1, <1>2, <1>3, Recurses
  <2>1. /\ f \in [0 .. n -> NotedOrWrong] /\ f[0] = RU!Unread
        /\ \A i \in 1 .. n : f[i] = RU!ParseLine(f[i - 1], lines[i])
    <3>1. \A i \in 1 .. n : i - 1 \in 0 .. n
      BY <1>1
    <3> QED
      BY <2>0, <3>1 DEF Recursive
  <2>2. \A i \in 0 .. n : i # 0 => i \in 1 .. n /\ i - 1 \in 0 .. n
    BY <1>1
  <2>3. \A i \in 0 .. n : f[i] = IF i = 0 THEN RU!Unread ELSE RU!ParseLine(f[i - 1], lines[i])
    BY <2>1, <2>2
  <2>4. f = Unfold(f)
    <3> HIDE DEF state
    <3> QED
      BY <2>1, <2>3
  <2> HIDE DEF Unfold
  <2> QED
    BY <2>4
<1> HIDE DEF state
<1> DEFINE G == {i \in 0 .. n : LineRead(lines, i, state[i])}
<1>6. 0 \in G
  <2>1. state[0] = RU!Unread /\ 0 \in 0 .. n
    BY <1>1, <1>5
  <2>2. Explained(lines, 0, RU!Unread)
    <3>1. 1 .. 0 = {}
      OBVIOUS
    <3> QED
      BY <3>1 DEF Explained
  <2> QED
    BY <1>3, <2>1, <2>2 DEF LineRead
<1>7. ASSUME NEW i \in 1 .. n, i - 1 \in G PROVE i \in G
  <2>1. i \in 0 .. n /\ i # 0
    BY <1>1
  <2>2. state[i] = RU!ParseLine(state[i - 1], lines[i])
    BY <1>5, <2>1
  <2>3. LineRead(lines, i, state[i])
    BY <1>1, <1>7, <2>2, LineReads
  <2> QED
    BY <2>1, <2>3
<1>8. LineRead(lines, n, state[n])
  <2> HIDE DEF G
  <2>1. 0 .. n \subseteq G
    BY <1>1, <1>6, <1>7, Inducts
  <2>2. n \in G
    BY <1>1, <2>1
  <2> QED
    BY <2>2 DEF G
<1> QED
  BY <1>1, <1>4, <1>8

\* Every list of checks has reasons behind it.
ChecksAreAnswered(lines) ==
    \A i \in DOMAIN lines : lines[i].content = "- checks:" =>
      \E j \in i + 1 .. Len(lines) : lines[j].content = "reasons:"

\* What is accepted has reasons behind every list of checks.
LEMMA ScorecardIs ==
    ASSUME NEW lines \in Seq(RU!AnnotationRows), NEW valid_checks,
           RU!ScorecardAccepts(lines, valid_checks)
    PROVE  ChecksAreAnswered(lines)
<1>1. PICK s : /\ LineRead(lines, Len(lines), s)
               /\ RU!ParseAnnotations(lines) = IF s.ok /\ s.seen THEN s ELSE RU!Wrong
  BY LinesAreRead
<1> DEFINE read == RU!ParseAnnotations(lines)
<1>2. read.ok /\ RU!ValidateAnnotations(read.annotations, valid_checks)
  BY DEF RU!ScorecardAccepts
<1>3. read = s /\ s # RU!Wrong
  BY <1>1, <1>2 DEF RU!Wrong
<1>4. s \in Noted /\ Explained(lines, Len(lines), s)
  BY <1>1, <1>3 DEF LineRead
<1>5. DOMAIN s.annotations = 1 .. Len(s.annotations)
  <2> HIDE DEF Annotation
  <2> QED
    BY <1>4 DEF Noted
<1>6. ~ Owing(s)
  BY <1>2, <1>3, <1>5 DEF Owing, RU!ValidateAnnotations
<1>7. DOMAIN lines = 1 .. Len(lines)
  <2> HIDE DEF RU!AnnotationRows
  <2> QED
    OBVIOUS
<1> QED
  BY <1>4, <1>6, <1>7 DEF Explained, Answered, ChecksAreAnswered

-----------------------------------------------------------------------------
(* Texts: questions and answers. *)

\* What the code makes of a question about a text, a source, a command or a release.
Redacted(asked, given) == given = RU!Redact(asked.length, asked.matches)

Responded(asked, given) ==
    /\ given.body = RU!ReadCapped(asked.chunks, asked.cap)
    /\ given.text = RU!DecodeCappedBody(given.body)
    /\ given.evidence = RU!EvidenceFromResponse([headers |-> asked.headers, body |-> given.text])

Filtered(asked, given) ==
    /\ given.ruleset = RU!ClassifyRuleset(RU!QueryChains(asked.buffers), asked.legacy)
    /\ given.rules = IF given.ruleset = Failed THEN Failed ELSE RU!FirewallRulesFromRaw(given.ruleset)

Unpacked(asked, given) == given = RU!ParsePayload(asked)

Enumerated(asked, given) == given = RU!ParseProcNet(asked.lines, asked.protocol, asked.processes)

Configured(asked, given) == given = RU!ResolveConfig(asked.config, asked.file, asked.variables)

Shown(asked, given) == given = RU!ReportCommand(asked.args, asked.store, asked.writable)

Inventoried(asked, given) == given = RU!InventoryCommand(asked.readable, asked.entries)

Released(asked, given) ==
    /\ given.verified = RU!VerifyManifest(RU!WriteManifest(asked.artifacts), asked.directory)
    /\ given.fonts = RU!VendorFonts(asked.fonts, asked.outcome, asked.assets)
    /\ given.built = RU!BuildWindows(asked.tools.xwin, asked.tools.objdump, asked.tools.imports)

Accepted(asked, given) == given = RU!ScorecardAccepts(asked, {"SAST"})

Exempted(asked, given) ==
    given = RU!Excludes(RU!ProbeExclusions(asked.ports, asked.cidrs), asked.address, asked.port)

\* An answer about a text is what the code makes of the question.
TextsInv ==
    /\ RU!Told("redact") => Redacted(question.input, answer)
    /\ RU!Told("response") => Responded(question.input, answer)
    /\ RU!Told("netfilter") => Filtered(question.input, answer)
    /\ RU!Told("payload") => Unpacked(question.input, answer)
    /\ RU!Told("proc") => Enumerated(question.input, answer)
    /\ RU!Told("config") => Configured(question.input, answer)
    /\ RU!Told("report") => Shown(question.input, answer)
    /\ RU!Told("inventory") => Inventoried(question.input, answer)
    /\ RU!Told("release") => Released(question.input, answer)
    /\ RU!Told("scorecard") => Accepted(question.input, answer)
    /\ RU!Told("exclude") => Exempted(question.input, answer)

\* A question about a text is answered once, and by the code it is for.
TextReplied ==
    /\ UNCHANGED question /\ answered' = TRUE
    /\ question.topic = "redact" => RU!TakeOutSecrets
    /\ question.topic = "response" => RU!ReadResponse
    /\ question.topic = "netfilter" => RU!ReadNetfilter
    /\ question.topic = "payload" => RU!ReadPayload
    /\ question.topic = "proc" => RU!ReadProc
    /\ question.topic = "config" => RU!LoadConfig
    /\ question.topic = "report" => RU!Report
    /\ question.topic = "inventory" => RU!ValidateInventory
    /\ question.topic = "release" => RU!Release
    /\ question.topic = "scorecard" => RU!ReadScorecard
    /\ question.topic = "exclude" => RU!Exclude

\* A step answers the question or stutters.
LEMMA TextsReply == RU!Next => TextReplied \/ UNCHANGED RU!vars
<1>1. \A topic, value : RU!Reply(topic, value) =>
        UNCHANGED question /\ answered' = TRUE /\ question.topic = topic
  BY DEF RU!Reply
<1>2. RU!TakeOutSecrets => TextReplied
  <2> SUFFICES ASSUME RU!TakeOutSecrets PROVE TextReplied
    OBVIOUS
  <2>1. UNCHANGED question /\ answered' = TRUE /\ question.topic = "redact"
    BY <1>1 DEF RU!TakeOutSecrets
  <2> QED
    BY <2>1 DEF TextReplied
<1>3. RU!ReadResponse => TextReplied
  <2> SUFFICES ASSUME RU!ReadResponse PROVE TextReplied
    OBVIOUS
  <2>1. UNCHANGED question /\ answered' = TRUE /\ question.topic = "response"
    BY <1>1 DEF RU!ReadResponse
  <2> QED
    BY <2>1 DEF TextReplied
<1>4. RU!ReadNetfilter => TextReplied
  <2> SUFFICES ASSUME RU!ReadNetfilter PROVE TextReplied
    OBVIOUS
  <2>1. UNCHANGED question /\ answered' = TRUE /\ question.topic = "netfilter"
    BY <1>1 DEF RU!ReadNetfilter
  <2> QED
    BY <2>1 DEF TextReplied
<1>5. RU!ReadPayload => TextReplied
  <2> SUFFICES ASSUME RU!ReadPayload PROVE TextReplied
    OBVIOUS
  <2>1. UNCHANGED question /\ answered' = TRUE /\ question.topic = "payload"
    BY <1>1 DEF RU!ReadPayload
  <2> QED
    BY <2>1 DEF TextReplied
<1>6. RU!ReadProc => TextReplied
  <2> SUFFICES ASSUME RU!ReadProc PROVE TextReplied
    OBVIOUS
  <2>1. UNCHANGED question /\ answered' = TRUE /\ question.topic = "proc"
    BY <1>1 DEF RU!ReadProc
  <2> QED
    BY <2>1 DEF TextReplied
<1>7. RU!LoadConfig => TextReplied
  <2> SUFFICES ASSUME RU!LoadConfig PROVE TextReplied
    OBVIOUS
  <2>1. UNCHANGED question /\ answered' = TRUE /\ question.topic = "config"
    BY <1>1 DEF RU!LoadConfig
  <2> QED
    BY <2>1 DEF TextReplied
<1>8. RU!Report => TextReplied
  <2> SUFFICES ASSUME RU!Report PROVE TextReplied
    OBVIOUS
  <2>1. UNCHANGED question /\ answered' = TRUE /\ question.topic = "report"
    BY <1>1 DEF RU!Report
  <2> QED
    BY <2>1 DEF TextReplied
<1>9. RU!ValidateInventory => TextReplied
  <2> SUFFICES ASSUME RU!ValidateInventory PROVE TextReplied
    OBVIOUS
  <2>1. UNCHANGED question /\ answered' = TRUE /\ question.topic = "inventory"
    BY <1>1 DEF RU!ValidateInventory
  <2> QED
    BY <2>1 DEF TextReplied
<1>10. RU!Release => TextReplied
  <2> SUFFICES ASSUME RU!Release PROVE TextReplied
    OBVIOUS
  <2>1. UNCHANGED question /\ answered' = TRUE /\ question.topic = "release"
    BY <1>1 DEF RU!Release
  <2> QED
    BY <2>1 DEF TextReplied
<1>11. RU!ReadScorecard => TextReplied
  <2> SUFFICES ASSUME RU!ReadScorecard PROVE TextReplied
    OBVIOUS
  <2>1. UNCHANGED question /\ answered' = TRUE /\ question.topic = "scorecard"
    BY <1>1 DEF RU!ReadScorecard
  <2> QED
    BY <2>1 DEF TextReplied
<1>12. RU!Exclude => TextReplied
  <2> SUFFICES ASSUME RU!Exclude PROVE TextReplied
    OBVIOUS
  <2>1. UNCHANGED question /\ answered' = TRUE /\ question.topic = "exclude"
    BY <1>1 DEF RU!Exclude
  <2> QED
    BY <2>1 DEF TextReplied
<1>13. RU!Judge => TextReplied
  <2> SUFFICES ASSUME RU!Judge PROVE TextReplied
    OBVIOUS
  <2>1. UNCHANGED question /\ answered' = TRUE /\ question.topic = "verdict"
    BY <1>1 DEF RU!Judge
  <2> QED
    BY <2>1 DEF TextReplied
<1>14. RU!ReadPorts => TextReplied
  <2> SUFFICES ASSUME RU!ReadPorts PROVE TextReplied
    OBVIOUS
  <2>1. UNCHANGED question /\ answered' = TRUE /\ question.topic = "ports"
    BY <1>1 DEF RU!ReadPorts
  <2> QED
    BY <2>1 DEF TextReplied
<1>15. RU!MapRules => TextReplied
  <2> SUFFICES ASSUME RU!MapRules PROVE TextReplied
    OBVIOUS
  <2>1. UNCHANGED question /\ answered' = TRUE /\ question.topic = "mapping"
    BY <1>1 DEF RU!MapRules
  <2> QED
    BY <2>1 DEF TextReplied
<1>16. RU!Handshake => TextReplied
  <2> SUFFICES ASSUME RU!Handshake PROVE TextReplied
    OBVIOUS
  <2>1. UNCHANGED question /\ answered' = TRUE /\ question.topic = "tls"
    BY <1>1 DEF RU!Handshake
  <2> QED
    BY <2>1 DEF TextReplied
<1>17. RU!CheckPattern => TextReplied
  <2> SUFFICES ASSUME RU!CheckPattern PROVE TextReplied
    OBVIOUS
  <2>1. UNCHANGED question /\ answered' = TRUE /\ question.topic = "pattern"
    BY <1>1 DEF RU!CheckPattern
  <2> QED
    BY <2>1 DEF TextReplied
<1>18. RU!Identify => TextReplied
  <2> SUFFICES ASSUME RU!Identify PROVE TextReplied
    OBVIOUS
  <2>1. UNCHANGED question /\ answered' = TRUE /\ question.topic = "identify"
    BY <1>1 DEF RU!Identify
  <2> QED
    BY <2>1 DEF TextReplied
<1>19. RU!Gather => TextReplied
  <2> SUFFICES ASSUME RU!Gather PROVE TextReplied
    OBVIOUS
  <2>1. UNCHANGED question /\ answered' = TRUE /\ question.topic = "gather"
    BY <1>1 DEF RU!Gather
  <2> QED
    BY <2>1 DEF TextReplied
<1>20. RU!Compare => TextReplied
  <2> SUFFICES ASSUME RU!Compare PROVE TextReplied
    OBVIOUS
  <2>1. UNCHANGED question /\ answered' = TRUE /\ question.topic = "compare"
    BY <1>1 DEF RU!Compare
  <2> QED
    BY <2>1 DEF TextReplied
<1>21. RU!Draw => TextReplied
  <2> SUFFICES ASSUME RU!Draw PROVE TextReplied
    OBVIOUS
  <2>1. UNCHANGED question /\ answered' = TRUE /\ question.topic = "draw"
    BY <1>1 DEF RU!Draw
  <2> QED
    BY <2>1 DEF TextReplied
<1> QED
  BY <1>2, <1>3, <1>4, <1>5, <1>6, <1>7, <1>8, <1>9, <1>10,
     <1>11, <1>12, <1>13, <1>14, <1>15, <1>16, <1>17, <1>18, <1>19, <1>20, <1>21
     DEF RU!Next, RU!Done

\* At first nothing has been told.
LEMMA TextsInit == RU!Init => TextsInv
BY DEF RU!Init, RU!Told, TextsInv

\* An answer about a text stays what it is.
LEMMA TextsNext == TextsInv /\ (RU!Next \/ UNCHANGED rules_all) => TextsInv'
<1> SUFFICES ASSUME TextsInv, RU!Next \/ UNCHANGED rules_all
             PROVE  TextsInv'
  OBVIOUS
<1>1. CASE TextReplied
  <2>1. ASSUME RU!Told("redact")' PROVE Redacted(question'.input, answer')
    <3>1. RU!TakeOutSecrets
      BY <1>1, <2>1 DEF RU!Told, TextReplied
    <3> QED
      BY <1>1, <3>1 DEF RU!TakeOutSecrets, RU!Reply, RU!in, Redacted, TextReplied
  <2>2. ASSUME RU!Told("response")' PROVE Responded(question'.input, answer')
    <3>1. RU!ReadResponse
      BY <1>1, <2>2 DEF RU!Told, TextReplied
    <3> QED
      BY <1>1, <3>1 DEF RU!ReadResponse, RU!Reply, RU!in, Responded, TextReplied
  <2>3. ASSUME RU!Told("netfilter")' PROVE Filtered(question'.input, answer')
    <3>1. RU!ReadNetfilter
      BY <1>1, <2>3 DEF RU!Told, TextReplied
    <3> QED
      BY <1>1, <3>1 DEF RU!ReadNetfilter, RU!Reply, RU!in, Filtered, TextReplied
  <2>4. ASSUME RU!Told("payload")' PROVE Unpacked(question'.input, answer')
    <3>1. RU!ReadPayload
      BY <1>1, <2>4 DEF RU!Told, TextReplied
    <3> QED
      BY <1>1, <3>1 DEF RU!ReadPayload, RU!Reply, RU!in, Unpacked, TextReplied
  <2>5. ASSUME RU!Told("proc")' PROVE Enumerated(question'.input, answer')
    <3>1. RU!ReadProc
      BY <1>1, <2>5 DEF RU!Told, TextReplied
    <3> QED
      BY <1>1, <3>1 DEF RU!ReadProc, RU!Reply, RU!in, Enumerated, TextReplied
  <2>6. ASSUME RU!Told("config")' PROVE Configured(question'.input, answer')
    <3>1. RU!LoadConfig
      BY <1>1, <2>6 DEF RU!Told, TextReplied
    <3> QED
      BY <1>1, <3>1 DEF RU!LoadConfig, RU!Reply, RU!in, Configured, TextReplied
  <2>7. ASSUME RU!Told("report")' PROVE Shown(question'.input, answer')
    <3>1. RU!Report
      BY <1>1, <2>7 DEF RU!Told, TextReplied
    <3> QED
      BY <1>1, <3>1 DEF RU!Report, RU!Reply, RU!in, Shown, TextReplied
  <2>8. ASSUME RU!Told("inventory")' PROVE Inventoried(question'.input, answer')
    <3>1. RU!ValidateInventory
      BY <1>1, <2>8 DEF RU!Told, TextReplied
    <3> QED
      BY <1>1, <3>1 DEF RU!ValidateInventory, RU!Reply, RU!in, Inventoried, TextReplied
  <2>9. ASSUME RU!Told("release")' PROVE Released(question'.input, answer')
    <3>1. RU!Release
      BY <1>1, <2>9 DEF RU!Told, TextReplied
    <3> QED
      BY <1>1, <3>1 DEF RU!Release, RU!Reply, RU!in, Released, TextReplied
  <2>10. ASSUME RU!Told("scorecard")' PROVE Accepted(question'.input, answer')
    <3>1. RU!ReadScorecard
      BY <1>1, <2>10 DEF RU!Told, TextReplied
    <3> QED
      BY <1>1, <3>1 DEF RU!ReadScorecard, RU!Reply, RU!in, Accepted, TextReplied
  <2>11. ASSUME RU!Told("exclude")' PROVE Exempted(question'.input, answer')
    <3>1. RU!Exclude
      BY <1>1, <2>11 DEF RU!Told, TextReplied
    <3> QED
      BY <1>1, <3>1 DEF RU!Exclude, RU!Reply, RU!in, Exempted, TextReplied
  <2> QED
    BY <2>1, <2>2, <2>3, <2>4, <2>5, <2>6, <2>7, <2>8, <2>9, <2>10, <2>11
       DEF TextsInv
<1>2. CASE UNCHANGED <<question, answered, answer>>
  BY <1>2 DEF TextsInv, RU!Told
<1> QED
  BY <1>1, <1>2, TextsReply DEF rules_all, RU!vars

\* The beginning of a sequence, as SequencesExt has it.
LEMMA BeginsIs ==
    ASSUME NEW X, NEW s \in Seq(X), NEW t \in Seq(X), Begins(s, t)
    PROVE  RU!IsPrefix(s, t)
<1>1. Len(s) \in Nat /\ Len(t) \in Nat /\ Len(s) <= Len(t)
  BY DEF Begins
<1>2. s = [i \in 1 .. Len(s) |-> s[i]] /\ SubSeq(s, 1, Len(s)) = s
  BY <1>1
<1>3. SubSeq(t, 1, Len(s)) = [i \in 1 .. Len(s) |-> t[i]]
  BY <1>1
<1>4. \A i \in 1 .. Len(s) : s[i] = t[i]
  BY DEF Begins
<1>5. SubSeq(s, 1, Len(s)) = SubSeq(t, 1, Len(s))
  BY <1>2, <1>3, <1>4
<1> QED
  BY <1>1, <1>5 DEF RU!IsPrefix

\* The invariant gives what is promised of responses.
LEMMA ResponsesInv ==
    RU!RulesAssumption /\ RulesInv /\ TextsInv => RU!ResponsesAreContained
<1> SUFFICES ASSUME RU!RulesAssumption, RulesInv, TextsInv, RU!Told("response")
             PROVE  LET in == question.input
                    IN  /\ Len(answer.body) <= in.cap
                        /\ RU!IsPrefix(answer.body, RU!FlattenSeq(in.chunks))
                        /\ Len(answer.body) < in.cap => answer.body = RU!FlattenSeq(in.chunks)
                        /\ RU!Total(answer.text) <= Len(answer.body)
                        /\ \A i \in DOMAIN answer.evidence :
                              answer.evidence[i].kind = "header" =>
                                answer.evidence[i].name \notin RU!REDACTED_HEADERS
  BY DEF RU!ResponsesAreContained, RU!in
<1> DEFINE asked == question.input
<1>1. asked \in Questions.response /\ "response" \in DOMAIN Questions
  BY DEF RulesInv, RU!Told
<1>2. /\ asked.chunks \in Seq(Seq(STRING)) /\ asked.cap \in Nat
      /\ asked.headers \in Seq(RU!HeaderRows)
  BY <1>1 DEF RU!RulesAssumption, RU!TextsAssumption
<1>3. Responded(asked, answer)
  BY DEF TextsInv
<1> HIDE DEF asked
<1>4. answer.body \in Seq(STRING) /\ Within(answer.body, FlattenSeq(asked.chunks), asked.cap)
  BY <1>2, <1>3, BodyIs DEF Responded
<1>5. FlattenSeq(asked.chunks) \in Seq(STRING) /\ RU!FlattenSeq(asked.chunks) = FlattenSeq(asked.chunks)
  BY <1>2, FlattenItems, SameOperators
<1>6. RU!IsPrefix(answer.body, RU!FlattenSeq(asked.chunks))
  BY <1>4, <1>5, BeginsIs DEF Within
<1>7. RU!Total(answer.text) <= Len(answer.body)
  BY <1>3, <1>4, DecodedIs DEF Responded
<1>8. \A i \in DOMAIN answer.evidence :
        answer.evidence[i].kind = "header" => answer.evidence[i].name \notin RU!REDACTED_HEADERS
  <2> DEFINE said == [headers |-> asked.headers, body |-> answer.text]
  <2>1. said.headers = asked.headers /\ said.body = answer.text
        /\ answer.evidence = RU!EvidenceFromResponse(said)
    BY <1>3 DEF Responded
  <2> HIDE DEF said
  <2> QED
    BY <1>2, <2>1, QuotesAre
<1> QED
  BY <1>4, <1>5, <1>6, <1>7, <1>8 DEF Within, asked

\* The invariant gives what is promised of redacted texts.
LEMMA SecretsInv ==
    RU!RulesAssumption /\ RulesInv /\ TextsInv => RU!SecretsAreTakenOut
<1> SUFFICES ASSUME RU!RulesAssumption, RulesInv, TextsInv, RU!Told("redact")
             PROVE  TakenOut(question.input.length, question.input.matches, answer)
  BY DEF RU!SecretsAreTakenOut, TakenOut, RU!in
<1>1. question.input \in Questions.redact /\ "redact" \in DOMAIN Questions
  BY DEF RulesInv, RU!Told
<1>2. /\ question.input.length \in Nat
      /\ question.input.matches \in Seq(Seq(RU!MatchesIn(question.input.length)))
  BY <1>1 DEF RU!RulesAssumption, RU!TextsAssumption
<1>3. Redacted(question.input, answer)
  BY DEF TextsInv
<1> QED
  BY <1>2, <1>3, SecretsLeave DEF Redacted

\* The invariant gives what is promised of sources.
LEMMA SourcesInv ==
    RU!RulesAssumption /\ RulesInv /\ TextsInv => RU!SourcesAreWhole
<1> SUFFICES ASSUME RU!RulesAssumption, RulesInv, TextsInv PROVE RU!SourcesAreWhole
  OBVIOUS
<1> DEFINE asked == question.input
<1>1. ASSUME RU!Told("netfilter"), answer.ruleset # Failed
      PROVE  FromNetfilter(asked.buffers, asked.legacy, answer.rules)
  <2>1. asked \in Questions.netfilter /\ "netfilter" \in DOMAIN Questions
    BY <1>1 DEF RulesInv, RU!Told
  <2>2. Whole(asked.buffers)
    BY <2>1 DEF RU!RulesAssumption, RU!TextsAssumption, Whole
  <2>3. Filtered(asked, answer)
    BY <1>1 DEF TextsInv
  <2> HIDE DEF asked
  <2> QED
    BY <1>1, <2>2, <2>3, NetfilterIs DEF Filtered
<1>2. ASSUME RU!Told("payload"), answer # Failed
      PROVE  FromPayload(asked, answer)
  <2>1. asked \in Questions.payload /\ "payload" \in DOMAIN Questions
    BY <1>2 DEF RulesInv, RU!Told
  <2>2. /\ asked.tcp_endpoints \in Seq(RU!SocketRows) /\ asked.udp_endpoints \in Seq(RU!SocketRows)
        /\ asked.firewall_rules \in Seq(RU!PayloadRules)
    BY <2>1 DEF RU!RulesAssumption, RU!TextsAssumption
  <2>3. answer = RU!ParsePayload(asked)
    BY <1>2 DEF TextsInv, Unpacked
  <2> HIDE DEF asked
  <2> QED
    BY <1>2, <2>2, <2>3, PayloadIs
<1>3. ASSUME RU!Told("proc")
      PROVE  FromProc(asked.lines, asked.protocol, asked.processes, answer)
  <2>1. asked \in Questions.proc /\ "proc" \in DOMAIN Questions
    BY <1>3 DEF RulesInv, RU!Told
  <2>2. /\ asked.lines \in Seq(RU!LineRows) /\ asked.lines # <<>>
        /\ asked.processes \in Seq(RU!ProcessRows)
    BY <2>1 DEF RU!RulesAssumption, RU!TextsAssumption
  <2>3. answer = RU!ParseProcNet(asked.lines, asked.protocol, asked.processes)
    BY <1>3 DEF TextsInv, Enumerated
  <2> HIDE DEF asked
  <2> QED
    BY <2>2, <2>3, ProcIs
<1>4. RU!Told("netfilter") /\ answer.ruleset # Failed =>
        LET ends == {i \in DOMAIN asked.buffers : \E m \in RU!Heard(asked.buffers[i]) : RU!Ends(m)}
            heard == UNION {RU!Heard(asked.buffers[i]) : i \in 1 .. RU!Min(ends)}
        IN  /\ ends # {} /\ \A m \in heard : m.type # "error"
            /\ RU!InputChains(heard) = {} => ~asked.legacy
            /\ answer.rules # Failed
            /\ \A chain \in RU!InputChains(heard) : \A protocol \in {"tcp", "udp"} :
                 \E rule \in RU!Items(answer.rules) :
                    RU!StandsFor(rule, chain) /\ rule.protocol = protocol
            /\ \A rule \in RU!Items(answer.rules) :
                 \E chain \in RU!InputChains(heard) : RU!StandsFor(rule, chain)
  BY <1>1 DEF FromNetfilter
<1>5. RU!Told("payload") =>
        /\ answer # Failed => ~asked.truncated /\ asked.schema_version = RU!SCHEMA_VERSION
        /\ answer # Failed =>
             /\ Len(answer.endpoints) = Len(asked.tcp_endpoints) + Len(asked.udp_endpoints)
             /\ \A i \in DOMAIN answer.firewall_rules :
                  answer.firewall_rules[i].local_port_spec = <<>>
                    <=> RU!Items(asked.firewall_rules[i].local_ports)
                          \subseteq {RU!Word("any"), RU!Word("")}
  BY <1>2 DEF FromPayload
<1>6. RU!Told("proc") =>
        /\ \A e \in RU!Items(answer) : \E line \in RU!Items(Tail(asked.lines)) :
             /\ line.port = e.local_port /\ (asked.protocol = "tcp" => line.state = RU!TCP_LISTEN)
             /\ \A pid \in e.owning_pid : \E process \in RU!Items(asked.processes) :
                  process.pid = pid /\ line.inode \in process.sockets /\ process.readable
        /\ Len(answer) < Len(asked.lines)
  BY <1>3 DEF FromProc
<1> QED
  BY <1>4, <1>5, <1>6 DEF RU!SourcesAreWhole, RU!in

\* The invariant gives what is promised of commands.
LEMMA CommandsInv ==
    RU!RulesAssumption /\ RulesInv /\ TextsInv => RU!CommandsEndTruly
<1> SUFFICES ASSUME RU!RulesAssumption, RulesInv, TextsInv PROVE RU!CommandsEndTruly
  OBVIOUS
<1> DEFINE asked == question.input
<1>1. ASSUME RU!Told("config") PROVE FromConfig(asked, answer)
  <2>1. asked \in Questions.config /\ "config" \in DOMAIN Questions
    BY <1>1 DEF RulesInv, RU!Told
  <2>2. \A v, w \in asked.variables : RU!EnvKey(v) = RU!EnvKey(w) => v = w
    BY <2>1 DEF RU!RulesAssumption, RU!TextsAssumption
  <2>3. answer = RU!ResolveConfig(asked.config, asked.file, asked.variables)
    BY <1>1 DEF TextsInv, Configured
  <2> HIDE DEF asked
  <2> QED
    BY <2>2, <2>3, ConfigIs
<1>2. ASSUME RU!Told("report") PROVE FromReport(asked, answer)
  <2>1. answer = RU!ReportCommand(asked.args, asked.store, asked.writable)
    BY <1>2 DEF TextsInv, Shown
  <2> HIDE DEF asked
  <2> QED
    BY <2>1, ReportIs
<1>3. RU!Told("inventory") =>
        (answer.code = RU!Clean
           <=> /\ asked.readable /\ asked.entries # Failed /\ asked.entries # <<>>
               /\ \A i \in DOMAIN asked.entries : RU!HostParses(asked.entries[i]))
  <2> SUFFICES ASSUME RU!Told("inventory")
               PROVE  answer.code = RU!Clean
                        <=> /\ asked.readable /\ asked.entries # Failed /\ asked.entries # <<>>
                            /\ \A i \in DOMAIN asked.entries : RU!HostParses(asked.entries[i])
    OBVIOUS
  <2>1. answer = RU!InventoryCommand(asked.readable, asked.entries)
    BY DEF TextsInv, Inventoried
  <2> HIDE DEF asked
  <2> QED
    BY <2>1, InventoryIs
<1> QED
  BY <1>1, <1>2, <1>3 DEF RU!CommandsEndTruly, RU!in, FromConfig, FromReport

\* The invariant gives what is promised of releases.
LEMMA ReleasesInv ==
    RU!RulesAssumption /\ RulesInv /\ TextsInv => RU!ReleasesAreWhole
<1> SUFFICES ASSUME RU!RulesAssumption, RulesInv, TextsInv PROVE RU!ReleasesAreWhole
  OBVIOUS
<1> DEFINE asked == question.input
<1>1. ASSUME RU!Told("release") PROVE FromRelease(asked, answer)
  <2>1. asked \in Questions.release /\ "release" \in DOMAIN Questions
    BY <1>1 DEF RulesInv, RU!Told
  <2>2. /\ asked.artifacts \in Seq(RU!ArtifactRows)
        /\ \A i \in DOMAIN asked.artifacts : NameOrder[RU!Digest(asked.artifacts[i].content)] \in Nat
        /\ asked.fonts \in Seq(DOMAIN asked.assets.files)
    BY <2>1 DEF RU!RulesAssumption, RU!TextsAssumption
  <2>3. Released(asked, answer)
    BY <1>1 DEF TextsInv
  <2> HIDE DEF asked
  <2> QED
    BY <2>2, <2>3, ReleaseIs DEF Released
<1>2. ASSUME RU!Told("scorecard"), answer PROVE ChecksAreAnswered(asked)
  <2>1. asked \in Questions.scorecard /\ "scorecard" \in DOMAIN Questions
    BY <1>2 DEF RulesInv, RU!Told
  <2>2. asked \in Seq(RU!AnnotationRows)
    BY <2>1 DEF RU!RulesAssumption, RU!TextsAssumption
  <2>3. RU!ScorecardAccepts(asked, {"SAST"})
    BY <1>2 DEF TextsInv, Accepted
  <2> HIDE DEF asked
  <2> QED
    BY <2>2, <2>3, ScorecardIs
<1> QED
  BY <1>1, <1>2 DEF RU!ReleasesAreWhole, RU!in, FromRelease, ChecksAreAnswered

\* The invariant gives what is promised of exclusions.
LEMMA ExclusionsInv == TextsInv => RU!ExclusionsHold
<1> SUFFICES ASSUME TextsInv, RU!Told("exclude") PROVE RU!ExclusionsHold
  BY DEF RU!ExclusionsHold
<1>1. Exempted(question.input, answer)
  BY DEF TextsInv
<1> QED
  BY <1>1, ExclusionIs DEF Exempted, RU!ExclusionsHold, RU!in

\* The invariant gives what is promised of texts.
LEMMA TextsInvIsEnough ==
    RU!RulesAssumption /\ RulesInv /\ TextsInv => RU!TextsAreContained
BY ResponsesInv, SecretsInv, SourcesInv, CommandsInv, ReleasesInv, ExclusionsInv
   DEF RU!TextsAreContained

-----------------------------------------------------------------------------
(***************************************************************************)
(* HostKeys. Whoever goes on after its check holds a key that is on record *)
(* and was decided by what was on record then (TrustInv); a refused key    *)
(* leaves the host probed or failed for good (OutcomeInv); what is offered *)
(* comes from the one method of the entry (OffersInv).                     *)
(***************************************************************************)
Presented == [id : Identity, certificate : BOOLEAN]

KeysTyped ==
    /\ book \in Books /\ accept_new \in BOOLEAN
    /\ accepted \subseteq [label : {HK!HostLabel(h) : h \in Host}, key : HostKey]
    /\ offered \in [Host -> HostKey \union {Certificate}]
    /\ before \in [Host -> SUBSET HostKey]
    /\ offers \in [Host -> Seq(Presented)]
    /\ used \in [Host -> SUBSET Identity]
    /\ refusals \in [Host -> SUBSET HostKey]

PlacesTyped ==
    /\ step \in [Host -> HK!Steps]
    /\ strategy \in [Host -> {"unresolved", "execute", "probe"}]
    /\ attempts \in [Host -> 0 .. MAX_ATTEMPTS]
    /\ result \in [Host -> {"none", "session", "retryable", "fatal"}]

AcceptedInv ==
    /\ accepted # {} => accept_new
    /\ \A a \in accepted : HK!FileKeys(a.label) = {}

TrustInv ==
    \A h \in Host :
        /\ step[h] = "record" =>
             accept_new /\ offered[h] \in HostKey /\ HK!FileKeys(HK!HostLabel(h)) = {} /\ before[h] = {}
        /\ HK!Trusting(h) =>
             /\ offered[h] \in HK!FileKeys(HK!HostLabel(h)) \union HK!AcceptedKeys(HK!HostLabel(h))
             /\ accept_new \/ offered[h] \in HK!FileKeys(HK!HostLabel(h))
             /\ before[h] # {} => offered[h] \in before[h] \union HK!FileKeys(HK!HostLabel(h))

OutcomeInv ==
    \A h \in Host :
        /\ strategy[h] = "probe" => step[h] = "done"
        /\ step[h] # "done" => attempts[h] < MAX_ATTEMPTS
        /\ refusals[h] # {} =>
             /\ step[h] = "done" /\ strategy[h] # "unresolved"
             /\ strategy[h] = "execute" => result[h] = "fatal"

Named(h) ==
    IF Auth[h] = "agent" THEN {Identities[i] : i \in DOMAIN Identities}
    ELSE {[id |-> Credential[h], certificate |-> FALSE]}

OffersInv ==
    \A h \in Host :
        /\ offers[h] \in Seq(Named(h))
        /\ \A id \in used[h] : \E i \in Named(h) : i.id = id /\ ~i.certificate

KeysInv == KeysTyped /\ PlacesTyped /\ AcceptedInv /\ TrustInv /\ OutcomeInv /\ OffersInv

\* A key is known when it is on record.
LEMMA LookupIs ==
    ASSUME NEW label, NEW key
    PROVE  /\ HK!Lookup(label, key) = "known" <=> key \in HK!FileKeys(label) \union HK!AcceptedKeys(label)
           /\ HK!Lookup(label, key) = "unknown" <=> HK!FileKeys(label) \union HK!AcceptedKeys(label) = {}
<1> DEFINE keys == HK!FileKeys(label) \union HK!AcceptedKeys(label)
<1>1. HK!Lookup(label, key) = CASE key \in keys -> "known" [] keys = {} -> "unknown" [] OTHER -> "changed"
  BY DEF HK!Lookup
<1> HIDE DEF keys
<1>2. CASE key \in keys
  <2>1. keys # {}
    BY <1>2
  <2> QED
    BY <1>1, <1>2, <2>1 DEF keys
<1>3. CASE key \notin keys /\ keys = {}
  BY <1>1, <1>3 DEF keys
<1>4. CASE key \notin keys /\ keys # {}
  BY <1>1, <1>4 DEF keys
<1> QED
  BY <1>2, <1>3, <1>4

\* What a failure makes of a host.
LEMMA FailIs ==
    ASSUME HK!HostKeysAssumption, PlacesTyped, OutcomeInv, NEW h \in Host, step[h] # "done",
           NEW how \in {"retryable", "fatal"}, HK!Fail(h, how)
    PROVE  /\ PlacesTyped'
           /\ \A g \in Host \ {h} : step'[g] = step[g] /\ strategy'[g] = strategy[g]
                                    /\ attempts'[g] = attempts[g] /\ result'[g] = result[g]
           /\ step'[h] \in {"connect", "done"}
           /\ strategy'[h] = "probe" => step'[h] = "done"
           /\ step'[h] # "done" => attempts'[h] < MAX_ATTEMPTS
           /\ how = "fatal" => /\ step'[h] = "done" /\ strategy'[h] # "unresolved"
                               /\ strategy'[h] = "execute" => result'[h] = "fatal"
<1>1. CASE strategy[h] = "unresolved"
  BY <1>1 DEF HK!Fail, HK!Resolve, PlacesTyped, OutcomeInv, HK!Steps, HK!HostKeysAssumption
<1>2. CASE strategy[h] # "unresolved"
  <2>1. attempts[h] + 1 \in 0 .. MAX_ATTEMPTS /\ attempts[h] < MAX_ATTEMPTS
    BY DEF PlacesTyped, OutcomeInv, HK!HostKeysAssumption
  <2>2. strategy[h] = "execute"
    BY <1>2 DEF PlacesTyped, OutcomeInv
  <2>3. HK!FailScan(h, how)
    BY <1>2 DEF HK!Fail
  <2>4. PlacesTyped'
    BY <2>1, <2>3 DEF HK!FailScan, PlacesTyped, HK!Steps
  <2> QED
    BY <2>1, <2>2, <2>3, <2>4 DEF HK!FailScan, PlacesTyped, HK!HostKeysAssumption
<1> QED
  BY <1>1, <1>2

\* A step that records nothing and takes nobody past its check.
LEMMA TrustKept ==
    ASSUME TrustInv, UNCHANGED HK!book_vars,
           \A g \in Host : step'[g] \in {"record", "authenticate", "offer", "session"} =>
               /\ offered'[g] = offered[g] /\ before'[g] = before[g]
               /\ step'[g] = "record" => step[g] = "record"
               /\ step'[g] # "record" => HK!Trusting(g)
    PROVE  TrustInv'
<1>1. \A label : HK!FileKeys(label)' = HK!FileKeys(label) /\ HK!AcceptedKeys(label)' = HK!AcceptedKeys(label)
  BY DEF HK!FileKeys, HK!AcceptedKeys, HK!book_vars
<1> QED
  BY <1>1 DEF TrustInv, HK!Trusting, HK!book_vars

\* A step that leaves the book and the keys accepted on first use alone.
LEMMA AcceptedKept == AcceptedInv /\ UNCHANGED HK!book_vars => AcceptedInv'
BY DEF AcceptedInv, HK!FileKeys, HK!book_vars

\* An action that ends in a failure.
LEMMA FailKeepsKeys ==
    ASSUME HK!HostKeysAssumption, KeysInv, NEW h \in Host, step[h] # "done",
           NEW how \in {"retryable", "fatal"}, HK!Fail(h, how),
           UNCHANGED <<HK!book_vars, offered, offers, used, before>>,
           \/ UNCHANGED refusals
           \/ how = "fatal" /\ \E k \in HostKey : refusals' = [refusals EXCEPT ![h] = @ \union {k}]
    PROVE  KeysInv'
<1>1. PlacesTyped'
  BY FailIs DEF KeysInv
<1>2. KeysTyped'
  BY DEF KeysInv, KeysTyped, HK!book_vars
<1>3. AcceptedInv'
  BY AcceptedKept DEF KeysInv
<1>4. TrustInv'
  BY FailIs, TrustKept DEF KeysInv, HK!Trusting
<1>5. OutcomeInv'
  <2> SUFFICES ASSUME NEW g \in Host
               PROVE  /\ strategy'[g] = "probe" => step'[g] = "done"
                      /\ step'[g] # "done" => attempts'[g] < MAX_ATTEMPTS
                      /\ refusals'[g] # {} =>
                           /\ step'[g] = "done" /\ strategy'[g] # "unresolved"
                           /\ strategy'[g] = "execute" => result'[g] = "fatal"
    BY DEF OutcomeInv
  <2>1. CASE g = h
    <3>1. refusals[h] = {}
      BY DEF KeysInv, OutcomeInv
    <3>2. refusals'[h] # {} => how = "fatal"
      BY <3>1
    <3> QED
      BY <2>1, <3>2, FailIs DEF KeysInv
  <2>2. CASE g # h
    <3>1. refusals'[g] = refusals[g]
      BY <2>2 DEF KeysInv, KeysTyped
    <3> QED
      BY <2>2, <3>1, FailIs DEF KeysInv, OutcomeInv
  <2> QED
    BY <2>1, <2>2
<1>6. OffersInv'
  BY DEF KeysInv, OffersInv, Named
<1> QED
  BY <1>1, <1>2, <1>3, <1>4, <1>5, <1>6 DEF KeysInv

\* A run starts with every host to be connected and nothing accepted.
LEMMA KeysInit == HK!HostKeysAssumption /\ HK!Init => KeysInv
<1> SUFFICES ASSUME HK!HostKeysAssumption, HK!Init PROVE KeysInv
  OBVIOUS
<1>1. KeysTyped
  BY DEF HK!Init, KeysTyped
<1>2. PlacesTyped
  BY DEF HK!Init, PlacesTyped, HK!Steps, HK!HostKeysAssumption
<1>3. AcceptedInv /\ TrustInv /\ OutcomeInv
  BY DEF HK!Init, AcceptedInv, TrustInv, HK!Trusting, OutcomeInv, HK!HostKeysAssumption
<1>4. OffersInv
  BY DEF HK!Init, OffersInv
<1> QED
  BY <1>1, <1>2, <1>3, <1>4 DEF KeysInv

\* Every step of a connection attempt keeps the invariant.
LEMMA KeysNext == HK!HostKeysAssumption /\ KeysInv /\ (HK!Next \/ UNCHANGED HK!vars) => KeysInv'
<1> SUFFICES ASSUME HK!HostKeysAssumption, KeysInv, HK!Next \/ UNCHANGED HK!vars PROVE KeysInv'
  OBVIOUS
<1> USE DEF HK!book_vars
<1>a. KeysTyped /\ PlacesTyped /\ AcceptedInv /\ TrustInv /\ OutcomeInv /\ OffersInv
  BY DEF KeysInv
<1>1. ASSUME NEW h \in Host, HK!Connect(h)
      PROVE  KeysInv'
  <2>1. KeysTyped'
    BY <1>a, <1>1 DEF HK!Connect, KeysTyped
  <2>2. PlacesTyped'
    BY <1>a, <1>1 DEF HK!Connect, PlacesTyped, HK!Steps
  <2>3. AcceptedInv'
    BY <1>a, <1>1, AcceptedKept DEF HK!Connect
  <2>4. TrustInv'
    <3>1. \A g \in Host : step'[g] \in {"record", "authenticate", "offer", "session"} =>
             g # h /\ step'[g] = step[g] /\ offered'[g] = offered[g]
      BY <1>a, <1>1 DEF HK!Connect, PlacesTyped, KeysTyped
    <3> QED
      BY <1>a, <1>1, <3>1, TrustKept DEF HK!Connect, HK!Trusting
  <2>5. OutcomeInv'
    BY <1>a, <1>1 DEF HK!Connect, OutcomeInv, PlacesTyped
  <2>6. OffersInv'
    BY <1>a, <1>1 DEF HK!Connect, OffersInv, Named
  <2> QED
    BY <2>1, <2>2, <2>3, <2>4, <2>5, <2>6 DEF KeysInv
<1>2. ASSUME NEW h \in Host, HK!ConnectFails(h) \/ HK!CertificateRefused(h) \/ HK!OfferFails(h)
      PROVE  KeysInv'
  BY <1>2, FailKeepsKeys DEF HK!ConnectFails, HK!CertificateRefused, HK!OfferFails
<1>3. ASSUME NEW h \in Host, HK!Refused(h)
      PROVE  KeysInv'
  <2>1. UNCHANGED refusals \/ \E k \in HostKey : refusals' = [refusals EXCEPT ![h] = @ \union {k}]
    <3>1. refusals' = [refusals EXCEPT ![h] = @ \union {offered[h]}] \/ refusals' = [refusals EXCEPT ![h] = @]
      BY <1>3 DEF HK!Refused
    <3>2. [refusals EXCEPT ![h] = @] = refusals
      BY <1>a DEF KeysTyped
    <3> QED
      BY <1>3, <3>1, <3>2 DEF HK!Refused
  <2> QED
    BY <1>3, <2>1, FailKeepsKeys DEF HK!Refused
<1>4. ASSUME NEW h \in Host, HK!Trust(h)
      PROVE  KeysInv'
  <2> DEFINE label == HK!HostLabel(h)
             keys  == HK!FileKeys(label) \union HK!AcceptedKeys(label)
  <2>1. HK!AcceptedKeys(label) \subseteq HostKey
    BY <1>a DEF KeysTyped, HK!AcceptedKeys
  <2>2. KeysTyped'
    BY <1>a, <1>4, <2>1 DEF HK!Trust, KeysTyped
  <2>3. PlacesTyped'
    BY <1>a, <1>4 DEF HK!Trust, PlacesTyped, HK!Steps
  <2>4. AcceptedInv'
    BY <1>a, <1>4, AcceptedKept DEF HK!Trust
  <2>5. TrustInv'
    <3> SUFFICES ASSUME NEW g \in Host
                 PROVE  /\ step'[g] = "record" =>
                             accept_new' /\ offered'[g] \in HostKey /\ HK!FileKeys(HK!HostLabel(g))' = {}
                             /\ before'[g] = {}
                        /\ HK!Trusting(g)' =>
                             /\ offered'[g] \in (HK!FileKeys(HK!HostLabel(g)) \union HK!AcceptedKeys(HK!HostLabel(g)))'
                             /\ accept_new' \/ offered'[g] \in HK!FileKeys(HK!HostLabel(g))'
                             /\ before'[g] # {} => offered'[g] \in (before[g] \union HK!FileKeys(HK!HostLabel(g)))'
      BY DEF TrustInv
    <3>1. HK!FileKeys(HK!HostLabel(g))' = HK!FileKeys(HK!HostLabel(g))
          /\ HK!AcceptedKeys(HK!HostLabel(g))' = HK!AcceptedKeys(HK!HostLabel(g))
      BY <1>4 DEF HK!Trust, HK!FileKeys, HK!AcceptedKeys
    <3>2. CASE g # h
      <4>1. step'[g] = step[g] /\ offered'[g] = offered[g] /\ before'[g] = before[g]
            /\ accept_new' = accept_new
        BY <1>a, <1>4, <3>2 DEF HK!Trust, PlacesTyped, KeysTyped
      <4> QED
        BY <1>a, <3>1, <4>1 DEF TrustInv, HK!Trusting
    <3>3. CASE g = h
      <4>1. /\ accept_new' = accept_new /\ offered'[h] = offered[h] /\ offered[h] \in HostKey
            /\ before'[h] = HK!AcceptedKeys(label)
            /\ step'[h] = IF HK!Lookup(label, offered[h]) = "known" THEN "authenticate" ELSE "record"
        BY <1>a, <1>4 DEF HK!Trust, KeysTyped, PlacesTyped
      <4>2. CASE offered[h] \in keys
        <5>1. step'[h] = "authenticate"
          BY <4>1, <4>2, LookupIs
        <5>2. accept_new \/ offered[h] \in HK!FileKeys(label)
          BY <1>a, <4>2 DEF AcceptedInv, HK!AcceptedKeys
        <5>3. before'[h] # {} => offered'[h] \in before'[h] \union HK!FileKeys(label)
          BY <4>1, <4>2
        <5> QED
          BY <3>1, <3>3, <4>1, <4>2, <5>1, <5>2, <5>3 DEF HK!Trusting
      <4>3. CASE offered[h] \notin keys
        <5>1. HK!Lookup(label, offered[h]) # "known"
          BY <4>3, LookupIs
        <5>2. HK!Lookup(label, offered[h]) = "unknown" /\ accept_new
          BY <1>4, <5>1 DEF HK!Trust
        <5>3. keys = {}
          BY <5>2, LookupIs
        <5>4. step'[h] = "record" /\ before'[h] = {} /\ HK!FileKeys(label) = {}
          BY <4>1, <5>1, <5>3
        <5> QED
          BY <3>1, <3>3, <4>1, <5>2, <5>4 DEF HK!Trusting
      <4> QED
        BY <4>2, <4>3
    <3> QED
      BY <3>2, <3>3
  <2>6. OutcomeInv'
    BY <1>a, <1>4 DEF HK!Trust, OutcomeInv, PlacesTyped
  <2>7. OffersInv'
    BY <1>a, <1>4 DEF HK!Trust, OffersInv, Named
  <2> QED
    BY <2>2, <2>3, <2>4, <2>5, <2>6, <2>7 DEF KeysInv
<1>5. ASSUME NEW h \in Host, HK!Record(h)
      PROVE  KeysInv'
  <2>0. accept_new /\ offered[h] \in HostKey /\ HK!FileKeys(HK!HostLabel(h)) = {} /\ before[h] = {}
    BY <1>a, <1>5 DEF HK!Record, TrustInv
  <2>1. KeysTyped'
    <3>1. [label |-> HK!HostLabel(h), key |-> offered[h]] \in [label : {HK!HostLabel(g) : g \in Host}, key : HostKey]
      BY <2>0
    <3> QED
      BY <1>a, <1>5, <3>1 DEF HK!Record, KeysTyped
  <2>2. PlacesTyped'
    BY <1>a, <1>5 DEF HK!Record, PlacesTyped, HK!Steps
  <2>3. AcceptedInv'
    BY <1>a, <1>5, <2>0 DEF HK!Record, AcceptedInv, HK!FileKeys
  <2>4. TrustInv'
    <3> SUFFICES ASSUME NEW g \in Host
                 PROVE  /\ step'[g] = "record" =>
                             accept_new' /\ offered'[g] \in HostKey /\ HK!FileKeys(HK!HostLabel(g))' = {}
                             /\ before'[g] = {}
                        /\ HK!Trusting(g)' =>
                             /\ offered'[g] \in (HK!FileKeys(HK!HostLabel(g)) \union HK!AcceptedKeys(HK!HostLabel(g)))'
                             /\ accept_new' \/ offered'[g] \in HK!FileKeys(HK!HostLabel(g))'
                             /\ before'[g] # {} => offered'[g] \in (before[g] \union HK!FileKeys(HK!HostLabel(g)))'
      BY DEF TrustInv
    <3>1. HK!FileKeys(HK!HostLabel(g))' = HK!FileKeys(HK!HostLabel(g))
          /\ HK!AcceptedKeys(HK!HostLabel(g)) \subseteq HK!AcceptedKeys(HK!HostLabel(g))'
          /\ offered' = offered /\ before' = before /\ accept_new' = accept_new
      BY <1>5 DEF HK!Record, HK!FileKeys, HK!AcceptedKeys
    <3>2. CASE g # h
      <4>1. step'[g] = step[g]
        BY <1>a, <1>5, <3>2 DEF HK!Record, PlacesTyped
      <4> QED
        BY <1>a, <3>1, <4>1 DEF TrustInv, HK!Trusting
    <3>3. CASE g = h
      <4>1. step'[h] = "authenticate" /\ offered[h] \in HK!AcceptedKeys(HK!HostLabel(h))'
        <5>1. step'[h] = "authenticate" /\ [label |-> HK!HostLabel(h), key |-> offered[h]] \in accepted'
          BY <1>a, <1>5 DEF HK!Record, PlacesTyped
        <5>2. offered[h] \in {a.key : a \in {x \in accepted' : x.label = HK!HostLabel(h)}}
          BY <5>1
        <5> QED
          BY <5>1, <5>2 DEF HK!AcceptedKeys
      <4> QED
        <5>1. /\ step'[g] # "record" /\ accept_new' /\ before'[g] = {}
              /\ offered'[g] \in HK!AcceptedKeys(HK!HostLabel(g))'
          BY <2>0, <3>1, <3>3, <4>1
        <5> QED
          BY <5>1
    <3> QED
      BY <3>2, <3>3
  <2>5. OutcomeInv'
    BY <1>a, <1>5 DEF HK!Record, OutcomeInv, PlacesTyped
  <2>6. OffersInv'
    BY <1>a, <1>5 DEF HK!Record, OffersInv, Named
  <2> QED
    BY <2>1, <2>2, <2>3, <2>4, <2>5, <2>6 DEF KeysInv
<1>6. ASSUME NEW h \in Host, HK!LoadCredentials(h)
      PROVE  KeysInv'
  <2>1. CASE HK!Fail(h, "retryable") /\ UNCHANGED offers
    BY <1>6, <2>1, FailKeepsKeys DEF HK!LoadCredentials
  <2>2. CASE /\ offers' = [offers EXCEPT ![h] = HK!Credentials(h)]
             /\ step' = [step EXCEPT ![h] = "offer"]
             /\ UNCHANGED <<strategy, attempts, result>>
    <3>1. HK!Credentials(h) \in Seq(Named(h)) /\ HK!Credentials(h) \in Seq(Presented)
      <4>1. CASE Auth[h] = "agent"
        <5>1. Identities \in Seq(Presented)
          BY DEF HK!HostKeysAssumption, Presented
        <5>2. Identities \in Seq({Identities[i] : i \in DOMAIN Identities})
          BY <5>1
        <5> QED
          BY <4>1, <5>1, <5>2 DEF HK!Credentials, Named
      <4>2. CASE Auth[h] # "agent"
        <5>1. [id |-> Credential[h], certificate |-> FALSE] \in Presented
          BY DEF HK!HostKeysAssumption, Presented
        <5> QED
          BY <4>2, <5>1 DEF HK!Credentials, Named
      <4> QED
        BY <4>1, <4>2
    <3>2. KeysTyped'
      BY <1>a, <1>6, <2>2, <3>1 DEF HK!LoadCredentials, KeysTyped
    <3>3. PlacesTyped'
      BY <1>a, <2>2 DEF PlacesTyped, HK!Steps
    <3>4. AcceptedInv'
      BY <1>a, <1>6, AcceptedKept DEF HK!LoadCredentials
    <3>5. TrustInv'
      BY <1>a, <1>6, <2>2, TrustKept DEF HK!LoadCredentials, HK!Trusting, PlacesTyped
    <3>6. OutcomeInv'
      BY <1>a, <1>6, <2>2 DEF HK!LoadCredentials, OutcomeInv, PlacesTyped
    <3>7. OffersInv'
      BY <1>a, <1>6, <2>2, <3>1 DEF HK!LoadCredentials, OffersInv, Named, KeysTyped
    <3> QED
      BY <3>2, <3>3, <3>4, <3>5, <3>6, <3>7 DEF KeysInv
  <2> QED
    BY <1>6, <2>1, <2>2 DEF HK!LoadCredentials
<1>7. ASSUME NEW h \in Host, HK!Offer(h)
      PROVE  KeysInv'
  <2>1. /\ offers[h] \in Seq(Named(h)) /\ offers[h] \in Seq(Presented) /\ offers[h] # <<>>
        /\ step[h] = "offer"
    BY <1>a, <1>7 DEF HK!Offer, KeysTyped, OffersInv
  <2>2. /\ Head(offers[h]) \in Named(h) /\ Head(offers[h]) \in Presented
        /\ Tail(offers[h]) \in Seq(Named(h)) /\ Tail(offers[h]) \in Seq(Presented)
    BY <2>1
  <2>3. Head(offers[h]).id \in Identity
    BY <2>2 DEF Presented
  <2>4. KeysTyped'
    <3>1. offers' \in [Host -> Seq(Presented)]
      BY <1>a, <1>7, <2>2 DEF HK!Offer, KeysTyped
    <3>2. used' \in [Host -> SUBSET Identity]
      BY <1>a, <1>7, <2>3 DEF HK!Offer, KeysTyped
    <3> QED
      BY <1>a, <1>7, <3>1, <3>2 DEF HK!Offer, KeysTyped
  <2>5. PlacesTyped'
    BY <1>a, <1>7 DEF HK!Offer, PlacesTyped, HK!Steps
  <2>6. AcceptedInv'
    BY <1>a, <1>7, AcceptedKept DEF HK!Offer
  <2>7. TrustInv'
    <3>1. \A g \in Host : step'[g] = step[g] \/ (g = h /\ step'[g] = "session")
      BY <1>a, <1>7 DEF HK!Offer, PlacesTyped
    <3> QED
      BY <1>a, <1>7, <2>1, <3>1, TrustKept DEF HK!Offer, HK!Trusting
  <2>8. OutcomeInv'
    <3>1. \A g \in Host : step'[g] = step[g] \/ (g = h /\ step'[g] = "session")
      BY <1>a, <1>7 DEF HK!Offer, PlacesTyped
    <3> QED
      BY <1>a, <1>7, <2>1, <3>1 DEF HK!Offer, OutcomeInv
  <2>9. OffersInv'
    <3> SUFFICES ASSUME NEW g \in Host
                 PROVE  /\ offers'[g] \in Seq(Named(g))
                        /\ \A id \in used'[g] : \E i \in Named(g) : i.id = id /\ ~i.certificate
      BY DEF OffersInv, Named
    <3>1. CASE g # h
      <4>1. offers'[g] = offers[g] /\ used'[g] = used[g]
        BY <1>a, <1>7, <3>1 DEF HK!Offer, KeysTyped
      <4> QED
        BY <1>a, <4>1 DEF OffersInv
    <3>2. CASE g = h
      <4>1. offers'[h] \in {offers[h], Tail(offers[h])}
        BY <1>a, <1>7 DEF HK!Offer, KeysTyped
      <4>2. used'[h] = used[h] \/ (~Head(offers[h]).certificate /\ used'[h] = used[h] \union {Head(offers[h]).id})
        BY <1>a, <1>7 DEF HK!Offer, KeysTyped
      <4> QED
        BY <1>a, <2>1, <2>2, <3>2, <4>1, <4>2 DEF OffersInv
    <3> QED
      BY <3>1, <3>2
  <2> QED
    BY <2>4, <2>5, <2>6, <2>7, <2>8, <2>9 DEF KeysInv
<1>8. ASSUME NEW h \in Host, NEW to \in {"execute", "probe"},
             strategy[h] = "unresolved", step[h] # "done", HK!Resolve(h, to),
             UNCHANGED <<HK!book_vars, offered, offers, used, refusals, before>>
      PROVE  KeysInv'
  <2>1. KeysTyped' /\ AcceptedInv' /\ OffersInv'
    BY <1>a, <1>8, AcceptedKept DEF KeysTyped, OffersInv, Named
  <2>2. PlacesTyped'
    BY <1>a, <1>8 DEF HK!Resolve, PlacesTyped, HK!Steps
  <2>3. TrustInv'
    <3>1. \A g \in Host : step'[g] \in {"record", "authenticate", "offer", "session"} => step'[g] = step[g]
      BY <1>a, <1>8 DEF HK!Resolve, PlacesTyped
    <3> QED
      BY <1>a, <1>8, <3>1, TrustKept DEF HK!Trusting
  <2>4. OutcomeInv'
    BY <1>a, <1>8 DEF HK!Resolve, OutcomeInv, PlacesTyped
  <2> QED
    BY <2>1, <2>2, <2>3, <2>4 DEF KeysInv
<1>9. ASSUME NEW h \in Host, HK!Session(h)
      PROVE  KeysInv'
  <2>1. CASE strategy[h] = "unresolved"
    BY <1>8, <1>9, <2>1 DEF HK!Session
  <2>2. CASE strategy[h] # "unresolved"
    <3>1. /\ result' = [result EXCEPT ![h] = "session"]
          /\ step' = [step EXCEPT ![h] = "done"]
          /\ UNCHANGED <<strategy, attempts, HK!book_vars, offered, offers, used, refusals, before>>
      BY <1>9, <2>2 DEF HK!Session
    <3>2. KeysTyped' /\ AcceptedInv' /\ OffersInv'
      BY <1>a, <3>1, AcceptedKept DEF KeysTyped, OffersInv, Named
    <3>3. PlacesTyped'
      BY <1>a, <3>1 DEF PlacesTyped, HK!Steps
    <3>4. TrustInv'
      <4>1. \A g \in Host : step'[g] \in {"record", "authenticate", "offer", "session"} => step'[g] = step[g]
        BY <1>a, <3>1 DEF PlacesTyped
      <4> QED
        BY <1>a, <3>1, <4>1, TrustKept DEF HK!Trusting
    <3>5. OutcomeInv'
      BY <1>a, <1>9, <3>1 DEF HK!Session, OutcomeInv, PlacesTyped
    <3> QED
      BY <3>2, <3>3, <3>4, <3>5 DEF KeysInv
  <2> QED
    BY <2>1, <2>2
<1>10. ASSUME NEW h \in Host, HK!SessionLost(h)
       PROVE  KeysInv'
  BY <1>10, FailKeepsKeys DEF HK!SessionLost, HK!Fail
<1>11. ASSUME NEW h \in Host, HK!ResolutionTimeout(h)
       PROVE  KeysInv'
  BY <1>8, <1>11 DEF HK!ResolutionTimeout
<1>12. ASSUME UNCHANGED HK!vars
       PROVE  KeysInv'
  <2>1. KeysTyped' /\ PlacesTyped'
    BY <1>a, <1>12 DEF KeysTyped, PlacesTyped, HK!vars
  <2>2. AcceptedInv' /\ TrustInv'
    BY <1>a, <1>12, AcceptedKept, TrustKept DEF HK!vars, HK!Trusting
  <2>3. OutcomeInv' /\ OffersInv'
    BY <1>a, <1>12 DEF OutcomeInv, OffersInv, Named, HK!vars
  <2> QED
    BY <2>1, <2>2, <2>3 DEF KeysInv
<1> QED
  BY <1>1, <1>2, <1>3, <1>4, <1>5, <1>6, <1>7, <1>9, <1>10, <1>11, <1>12 DEF HK!Next,
     HK!Terminated

\* The invariant gives the type and the three promises about host keys.
LEMMA KeysInvIsEnough ==
    ASSUME KeysInv
    PROVE  HK!TypeOK /\ HK!KeysArePinned /\ HK!ChangedKeysEndTheScan /\ HK!OnlyTheNamedIdentity
<1>1. HK!TypeOK
  BY DEF KeysInv, KeysTyped, PlacesTyped, HK!TypeOK
<1>2. HK!KeysArePinned
  BY LookupIs DEF KeysInv, TrustInv, AcceptedInv, HK!KeysArePinned
<1>3. HK!ChangedKeysEndTheScan
  BY DEF KeysInv, OutcomeInv, HK!ChangedKeysEndTheScan
<1>4. HK!OnlyTheNamedIdentity
  <2> SUFFICES ASSUME NEW h \in Host, NEW id \in used[h]
               PROVE  id \in (IF Auth[h] = "agent"
                        THEN {Identities[i].id : i \in {j \in DOMAIN Identities : ~Identities[j].certificate}}
                        ELSE {Credential[h]})
    BY DEF HK!OnlyTheNamedIdentity
  <2>1. PICK i \in Named(h) : i.id = id /\ ~i.certificate
    BY DEF KeysInv, OffersInv
  <2> QED
    BY <2>1 DEF Named
<1> QED
  BY <1>1, <1>2, <1>3, <1>4

-----------------------------------------------------------------------------
(***************************************************************************)
(* LocalScan. The sockets listed are those described and those still to be *)
(* described, in their order (SocketsInv); what the maps say of a pid ran   *)
(* under it (MapsInv), and says nothing of it only if a process ended or   *)
(* the section failed (GoneInv); so what is said of each endpoint is true  *)
(* (EndpointsInv); and the places after the last socket lead to the        *)
(* outcome that the request and the exit code tell (StageInv).             *)
(***************************************************************************)
Socket == [port : Nat, pid : Pid \union {NoPid}]

ScanTyped ==
    /\ LS!TypeOK
    /\ events \in Nat
    /\ sockets \in Seq(Socket) /\ scan_todo \in Seq(Socket)
    /\ collected \in Seq([port : Nat, attribution : {"resolved", "unresolved", "gone"},
                          pid : Pid \union {NoPid}, program : Program \union {NoProgram},
                          services : {LS!HostedBy(g) : g \in Program \union {NoProgram}},
                          fields : {{}, LS!Redaction},
                          signature : {"unknown", "verified", "not_applicable"}])
    /\ ran \in [Pid -> SUBSET Program]
    /\ opened \in [Pid -> Program \union {NoProgram}]
    /\ \A p \in Pid : IsFiniteSet(ran[p])

SocketsInv ==
    /\ Len(collected) + Len(scan_todo) = Len(sockets)
    /\ \A i \in 1 .. Len(collected) : collected[i].port = sockets[i].port /\ collected[i].port # 0
    /\ \A i \in 1 .. Len(scan_todo) : scan_todo[i] = sockets[Len(collected) + i]
    /\ stage \in {"start", "sockets", "processes", "services"} => collected = <<>>
    /\ stage \in {"start", "sockets"} \/ collector = "stub" => sockets = <<>>
    /\ stage \in {"rules", "profiles", "emit", "open_store", "persist"} \/ LS!Kept => scan_todo = <<>>

MapsInv ==
    \A p \in Pid :
        /\ running[p] \in ran[p] \union {NoProgram}
        /\ processes[p] \in ran[p] \union {NoProgram}
        /\ services[p] \in ran[p] \union {NoProgram}
        /\ opened[p] \in ran[p] \union {NoProgram}

GoneInv ==
    /\ events = 0 => \A p \in Pid : running[p] # NoProgram
    /\ stage \in {"services", "resolve"} /\ collector # "stub" /\ "processes" \notin failed =>
         events > 0 \/ \A p \in Pid : processes[p] # NoProgram
    /\ \A i \in 1 .. Len(sockets) : sockets[i].pid # NoPid => opened[sockets[i].pid] # NoProgram

Truthful(e) ==
    /\ e.attribution = "resolved" =>
         /\ e.pid \in Pid /\ {e.program, opened[e.pid]} \subseteq ran[e.pid]
         /\ e.services \in {LS!HostedBy(g) : g \in ran[e.pid] \union {NoProgram}}
    /\ e.attribution = "gone" => events > 0 \/ "processes" \in failed
    /\ e.fields = IF e.attribution = "resolved" THEN LS!Redaction ELSE {}
    /\ e.signature # "unknown" => "path" \in LS!Redaction

EndpointsInv == \A i \in 1 .. Len(collected) : Truthful(collected[i])

StageInv ==
    /\ stage # "done" => outcome = "pending"
    /\ stage = "emit" => request = "emit"
    /\ stage \in {"open_store", "persist"} => request # "emit"
    /\ LS!ExitIsTruthful

ScanInv == ScanTyped /\ SocketsInv /\ MapsInv /\ GoneInv /\ EndpointsInv /\ StageInv

\* A scan starts with nothing listed, read or told.
LEMMA ScanInit == LS!LocalScanAssumption /\ LS!Init => ScanInv
<1> SUFFICES ASSUME LS!LocalScanAssumption, LS!Init PROVE ScanInv
  OBVIOUS
<1>0. running \in [Pid -> Program] /\ Program \intersect {NoProgram} = {}
  BY DEF LS!Init, LS!LocalScanAssumption
<1>1. \A p \in Pid : ran[p] = {running[p]} /\ IsFiniteSet(ran[p])
  BY <1>0, FS_Singleton DEF LS!Init
<1>2. ScanTyped
  BY <1>0, <1>1 DEF LS!Init, ScanTyped, LS!TypeOK, LS!Nobody
<1>3. SocketsInv
  BY DEF LS!Init, SocketsInv, LS!Kept
<1>4. MapsInv
  BY <1>0, <1>1 DEF LS!Init, MapsInv, LS!Nobody
<1>5. GoneInv
  BY <1>0 DEF LS!Init, GoneInv
<1>6. EndpointsInv /\ StageInv
  BY DEF LS!Init, EndpointsInv, StageInv, LS!ExitIsTruthful, LS!Kept
<1> QED
  BY <1>2, <1>3, <1>4, <1>5, <1>6 DEF ScanInv

\* What is true of an endpoint stays true while the host goes on.
LEMMA TruthfulKept ==
    ASSUME ScanTyped, NEW e, Truthful(e), UNCHANGED <<flags, config, opened>>,
           \A p \in Pid : ran[p] \subseteq ran'[p], failed \subseteq failed',
           events' \in Nat, events =< events'
    PROVE  Truthful(e)'
<1>1. LS!HostedBy(NoProgram)' = LS!HostedBy(NoProgram) /\ LS!Redaction' = LS!Redaction
  BY DEF LS!HostedBy, LS!Redaction
<1>2. events > 0 => events' > 0
  BY DEF ScanTyped
<1> QED
  BY <1>1, <1>2 DEF Truthful, LS!HostedBy

\* The invariant gives the type and the four promises about a local scan.
LEMMA ScanInvIsEnough ==
    LS!LocalScanAssumption /\ ScanInv =>
        /\ LS!TypeOK /\ LS!EndpointsSurvive /\ LS!AttributionIsTrue /\ LS!OnlyWhatWasAskedFor /\ LS!ExitIsTruthful
<1> SUFFICES ASSUME LS!LocalScanAssumption, ScanInv
             PROVE  /\ LS!TypeOK /\ LS!EndpointsSurvive /\ LS!AttributionIsTrue /\ LS!OnlyWhatWasAskedFor
                    /\ LS!ExitIsTruthful
  OBVIOUS
<1>a. ScanTyped /\ SocketsInv /\ EndpointsInv
  BY DEF ScanInv
<1>b. DOMAIN collected = 1 .. Len(collected) /\ DOMAIN sockets = 1 .. Len(sockets)
      /\ Len(collected) \in Nat /\ Len(sockets) \in Nat
  BY <1>a DEF ScanTyped
<1>1. LS!TypeOK /\ LS!ExitIsTruthful
  BY DEF ScanInv, ScanTyped, StageInv
<1>2. LS!EndpointsSurvive
  <2>1. \A i \in DOMAIN collected : collected[i].port = sockets[i].port /\ collected[i].port # 0
    BY <1>a, <1>b DEF SocketsInv
  <2>2. LS!Kept => Len(collected) = Len(sockets)
    BY <1>a, <1>b DEF SocketsInv
  <2> QED
    BY <1>b, <2>1, <2>2 DEF LS!EndpointsSurvive
<1>3. LS!AttributionIsTrue
  <2>0. \A i \in DOMAIN collected : Truthful(collected[i])
    BY <1>a, <1>b DEF EndpointsInv
  <2> SUFFICES ASSUME NEW i \in DOMAIN collected, collected[i].attribution = "resolved",
                      ~LS!Reused(collected[i].pid)
               PROVE  collected[i].program = opened[collected[i].pid]
    BY <2>0 DEF LS!AttributionIsTrue, Truthful
  <2> DEFINE p == collected[i].pid
  <2>1. p \in Pid /\ {collected[i].program, opened[p]} \subseteq ran[p]
    BY <1>a, <1>b DEF EndpointsInv, Truthful
  <2>2. IsFiniteSet(ran[p]) /\ ~(Cardinality(ran[p]) > 1)
    BY <1>a, <2>1, SizesAgree DEF ScanTyped, LS!Reused
  <2> HIDE DEF p
  <2>3. Cardinality({collected[i].program, opened[p]}) =< Cardinality(ran[p])
    BY <2>1, <2>2, FS_Subset
  <2>4. SUFFICES ASSUME collected[i].program # opened[p] PROVE FALSE
    BY DEF p
  <2>5. Cardinality({collected[i].program, opened[p]}) = 2
    <3>1. IsFiniteSet({opened[p]}) /\ Cardinality({opened[p]}) = 1
      BY FS_Singleton
    <3>2. {collected[i].program, opened[p]} = {opened[p]} \union {collected[i].program}
      OBVIOUS
    <3>3. Cardinality({opened[p]} \union {collected[i].program})
            = IF collected[i].program \in {opened[p]} THEN Cardinality({opened[p]})
              ELSE Cardinality({opened[p]}) + 1
      BY <3>1, FS_AddElement
    <3> QED
      BY <2>4, <3>1, <3>2, <3>3
  <2> QED
    BY <2>2, <2>3, <2>5, FS_CardinalityType
<1>4. LS!OnlyWhatWasAskedFor
  BY <1>a, <1>b DEF LS!OnlyWhatWasAskedFor, EndpointsInv, Truthful, LS!Redaction
<1> QED
  BY <1>1, <1>2, <1>3, <1>4

\* Every step of the scan and of the processes around it keeps the invariant.
LEMMA ScanNext ==
    LS!LocalScanAssumption /\ ScanInv /\ (LS!Next \/ UNCHANGED LS!scan_vars) => ScanInv'
<1> SUFFICES ASSUME LS!LocalScanAssumption, ScanInv, LS!Next \/ UNCHANGED LS!scan_vars
             PROVE ScanInv'
  OBVIOUS
<1>a. ScanTyped /\ SocketsInv /\ MapsInv /\ GoneInv /\ EndpointsInv /\ StageInv
  BY DEF ScanInv
<1>b. /\ Len(collected) \in Nat /\ Len(scan_todo) \in Nat /\ Len(sockets) \in Nat
      /\ events \in Nat /\ Program \intersect {NoProgram} = {} /\ NoPid \notin Pid
  BY <1>a DEF ScanTyped, LS!LocalScanAssumption
<1>c. \A i \in 1 .. Len(collected) : Truthful(collected[i])
  BY <1>a DEF EndpointsInv
\* Steps that only move on.
<1>1. ASSUME UNCHANGED <<LS!settings, LS!environment, sockets, scan_todo, processes, services, collected,
                         opened, failed>>,
             \/ stage' = "done" /\ outcome' \in {"nothing", "stored", "printed", "cut_off"}
             \/ stage' \in {"sockets", "rules", "profiles", "emit", "open_store", "persist"}
                /\ UNCHANGED <<outcome, exit>> /\ (stage' = "sockets" => stage = "start"),
             rules' \in {"none", "unavailable", "some"},
             exit' \in {"none", "clean", "config_or_arg_error", "operational_error"},
             stage' \in {"rules", "profiles", "emit", "open_store", "persist"} \/ LS!Kept' => scan_todo = <<>>,
             StageInv'
      PROVE  ScanInv'
  <2>1. ScanTyped'
    BY <1>a, <1>1 DEF ScanTyped, LS!TypeOK, LS!settings, LS!environment, LS!Redaction, LS!HostedBy
  <2>2. SocketsInv'
    BY <1>a, <1>1 DEF SocketsInv, LS!settings
  <2>3. MapsInv' /\ GoneInv'
    BY <1>a, <1>1 DEF MapsInv, GoneInv, LS!settings, LS!environment
  <2>4. EndpointsInv'
    <3>1. \A i \in 1 .. Len(collected) : Truthful(collected[i])'
      BY <1>a, <1>b, <1>c, <1>1, TruthfulKept DEF LS!settings, LS!environment
    <3> QED
      BY <1>1, <3>1 DEF EndpointsInv
  <2> QED
    BY <1>1, <2>1, <2>2, <2>3, <2>4 DEF ScanInv
<1>2. CASE LS!Start
  <2>1. StageInv'
    BY <1>a, <1>2 DEF LS!Start, LS!End, StageInv, LS!ExitIsTruthful, LS!Kept, LS!settings
  <2> QED
    BY <1>a, <1>1, <1>2, <2>1 DEF LS!Start, LS!End, ScanTyped, LS!TypeOK, LS!Kept, StageInv
<1>3. CASE LS!Abort \/ LS!RefusePort
  <2>1. StageInv'
    BY <1>a, <1>3 DEF LS!Abort, LS!RefusePort, LS!End, StageInv, LS!ExitIsTruthful, LS!Kept,
       LS!settings
  <2> QED
    BY <1>a, <1>1, <1>3, <2>1 DEF LS!Abort, LS!RefusePort, LS!End, ScanTyped, LS!TypeOK, LS!Kept
<1>4. CASE LS!AllResolved \/ LS!InboundRules \/ LS!Profiles \/ LS!OpenStore
  <2>1. StageInv'
    BY <1>a, <1>4 DEF LS!AllResolved, LS!InboundRules, LS!Profiles, LS!OpenStore, LS!End,
       StageInv,
                      LS!ExitIsTruthful, LS!Kept, LS!settings
  <2>2. rules' \in {"none", "unavailable", "some"}
    BY <1>a, <1>4 DEF LS!AllResolved, LS!InboundRules, LS!Profiles, LS!OpenStore, LS!Policies,
       ScanTyped, LS!TypeOK
  <2> QED
    BY <1>a, <1>1, <1>4, <2>1, <2>2
       DEF LS!AllResolved, LS!InboundRules, LS!Profiles, LS!OpenStore, LS!End, ScanTyped,
          LS!TypeOK, LS!Kept, StageInv,
           SocketsInv
<1>5. CASE LS!EmitJson \/ LS!Persist
  <2>1. StageInv'
    BY <1>a, <1>5 DEF LS!EmitJson, LS!Persist, LS!End, StageInv, LS!ExitIsTruthful, LS!Kept,
       LS!settings
  <2> QED
    BY <1>a, <1>1, <1>5, <2>1 DEF LS!EmitJson, LS!Persist, LS!End, ScanTyped, LS!TypeOK,
       LS!Kept, SocketsInv
\* The host goes on.
<1>6. ASSUME NEW p \in Pid, LS!ProcessEnds(p) \/ LS!ProcessStarts(p)
      PROVE  ScanInv'
  <2>1. /\ UNCHANGED <<LS!settings, stage, sockets, scan_todo, processes, services, collected, rules,
                       outcome, exit, opened, failed>>
        /\ events' = events + 1 /\ events' \in Nat
    BY <1>b, <1>6 DEF LS!ProcessEnds, LS!ProcessStarts
  <2>2. \E ends \in {{}} \union {{g} : g \in Program} :
          ran' = [ran EXCEPT ![p] = @ \union ends] /\ running'[p] \in ends \union {NoProgram}
    <3>1. CASE LS!ProcessEnds(p)
      <4>1. ran' = [ran EXCEPT ![p] = @ \union {}] /\ running'[p] = NoProgram
        BY <1>a, <3>1 DEF LS!ProcessEnds, ScanTyped, LS!TypeOK
      <4> QED
        BY <4>1
    <3>2. CASE LS!ProcessStarts(p)
      <4>1. PICK g \in Program : /\ running' = [running EXCEPT ![p] = g]
                                 /\ ran' = [ran EXCEPT ![p] = @ \union {g}]
        BY <3>2 DEF LS!ProcessStarts
      <4>2. running'[p] = g
        BY <1>a, <4>1 DEF ScanTyped, LS!TypeOK
      <4> QED
        BY <4>1, <4>2
    <3> QED
      BY <1>6, <3>1, <3>2
  <2>3. PICK ends \in {{}} \union {{g} : g \in Program} :
          ran' = [ran EXCEPT ![p] = @ \union ends] /\ running'[p] \in ends \union {NoProgram}
    BY <2>2
  <2>4. /\ \E to \in Program \union {NoProgram} : running' = [running EXCEPT ![p] = to]
        /\ ran' \in [Pid -> SUBSET Program]
    BY <1>a, <1>6, <2>3, ZenonT(60) DEF LS!ProcessEnds, LS!ProcessStarts, ScanTyped, LS!TypeOK
  <2>5. \A q \in Pid : IsFiniteSet(ran'[q])
    <3>1. IsFiniteSet(ends)
      BY FS_EmptySet, FS_Singleton
    <3>2. IsFiniteSet(ran[p] \union ends)
      BY <1>a, <1>6, <3>1, FS_Union DEF ScanTyped
    <3> QED
      BY <1>a, <2>3, <3>2 DEF ScanTyped
  <2>6. \A q \in Pid : ran[q] \subseteq ran'[q]
    BY <1>a, <2>3 DEF ScanTyped
  <2>7. ScanTyped'
    BY <1>a, <2>1, <2>4, <2>5, ZenonT(60) DEF ScanTyped, LS!TypeOK, LS!settings, LS!Redaction, LS!HostedBy
  <2>8. SocketsInv'
    BY <1>a, <2>1 DEF SocketsInv, LS!settings, LS!Kept
  <2>9. MapsInv'
    BY <1>a, <2>1, <2>3, <2>4, <2>6 DEF MapsInv, ScanTyped, LS!TypeOK
  <2>10. GoneInv'
    BY <1>a, <1>b, <2>1 DEF GoneInv, LS!settings
  <2>11. EndpointsInv'
    <3>1. \A i \in 1 .. Len(collected) : Truthful(collected[i])'
      BY <1>a, <1>b, <1>c, <2>1, <2>6, TruthfulKept DEF LS!settings
    <3> QED
      BY <2>1, <3>1 DEF EndpointsInv
  <2>12. StageInv'
    BY <1>a, <2>1 DEF StageInv, LS!ExitIsTruthful, LS!Kept, LS!settings
  <2> QED
    BY <2>7, <2>8, <2>9, <2>10, <2>11, <2>12 DEF ScanInv
<1>7. CASE LS!ListSockets
  <2>1. collected = <<>> /\ stage = "sockets" /\ outcome = "pending" /\ outcome' = "pending"
        /\ stage' \in {"resolve", "processes"}
    BY <1>a, <1>7 DEF LS!ListSockets, SocketsInv, StageInv
  <2>2. /\ UNCHANGED <<LS!settings, LS!environment, processes, services, collected, rules, outcome,
                       exit, failed>>
        /\ scan_todo' = sockets' /\ opened' = running
    BY <1>7 DEF LS!ListSockets
  <2>3. /\ sockets' \in Seq(Socket) /\ (collector = "stub" => sockets' = <<>>)
        /\ stage' = IF collector = "stub" THEN "resolve" ELSE "processes"
        /\ \A i \in 1 .. Len(sockets') : sockets'[i].pid = NoPid \/ running[sockets'[i].pid] # NoProgram
    <3>1. CASE collector = "stub"
      BY <1>7, <3>1 DEF LS!ListSockets
    <3>2. CASE collector # "stub"
      <4>1. sockets' \in Tables /\ LS!OwnersRun(sockets') /\ stage' = "processes"
        BY <1>7, <3>2 DEF LS!ListSockets
      <4>2. Tables \subseteq Seq(Socket)
        BY DEF LS!LocalScanAssumption, Socket
      <4>3. sockets' \in Seq(Socket)
        BY <4>1, <4>2
      <4>4. DOMAIN sockets' = 1 .. Len(sockets')
        BY <4>3
      <4> QED
        BY <3>2, <4>1, <4>3, <4>4 DEF LS!OwnersRun
    <3> QED
      BY <3>1, <3>2
  <2>4. ScanTyped'
    BY <1>a, <2>1, <2>2, <2>3 DEF ScanTyped, LS!TypeOK, LS!settings, LS!environment,
       LS!Redaction, LS!HostedBy
  <2>5. SocketsInv'
    BY <1>a, <2>1, <2>2, <2>3 DEF SocketsInv, LS!settings, LS!Kept, ScanTyped
  <2>6. MapsInv'
    BY <1>a, <2>2 DEF MapsInv, LS!environment
  <2>7. GoneInv'
    BY <1>a, <2>2, <2>3 DEF GoneInv, LS!environment, LS!settings
  <2>8. EndpointsInv'
    BY <2>1, <2>2 DEF EndpointsInv
  <2>9. StageInv'
    BY <1>a, <2>1, <2>2 DEF StageInv, LS!ExitIsTruthful, LS!Kept, LS!settings
  <2> QED
    BY <2>4, <2>5, <2>6, <2>7, <2>8, <2>9 DEF ScanInv
<1>8. CASE LS!ReadProcesses \/ LS!ReadServices
  <2>1. collected = <<>> /\ outcome = "pending" /\ outcome' = "pending"
        /\ stage \in {"processes", "services"} /\ stage' \in {"resolve", "services"}
    BY <1>a, <1>8 DEF LS!ReadProcesses, LS!ReadServices, SocketsInv, StageInv
  <2>2. /\ UNCHANGED <<LS!settings, LS!environment, sockets, scan_todo, collected, rules, outcome, exit, opened>>
        /\ failed \subseteq failed'
        /\ processes' \in {processes, running} /\ services' \in {services, running}
    BY <1>8 DEF LS!ReadProcesses, LS!ReadServices
  <2>3. ScanTyped'
    BY <1>a, <2>1, <2>2 DEF ScanTyped, LS!TypeOK, LS!settings, LS!environment, LS!Redaction,
       LS!HostedBy
  <2>4. SocketsInv'
    BY <1>a, <2>1, <2>2 DEF SocketsInv, LS!settings, LS!Kept
  <2>5. MapsInv'
    BY <1>a, <2>2 DEF MapsInv, LS!environment
  <2>6. GoneInv'
    BY <1>a, <1>b, <1>8, <2>2 DEF GoneInv, LS!environment, LS!settings, LS!ReadProcesses,
       LS!ReadServices
  <2>7. EndpointsInv'
    BY <2>1, <2>2 DEF EndpointsInv
  <2>8. StageInv'
    BY <1>a, <2>1, <2>2 DEF StageInv, LS!ExitIsTruthful, LS!Kept, LS!settings
  <2> QED
    BY <2>3, <2>4, <2>5, <2>6, <2>7, <2>8 DEF ScanInv
<1>9. CASE LS!ResolveNext
  <2> DEFINE s == Head(scan_todo)
             e == IF s.pid = NoPid THEN LS!Unattributed(s, "unresolved")
                  ELSE IF processes[s.pid] = NoProgram THEN LS!Unattributed(s, "gone")
                  ELSE LS!Resolved(s)
  <2>1. /\ stage = "resolve" /\ scan_todo # <<>> /\ collected' = Append(collected, e)
        /\ s.port # 0
        /\ scan_todo' = Tail(scan_todo)
        /\ UNCHANGED <<LS!settings, LS!environment, stage, sockets, processes, services, rules,
                       outcome, exit, opened, failed>>
    BY <1>9 DEF LS!ResolveNext
  <2>2. /\ s \in Socket /\ s = scan_todo[1] /\ Len(scan_todo) > 0 /\ s = sockets[Len(collected) + 1]
        /\ Len(collected) + 1 \in 1 .. Len(sockets)
    BY <1>a, <1>b, <2>1 DEF ScanTyped, SocketsInv
  <2>3. s.port \in Nat /\ s.pid \in Pid \union {NoPid}
        /\ (s.pid # NoPid => opened[s.pid] \in ran[s.pid])
    BY <1>a, <2>2 DEF Socket, GoneInv, MapsInv
  <2>4. e \in [port : Nat, attribution : {"resolved", "unresolved", "gone"},
               pid : Pid \union {NoPid}, program : Program \union {NoProgram},
               services : {LS!HostedBy(g) : g \in Program \union {NoProgram}},
               fields : {{}, LS!Redaction},
               signature : {"unknown", "verified", "not_applicable"}]
    <3>1. LS!HostedBy(NoProgram) = {}
      BY DEF LS!HostedBy
    <3>2. CASE s.pid = NoPid \/ processes[s.pid] = NoProgram
      BY <2>3, <3>1, <3>2 DEF LS!Unattributed
    <3>3. CASE s.pid # NoPid /\ processes[s.pid] # NoProgram
      <4>1. processes[s.pid] \in Program \union {NoProgram}
            /\ running[s.pid] \in Program \union {NoProgram}
            /\ services[s.pid] \in Program \union {NoProgram}
        BY <1>a, <2>3, <3>3 DEF ScanTyped, LS!TypeOK
      <4> QED
        BY <2>3, <3>3, <4>1 DEF LS!Resolved, LS!Verified
    <3> QED
      BY <3>2, <3>3
  <2>5. e.port = s.port
    BY DEF LS!Unattributed, LS!Resolved
  <2>6. Truthful(e)
    <3>1. CASE s.pid = NoPid
      BY <3>1 DEF LS!Unattributed, Truthful
    <3>2. CASE s.pid # NoPid /\ processes[s.pid] = NoProgram
      <4>1. events > 0 \/ "processes" \in failed
        BY <1>a, <2>1, <2>2, <2>3, <3>2 DEF GoneInv, SocketsInv
      <4> QED
        BY <3>2, <4>1 DEF LS!Unattributed, Truthful
    <3>3. CASE s.pid # NoPid /\ processes[s.pid] # NoProgram
      <4>1. processes[s.pid] \in ran[s.pid] /\ running[s.pid] \in ran[s.pid] \union {NoProgram}
            /\ services[s.pid] \in ran[s.pid] \union {NoProgram}
        BY <1>a, <2>3, <3>3 DEF MapsInv
      <4> QED
        BY <2>3, <3>3, <4>1 DEF LS!Resolved, Truthful
    <3> QED
      BY <3>1, <3>2, <3>3
  <2> HIDE DEF e, s
  <2>7. /\ Len(collected') = Len(collected) + 1 /\ collected'[Len(collected) + 1] = e
        /\ \A i \in 1 .. Len(collected) : collected'[i] = collected[i]
        /\ Len(scan_todo') = Len(scan_todo) - 1 /\ \A i \in 1 .. Len(scan_todo') : scan_todo'[i] = scan_todo[i + 1]
        /\ scan_todo' \in Seq(Socket)
    BY <1>a, <2>1, <2>4 DEF ScanTyped
  <2>8. ScanTyped'
    <3>1. collected' \in Seq([port : Nat, attribution : {"resolved", "unresolved", "gone"},
                              pid : Pid \union {NoPid}, program : Program \union {NoProgram},
                              services : {LS!HostedBy(g) : g \in Program \union {NoProgram}},
                              fields : {{}, LS!Redaction},
                              signature : {"unknown", "verified", "not_applicable"}])
      BY <1>a, <2>1, <2>4, AppendProperties DEF ScanTyped
    <3> QED
      BY <1>a, <2>1, <2>7, <3>1 DEF ScanTyped, LS!TypeOK, LS!settings, LS!environment,
         LS!Redaction, LS!HostedBy
  <2>9. SocketsInv'
    <3>1. Len(collected') + Len(scan_todo') = Len(sockets')
          /\ \A i \in 1 .. Len(collected') : collected'[i].port = sockets'[i].port
                                               /\ collected'[i].port # 0
      BY <1>a, <1>b, <2>1, <2>2, <2>5, <2>7 DEF SocketsInv
    <3>2. \A i \in 1 .. Len(scan_todo') : scan_todo'[i] = sockets'[Len(collected') + i]
      BY <1>a, <1>b, <2>1, <2>7 DEF SocketsInv
    <3> QED
      BY <1>a, <2>1, <3>1, <3>2 DEF SocketsInv, StageInv, LS!Kept, LS!settings
  <2>10. MapsInv' /\ GoneInv'
    BY <1>a, <2>1 DEF MapsInv, GoneInv, LS!settings, LS!environment
  <2>11. EndpointsInv'
    <3>1. \A i \in 1 .. Len(collected') : Truthful(collected'[i])
      <4>1. \A i \in 1 .. Len(collected') : i \in 1 .. Len(collected) \/ i = Len(collected) + 1
        BY <1>b, <2>7
      <4> QED
        BY <1>c, <2>6, <2>7, <4>1
    <3> QED
      BY <2>1, <3>1 DEF EndpointsInv, Truthful, LS!HostedBy, LS!Redaction, LS!settings,
         LS!environment
  <2>12. StageInv'
    BY <1>a, <2>1 DEF StageInv, LS!ExitIsTruthful, LS!Kept, LS!settings
  <2> QED
    BY <2>8, <2>9, <2>10, <2>11, <2>12 DEF ScanInv
<1>10. CASE LS!Terminated \/ UNCHANGED LS!scan_vars
  <2>1. UNCHANGED LS!scan_vars
    BY <1>10 DEF LS!Terminated
  <2>2. ScanTyped'
    BY <1>a, <2>1 DEF LS!scan_vars, LS!settings, LS!environment, ScanTyped, LS!TypeOK,
       LS!Redaction, LS!HostedBy
  <2>3. SocketsInv' /\ MapsInv' /\ GoneInv'
    BY <1>a, <2>1 DEF LS!scan_vars, LS!settings, LS!environment, SocketsInv, MapsInv, GoneInv,
       LS!Kept
  <2>4. EndpointsInv' /\ StageInv'
    BY <1>a, <2>1 DEF LS!scan_vars, LS!settings, LS!environment, EndpointsInv, Truthful, StageInv,
                      LS!ExitIsTruthful, LS!Kept, LS!Redaction, LS!HostedBy
  <2> QED
    BY <2>2, <2>3, <2>4 DEF ScanInv
<1> QED
  BY <1>2, <1>3, <1>4, <1>5, <1>6, <1>7, <1>8, <1>9, <1>10 DEF LS!Next

-----------------------------------------------------------------------------
(***************************************************************************)
(* Progress. A spinner that ticks has an entry in the map, an entry is of  *)
(* a host nobody was told of, and on a terminal every task that runs has   *)
(* one; the run is over before the map is emptied.                         *)
(***************************************************************************)
ProgressTyped ==
    /\ terminal \in BOOLEAN /\ finished \in BOOLEAN
    /\ bars \subseteq Reported
    /\ spinner \in [Reported -> PG!Glyphs \union {"none", "ticking", "abandoned", "interrupted"}]
    /\ task \in [Reported -> {"new", "running", "panicked", "over"}]
    /\ told \in [Reported -> PG!Glyphs \union {"none"}]
    /\ run \in {"joining", "returned", "unwound", "dropped"}
    /\ finished => finish_calls = 1
    /\ ~finished => finish_calls = 0

BarsInv ==
    \A h \in Reported :
        /\ spinner[h] = "ticking" => h \in bars
        /\ h \in bars => told[h] = "none"
        /\ told[h] # "none" => task[h] = "over"
        /\ task[h] \in {"running", "panicked"} /\ terminal => h \in bars
        /\ told[h] # "none" /\ terminal => spinner[h] = told[h]

RunInv ==
    /\ run \in {"returned", "dropped"} => \A h \in Reported : task[h] = "over"
    /\ finished => run \in {"returned", "dropped"} /\ bars = {}
    /\ run = "dropped" => bars = {}

ProgressInv == ProgressTyped /\ BarsInv /\ RunInv

\* No host was started and no spinner ticks.
LEMMA ProgressInit == PG!Init => ProgressInv
BY DEF PG!Init, ProgressInv, ProgressTyped, BarsInv, RunInv

\* Every step of a task, of the run and of the reporter keeps the invariant.
LEMMA ProgressNext == ProgressInv /\ (PG!Next \/ UNCHANGED PG!progress_vars) => ProgressInv'
<1> SUFFICES ASSUME ProgressInv, PG!Next \/ UNCHANGED PG!progress_vars PROVE ProgressInv'
  OBVIOUS
<1>a. ProgressTyped /\ BarsInv /\ RunInv
  BY DEF ProgressInv
<1>9. ASSUME UNCHANGED PG!progress_vars
      PROVE  ProgressInv'
  BY <1>a, <1>9 DEF PG!progress_vars, ProgressInv, ProgressTyped, BarsInv, RunInv, PG!Glyphs
<1>1. ASSUME NEW h \in Reported, PG!HostStarted(h)
      PROVE  ProgressInv'
  BY <1>a, <1>1 DEF PG!HostStarted, ProgressInv, ProgressTyped, BarsInv, RunInv, PG!Glyphs
<1>2. ASSUME NEW h \in Reported, NEW glyph \in PG!Glyphs, task[h] \in {"running", "panicked"},
             PG!EndSpinner(h, glyph), task' = [task EXCEPT ![h] = "over"],
             UNCHANGED <<terminal, finished, finish_calls, run>>
      PROVE  ProgressInv'
  BY <1>a, <1>2 DEF PG!EndSpinner, ProgressInv, ProgressTyped, BarsInv, RunInv, PG!Glyphs
<1>3. ASSUME NEW h \in Reported, PG!HostFinished(h) \/ PG!JoinPanicked(h)
      PROVE  ProgressInv'
  <2>1. PICK glyph \in PG!Glyphs : PG!EndSpinner(h, glyph)
    BY <1>3 DEF PG!HostFinished, PG!JoinPanicked, PG!Glyphs
  <2> QED
    BY <1>2, <1>3, <2>1 DEF PG!HostFinished, PG!JoinPanicked
<1>4. ASSUME NEW h \in Reported, PG!TaskPanics(h)
      PROVE  ProgressInv'
  BY <1>a, <1>4 DEF PG!TaskPanics, ProgressInv, ProgressTyped, BarsInv, RunInv, PG!Glyphs
<1>5. ASSUME NEW h \in Reported, PG!TaskAborted(h)
      PROVE  ProgressInv'
  BY <1>a, <1>5 DEF PG!TaskAborted, ProgressInv, ProgressTyped, BarsInv, RunInv, PG!Glyphs
<1>6. ASSUME PG!RunReturns \/ PG!RunUnwinds
      PROVE  ProgressInv'
  <2>1. UNCHANGED <<terminal, bars, spinner, finished, finish_calls, task, told>> /\ run = "joining"
        /\ run' \in {"returned", "unwound"} /\ (run' = "returned" => \A h \in Reported : task[h] = "over")
    BY <1>6 DEF PG!RunReturns, PG!RunUnwinds
  <2>2. ProgressTyped'
    BY <1>a, <2>1 DEF ProgressTyped
  <2>3. BarsInv'
    BY <1>a, <2>1 DEF BarsInv
  <2>4. RunInv'
    BY <1>a, <2>1 DEF RunInv
  <2> QED
    BY <2>2, <2>3, <2>4 DEF ProgressInv
<1>7. ASSUME PG!Finish
      PROVE  ProgressInv'
  <2>1. CASE PG!Abandon("abandoned") /\ bars' = {} /\ UNCHANGED <<terminal, task, told, run>>
             /\ finished' = TRUE /\ ~finished /\ finish_calls' = finish_calls + 1 /\ run = "returned"
    <3>1. spinner' \in [Reported -> PG!Glyphs \union {"none", "ticking", "abandoned", "interrupted"}]
      BY <1>a, <2>1 DEF PG!Abandon, ProgressTyped, BarsInv
    <3>2. \A h \in Reported : spinner'[h] # "ticking" /\ (h \notin bars => spinner'[h] = spinner[h])
      BY <1>a, <2>1 DEF PG!Abandon, ProgressTyped, BarsInv
    <3>3. ProgressTyped'
      <4>1. finish_calls = 0
        BY <1>a, <2>1 DEF ProgressTyped
      <4>2. finish_calls' = finish_calls + 1
        BY <2>1
      <4>3. finish_calls' = 1
        BY <4>1, <4>2
      <4> QED
        BY <1>a, <2>1, <3>1, <4>3 DEF ProgressTyped
    <3>4. BarsInv'
      BY <1>a, <2>1, <3>2 DEF BarsInv, RunInv
    <3> QED
      BY <1>a, <2>1, <3>3, <3>4 DEF ProgressInv, RunInv
  <2>2. CASE UNCHANGED PG!progress_vars
    BY <1>9, <2>2
  <2> QED
    BY <1>7, <2>1, <2>2 DEF PG!Finish, PG!progress_vars
<1>8. ASSUME PG!Drop
      PROVE  ProgressInv'
  <2>1. CASE finished
    BY <1>a, <1>8, <2>1 DEF PG!Drop, ProgressInv, ProgressTyped, BarsInv, RunInv, PG!Glyphs
  <2>2. CASE ~finished
    <3>0. PG!Abandon("interrupted") /\ bars' = {} /\ run' = "dropped"
          /\ UNCHANGED <<terminal, finished, finish_calls, task, told>> /\ \A h \in Reported : task[h] = "over"
      BY <1>8, <2>2 DEF PG!Drop
    <3>1. spinner' \in [Reported -> PG!Glyphs \union {"none", "ticking", "abandoned", "interrupted"}]
      BY <1>a, <3>0 DEF PG!Abandon, ProgressTyped, BarsInv
    <3>2. \A h \in Reported : spinner'[h] # "ticking" /\ (h \notin bars => spinner'[h] = spinner[h])
      BY <1>a, <3>0 DEF PG!Abandon, ProgressTyped, BarsInv
    <3>3. ProgressTyped'
      BY <1>a, <3>0, <3>1 DEF ProgressTyped
    <3>4. BarsInv'
      BY <1>a, <3>0, <3>2 DEF BarsInv
    <3> QED
      BY <1>a, <2>2, <3>0, <3>3, <3>4 DEF ProgressInv, RunInv
  <2> QED
    BY <2>1, <2>2
<1> QED
  BY <1>1, <1>3, <1>4, <1>5, <1>6, <1>7, <1>8, <1>9 DEF PG!Next, PG!Terminated

\* The invariant of the spinners gives their type and that each ends once.
LEMMA ProgressInvIsEnough == ProgressInv => PG!TypeOK /\ PG!SpinnersEndOnce
BY DEF ProgressInv, ProgressTyped, BarsInv, RunInv, PG!TypeOK, PG!SpinnersEndOnce

-----------------------------------------------------------------------------
(***************************************************************************)
(* ReportWriter. What is about to be renamed is whole, and the output is   *)
(* the report of a writer that was told so.                                *)
(***************************************************************************)
ReportInv ==
    /\ RW!TypeOK
    /\ \A w \in Writer : writing[w] \in {"sync", "rename"} => temporary[w] = w
    /\ RW!ReportsAreWhole

\* No report is there and none is written yet.
LEMMA ReportInit == RW!ReportWriterAssumption /\ RW!Init => ReportInv
BY DEF RW!ReportWriterAssumption, RW!Init, ReportInv, RW!TypeOK, RW!ReportsAreWhole

\* Every step of a writer, its failures and its death, keeps the invariant.
LEMMA ReportNext ==
    RW!ReportWriterAssumption /\ ReportInv /\ (RW!Next \/ UNCHANGED RW!writer_vars) => ReportInv'
<1> SUFFICES ASSUME RW!ReportWriterAssumption, ReportInv, RW!Next \/ UNCHANGED RW!writer_vars
             PROVE ReportInv'
  OBVIOUS
<1> USE DEF RW!ReportWriterAssumption, ReportInv, RW!TypeOK, RW!ReportsAreWhole, RW!Go
<1>1. ASSUME NEW w \in Writer, RW!Create(w)
      PROVE  ReportInv'
  BY <1>1 DEF RW!Create
<1>2. ASSUME NEW w \in Writer, RW!Write(w)
      PROVE  ReportInv'
  BY <1>2 DEF RW!Write
<1>3. ASSUME NEW w \in Writer, RW!Sync(w)
      PROVE  ReportInv'
  BY <1>3 DEF RW!Sync
<1>4. ASSUME NEW w \in Writer, RW!Cleanup(w)
      PROVE  ReportInv'
  BY <1>4 DEF RW!Cleanup
<1>5. ASSUME NEW w \in Writer, RW!Rename(w)
      PROVE  ReportInv'
  BY <1>5 DEF RW!Rename
<1>6. ASSUME NEW w \in Writer, RW!Kill(w)
      PROVE  ReportInv'
  BY <1>6 DEF RW!Kill
<1>7. ASSUME UNCHANGED RW!writer_vars
      PROVE  ReportInv'
  BY <1>7 DEF RW!writer_vars
<1> QED
  BY <1>1, <1>2, <1>3, <1>4, <1>5, <1>6, <1>7 DEF RW!Next, RW!Terminated

-----------------------------------------------------------------------------
(***************************************************************************)
(* SelfUpdate. At most one run is under way (AloneInv); what it has open is *)
(* the file of its system's name (OpenInv); what it may install was decided *)
(* on, agreed to and verified (DecisionInv); and at every place it leaves   *)
(* a whole executable or, on Windows, a whole backup (ExecutableInv).      *)
(***************************************************************************)
Active(u)  == at[u] \notin {"start", "over"}
Decided    == {"confirm", "download", "replace", "write", "rename", "move_away", "create"}
Agreed     == Decided \ {"confirm"}
Installing == Agreed \ {"download"}

UpdateTyped ==
    /\ SU!TypeOK
    /\ windows \in BOOLEAN /\ latest \in Versions
    /\ args \in [Updater -> [check : BOOLEAN, yes : BOOLEAN, version : {0} \union Versions]]
    /\ current \in [Updater -> {0} \union Versions]
    /\ release \in [Updater -> {0} \union Versions]
    /\ open \in [Updater -> SU!Files \union {NoFile}]

AloneInv == \A u, v \in Updater : Active(u) /\ Active(v) => u = v

OpenInv ==
    \A u \in Updater :
        /\ at[u] = "write" => open[u] # NoFile /\ open[u] = IF windows THEN target ELSE staged
        /\ at[u] # "write" => open[u] = NoFile
        /\ windows => at[u] # "rename"
        /\ ~windows => at[u] \notin {"move_away", "create"}

MayInstall(u) ==
    ~args[u].check /\ release[u] \in Versions /\ (args[u].version = 0 => release[u] > current[u])

DecisionInv ==
    \A u \in Updater :
        /\ at[u] \in Decided \/ status[u] = "updated" => MayInstall(u)
        /\ at[u] \in Agreed => release[u] \in consented
        /\ at[u] \in Installing => release[u] \in verified
        /\ status[u] = "updated" => at[u] = "over"

Good == {INSTALLED} \union (verified \intersect consented)

ExecutableInv ==
    /\ SU!Whole(target) => content[target] \in Good
    /\ ~windows =>
         /\ backup = NoFile /\ SU!Whole(target) /\ staged # target
         /\ \A u \in Updater : at[u] = "rename" => staged # NoFile /\ content[staged] = release[u]
    /\ windows =>
         /\ staged = NoFile
         /\ target # NoFile => backup # target
         /\ SU!Whole(target) \/ SU!Whole(backup)
         /\ \A u \in Updater :
              /\ at[u] \in {"look_up", "confirm", "download", "replace", "move_away"} => SU!Whole(target)
              /\ at[u] \in {"create", "write"} => SU!Whole(backup)
              /\ at[u] = "create" => target = NoFile

UpdateInv == UpdateTyped /\ AloneInv /\ OpenInv /\ DecisionInv /\ ExecutableInv

\* A new file is none that a name leads to or that is open.
LEMMA FreshIs ==
    ASSUME SU!SelfUpdateAssumption, UpdateInv, Updater # {}, staged = NoFile,
           backup = NoFile \/ target = NoFile, \A u \in Updater : open[u] = NoFile
    PROVE  SU!Fresh \in SU!Files /\ SU!Fresh \notin {target, backup} /\ SU!Fresh # NoFile
<1>1. Cardinality(Updater) \in Nat /\ Cardinality(Updater) # 0
  BY FS_CardinalityType, FS_EmptySet, SizesAgree DEF SU!SelfUpdateAssumption
<1>2. 0 \in SU!Files /\ 1 \in SU!Files
  BY <1>1, SizesAgree DEF SU!Files
<1>3. NoFile \notin SU!Files
  BY <1>1, SizesAgree DEF SU!Files, SU!SelfUpdateAssumption
<1>4. \E f \in SU!Files \ {target, staged, backup} : \A u \in Updater : open[u] # f
  BY <1>2, <1>3
<1>5. SU!Fresh \in SU!Files \ {target, staged, backup}
  BY <1>4 DEF SU!Fresh, SU!Unused
<1> QED
  BY <1>3, <1>5

\* No update has begun and the installed executable is whole.
LEMMA UpdateInit == SU!SelfUpdateAssumption /\ SU!Init => UpdateInv
<1> SUFFICES ASSUME SU!SelfUpdateAssumption, SU!Init PROVE UpdateInv
  OBVIOUS
<1>1. Cardinality(Updater) \in Nat
  BY FS_CardinalityType, SizesAgree DEF SU!SelfUpdateAssumption
<1>2. 0 \in SU!Files /\ NoFile # 0 /\ INSTALLED # SU!Partial
  BY <1>1, SizesAgree DEF SU!Files, SU!SelfUpdateAssumption, SU!Partial
<1>3. UpdateTyped
  BY <1>2 DEF SU!Init, UpdateTyped, SU!TypeOK, SU!Places, SU!SelfUpdateAssumption
<1>4. AloneInv /\ OpenInv /\ DecisionInv
  BY DEF SU!Init, AloneInv, Active, OpenInv, DecisionInv, Decided, Agreed, Installing
<1>5. ExecutableInv
  BY <1>2 DEF SU!Init, ExecutableInv, SU!Whole, Good, SU!Partial
<1> QED
  BY <1>3, <1>4, <1>5 DEF UpdateInv

\* Whoever goes on alone stays alone.
LEMMA AloneKept ==
    ASSUME UpdateTyped, NEW u \in Updater, SU!Alone(u), NEW there, at' = [at EXCEPT ![u] = there]
    PROVE  AloneInv' /\ \A v \in Updater \ {u} : at'[v] = at[v] /\ at[v] \in {"start", "over"}
BY DEF UpdateTyped, SU!TypeOK, SU!Alone, AloneInv, Active

\* A step that leaves the directory alone and opens nothing.
LEMMA DirectoryKept ==
    ASSUME UpdateInv, NEW u \in Updater, SU!Alone(u), at[u] # "write",
           NEW there \in {"look_up", "confirm", "download", "replace", "over"},
           at' = [at EXCEPT ![u] = there],
           UNCHANGED <<windows, open, SU!directory>>,
           verified \subseteq verified', consented \subseteq consented',
           windows /\ there # "over" => SU!Whole(target)
    PROVE  OpenInv' /\ ExecutableInv'
<1>a. UpdateTyped /\ OpenInv /\ ExecutableInv
  BY DEF UpdateInv
<1>b. \A v \in Updater : at'[v] = IF v = u THEN there ELSE at[v]
  BY <1>a DEF UpdateTyped, SU!TypeOK
<1>1. OpenInv'
  BY <1>a, <1>b DEF OpenInv, SU!directory
<1>2. Good \subseteq Good' /\ \A f : SU!Whole(f)' <=> SU!Whole(f)
  BY DEF Good, SU!Whole, SU!directory
<1>3. UNCHANGED <<target, staged, backup, content, windows>>
  BY DEF SU!directory
<1>4. \A v \in Updater : at'[v] = at[v] \/ at'[v] = "over" \/ (v = u /\ (windows => SU!Whole(target)))
                         \/ at'[v] \notin {"look_up", "confirm", "download", "replace", "move_away"}
  BY <1>b
<1>5. \A v \in Updater : at'[v] \notin {"rename", "create", "write", "move_away"}
  BY <1>b DEF SU!Alone
<1>6. windows => ExecutableInv'
  BY <1>a, <1>2, <1>3, <1>4, <1>5 DEF ExecutableInv
<1>7. ~windows => ExecutableInv'
  BY <1>a, <1>2, <1>3, <1>5 DEF ExecutableInv
<1> QED
  BY <1>1, <1>6, <1>7

\* Every step of an update, its death, and a new release keep the invariant.
LEMMA UpdateNext ==
    SU!SelfUpdateAssumption /\ UpdateInv /\ (SU!Next \/ UNCHANGED SU!update_vars) => UpdateInv'
<1> SUFFICES ASSUME SU!SelfUpdateAssumption, UpdateInv, SU!Next \/ UNCHANGED SU!update_vars
             PROVE UpdateInv'
  OBVIOUS
<1> USE DEF SU!environment, SU!Go, SU!Exit
<1>a. UpdateTyped /\ AloneInv /\ OpenInv /\ DecisionInv /\ ExecutableInv
  BY DEF UpdateInv
<1>b. 0 \notin Versions /\ 0 \in SU!Files /\ NoFile \notin SU!Files /\ Versions \subseteq Nat
  <2>1. Cardinality(Updater) \in Nat
    BY FS_CardinalityType, SizesAgree DEF SU!SelfUpdateAssumption
  <2> QED
    BY <2>1, SizesAgree DEF SU!SelfUpdateAssumption, SU!Partial, SU!Files
<1>1. ASSUME NEW u \in Updater, SU!Alone(u), SU!Start(u)
     PROVE  UpdateInv'
  <2>1. UpdateTyped'
    BY <1>a, <1>b, <1>1 DEF SU!Start, UpdateTyped, SU!TypeOK, SU!Places, SU!directory, SU!Partial
  <2>2. AloneInv'
    BY <1>a, <1>1, AloneKept DEF SU!Start
  <2>3. OpenInv' /\ ExecutableInv'
    BY <1>a, <1>b, <1>1, DirectoryKept DEF SU!Start, ExecutableInv, SU!Whole, SU!Partial
  <2>4. DecisionInv'
    <3> SUFFICES ASSUME NEW v \in Updater
                 PROVE  /\ at'[v] \in Decided \/ status'[v] = "updated" => MayInstall(v)'
                        /\ at'[v] \in Agreed => release'[v] \in consented'
                        /\ at'[v] \in Installing => release'[v] \in verified'
                        /\ status'[v] = "updated" => at'[v] = "over"
      BY DEF DecisionInv
    <3>1. CASE v = u
      <4>1. \/ at'[u] = "look_up" /\ status'[u] = status[u]
            \/ at'[u] = "over" /\ status'[u] = "error"
        <5>1. \/ at' = [at EXCEPT ![u] = "look_up"] /\ UNCHANGED status
              \/ at' = [at EXCEPT ![u] = "over"] /\ status' = [status EXCEPT ![u] = "error"]
          BY <1>1 DEF SU!Start
        <5> QED
          BY <1>a, <1>1, <5>1 DEF UpdateTyped, SU!TypeOK
      <4>2. at[u] = "start"
        BY <1>1 DEF SU!Start
      <4>3. status[u] # "updated"
        BY <1>a, <4>2 DEF DecisionInv
      <4> QED
        BY <3>1, <4>1, <4>3 DEF Decided, Agreed, Installing
    <3>2. CASE v # u
      <4>1. at'[v] = at[v] /\ status'[v] = status[v] /\ current'[v] = current[v]
            /\ UNCHANGED <<args, release, consented, verified>>
        BY <1>a, <1>1, <3>2 DEF SU!Start, UpdateTyped, SU!TypeOK
      <4> QED
        BY <1>a, <4>1 DEF DecisionInv, MayInstall
    <3> QED
      BY <3>1, <3>2
  <2> QED
    BY <2>1, <2>2, <2>3, <2>4 DEF UpdateInv
<1>2. ASSUME NEW u \in Updater, SU!Alone(u), SU!Decide(u)
     PROVE  UpdateInv'
  <2>1. UpdateTyped'
    BY <1>a, <1>b, <1>2 DEF SU!Decide, UpdateTyped, SU!TypeOK, SU!Places, SU!directory
  <2>2. AloneInv'
    BY <1>a, <1>2, AloneKept DEF SU!Decide
  <2>3. OpenInv' /\ ExecutableInv'
    BY <1>a, <1>b, <1>2, DirectoryKept DEF SU!Decide, ExecutableInv, SU!Whole, SU!Partial
  <2>4. DecisionInv'
    <3> DEFINE version_found == IF args[u].version = 0 THEN latest ELSE args[u].version
    <3>0. /\ version_found \in Versions /\ version_found \in Nat /\ current[u] \in Nat
          /\ args[u].version \in {0} \union Versions
      <4>1. latest \in Versions /\ current[u] \in Nat /\ args[u].version \in {0} \union Versions
        <5>1. /\ latest \in Versions /\ current \in [Updater -> {0} \union Versions]
              /\ args \in [Updater -> [check : BOOLEAN, yes : BOOLEAN, version : {0} \union Versions]]
          BY <1>a DEF UpdateTyped
        <5>2. args[u] \in [check : BOOLEAN, yes : BOOLEAN, version : {0} \union Versions]
          BY <1>2, <5>1
        <5>3. args[u].version \in {0} \union Versions
          BY <5>2
        <5>4. current[u] \in {0} \union Versions
          BY <1>2, <5>1
        <5>5. current[u] \in Nat
          <6>1. \A n \in {0} \union Versions : n \in Nat
            BY <1>b
          <6> QED
            BY <5>4, <6>1
        <5> QED
          BY <5>1, <5>3, <5>5
      <4>2. version_found \in Versions
        BY <4>1
      <4> HIDE DEF version_found
      <4> QED
        BY <1>b, <4>1, <4>2
    <3> HIDE DEF version_found
    <3>1. /\ release' = [release EXCEPT ![u] = version_found] /\ at[u] = "look_up"
          /\ \/ \E what \in {"error", "clean"} : SU!Exit(u, what)
             \/ /\ ~args[u].check /\ ~(version_found =< current[u] /\ args[u].version = 0)
                /\ at' = [at EXCEPT ![u] = "confirm"] /\ UNCHANGED status
          /\ UNCHANGED <<args, current, consented, verified>>
      BY <1>2 DEF SU!Decide, version_found
    <3> SUFFICES ASSUME NEW v \in Updater
                 PROVE  /\ at'[v] \in Decided \/ status'[v] = "updated" => MayInstall(v)'
                        /\ at'[v] \in Agreed => release'[v] \in consented'
                        /\ at'[v] \in Installing => release'[v] \in verified'
                        /\ status'[v] = "updated" => at'[v] = "over"
      BY DEF DecisionInv
    <3>2. CASE v = u
      <4>1. release'[u] = version_found /\ current'[u] = current[u] /\ args' = args
        BY <1>a, <3>1 DEF UpdateTyped
      <4>2. CASE at'[u] = "over" /\ status'[u] \in {"error", "clean"}
        BY <3>2, <4>2 DEF Decided, Agreed, Installing
      <4>3. CASE /\ ~args[u].check /\ ~(version_found =< current[u] /\ args[u].version = 0)
                 /\ at'[u] = "confirm" /\ UNCHANGED status
        <5>1. status[u] # "updated"
          BY <1>a, <1>2, <3>1 DEF DecisionInv
        <5> QED
          BY <3>0, <3>2, <4>1, <4>3, <5>1 DEF MayInstall, Agreed, Installing
      <4> QED
        BY <1>a, <1>2, <3>1, <4>2, <4>3 DEF UpdateTyped, SU!TypeOK
    <3>3. CASE v # u
      <4>1. at'[v] = at[v] /\ status'[v] = status[v] /\ release'[v] = release[v]
            /\ UNCHANGED <<args, current, consented, verified>>
        BY <1>a, <3>1, <3>3 DEF UpdateTyped, SU!TypeOK
      <4> QED
        BY <1>a, <4>1 DEF DecisionInv, MayInstall
    <3> QED
      BY <3>2, <3>3
  <2> QED
    BY <2>1, <2>2, <2>3, <2>4 DEF UpdateInv
<1>3. ASSUME NEW u \in Updater, SU!Alone(u), SU!Confirm(u)
     PROVE  UpdateInv'
  <2>1. UpdateTyped'
    BY <1>a, <1>b, <1>3 DEF SU!Confirm, UpdateTyped, SU!TypeOK, SU!Places, SU!directory
  <2>2. AloneInv'
    BY <1>a, <1>3, AloneKept DEF SU!Confirm
  <2>3. OpenInv' /\ ExecutableInv'
    BY <1>a, <1>b, <1>3, DirectoryKept DEF SU!Confirm, ExecutableInv, SU!Whole, SU!Partial
  <2>4. DecisionInv'
    BY <1>a, <1>b, <1>3 DEF SU!Confirm, DecisionInv, MayInstall, Decided, Agreed, Installing,
       UpdateTyped, SU!TypeOK
  <2> QED
    BY <2>1, <2>2, <2>3, <2>4 DEF UpdateInv
<1>4. ASSUME NEW u \in Updater, SU!Alone(u), SU!Download(u)
     PROVE  UpdateInv'
  <2>1. UpdateTyped'
    BY <1>a, <1>b, <1>4 DEF SU!Download, UpdateTyped, SU!TypeOK, SU!Places, SU!directory
  <2>2. AloneInv'
    BY <1>a, <1>4, AloneKept DEF SU!Download
  <2>3. OpenInv' /\ ExecutableInv'
    BY <1>a, <1>b, <1>4, DirectoryKept DEF SU!Download, ExecutableInv, SU!Whole, SU!Partial
  <2>4. DecisionInv'
    BY <1>a, <1>b, <1>4 DEF SU!Download, DecisionInv, MayInstall, Decided, Agreed, Installing,
       UpdateTyped, SU!TypeOK
  <2> QED
    BY <2>1, <2>2, <2>3, <2>4 DEF UpdateInv
<1>5. ASSUME NEW u \in Updater, SU!Alone(u), SU!Exit(u, "error"), at[u] # "write",
             UNCHANGED <<SU!environment, current, release, open, SU!directory, consented, verified>>
     PROVE  UpdateInv'
  <2>1. UpdateTyped'
    BY <1>a, <1>5 DEF UpdateTyped, SU!TypeOK, SU!Places, SU!directory
  <2>2. AloneInv'
    BY <1>a, <1>5, AloneKept
  <2>3. OpenInv' /\ ExecutableInv'
    BY <1>a, <1>5, DirectoryKept
  <2>4. DecisionInv'
    BY <1>a, <1>5 DEF DecisionInv, MayInstall, Decided, Agreed, Installing, UpdateTyped, SU!TypeOK
  <2> QED
    BY <2>1, <2>2, <2>3, <2>4 DEF UpdateInv
<1>6. ASSUME NEW u \in Updater, SU!Alone(u), SU!OpenStaged(u)
     PROVE  UpdateInv'
  <2>a. CASE SU!Fail(u)
    BY <1>5, <1>6, <2>a DEF SU!OpenStaged, SU!Fail
  <2>b. CASE /\ staged' = IF staged = NoFile THEN SU!Fresh ELSE staged
           /\ open' = [open EXCEPT ![u] = staged'] /\ SU!Created(staged')
           /\ at' = [at EXCEPT ![u] = "write"] /\ UNCHANGED <<target, backup, status>>
    <3>0. \A v \in Updater : open[v] = NoFile
      BY <1>a, <1>6 DEF OpenInv, SU!Alone, SU!OpenStaged
    <3>1. staged' \in SU!Files /\ staged' # target
      <4>1. CASE staged = NoFile
        BY <1>a, <1>6, <2>b, <3>0, <4>1, FreshIs DEF SU!OpenStaged, ExecutableInv
      <4>2. CASE staged # NoFile
        BY <1>a, <1>6, <2>b, <4>2 DEF SU!OpenStaged, ExecutableInv, UpdateTyped, SU!TypeOK
      <4> QED
        BY <4>1, <4>2
    <3>2. UpdateTyped'
      BY <1>a, <1>b, <1>6, <2>b, <3>1 DEF SU!OpenStaged, UpdateTyped, SU!TypeOK, SU!Places,
         SU!Created
    <3>3. AloneInv' /\ \A v \in Updater \ {u} : at'[v] = at[v] /\ at[v] \in {"start", "over"}
      BY <1>a, <1>6, <2>b, AloneKept DEF SU!OpenStaged
    <3>4. OpenInv'
      BY <1>a, <1>b, <1>6, <2>b, <3>1, <3>3 DEF SU!OpenStaged, OpenInv, UpdateTyped, SU!TypeOK
    <3>5. DecisionInv'
      BY <1>a, <1>6, <2>b, <3>3 DEF SU!OpenStaged, DecisionInv, MayInstall, Decided, Agreed,
         Installing, UpdateTyped, SU!TypeOK
    <3>6. ExecutableInv'
      BY <1>a, <1>b, <1>6, <2>b, <3>1, <3>3 DEF SU!OpenStaged, ExecutableInv, SU!Created,
         SU!Whole, Good, SU!Partial, UpdateTyped, SU!TypeOK
    <3> QED
      BY <3>2, <3>3, <3>4, <3>5, <3>6 DEF UpdateInv
  <2> QED
    BY <1>6, <2>a, <2>b DEF SU!OpenStaged
<1>9. ASSUME NEW u \in Updater, SU!Alone(u), SU!MoveAway(u)
     PROVE  UpdateInv'
  <2>a. CASE SU!Fail(u)
    BY <1>5, <1>9, <2>a DEF SU!MoveAway, SU!Fail
  <2>b. CASE /\ target # NoFile /\ backup' = target /\ target' = NoFile
           /\ at' = [at EXCEPT ![u] = "create"] /\ UNCHANGED <<open, staged, content, status>>
    <3>1. windows /\ SU!Whole(target)
      BY <1>a, <1>9 DEF SU!MoveAway, OpenInv, ExecutableInv, UpdateTyped
    <3>2. UpdateTyped'
      BY <1>a, <1>b, <1>9, <2>b, <3>1 DEF SU!MoveAway, UpdateTyped, SU!TypeOK, SU!Places,
         SU!Created
    <3>3. AloneInv' /\ \A v \in Updater \ {u} : at'[v] = at[v] /\ at[v] \in {"start", "over"}
      BY <1>a, <1>9, <2>b, AloneKept DEF SU!MoveAway
    <3>4. OpenInv'
      BY <1>a, <1>b, <1>9, <2>b, <3>1, <3>3 DEF SU!MoveAway, OpenInv, UpdateTyped, SU!TypeOK
    <3>5. DecisionInv'
      BY <1>a, <1>9, <2>b, <3>3 DEF SU!MoveAway, DecisionInv, MayInstall, Decided, Agreed,
         Installing, UpdateTyped, SU!TypeOK
    <3>6. ExecutableInv'
      BY <1>a, <1>b, <1>9, <2>b, <3>1, <3>3 DEF SU!MoveAway, ExecutableInv, SU!Created,
         SU!Whole, Good, SU!Partial, UpdateTyped, SU!TypeOK
    <3> QED
      BY <3>2, <3>3, <3>4, <3>5, <3>6 DEF UpdateInv
  <2> QED
    BY <1>9, <2>a, <2>b DEF SU!MoveAway
<1>10. ASSUME NEW u \in Updater, SU!Alone(u), SU!CreateTarget(u)
     PROVE  UpdateInv'
  <2>a. CASE SU!Fail(u)
    BY <1>5, <1>10, <2>a DEF SU!CreateTarget, SU!Fail
  <2>b. CASE /\ target' = IF target = NoFile THEN SU!Fresh ELSE target
           /\ open' = [open EXCEPT ![u] = target'] /\ SU!Created(target')
           /\ at' = [at EXCEPT ![u] = "write"] /\ UNCHANGED <<staged, backup, status>>
    <3>0. \A v \in Updater : open[v] = NoFile
      BY <1>a, <1>10 DEF OpenInv, SU!Alone, SU!CreateTarget
    <3>1. /\ windows /\ target = NoFile /\ SU!Whole(backup) /\ staged = NoFile
          /\ target' \in SU!Files /\ target' # backup
      <4>1. windows /\ target = NoFile /\ SU!Whole(backup) /\ staged = NoFile
        BY <1>a, <1>10 DEF SU!CreateTarget, OpenInv, ExecutableInv, UpdateTyped
      <4> QED
        BY <1>a, <1>10, <2>b, <3>0, <4>1, FreshIs DEF SU!CreateTarget
    <3>z. target' # NoFile
      BY <1>b, <3>1
    <3>2. UpdateTyped'
      BY <1>a, <1>b, <1>10, <2>b, <3>1 DEF SU!CreateTarget, UpdateTyped, SU!TypeOK, SU!Places,
         SU!Created
    <3>3. AloneInv' /\ \A v \in Updater \ {u} : at'[v] = at[v] /\ at[v] \in {"start", "over"}
      BY <1>a, <1>10, <2>b, AloneKept DEF SU!CreateTarget
    <3>4. OpenInv'
      BY <1>a, <1>b, <1>10, <2>b, <3>1, <3>3 DEF SU!CreateTarget, OpenInv, UpdateTyped, SU!TypeOK
    <3>5. DecisionInv'
      BY <1>a, <1>10, <2>b, <3>3 DEF SU!CreateTarget, DecisionInv, MayInstall, Decided, Agreed,
         Installing, UpdateTyped, SU!TypeOK
    <3>6. ExecutableInv'
      BY <1>a, <1>b, <1>10, <2>b, <3>1, <3>3 DEF SU!CreateTarget, ExecutableInv, SU!Created,
         SU!Whole, Good, SU!Partial, UpdateTyped, SU!TypeOK
    <3> QED
      BY <3>2, <3>3, <3>4, <3>5, <3>6 DEF UpdateInv
  <2> QED
    BY <1>10, <2>a, <2>b DEF SU!CreateTarget
<1>8. ASSUME NEW u \in Updater, SU!Alone(u), SU!RenameStaged(u)
     PROVE  UpdateInv'
  <2>a. CASE SU!Fail(u)
    BY <1>5, <1>8, <2>a DEF SU!RenameStaged, SU!Fail
  <2>b. CASE /\ staged # NoFile /\ target' = staged /\ staged' = NoFile
           /\ SU!Exit(u, "updated") /\ UNCHANGED <<open, backup, content>>
    <3>1. /\ ~windows /\ content[staged] = release[u] /\ release[u] \in verified \intersect consented
          /\ release[u] # 0 /\ MayInstall(u)
      BY <1>a, <1>b, <1>8 DEF SU!RenameStaged, OpenInv, ExecutableInv, DecisionInv, MayInstall,
         Decided, Agreed,
                              Installing, UpdateTyped
    <3>2. UpdateTyped'
      BY <1>a, <1>b, <1>8, <2>b, <3>1 DEF SU!RenameStaged, UpdateTyped, SU!TypeOK, SU!Places,
         SU!Created
    <3>3. AloneInv' /\ \A v \in Updater \ {u} : at'[v] = at[v] /\ at[v] \in {"start", "over"}
      BY <1>a, <1>8, <2>b, AloneKept DEF SU!RenameStaged
    <3>4. OpenInv'
      BY <1>a, <1>b, <1>8, <2>b, <3>1, <3>3 DEF SU!RenameStaged, OpenInv, UpdateTyped, SU!TypeOK
    <3>5. DecisionInv'
      BY <1>a, <1>8, <2>b, <3>3 DEF SU!RenameStaged, DecisionInv, MayInstall, Decided, Agreed,
         Installing, UpdateTyped, SU!TypeOK
    <3>6. ExecutableInv'
      BY <1>a, <1>b, <1>8, <2>b, <3>1, <3>3 DEF SU!RenameStaged, ExecutableInv, SU!Created,
         SU!Whole, Good, SU!Partial, UpdateTyped, SU!TypeOK
    <3> QED
      BY <3>2, <3>3, <3>4, <3>5, <3>6 DEF UpdateInv
  <2> QED
    BY <1>8, <2>a, <2>b DEF SU!RenameStaged
<1>7. ASSUME NEW u \in Updater, SU!Alone(u), SU!WriteFile(u)
     PROVE  UpdateInv'
  <2>1. /\ open[u] \in SU!Files /\ open[u] # NoFile /\ open[u] = (IF windows THEN target ELSE staged)
        /\ release[u] \in verified \intersect consented /\ release[u] # 0 /\ release[u] \in Versions
        /\ MayInstall(u)
    <3>1. at[u] = "write" /\ at[u] \in Decided \intersect Agreed \intersect Installing
      BY <1>7 DEF SU!WriteFile, Decided, Agreed, Installing
    <3>2. MayInstall(u) /\ release[u] \in verified \intersect consented
      BY <1>a, <3>1 DEF DecisionInv
    <3>3. release[u] \in Versions /\ release[u] # 0
      BY <1>a, <1>b, <3>2 DEF MayInstall
    <3>4. open[u] # NoFile /\ open[u] = IF windows THEN target ELSE staged
      BY <1>a, <3>1 DEF OpenInv
    <3>5. open[u] \in SU!Files
      BY <1>a, <3>4 DEF UpdateTyped
    <3> QED
      BY <3>2, <3>3, <3>4, <3>5
  <2>2. UpdateTyped'
    BY <1>a, <1>b, <1>7, <2>1 DEF SU!WriteFile, UpdateTyped, SU!TypeOK, SU!Places
  <2>3. AloneInv' /\ \A v \in Updater \ {u} : at'[v] = at[v] /\ at[v] \in {"start", "over"}
    BY <1>a, <1>7, AloneKept DEF SU!WriteFile
  <2>4. OpenInv'
    BY <1>a, <1>b, <1>7, <2>3 DEF SU!WriteFile, OpenInv, UpdateTyped, SU!TypeOK
  <2>5. DecisionInv'
    BY <1>a, <1>7, <2>1, <2>3 DEF SU!WriteFile, DecisionInv, MayInstall, Decided, Agreed,
       Installing, UpdateTyped, SU!TypeOK
  <2>6. ExecutableInv'
    <3>1. CASE windows
      <4>1. SU!Whole(backup) /\ backup # target /\ open[u] = target /\ target # NoFile
        BY <1>a, <1>7, <2>1, <3>1 DEF SU!WriteFile, ExecutableInv
      <4>2. content' = [content EXCEPT ![target] = release[u]] \/ content' = content
        BY <1>7, <4>1 DEF SU!WriteFile
      <4>3. content'[backup] = content[backup] /\ (content'[target] = content[target] \/ content'[target] = release[u])
        <5>1. content \in [SU!Files -> Versions \union {SU!Partial}] /\ backup \in SU!Files /\ target \in SU!Files
          BY <1>a, <4>1 DEF UpdateTyped, SU!TypeOK, SU!Whole
        <5> QED
          BY <4>1, <4>2, <5>1
      <4> QED
        BY <1>a, <1>7, <2>1, <2>3, <3>1, <4>1, <4>3 DEF SU!WriteFile, ExecutableInv, SU!Whole,
           Good, UpdateTyped, SU!TypeOK
    <3>2. CASE ~windows
      <4>1. open[u] = staged /\ staged # target /\ staged # NoFile
        BY <1>a, <1>7, <2>1, <3>2 DEF SU!WriteFile, ExecutableInv
      <4>2. /\ content'[target] = content[target]
            /\ at'[u] = "rename" => content'[staged] = release[u]
        <5>1. content \in [SU!Files -> Versions \union {SU!Partial}] /\ staged \in SU!Files
          BY <1>a, <4>1 DEF UpdateTyped, SU!TypeOK
        <5>2. target \in SU!Files
          BY <1>a, <3>2 DEF UpdateTyped, SU!TypeOK, ExecutableInv, SU!Whole
        <5>3. /\ content' = [content EXCEPT ![staged] = release[u]] \/ content' = content
              /\ at'[u] = "rename" => content' = [content EXCEPT ![staged] = release[u]]
          BY <1>a, <1>7, <3>2, <4>1 DEF SU!WriteFile, UpdateTyped, SU!TypeOK
        <5> QED
          BY <4>1, <5>1, <5>2, <5>3
      <4> QED
        BY <1>a, <1>7, <2>3, <3>2, <4>1, <4>2 DEF SU!WriteFile, ExecutableInv, SU!Whole, Good,
           UpdateTyped, SU!TypeOK
    <3> QED
      BY <3>1, <3>2
  <2> QED
    BY <2>2, <2>3, <2>4, <2>5, <2>6 DEF UpdateInv
<1>11. ASSUME NEW u \in Updater, SU!Alone(u), SU!RemoveBackup(u)
       PROVE  UpdateInv'
  <2>1. UpdateTyped'
    BY <1>a, <1>11 DEF SU!RemoveBackup, UpdateTyped, SU!TypeOK, SU!Places
  <2>2. AloneInv' /\ \A v \in Updater \ {u} : at'[v] = at[v] /\ at[v] \in {"start", "over"}
    BY <1>a, <1>11, AloneKept DEF SU!RemoveBackup
  <2>3. OpenInv' /\ DecisionInv'
    BY <1>a, <1>11 DEF SU!RemoveBackup, OpenInv, DecisionInv, MayInstall, Decided, Agreed,
       Installing, UpdateTyped, SU!TypeOK
  <2>4. ExecutableInv'
    BY <1>a, <1>11, <2>2 DEF SU!RemoveBackup, ExecutableInv, SU!Whole, Good, UpdateTyped,
       SU!TypeOK
  <2> QED
    BY <2>1, <2>2, <2>3, <2>4 DEF UpdateInv
<1>12. ASSUME NEW u \in Updater, SU!Alone(u), SU!Kill(u)
       PROVE  UpdateInv'
  <2>1. UpdateTyped'
    BY <1>a, <1>12 DEF SU!Kill, UpdateTyped, SU!TypeOK, SU!Places, SU!directory
  <2>2. AloneInv' /\ \A v \in Updater \ {u} : at'[v] = at[v] /\ at[v] \in {"start", "over"}
    BY <1>a, <1>12, AloneKept DEF SU!Kill
  <2>3. OpenInv' /\ DecisionInv'
    BY <1>a, <1>12 DEF SU!Kill, OpenInv, DecisionInv, MayInstall, Decided, Agreed, Installing,
       UpdateTyped, SU!TypeOK, SU!directory
  <2>4. ExecutableInv'
    BY <1>a, <1>12, <2>2 DEF SU!Kill, ExecutableInv, SU!Whole, Good, UpdateTyped, SU!TypeOK,
       SU!directory
  <2> QED
    BY <2>1, <2>2, <2>3, <2>4 DEF UpdateInv
<1>13. ASSUME SU!Publish \/ UNCHANGED SU!update_vars
       PROVE  UpdateInv'
  <2>1. UNCHANGED <<windows, args, current, release, at, open, SU!directory, consented, verified, status>>
        /\ latest' \in Versions
    BY <1>a, <1>13 DEF SU!Publish, SU!update_vars, UpdateTyped
  <2>2. UpdateTyped'
    BY <1>a, <2>1 DEF UpdateTyped, SU!TypeOK, SU!directory
  <2>3. AloneInv' /\ OpenInv' /\ DecisionInv'
    BY <1>a, <2>1 DEF AloneInv, Active, OpenInv, DecisionInv, MayInstall, SU!directory
  <2>4. ExecutableInv'
    BY <1>a, <2>1 DEF ExecutableInv, SU!Whole, Good, SU!directory
  <2> QED
    BY <2>2, <2>3, <2>4 DEF UpdateInv
<1> QED
  BY <1>1, <1>2, <1>3, <1>4, <1>6, <1>7, <1>8, <1>9, <1>10, <1>11, <1>12, <1>13
  DEF SU!Next, SU!Step, SU!Terminated

\* The invariant of the updates gives their type and their safety.
LEMMA UpdateInvIsEnough == UpdateInv => SU!TypeOK /\ SU!UpdatesAreSafe
BY DEF UpdateInv, UpdateTyped, DecisionInv, MayInstall, ExecutableInv, Good, SU!UpdatesAreSafe,
   SU!Whole

-----------------------------------------------------------------------------
(***************************************************************************)
(* Prober. What ProberProofs proves of the prober holds of the one in here. *)
(***************************************************************************)
PP == INSTANCE ProberProofs

\* ProberProofs and Prober make the same assumption on the constants.
LEMMA ProberAssumed == PP!ProberAssumption <=> PR!ProberAssumption
BY DEF PP!ProberAssumption, PR!ProberAssumption, PP!IsFiniteSet, PR!IsFiniteSet, PP!Kinds,
       PR!Kinds

\* ProberProofs and Prober start in the same states.
LEMMA ProberStarts == PP!Init <=> PR!Init
BY DEF PP!Init, PR!Init, PP!Kinds, PR!Kinds

\* ProberProofs and Prober take the same steps.
LEMMA ProberSteps == PP!Next <=> PR!Next
BY DEF PP!Next, PR!Next, PP!Step, PR!Step, PP!NextPort, PR!NextPort, PP!budgets, PR!budgets,
       PP!pacing, PR!pacing, PP!TcpConnect, PR!TcpConnect, PP!Target, PR!Target, PP!Reserve,
       PR!Reserve, PP!EndProbe, PR!EndProbe, PP!OfPair, PR!OfPair, PP!AcquirePermit,
       PR!AcquirePermit, PP!Cardinality, PR!Cardinality, PP!Throttle, PR!Throttle, PP!OwnGate,
       PR!OwnGate, PP!OwnsGate, PR!OwnsGate, PP!Pass, PR!Pass, PP!Answer, PR!Answer, PP!Cancel,
       PR!Cancel, PP!Leave, PR!Leave, PP!RemoveAt, PR!RemoveAt, PP!Tick, PR!Tick, PP!Kinds,
       PR!Kinds, PP!Sooner, PR!Sooner, PP!Terminated, PR!Terminated, PP!Over, PR!Over,
       PP!prober_vars, PR!prober_vars, PP!scans, PR!scans

\* ProberProofs and Prober type the state alike.
LEMMA ProberTyped == PP!TypeOK <=> PR!TypeOK
BY DEF PP!TypeOK, PR!TypeOK, PP!Kinds, PR!Kinds, PP!Places, PR!Places

\* ProberProofs and Prober promise hosts the same.
LEMMA ProberSpares == PP!HostsAreSpared <=> PR!HostsAreSpared
BY DEF PP!HostsAreSpared, PR!HostsAreSpared, PP!Kinds, PR!Kinds, PP!Cardinality, PR!Cardinality,
       PP!Over, PR!Over

\* The prober's invariant holds at the start of the composition.
LEMMA ProberInit == PR!ProberAssumption /\ PR!Init => PP!IInv
BY ProberAssumed, ProberStarts, PP!InitIInv

\* A step of the prober, or of another component, keeps the prober's invariant.
LEMMA ProberNext ==
    PR!ProberAssumption /\ PP!IInv /\ (PR!Next \/ UNCHANGED prober_all) => PP!IInv'
<1>1. UNCHANGED prober_all => UNCHANGED PP!prober_vars
  BY DEF prober_all, PP!prober_vars, PP!budgets, PP!pacing, PP!scans
<1> QED
  BY <1>1, ProberAssumed, ProberSteps, PP!NextIInv

\* The prober's invariant gives its type and spares the hosts.
LEMMA ProberInvIsEnough == PR!ProberAssumption /\ PP!IInv => PR!TypeOK /\ PR!HostsAreSpared
BY ProberAssumed, ProberTyped, ProberSpares, PP!DataIsTyped, PP!InvSparesHosts DEF PP!IInv

-----------------------------------------------------------------------------
(***************************************************************************)
(* All of them.                                                            *)
(***************************************************************************)
ComponentsInv ==
    /\ component \in Names
    /\ PortalInv /\ KeysInv /\ PP!IInv /\ ScanInv /\ ProgressInv /\ ReportInv /\ UpdateInv
    /\ Of("rules", RulesInv) /\ Of("rules", TextsInv)

\* The components' assumptions, one by one.
LEMMA Assumed ==
    /\ PO!PortalAssumption /\ HK!HostKeysAssumption /\ PR!ProberAssumption /\ LS!LocalScanAssumption
    /\ RW!ReportWriterAssumption /\ SU!SelfUpdateAssumption /\ RU!RulesAssumption
BY ComponentsAssumption

\* Every component starts in its own invariant.
LEMMA ComponentsInit == Init => ComponentsInv
<1> SUFFICES ASSUME Init PROVE ComponentsInv
  OBVIOUS
<1>1. /\ component \in Names
      /\ PO!Init /\ HK!Init /\ PR!Init /\ LS!Init /\ PG!Init /\ RW!Init /\ SU!Init
      /\ component = "rules" => RU!Init
  BY DEF Init
<1>2. PortalInv /\ KeysInv /\ PP!IInv /\ ScanInv
  BY <1>1, Assumed, PortalInit, KeysInit, ProberInit, ScanInit
<1>3. ProgressInv /\ ReportInv /\ UpdateInv
  BY <1>1, Assumed, ProgressInit, ReportInit, UpdateInit
<1>4. Of("rules", RulesInv) /\ Of("rules", TextsInv)
  BY <1>1, Assumed, RulesInit, TextsInit DEF Of
<1> QED
  BY <1>1, <1>2, <1>3, <1>4 DEF ComponentsInv

\* A step of one component keeps its invariant and stutters for the others.
LEMMA ComponentsNext == ComponentsInv /\ [Next]_all => ComponentsInv'
<1> SUFFICES ASSUME ComponentsInv, [Next]_all PROVE ComponentsInv'
  OBVIOUS
<1>1. /\ UNCHANGED component
      /\ PO!Next \/ UNCHANGED portal_all
      /\ HK!Next \/ UNCHANGED keys_all
      /\ PR!Next \/ UNCHANGED prober_all
      /\ LS!Next \/ UNCHANGED scan_all
      /\ PG!Next \/ UNCHANGED progress_all
      /\ RW!Next \/ UNCHANGED report_all
      /\ SU!Next \/ UNCHANGED update_all
      /\ RU!Next \/ UNCHANGED rules_all
  BY DEF Next, all
<1>2. component' \in Names
  BY <1>1 DEF ComponentsInv
<1>3. KeysInv'
  <2>1. UNCHANGED keys_all => UNCHANGED HK!vars
    BY DEF keys_all, HK!vars, HK!book_vars
  <2> QED
    BY <1>1, <2>1, Assumed, KeysNext DEF ComponentsInv
<1>4. PP!IInv'
  BY <1>1, Assumed, ProberNext DEF ComponentsInv
<1>5. ScanInv'
  <2>1. UNCHANGED scan_all => UNCHANGED LS!scan_vars
    BY DEF scan_all, LS!scan_vars, LS!settings, LS!environment
  <2> QED
    BY <1>1, <2>1, Assumed, ScanNext DEF ComponentsInv
<1>6. ProgressInv'
  <2>1. UNCHANGED progress_all => UNCHANGED PG!progress_vars
    BY DEF progress_all, PG!progress_vars
  <2> QED
    BY <1>1, <2>1, ProgressNext DEF ComponentsInv
<1>7. ReportInv'
  <2>1. UNCHANGED report_all => UNCHANGED RW!writer_vars
    BY DEF report_all, RW!writer_vars
  <2> QED
    BY <1>1, <2>1, Assumed, ReportNext DEF ComponentsInv
<1>8. UpdateInv'
  <2>1. UNCHANGED update_all => UNCHANGED SU!update_vars
    BY DEF update_all, SU!update_vars, SU!directory
  <2> QED
    BY <1>1, <2>1, Assumed, UpdateNext DEF ComponentsInv
<1>9. Of("rules", RulesInv)'
  BY <1>1, RulesNext DEF ComponentsInv, Of
<1>11. Of("rules", TextsInv)'
  BY <1>1, TextsNext DEF ComponentsInv, Of
<1>10. PortalInv'
  BY <1>1, Assumed, PortalNext DEF ComponentsInv
<1> QED
  BY <1>2, <1>3, <1>4, <1>5, <1>6, <1>7, <1>8, <1>9, <1>10, <1>11 DEF ComponentsInv

\* All the components' invariants hold in every state of the composition.
LEMMA Invariance == Spec => []ComponentsInv
<1>1. Init => ComponentsInv
  BY ComponentsInit
<1>2. ComponentsInv /\ [Next]_all => ComponentsInv'
  BY ComponentsNext
<1> QED
  BY <1>1, <1>2, PTL DEF Spec

-----------------------------------------------------------------------------
(* Theorems *)

\* The state of every component has its type.
THEOREM TypeCorrect == Spec => []TypeOK
<1>1. ComponentsInv => TypeOK
  <2> SUFFICES ASSUME ComponentsInv PROVE TypeOK
    OBVIOUS
  <2>1. PO!TypeOK /\ HK!TypeOK /\ PR!TypeOK
    BY Assumed, PortalInvIsEnough, KeysInvIsEnough, ProberInvIsEnough DEF ComponentsInv
  <2>2. LS!TypeOK /\ PG!TypeOK /\ RW!TypeOK /\ SU!TypeOK
    BY Assumed, ScanInvIsEnough, ProgressInvIsEnough, UpdateInvIsEnough DEF ComponentsInv,
       ReportInv
  <2> QED
    BY <2>1, <2>2 DEF TypeOK, Of, ComponentsInv, RulesInv
<1> QED
  BY <1>1, Invariance, PTL

\* An answer shows what its secret was granted, all of it that was on file and the newest first,
\* and two budgets at most pass in the time of one (Portal: portal.rs, rate_limit.rs).
THEOREM PortalAnswersInScope == Spec => []PortalIsScoped
<1>1. ComponentsInv => PortalIsScoped
  BY Assumed, PortalInvIsEnough DEF ComponentsInv, PortalIsScoped, Of
<1> QED
  BY <1>1, Invariance, PTL

\* Who is turned away has sent a whole budget of requests itself within the last window
\* (Portal: rate_limit.rs).
THEOREM DeniedForOwnRequests == Spec => OnlyOwnRequestsDeny
<1> DEFINE Fair == \A w \in Worker :
                     (pc[w] = "limit" /\ pc'[w] = "answered" /\ stamp[w] = now) =>
                        PO!Cardinality({a \in admitted : a.caller = PO!Caller(req[w])}) >= BUDGET
<1>1. ComponentsInv /\ [Next]_all => Fair
  <2>1. [Next]_all => PO!Next \/ UNCHANGED portal_all
    BY DEF Next, all
  <2> QED
    BY <2>1, Assumed, PortalDenies DEF ComponentsInv
<1>2. [][Fair]_PO!vars => OnlyOwnRequestsDeny
  BY DEF OnlyOwnRequestsDeny, PO!OnlyOwnRequestsDeny
<1>3. UNCHANGED all => UNCHANGED PO!vars
  BY DEF all, portal_all, PO!vars, PO!config, PO!limit, PO!reads
<1> HIDE DEF Fair
<1>4. ComponentsInv /\ [Next]_all => [Fair]_PO!vars
  BY <1>1
<1> QED
  BY <1>2, <1>4, Invariance, PTL DEF Spec

\* Keys are pinned, a changed one ends the scan of its host for good, and the server is
\* offered nothing but the identities that the inventory names (HostKeys: handler.rs).
THEOREM HostKeysArePinned == Spec => []TrustIsPinned
<1>1. ComponentsInv => TrustIsPinned
  BY Assumed, KeysInvIsEnough DEF ComponentsInv, TrustIsPinned, Of
<1> QED
  BY <1>1, Invariance, PTL

\* No address is probed by more than its limit at once, nor more often than its budget, nor
\* where it is excluded, whoever is cancelled (Prober: prober.rs, tls_probe.rs).
THEOREM ProbedHostsAreSpared == Spec => []HostsAreSpared
<1>1. ComponentsInv => HostsAreSpared
  BY Assumed, ProberInvIsEnough DEF ComponentsInv, HostsAreSpared, Of
<1> QED
  BY <1>1, Invariance, PTL

\* A snapshot that is kept has every socket that was listed and none of port 0, says of
\* processes only what was so and only what was asked for; one is in the store or whole on
\* stdout only with exit code 0, and with that code it is, but for what stdout may lose as the
\* program ends (LocalScan: collect.rs and the CLI's scan.rs).
THEOREM LocalScansAreTruthful == Spec => []ScansAreTruthful
<1>1. ComponentsInv => ScansAreTruthful
  BY Assumed, ScanInvIsEnough DEF ComponentsInv, ScansAreTruthful, Of
<1> QED
  BY <1>1, Invariance, PTL

\* Spinners end once, reports are whole, and updates one after the other leave a whole
\* executable that somebody agreed to (Progress, ReportWriter, SelfUpdate).
THEOREM WhatIsLeftIsWhole == Spec => []LeftoversAreWhole
<1>1. ReportInv => RW!ReportsAreWhole
  BY DEF ReportInv
<1>2. ComponentsInv => LeftoversAreWhole
  BY <1>1, ProgressInvIsEnough, UpdateInvIsEnough DEF ComponentsInv, LeftoversAreWhole, Of
<1> QED
  BY <1>2, Invariance, PTL

\* A verdict follows from the rules that concern its endpoint and from nothing else, in whatever
\* order they come - loopback before all, a block before any allow, an allow before the default -
\* and names them; a text of ports is refused or opens the ports its parts name; and every durable
\* row of WMI becomes the rules that it stands for, with its own filters, or none is read (Rules:
\* reachability.rs, profile_ports.rs, port_spec.rs, firewall_join.rs, firewall_mapping.rs).
THEOREM VerdictsFollowFromTables == Spec => []VerdictsAreSound
<1>1. ComponentsInv => VerdictsAreSound
  BY Assumed, RulesInvIsEnough DEF ComponentsInv, VerdictsAreSound, Of
<1> QED
  BY <1>1, Invariance, PTL

\* An identity above "assigned" stands on evidence that is not a port and its version on a text it
\* matched; a conflict needs the host's view and the probe's; a pattern is refused for a group that
\* holds a quantifier and has one, and for nothing else but its length; and every weak key and
\* broken link of a chain is a finding, and every finding in the evidence (Rules: fingerprint.rs,
\* service_identity.rs, port_registry.rs, reconciliation.rs, tls_probe.rs).
THEOREM NamesFollowFromEvidence == Spec => []NamesAreEarned
<1>1. ComponentsInv => NamesAreEarned
  BY Assumed, NamesInvIsEnough DEF ComponentsInv, NamesAreEarned, Of
<1> QED
  BY <1>1, Invariance, PTL

\* A body is the beginning of what was sent, within its cap, and no longer when decoded, and a
\* header that may hold a secret is not quoted; what is claimed of a text is left out of it, in
\* order, and every match is claimed or meets a claim; a ruleset is read from an ended dump only
\* and says of every chain heard what its policy says, and no rule or endpoint is made up; the last
\* layer of the configuration wins and a command ends clean only for what it could read and write;
\* a release verifies just when its artifacts are what they were; and no exclusion is passed over
\* (Rules: prober.rs, redaction.rs, nft_wire.rs, payload.rs, proc_net.rs, config, report.rs,
\* inventory.rs, xtask, identify.rs).
THEOREM TextsStayContained == Spec => []TextsAreContained
<1>1. ComponentsInv => TextsAreContained
  BY Assumed, TextsInvIsEnough DEF ComponentsInv, TextsAreContained, Of
<1> QED
  BY <1>1, Invariance, PTL

=============================================================================
