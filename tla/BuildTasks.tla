------------------------------- MODULE BuildTasks -------------------------------
(***************************************************************************)
(* The tasks a release runs (xtask/src): the manifest of checksums, the    *)
(* annotations of the scorecard, the check of a binary's imports and the   *)
(* vendoring of fonts. Files are functions from names to contents; the     *)
(* digest of a content is external, and differs where contents differ.     *)
(***************************************************************************)
EXTENDS Selection

CONSTANT NameOrder \* the order of the lines of a manifest

Digest(content) == <<"sha256", content>>

-----------------------------------------------------------------------------
\* checksum.rs: an artifact is a name and a content; a line names the file, not its directory.
ChecksumLine(artifact) == [digest |-> Digest(artifact.content), name |-> artifact.name]

WriteManifest(artifacts) ==
    Sorted([i \in DOMAIN artifacts |-> ChecksumLine(artifacts[i])],
           LAMBDA a, b : NameOrder[a.digest] < NameOrder[b.digest])

\* Every line must parse, name a file that is there, and hold its digest.
VerifyManifest(lines, directory) ==
    \A i \in DOMAIN lines :
       /\ lines[i].name \in DOMAIN directory
       /\ lines[i].digest = Digest(directory[lines[i].name])

-----------------------------------------------------------------------------
\* scorecard_annotations.rs: a line is how far it is indented and what it holds.
VALID_REASONS == {"test-data", "remediated", "not-applicable", "not-supported", "not-detected"}

Blank(line) == line.content \in {"", "#"}

Wrong == [ok |-> FALSE]
Unread == [ok |-> TRUE, annotations |-> <<>>, section |-> "none", seen |-> FALSE]

AppendTo(state, field, value) ==
    [state EXCEPT !.annotations[Len(state.annotations)][field] = Append(@, value)]

ParseItem(state, line) ==
    CASE state.annotations = <<>> \/ line.value = "" -> Wrong
      [] state.annotations # <<>> /\ line.value # "" /\ state.section = "checks" ->
           AppendTo(state, "checks", line.value)
      [] state.annotations # <<>> /\ line.value # "" /\ state.section = "reasons" ->
           IF line.reason THEN AppendTo(state, "reasons", line.value) ELSE Wrong
      [] OTHER -> Wrong

ParseLine(state, line) ==
    CASE ~state.ok \/ Blank(line) -> state
      [] line.indent = 0 /\ line.content = "annotations:" /\ state.ok /\ ~state.seen ->
           [state EXCEPT !.seen = TRUE]
      [] line.indent = 2 /\ line.content = "- checks:" /\ state.ok /\ state.seen ->
           [state EXCEPT !.annotations = Append(@, [checks |-> <<>>, reasons |-> <<>>]),
                         !.section = "checks"]
      [] line.indent = 4 /\ line.content = "reasons:" /\ state.ok /\ state.annotations # <<>> ->
           [state EXCEPT !.section = "reasons"]
      [] line.indent = 6 /\ line.content = "- item" /\ state.ok -> ParseItem(state, line)
      [] OTHER -> Wrong

ParseAnnotations(lines) ==
    LET state[i \in 0 .. Len(lines)] ==
          IF i = 0 THEN Unread ELSE ParseLine(state[i - 1], lines[i])
        read == state[Len(lines)]
    IN  IF read.ok /\ read.seen THEN read ELSE Wrong

\* Names of checks are modulo case; the empty list is refused, of either kind.
ValidateAnnotations(annotations, valid_checks) ==
    \A i \in DOMAIN annotations :
       LET a == annotations[i]
       IN  /\ a.checks # <<>> /\ ToSet(a.checks) \subseteq valid_checks
           /\ a.reasons # <<>> /\ ToSet(a.reasons) \subseteq VALID_REASONS

ScorecardAccepts(lines, valid_checks) ==
    LET read == ParseAnnotations(lines)
    IN  read.ok /\ ValidateAnnotations(read.annotations, valid_checks)

-----------------------------------------------------------------------------
\* verify_static.rs, build_windows.rs: imports are the names of libraries.
NamesDynamicCrtDll(imports) == imports \cap {"vcruntime", "msvcp"} # {}

\* The task ends well only when the tools did, and the binary needs no such library.
VerifyStatic(objdump, imports) == objdump = "ok" /\ ~NamesDynamicCrtDll(imports)
BuildWindows(xwin, objdump, imports) == xwin = "ok" /\ VerifyStatic(objdump, imports)

\* vendor_fonts.rs: fonts are written one by one, and the manifest after the last. A font that
\* cannot be made ends the task with the earlier ones already replaced.
VendorFonts(fonts, outcome, assets) ==
    LET failed == {i \in DOMAIN fonts : outcome[fonts[i]] # "woff2"}
        made == IF failed = {} THEN fonts
                ELSE SubSeq(fonts, 1, (CHOOSE i \in failed : \A j \in failed : i <= j) - 1)
    IN  [assets |-> [f \in DOMAIN assets.files |->
                       IF f \in ToSet(made) THEN "new" ELSE assets.files[f]],
         manifest |-> IF failed = {} THEN fonts ELSE assets.manifest, ok |-> failed = {}]

=============================================================================
