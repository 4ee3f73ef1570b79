------------------------------- MODULE SelfUpdate -------------------------------
(***************************************************************************)
(* anne update (the CLI's application/update.rs and                        *)
(* adapters/github_release.rs): look a release up, ask, download, compare   *)
(* the digest, replace the executable. On Unix the new bytes go to one     *)
(* fixed temporary file, which is then renamed; on Windows the running     *)
(* executable is renamed away and the new one written in its place.        *)
(*                                                                         *)
(* A version is a number, and stands for its bytes. A name in the          *)
(* directory leads to a file; who has a file open writes to that file,     *)
(* whatever names lead to it by then. An update can be killed at any       *)
(* moment and be started again.                                            *)
(***************************************************************************)
EXTENDS Naturals, FiniteSets

CONSTANTS
    Updater,        \* runs of anne update
    Versions,       \* the releases
    INSTALLED,      \* the version installed first
    NoFile

Partial == 0        \* a file that is not complete

SelfUpdateAssumption ==
    /\ IsFiniteSet(Updater)
    /\ Versions \subseteq Nat \ {Partial} /\ INSTALLED \in Versions
    /\ NoFile \notin Nat

VARIABLES
    windows,        \* the operating system
    published,      \* is there an asset for this platform?
    latest,         \* the release GitHub calls latest
    args,           \* per run: --check, --yes, and the version asked for (0: the latest)
    current,        \* per run: its own version
    release,        \* per run: the version it may install
    at,             \* per run: its place
    open,           \* per run: the file it writes
    target, staged, backup,     \* the files behind the three names
    content,        \* per file: what is in it
    consented,      \* history: the versions an operator agreed to
    verified,       \* history: the versions whose digest was found right
    status          \* per run: "none", "clean", "updated" or an error's exit code

directory == <<target, staged, backup, content>>
update_vars == <<windows, published, latest, args, current, release, at, open, directory,
                 consented, verified, status>>

Files == 0 .. 2 * Cardinality(Updater)
Unused == Files \ {target, staged, backup}
Fresh == CHOOSE f \in Unused : \A u \in Updater : open[u] # f

Init ==
    /\ windows \in BOOLEAN /\ published \in BOOLEAN
    /\ latest \in Versions
    /\ args \in [Updater -> [check : BOOLEAN, yes : BOOLEAN, version : {0} \union Versions]]
    /\ current = [u \in Updater |-> 0]
    /\ release = [u \in Updater |-> 0]
    /\ at = [u \in Updater |-> "start"]
    /\ open = [u \in Updater |-> NoFile]
    /\ target = 0 /\ staged = NoFile /\ backup = NoFile
    /\ content = [f \in Files |-> IF f = 0 THEN INSTALLED ELSE Partial]
    /\ consented = {} /\ verified = {}
    /\ status = [u \in Updater |-> "none"]

environment == <<windows, published, latest, args>>
Go(u, there) == at' = [at EXCEPT ![u] = there]
Exit(u, what) == Go(u, "over") /\ status' = [status EXCEPT ![u] = what]

\* The executable is started: only a whole one runs, and it knows its version.
Start(u) ==
    /\ at[u] = "start" /\ target # NoFile
    /\ IF content[target] = Partial THEN Exit(u, "error") /\ UNCHANGED current
       ELSE /\ current' = [current EXCEPT ![u] = content[target]]
            /\ Go(u, "look_up") /\ UNCHANGED status
    /\ UNCHANGED <<environment, release, open, directory, consented, verified>>

\* Mutant: an older latest release is installed, too.
DecideDowngrades(u) ==
    LET found == IF args[u].version = 0 THEN latest ELSE args[u].version
    IN  /\ at[u] = "look_up"
        /\ release' = [release EXCEPT ![u] = found]
        /\ \/ Exit(u, "error")
           \/ args[u].check /\ Exit(u, "clean")
           \/ ~args[u].check /\ ~published /\ Exit(u, "error")
           \/ ~args[u].check /\ published /\ Go(u, "confirm") /\ UNCHANGED status
        /\ UNCHANGED <<environment, current, open, directory, consented, verified>>

\* ReleaseSource::release, then --check, the comparison of versions and the asset's name.
Decide(u) ==
    LET found == IF args[u].version = 0 THEN latest ELSE args[u].version
        no_newer == found =< current[u] /\ args[u].version = 0
    IN  /\ at[u] = "look_up"
        /\ release' = [release EXCEPT ![u] = found]
        /\ \/ Exit(u, "error")
           \/ (args[u].check \/ no_newer) /\ Exit(u, "clean")
           \/ ~args[u].check /\ ~no_newer /\ ~published /\ Exit(u, "error")
           \/ /\ ~args[u].check /\ ~no_newer /\ published
              /\ Go(u, "confirm") /\ UNCHANGED status
        /\ UNCHANGED <<environment, current, open, directory, consented, verified>>

\* decide_confirmation: --yes, no terminal, or an answer.
Confirm(u) ==
    /\ at[u] = "confirm"
    /\ \/ /\ Go(u, "download") /\ UNCHANGED status
          /\ consented' = consented \union {release[u]}
       \/ ~args[u].yes /\ Exit(u, "clean") /\ UNCHANGED consented
       \/ ~args[u].yes /\ Exit(u, "config_or_arg_error") /\ UNCHANGED consented
    /\ UNCHANGED <<environment, current, release, open, directory, verified>>

\* Mutant: the digest is printed, not compared.
DownloadUnverified(u) ==
    /\ at[u] = "download"
    /\ Go(u, "replace") /\ UNCHANGED <<status, verified>>
    /\ UNCHANGED <<environment, current, release, open, directory, consented>>

\* The asset and SHA256SUMS.txt; a digest that is missing or different ends the update.
Download(u) ==
    /\ at[u] = "download"
    /\ \/ /\ Go(u, "replace") /\ UNCHANGED status
          /\ verified' = verified \union {release[u]}
       \/ Exit(u, "error") /\ UNCHANGED verified
    /\ UNCHANGED <<environment, current, release, open, directory, consented>>

-----------------------------------------------------------------------------
Created(f) == content' = [content EXCEPT ![f] = Partial]
Fail(u) == Exit(u, "error") /\ UNCHANGED <<open, directory>>

\* fs::write opens and truncates the temporary file, or creates it.
OpenStaged(u) ==
    /\ at[u] = "replace" /\ ~windows
    /\ \/ /\ staged' = IF staged = NoFile THEN Fresh ELSE staged
          /\ open' = [open EXCEPT ![u] = staged']
          /\ Created(staged')
          /\ Go(u, "write") /\ UNCHANGED <<target, backup, status>>
       \/ Fail(u)
    /\ UNCHANGED <<environment, current, release, consented, verified>>

\* The bytes are written to the file that was opened; a failure leaves it torn.
WriteFile(u) ==
    /\ at[u] = "write"
    /\ \/ /\ content' = [content EXCEPT ![open[u]] = release[u]]
          /\ IF windows THEN Exit(u, "updated") ELSE Go(u, "rename") /\ UNCHANGED status
       \/ Exit(u, "error") /\ UNCHANGED content
    /\ open' = [open EXCEPT ![u] = NoFile]
    /\ UNCHANGED <<environment, current, release, target, staged, backup, consented, verified>>

\* set_permissions and fs::rename, both by name.
RenameStaged(u) ==
    /\ at[u] = "rename"
    /\ \/ /\ staged # NoFile
          /\ target' = staged /\ staged' = NoFile
          /\ Exit(u, "updated")
          /\ UNCHANGED <<open, backup, content>>
       \/ Fail(u)
    /\ UNCHANGED <<environment, current, release, consented, verified>>

\* Windows: the last backup goes, if it can, ...
RemoveBackup(u) ==
    /\ at[u] = "replace" /\ windows
    /\ backup' \in {backup, NoFile}
    /\ Go(u, "move_away")
    /\ UNCHANGED <<environment, current, release, open, target, staged, content, consented,
                   verified, status>>

\* ... the executable becomes the backup, ...
MoveAway(u) ==
    /\ at[u] = "move_away"
    /\ \/ /\ target # NoFile /\ backup' = target /\ target' = NoFile
          /\ Go(u, "create")
          /\ UNCHANGED <<open, staged, content, status>>
       \/ Fail(u)
    /\ UNCHANGED <<environment, current, release, consented, verified>>

\* ... and the new one is written where it was.
CreateTarget(u) ==
    /\ at[u] = "create"
    /\ \/ /\ target' = IF target = NoFile THEN Fresh ELSE target
          /\ open' = [open EXCEPT ![u] = target']
          /\ Created(target')
          /\ Go(u, "write") /\ UNCHANGED <<staged, backup, status>>
       \/ Fail(u)
    /\ UNCHANGED <<environment, current, release, consented, verified>>

Kill(u) ==
    /\ at[u] \notin {"start", "over"}
    /\ Exit(u, "killed")
    /\ open' = [open EXCEPT ![u] = NoFile]
    /\ UNCHANGED <<environment, current, release, directory, consented, verified>>

\* Somebody publishes another release.
Publish ==
    /\ latest' \in Versions \ {latest}
    /\ \E u \in Updater : at[u] = "start"
    /\ UNCHANGED <<windows, published, args, current, release, at, open, directory, consented,
                   verified, status>>

Terminated ==
    /\ \A u \in Updater : at[u] = "over" \/ (at[u] = "start" /\ target = NoFile)
    /\ UNCHANGED update_vars

Step(u) ==
    \/ Start(u) \/ Decide(u) \/ Confirm(u) \/ Download(u)
    \/ OpenStaged(u) \/ WriteFile(u) \/ RenameStaged(u)
    \/ RemoveBackup(u) \/ MoveAway(u) \/ CreateTarget(u) \/ Kill(u)

Alone(u) == \A v \in Updater \ {u} : at[v] \in {"start", "over"}

\* Updates run one after the other: two at once would share the temporary file beside the
\* executable.
Next == (\E u \in Updater : Alone(u) /\ Step(u)) \/ Publish \/ Terminated

Spec == Init /\ [][Next]_update_vars

-----------------------------------------------------------------------------
Places == {"start", "look_up", "confirm", "download", "replace", "write", "rename",
           "move_away", "create", "over"}

TypeOK ==
    /\ target \in Files \union {NoFile} /\ staged \in Files \union {NoFile}
    /\ backup \in Files \union {NoFile}
    /\ content \in [Files -> Versions \union {Partial}]
    /\ at \in [Updater -> Places]
    /\ status \in [Updater -> {"none", "clean", "updated", "error", "config_or_arg_error",
                               "killed"}]

Whole(f) == f # NoFile /\ content[f] # Partial

\* Updates one after the other, killed or failed anywhere, leave a complete executable: on
\* Unix under its name at every moment, on Windows there or as the backup beside it. A
\* complete one is the first or one whose digest was right and that somebody agreed to;
\* and none is older than the one that replaced itself unless that version was asked for.
UpdatesAreSafe ==
    /\ Whole(target) \/ (windows /\ Whole(backup))
    /\ Whole(target) => content[target] \in {INSTALLED} \union (verified \intersect consented)
    /\ \A u \in Updater : status[u] = "updated" =>
         /\ ~args[u].check
         /\ args[u].version = 0 => release[u] > current[u]

=============================================================================
