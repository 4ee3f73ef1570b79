------------------------------ MODULE ReportWriter ------------------------------
(***************************************************************************)
(* write_atomically_with (adapters/report_writer.rs): several processes    *)
(* write reports to one output path, each through a temporary file of its  *)
(* own beside it, while others read the output. Any operation may fail, and *)
(* a process may be killed between any two.                                *)
(***************************************************************************)
EXTENDS Naturals, FiniteSets

CONSTANTS
    Writer,         \* calls of write_atomically_with; each writes its own report
    NoReport, Torn  \* no file; a file that is not complete

ReportWriterAssumption == NoReport \notin Writer /\ Torn \notin Writer

VARIABLES
    output,         \* the file at the output path: whose report it is
    temporary,      \* per call: its temporary file
    writing,        \* per call: its place
    told_written    \* history: the calls that returned Ok, the last one last

writer_vars == <<output, temporary, writing, told_written>>

Init ==
    /\ output = NoReport
    /\ temporary = [w \in Writer |-> NoReport]
    /\ writing = [w \in Writer |-> "create"]
    /\ told_written = {}

Go(w, there) == writing' = [writing EXCEPT ![w] = there]

\* temp_path_for refuses a path without a file name; create_new may fail.
Create(w) ==
    /\ writing[w] = "create"
    /\ \/ temporary' = [temporary EXCEPT ![w] = Torn] /\ Go(w, "write")
       \/ Go(w, "failed") /\ UNCHANGED temporary
    /\ UNCHANGED <<output, told_written>>

\* write_fn writes the report, piece by piece.
Write(w) ==
    /\ writing[w] = "write"
    /\ \/ temporary' = [temporary EXCEPT ![w] = w] /\ Go(w, "sync")
       \/ Go(w, "cleanup") /\ UNCHANGED temporary
    /\ UNCHANGED <<output, told_written>>

Sync(w) ==
    /\ writing[w] = "sync"
    /\ Go(w, "rename") \/ Go(w, "cleanup")
    /\ UNCHANGED <<output, temporary, told_written>>

\* Mutant: the temporary file of a failed write is renamed all the same.
CleanupRenames(w) ==
    /\ writing[w] = "cleanup"
    /\ Go(w, "failed")
    /\ output' = temporary[w]
    /\ temporary' = [temporary EXCEPT ![w] = NoReport]
    /\ UNCHANGED told_written

\* A failed write removes what it made.
Cleanup(w) ==
    /\ writing[w] = "cleanup"
    /\ Go(w, "failed")
    /\ temporary' = [temporary EXCEPT ![w] = NoReport]
    /\ UNCHANGED <<output, told_written>>

\* fs::rename, the last expression.
Rename(w) ==
    /\ writing[w] = "rename"
    /\ \/ /\ output' = temporary[w]
          /\ temporary' = [temporary EXCEPT ![w] = NoReport]
          /\ Go(w, "written")
          /\ told_written' = told_written \union {w}
       \/ Go(w, "failed") /\ UNCHANGED <<output, temporary, told_written>>

\* The process is killed.
Kill(w) ==
    /\ writing[w] \in {"create", "write", "sync", "cleanup", "rename"}
    /\ Go(w, "killed")
    /\ UNCHANGED <<output, temporary, told_written>>

Terminated ==
    /\ \A w \in Writer : writing[w] \in {"written", "failed", "killed"}
    /\ UNCHANGED writer_vars

Next ==
    \/ \E w \in Writer :
         Create(w) \/ Write(w) \/ Sync(w) \/ Cleanup(w) \/ Rename(w) \/ Kill(w)
    \/ Terminated

Spec == Init /\ [][Next]_writer_vars

TypeOK ==
    /\ output \in Writer \union {NoReport, Torn}
    /\ temporary \in [Writer -> Writer \union {NoReport, Torn}]
    /\ writing \in [Writer -> {"create", "write", "sync", "cleanup", "rename", "written",
                               "failed", "killed"}]
    /\ told_written \subseteq Writer

\* A reader of the output finds no report or a complete one, of a writer that was told
\* so; and once a writer was told, there is a report. Neither a failure nor a kill of
\* one writer disturbs the report of another.
ReportsAreWhole ==
    /\ output # NoReport => output \in told_written
    /\ told_written # {} => output # NoReport

\* "On failure, this cleans up its own temp file": report_writer.rs, of the temp file that
\* "can't be created, written, or renamed".
FailureCleansUp == \A w \in Writer : writing[w] = "failed" => temporary[w] = NoReport

=============================================================================
