-------------------------------- MODULE Progress --------------------------------
(***************************************************************************)
(* IndicatifProgress, the reporter a fleet scan shares between its tasks   *)
(* (adapters/progress.rs): a spinner per host. A task starts its host's    *)
(* spinner and ends it; the join loop ends the spinner of a task that      *)
(* panicked (application/fanout.rs). The CLI calls finish after the run;   *)
(* a run that unwinds never does, and leaves the rest to Drop, once the    *)
(* last task has let go of the reporter. Without a terminal there is no    *)
(* spinner at all.                                                         *)
(***************************************************************************)
EXTENDS Naturals, FiniteSets

CONSTANT Reported   \* the hosts of the run

VARIABLES
    terminal,       \* choose_adapter: is stderr a terminal?
    bars,           \* IndicatifProgress::bars: the hosts with an entry
    spinner,        \* per host: "none", "ticking" or how it ended
    finished,       \* IndicatifProgress::finished
    finish_calls,   \* IndicatifProgress::finish_calls
    task,           \* per host: "new", "running", "panicked" or "over"
    told,           \* history, per host: the outcome host_finished was told
    run             \* "joining", "returned", "unwound" or "dropped"

progress_vars == <<terminal, bars, spinner, finished, finish_calls, task, told, run>>

Glyphs == {"done", "failed", "timed out"}

Init ==
    /\ terminal \in BOOLEAN
    /\ bars = {}
    /\ spinner = [h \in Reported |-> "none"]
    /\ finished = FALSE
    /\ finish_calls = 0
    /\ task = [h \in Reported |-> "new"]
    /\ told = [h \in Reported |-> "none"]
    /\ run = "joining"

\* host_started: the spinner ticks, then it is put into the map.
HostStarted(h) ==
    /\ task[h] = "new" /\ run \in {"joining", "unwound"}
    /\ task' = [task EXCEPT ![h] = "running"]
    /\ bars' = IF terminal THEN bars \union {h} ELSE bars
    /\ spinner' = IF terminal THEN [spinner EXCEPT ![h] = "ticking"] ELSE spinner
    /\ UNCHANGED <<terminal, finished, finish_calls, told, run>>

\* Mutant: an ended spinner stays in the map.
EndSpinnerKeeps(h, glyph) ==
    /\ bars' = bars
    /\ spinner' = IF h \in bars THEN [spinner EXCEPT ![h] = glyph] ELSE spinner
    /\ told' = [told EXCEPT ![h] = glyph]

\* host_finished: an entry that is still there is removed and ended.
EndSpinner(h, glyph) ==
    /\ bars' = bars \ {h}
    /\ spinner' = IF h \in bars THEN [spinner EXCEPT ![h] = glyph] ELSE spinner
    /\ told' = [told EXCEPT ![h] = glyph]

\* The task's own call at its end.
HostFinished(h) ==
    /\ task[h] = "running"
    /\ \E glyph \in Glyphs : EndSpinner(h, glyph)
    /\ task' = [task EXCEPT ![h] = "over"]
    /\ UNCHANGED <<terminal, finished, finish_calls, run>>

TaskPanics(h) ==
    /\ task[h] = "running"
    /\ task' = [task EXCEPT ![h] = "panicked"]
    /\ UNCHANGED <<terminal, bars, spinner, finished, finish_calls, told, run>>

\* The join loop speaks for the task.
JoinPanicked(h) ==
    /\ task[h] = "panicked" /\ run = "joining"
    /\ EndSpinner(h, "failed")
    /\ task' = [task EXCEPT ![h] = "over"]
    /\ UNCHANGED <<terminal, finished, finish_calls, run>>

RunReturns ==
    /\ run = "joining" /\ \A h \in Reported : task[h] = "over"
    /\ run' = "returned"
    /\ UNCHANGED <<terminal, bars, spinner, finished, finish_calls, task, told>>

\* The caller of run_fanout unwinds or is dropped: its JoinSet aborts the tasks,
\* each at its next await.
RunUnwinds ==
    /\ run = "joining"
    /\ run' = "unwound"
    /\ UNCHANGED <<terminal, bars, spinner, finished, finish_calls, task, told>>

TaskAborted(h) ==
    /\ run = "unwound" /\ task[h] # "over"
    /\ task' = [task EXCEPT ![h] = "over"]
    /\ UNCHANGED <<terminal, bars, spinner, finished, finish_calls, told, run>>

Abandon(as) == spinner' = [h \in Reported |-> IF h \in bars THEN as ELSE spinner[h]]

\* finish, which some caller may call again.
Finish ==
    /\ run = "returned"
    /\ IF terminal /\ ~finished
       THEN /\ finished' = TRUE /\ finish_calls' = finish_calls + 1
            /\ Abandon("abandoned") /\ bars' = {}
       ELSE UNCHANGED <<finished, finish_calls, spinner, bars>>
    /\ UNCHANGED <<terminal, task, told, run>>

\* Drop, with the last Arc: the CLI's and every task's are gone.
Drop ==
    /\ run \in {"returned", "unwound"} /\ \A h \in Reported : task[h] = "over"
    /\ IF finished THEN UNCHANGED <<spinner, bars>>
       ELSE Abandon("interrupted") /\ bars' = {}
    /\ run' = "dropped"
    /\ UNCHANGED <<terminal, finished, finish_calls, task, told>>

Terminated == run = "dropped" /\ UNCHANGED progress_vars

Next ==
    \/ \E h \in Reported :
         HostStarted(h) \/ HostFinished(h) \/ TaskPanics(h) \/ JoinPanicked(h) \/ TaskAborted(h)
    \/ RunReturns \/ RunUnwinds \/ Finish \/ Drop
    \/ Terminated

Spec == Init /\ [][Next]_progress_vars

TypeOK ==
    /\ terminal \in BOOLEAN /\ finished \in BOOLEAN /\ finish_calls \in Nat
    /\ bars \subseteq Reported
    /\ spinner \in [Reported -> Glyphs \union {"none", "ticking", "abandoned", "interrupted"}]
    /\ task \in [Reported -> {"new", "running", "panicked", "over"}]
    /\ told \in [Reported -> Glyphs \union {"none"}]
    /\ run \in {"joining", "returned", "unwound", "dropped"}

\* Whatever of finish, panic and unwinding happens, and however often, no spinner is left
\* ticking, and a host whose outcome was told keeps that outcome on its line: neither
\* finish nor Drop writes over it. finish does its work once.
SpinnersEndOnce ==
    /\ run = "dropped" => \A h \in Reported : spinner[h] # "ticking"
    /\ \A h \in Reported : told[h] # "none" /\ terminal => spinner[h] = told[h]
    /\ finish_calls =< 1

=============================================================================
