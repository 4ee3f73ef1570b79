-------------------------- MODULE PowerShellCollector --------------------------
(***************************************************************************)
(* One PowerShellCollector, shared by the calls of its port methods        *)
(* (adapters/powershell_collector/mod.rs). A call that finds no payload     *)
(* spawns powershell.exe, drains its stderr while it waits for it within a *)
(* timeout, reads the output file, asks for its removal without looking at  *)
(* the answer, and offers what it parsed to the cache, which keeps the     *)
(* first.                                                                  *)
(*                                                                         *)
(* The script (collect.ps1) writes a temporary file and moves it into      *)
(* place, so the output file is whole or absent. What it reports is the    *)
(* state of the host at some moment of its run: a number that grows as the *)
(* host changes.                                                           *)
(***************************************************************************)
EXTENDS Naturals, FiniteSets

CONSTANTS
    Caller,         \* the calls of port methods on this instance
    NoPayload,
    PIPE,           \* how much stderr the pipe takes before the writer blocks
    STDERR,         \* how much a script may write to stderr
    MAX_CHANGES     \* changes of the host that are looked at

PowerShellAssumption ==
    /\ NoPayload \notin Nat
    /\ PIPE \in Nat \ {0} /\ STDERR \in Nat /\ MAX_CHANGES \in Nat

VARIABLES
    host,           \* the state of the host
    hanging,        \* the calls whose script would never end by itself
    cached,         \* PowerShellCollector::cached
    place,          \* per call: its place in payload and run_script
    child,          \* per call: "none", "running", "succeeded", "failed" or "killed"
    pipe,           \* per call: stderr written and not yet read
    written,        \* per call: stderr written in all
    output,         \* per call: what its output file holds, or NoPayload
    unremoved,      \* the calls whose output file the system refused to remove
    parsed,         \* per call: the payload it parsed, then the one it answers with
    answer          \* per call: "none", "payload", or how it failed

ps_vars == <<host, hanging, cached, place, child, pipe, written, output, unremoved,
            parsed, answer>>

Init ==
    /\ host = 0
    /\ hanging \in SUBSET Caller
    /\ cached = NoPayload
    /\ place = [c \in Caller |-> "idle"]
    /\ child = [c \in Caller |-> "none"]
    /\ pipe = [c \in Caller |-> 0]
    /\ written = [c \in Caller |-> 0]
    /\ output = [c \in Caller |-> NoPayload]
    /\ unremoved = {}
    /\ parsed = [c \in Caller |-> NoPayload]
    /\ answer = [c \in Caller |-> "none"]

Finish(c, what) ==
    /\ answer' = [answer EXCEPT ![c] = what]
    /\ place' = [place EXCEPT ![c] = "done"]

\* payload: the cache, under its lock.
LookInCache(c) ==
    /\ place[c] = "idle"
    /\ IF cached # NoPayload
       THEN Finish(c, "payload") /\ parsed' = [parsed EXCEPT ![c] = cached]
       ELSE place' = [place EXCEPT ![c] = "spawn"] /\ UNCHANGED <<answer, parsed>>
    /\ UNCHANGED <<host, hanging, cached, child, pipe, written, output, unremoved>>

\* run_script: a fresh output path and a child with a stderr pipe.
Spawn(c) ==
    /\ place[c] = "spawn"
    /\ \/ /\ child' = [child EXCEPT ![c] = "running"]
          /\ place' = [place EXCEPT ![c] = "wait"]
          /\ UNCHANGED answer
       \/ Finish(c, "spawn") /\ UNCHANGED child
    /\ UNCHANGED <<host, hanging, cached, pipe, written, output, unremoved, parsed>>

\* The script complains on stderr; it blocks while the pipe is full.
ScriptComplains(c) ==
    /\ child[c] = "running" /\ output[c] = NoPayload
    /\ written[c] < STDERR /\ pipe[c] < PIPE
    /\ pipe' = [pipe EXCEPT ![c] = @ + 1]
    /\ written' = [written EXCEPT ![c] = @ + 1]
    /\ UNCHANGED <<host, hanging, cached, place, child, output, unremoved, parsed, answer>>

\* Move-Item publishes what the host looks like.
ScriptPublishes(c) ==
    /\ child[c] = "running" /\ c \notin hanging
    /\ written[c] = STDERR /\ output[c] = NoPayload
    /\ output' = [output EXCEPT ![c] = host]
    /\ UNCHANGED <<host, hanging, cached, place, child, pipe, written, unremoved, parsed, answer>>

\* The script ends: well with its output in place, badly with or without it.
ScriptEnds(c) ==
    /\ child[c] = "running" /\ c \notin hanging /\ written[c] = STDERR
    /\ \E how \in {"succeeded", "failed"} :
         /\ how = "succeeded" => output[c] # NoPayload
         /\ child' = [child EXCEPT ![c] = how]
    /\ UNCHANGED <<host, hanging, cached, place, pipe, written, output, unremoved, parsed, answer>>

\* Mutant: stderr is read only after the child has ended.
DrainAfterwards(c) ==
    /\ place[c] = "wait" /\ pipe[c] > 0 /\ child[c] # "running"
    /\ pipe' = [pipe EXCEPT ![c] = 0]
    /\ UNCHANGED <<host, hanging, cached, place, child, written, output, unremoved, parsed, answer>>

\* drain_stderr, joined with the wait.
DrainStderr(c) ==
    /\ place[c] = "wait" /\ pipe[c] > 0
    /\ pipe' = [pipe EXCEPT ![c] = 0]
    /\ UNCHANGED <<host, hanging, cached, place, child, written, output, unremoved, parsed, answer>>

\* Mutant: the exit status is not looked at while there is something to read.
AnyExit(c) ==
    /\ place[c] = "wait" /\ child[c] \in {"succeeded", "failed"} /\ pipe[c] = 0
    /\ IF output[c] # NoPayload
       THEN place' = [place EXCEPT ![c] = "read"] /\ UNCHANGED answer
       ELSE Finish(c, "spawn")
    /\ UNCHANGED <<host, hanging, cached, child, pipe, written, output, unremoved, parsed>>

\* wait returns and stderr is at its end.
ChildExited(c) ==
    /\ place[c] = "wait" /\ child[c] \in {"succeeded", "failed"} /\ pipe[c] = 0
    /\ IF child[c] = "succeeded"
       THEN place' = [place EXCEPT ![c] = "read"] /\ UNCHANGED answer
       ELSE Finish(c, "spawn")
    /\ UNCHANGED <<host, hanging, cached, child, pipe, written, output, unremoved, parsed>>

\* Mutant: the call returns and leaves the child to itself.
TimeoutLeavesChild(c) ==
    /\ place[c] = "wait"
    /\ Finish(c, "timeout")
    /\ UNCHANGED <<host, hanging, cached, child, pipe, written, output, unremoved, parsed>>

\* The timeout of run_script: the child is killed and reaped first.
Timeout(c) ==
    /\ place[c] = "wait"
    /\ child' = [child EXCEPT ![c] = IF @ = "running" THEN "killed" ELSE @]
    /\ Finish(c, "timeout")
    /\ UNCHANGED <<host, hanging, cached, pipe, written, output, unremoved, parsed>>

\* tokio::fs::read of the output file.
ReadOutput(c) ==
    /\ place[c] = "read"
    /\ \/ /\ parsed' = [parsed EXCEPT ![c] = output[c]]
          /\ place' = [place EXCEPT ![c] = "remove"]
          /\ UNCHANGED answer
       \/ Finish(c, "unreadable") /\ UNCHANGED parsed
    /\ UNCHANGED <<host, hanging, cached, child, pipe, written, output, unremoved>>

\* tokio::fs::remove_file, whose refusal is swallowed; then parse_payload, which may refuse
\* what was read.
RemoveOutput(c) ==
    /\ place[c] = "remove"
    /\ \/ output' = [output EXCEPT ![c] = NoPayload] /\ UNCHANGED unremoved
       \/ unremoved' = unremoved \union {c} /\ UNCHANGED output
    /\ \/ place' = [place EXCEPT ![c] = "store"] /\ UNCHANGED answer
       \/ Finish(c, "parse")
    /\ UNCHANGED <<host, hanging, cached, child, pipe, written, parsed>>

\* Mutant: each call answers with what it collected itself.
StoreOwn(c) ==
    /\ place[c] = "store"
    /\ cached' = IF cached = NoPayload THEN parsed[c] ELSE cached
    /\ Finish(c, "payload")
    /\ UNCHANGED <<host, hanging, child, pipe, written, output, unremoved, parsed>>

\* payload: get_or_insert_with, under the lock again.
Store(c) ==
    /\ place[c] = "store"
    /\ cached' = IF cached = NoPayload THEN parsed[c] ELSE cached
    /\ parsed' = [parsed EXCEPT ![c] = cached']
    /\ Finish(c, "payload")
    /\ UNCHANGED <<host, hanging, child, pipe, written, output, unremoved>>

\* The caller drops its future: kill_on_drop ends the child. A removal under way may still
\* take place.
Cancel(c) ==
    /\ place[c] \in {"wait", "read", "remove"}
    /\ child' = [child EXCEPT ![c] = IF @ = "running" THEN "killed" ELSE @]
    /\ place' = [place EXCEPT ![c] = "cancelled"]
    /\ \/ UNCHANGED output
       \/ place[c] = "remove" /\ output' = [output EXCEPT ![c] = NoPayload]
    /\ UNCHANGED <<host, hanging, cached, pipe, written, unremoved, parsed, answer>>

HostChanges ==
    /\ host < MAX_CHANGES
    /\ host' = host + 1
    /\ UNCHANGED <<hanging, cached, place, child, pipe, written, output, unremoved, parsed, answer>>

Over(c) == place[c] \in {"done", "cancelled"}
Terminated == (\A c \in Caller : Over(c)) /\ UNCHANGED ps_vars

Script(c) == ScriptComplains(c) \/ ScriptPublishes(c) \/ ScriptEnds(c)
Call(c) ==
    \/ LookInCache(c) \/ Spawn(c) \/ DrainStderr(c) \/ ChildExited(c)
    \/ ReadOutput(c) \/ RemoveOutput(c) \/ Store(c)

Next ==
    \/ \E c \in Caller : Script(c) \/ Call(c) \/ Timeout(c) \/ Cancel(c)
    \/ HostChanges
    \/ Terminated

Spec == Init /\ [][Next]_ps_vars

\* A call that is awaited is polled and its script runs on. The timeout is relied on only
\* for a script that hangs: any other must come to its end without it.
Fairness ==
    /\ \A c \in Caller : WF_ps_vars(Call(c)) /\ WF_ps_vars(Script(c))
    /\ \A c \in Caller : WF_ps_vars(c \in hanging /\ Timeout(c))

-----------------------------------------------------------------------------
TypeOK ==
    /\ host \in 0 .. MAX_CHANGES /\ hanging \subseteq Caller
    /\ cached \in 0 .. MAX_CHANGES \union {NoPayload}
    /\ place \in [Caller -> {"idle", "spawn", "wait", "read", "remove", "store", "done",
                         "cancelled"}]
    /\ child \in [Caller -> {"none", "running", "succeeded", "failed", "killed"}]
    /\ pipe \in [Caller -> 0 .. PIPE]
    /\ output \in [Caller -> 0 .. MAX_CHANGES \union {NoPayload}]
    /\ unremoved \subseteq Caller
    /\ answer \in [Caller -> {"none", "payload", "spawn", "timeout", "unreadable", "parse"}]

\* All calls that got a payload got the same one, though several may have run the script
\* while the host changed; and it is what a script that ended well reported. What a script
\* published before it failed or was killed stays in its file and is never an answer.
PayloadsAgree ==
    /\ \A c \in Caller : answer[c] = "payload" => parsed[c] = cached
    /\ cached # NoPayload =>
         \E c \in Caller : answer[c] = "payload" /\ child[c] = "succeeded"

\* A call that is over has no child left, and an output file only if its removal was refused,
\* or if nobody came to read it: the call was dropped, its script failed or was killed, or the
\* file could not be read.
NothingIsLeft ==
    \A c \in Caller : Over(c) =>
        /\ child[c] # "running"
        /\ output[c] # NoPayload =>
             \/ c \in unremoved
             \/ place[c] = "cancelled" \/ child[c] = "failed"
             \/ answer[c] \in {"timeout", "unreadable"}

\* Every call ends; without the timeout if its script would: however much the
\* script writes to stderr, nobody waits for a pipe that nobody reads.
CallsReturn == \A c \in Caller : <>Over(c)

=============================================================================
