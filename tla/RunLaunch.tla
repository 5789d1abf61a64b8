----------------------------- MODULE RunLaunch -----------------------------
(***************************************************************************)
(* Runs and their launch records: run_implementation, generate_bitstream,  *)
(* get_run_progress, configure_run, reset_runs and clean_run_outputs of    *)
(* VivadoToolService (tools.py, runs.py), one implementation run of one    *)
(* project.                                                                *)
(*                                                                         *)
(* A tool is the sequence of Tcl commands and file reads its handler makes *)
(* (call.todo); the dispatcher runs one tool at a time, so between two of  *)
(* these steps only Vivado, the user and a cancellation act.  The design   *)
(* execution identity of the code is a hash over the files of the closure  *)
(* with their mtime and inode, and over run and project settings: a file   *)
(* edit never returns to an old identity, a setting may.                   *)
(*                                                                         *)
(* NEEDS_REFRESH is external and taken at its word: TRUE from the moment   *)
(* the closure differs from what the run read, until the next execution.   *)
(***************************************************************************)
EXTENDS Naturals, Sequences

CONSTANTS None,
          MaxEdits,  \* bound: changes of the closure
          MaxExecs,  \* bound: executions of the run
          MaxGen,    \* bound: sessions
          MaxEvents  \* bound: changes, executions and sessions together

ASSUME RunAssumption == /\ MaxEdits \in Nat /\ MaxExecs \in Nat
                        /\ MaxGen \in Nat \ {0} /\ MaxEvents \in Nat

VARIABLES
    closure,   \* the design sources and the run settings, as they are now
    edits,     \* history: changes so far
    session,   \* generation and liveness of the Vivado session
    run,       \* what Vivado reports of the run, and what it was built from
    bit,       \* the bitstream in the run directory: the execution its time fits (0: none)
               \* and the closure it was built from (None: it is something else's)
    launch,    \* _run_launches[run_name]
    call       \* the tool that runs

\* What the allow-listed properties of configure_run, and the others, may be.
Settings == 1..2
Closures == [files : 0..MaxEdits, set : Settings]
Phases   == {"not_started", "queued", "building", "routed", "written", "failed"}
Runs     == [phase : Phases, goal : {"route", "bit"}, exec : 0..MaxExecs,
             marks : 0..MaxExecs, in : Closures \cup {None}, needs : BOOLEAN]
Bits     == [exec : 0..MaxExecs, in : Closures \cup {None}]
Launches == [op : {"implementation", "bitstream"}, gen : 1..MaxGen,
             id : Closures, term : Closures \cup {None}]

\* runme.log of the run directory, as far as a reader can tell it moved.
Logs     == [phase : Phases, marks : 0..MaxExecs]

Idle   == [tool |-> "none", todo |-> <<>>, id |-> None, seen |-> None, expect |-> FALSE]
runVars == <<closure, edits, session, run, bit, launch, call>>

RunTypeOK ==
    /\ closure \in Closures /\ edits \in 0..MaxEdits
    /\ session \in [gen : 1..MaxGen, live : BOOLEAN]
    /\ run \in Runs
    /\ bit \in Bits \cup {None}
    /\ launch \in Launches \cup {None}
    /\ call.id \in Closures \cup {None}
    /\ call.seen \in Logs \cup {None}
    /\ call = Idle <=> call.todo = <<>>

RunInit ==
    /\ closure = [files |-> 0, set |-> 1] /\ edits = 0
    /\ session = [gen |-> 1, live |-> TRUE]
    /\ run = [phase |-> "not_started", goal |-> "route", exec |-> 0,
              marks |-> 0, in |-> None, needs |-> FALSE]
    /\ bit = None /\ launch = None /\ call = Idle

\* The bounds.
EventLeft   == edits + run.exec + session.gen < MaxEvents
EditLeft    == edits < MaxEdits /\ EventLeft
ExecLeft    == run.exec < MaxExecs /\ EventLeft
SessionLeft == session.gen < MaxGen /\ EventLeft

-----------------------------------------------------------------------------
(* Tools and their steps. *)

Busy    == run.phase \in {"queued", "building"}
Now     == IF call = Idle THEN "idle" ELSE Head(call.todo)
At(s)   == Now = s
Finish  == call' = Idle
Advance(new) == call' = IF Len(call.todo) = 1 THEN Idle
                        ELSE [new EXCEPT !.todo = Tail(@)]

StartTool(tool, steps, expect) ==
    /\ call = Idle /\ session.live
    /\ call' = [Idle EXCEPT !.tool = tool, !.todo = steps, !.expect = expect]
    /\ UNCHANGED <<closure, edits, session, run, bit, launch>>

RunImplementation == StartTool("implementation", <<"preflight", "launch">>, FALSE)
GenerateBitstream == StartTool("bitstream", <<"preflight", "launch">>, FALSE)
GetRunProgress(expectBitstream) ==
    StartTool("progress", <<"status", "terminal">>, expectBitstream)

\* One Tcl command lists the inputs of the open project and their settings; the
\* identity is a hash over them and over the files they name, with their mtime.
ListedInputs   == closure
DesignIdentity == [files |-> ListedInputs.files, set |-> ListedInputs.set]

\* The trusted-input preflight of the session, before the launch.
Preflight ==
    /\ At("preflight") /\ session.live
    /\ Advance([call EXCEPT !.id = DesignIdentity])
    /\ UNCHANGED <<closure, edits, session, run, bit, launch>>

\* launch_runs after the files of the closure, held, were compared with the
\* identity.  Vivado refuses to launch a run that is busy or complete.  The
\* command runs even when its answer is lost: then no record is kept.
Launchable == /\ ~Busy /\ ExecLeft
              /\ run.phase = "not_started" \/ (run.phase = "routed" /\ call.tool = "bitstream")
FilesUnchanged == closure.files = call.id.files
LaunchRun ==
    /\ At("launch") /\ session.live /\ FilesUnchanged /\ Launchable
    /\ run' = [run EXCEPT
           !.phase = IF run.phase = "routed" THEN "building" ELSE "queued",
           !.goal  = IF call.tool = "bitstream" THEN "bit" ELSE "route",
           !.exec  = @ + 1,
           !.marks = run.exec + 1,
           !.in    = IF run.phase = "routed" THEN @ ELSE closure,
           !.needs = run.phase = "routed" /\ @]
    /\ \/ launch' = [op |-> call.tool, gen |-> session.gen, id |-> call.id, term |-> None]
       \/ launch' = launch
    /\ Finish
    /\ UNCHANGED <<closure, edits, session, bit>>

LaunchRefused ==
    /\ At("launch") /\ session.live /\ ~(FilesUnchanged /\ Launchable)
    /\ Finish
    /\ UNCHANGED <<closure, edits, session, run, bit, launch>>

\* _classify_run_state: what a STATUS means to the caller.
RunState(phase, expectBitstream) ==
    LET missing == expectBitstream /\ bit = None IN
    IF phase = "failed" \/ (phase = "written" /\ missing) THEN "failed"
    ELSE IF phase \in {"routed", "written"} /\ ~missing THEN "complete"
    ELSE IF phase = "queued" THEN "queued"
    ELSE IF phase = "building" THEN "running" ELSE "not_started"

\* The status command of get_run_progress: a record of another generation or
\* of a failed run is dropped; only a complete run with a record goes on to
\* its terminal identity.
ReadStatus ==
    /\ At("status") /\ session.live
    /\ LET state == RunState(run.phase, call.expect)
           stale == launch # None /\ (launch.gen # session.gen \/ state = "failed")
       IN  /\ launch' = IF stale THEN None ELSE launch
           /\ IF state = "complete" /\ launch' # None THEN Advance(call) ELSE Finish
    /\ UNCHANGED <<closure, edits, session, run, bit>>

\* The second command captures the identity again, and the record becomes
\* terminal if it is still the one captured at launch.
CaptureTerminal ==
    /\ At("terminal") /\ call.tool = "progress" /\ session.live
    /\ launch' = IF launch # None /\ launch.id = DesignIdentity
                 THEN [launch EXCEPT !.term = DesignIdentity] ELSE launch
    /\ Finish
    /\ UNCHANGED <<closure, edits, session, run, bit>>

\* A run without results: what it was built from is gone.
Dropped(phase) == [run EXCEPT !.phase = phase, !.goal = "route", !.in = None, !.needs = FALSE]

\* reset_runs, from the tool or in the GUI: none of it touches the record.
ResetRun ==
    /\ session.live /\ run.phase # "not_started"
    /\ run' = [Dropped("not_started") EXCEPT !.marks = 0]
    /\ bit' = None
    /\ UNCHANGED <<closure, edits, session, launch, call>>

\* clean_run_outputs asks Vivado where the run directory is and deletes it
\* behind Vivado's back.
OutputsToClean == run.marks > 0
CleanRunOutputs ==
    /\ call = Idle /\ session.live /\ ~Busy /\ OutputsToClean
    /\ bit' = None
    /\ run' = [run EXCEPT !.marks = 0]
    /\ UNCHANGED <<closure, edits, session, launch, call>>

\* configure_run, set_property or an editor: the closure changes.  A file that
\* changes before the run reads it, or while nothing is built, dirties nothing.
NeedsAfter(new) == run.needs \/ (run.in # None /\ run.in # new)
EditFiles ==
    /\ EditLeft
    /\ closure' = [closure EXCEPT !.files = @ + 1] /\ edits' = edits + 1
    /\ run' = IF run.phase = "queued" THEN run
              ELSE [run EXCEPT !.needs = NeedsAfter(closure')]
    /\ UNCHANGED <<session, bit, launch, call>>

EditSettings ==
    /\ EditLeft /\ session.live
    /\ closure' = [closure EXCEPT !.set = 3 - @] /\ edits' = edits + 1
    /\ run' = [run EXCEPT !.needs = NeedsAfter(closure')]
    /\ UNCHANGED <<session, bit, launch, call>>

-----------------------------------------------------------------------------
(* Vivado, the user at its GUI, and the end of a session. *)

\* A queued run reads the files, with the settings of its launch; then the
\* steps of the run complete one after another, or fail.
RunReads ==
    /\ run.phase = "queued"
    /\ run' = [run EXCEPT !.phase = "building", !.in.files = closure.files]
    /\ UNCHANGED <<closure, edits, session, bit, launch, call>>

RunRoutes ==
    /\ run.phase = "building" /\ run.goal = "route"
    /\ run' = [run EXCEPT !.phase = "routed"]
    /\ UNCHANGED <<closure, edits, session, bit, launch, call>>

RunWrites ==
    /\ run.phase = "building" /\ run.goal = "bit"
    /\ run' = [run EXCEPT !.phase = "written", !.goal = "route"]
    /\ bit' = [exec |-> run.exec, in |-> run.in]
    /\ UNCHANGED <<closure, edits, session, launch, call>>

RunFails ==
    /\ Busy
    /\ run' = Dropped("failed")
    /\ UNCHANGED <<closure, edits, session, bit, launch, call>>

\* The user launches the run to its bitstream in the GUI, after a reset.
UserLaunches ==
    /\ session.live /\ run.phase = "not_started" /\ ExecLeft
    /\ run' = [run EXCEPT !.phase = "queued", !.goal = "bit", !.exec = @ + 1,
                          !.marks = run.exec + 1, !.in = closure, !.needs = FALSE]
    /\ UNCHANGED <<closure, edits, session, bit, launch, call>>

\* Something else overwrites the bitstream, after the run wrote it and (a bound) once.
\* The time of the new file fits no execution, or the last one when it was written at
\* once or copied with its time kept.
OverwriteBit(execution) ==
    /\ bit # None /\ bit.in # None
    /\ bit' = [exec |-> execution, in |-> None]
    /\ UNCHANGED <<closure, edits, session, run, launch, call>>

\* stop_session keeps the records; cancel_active_operation kills Vivado under
\* the running tool and clears them.  A run in progress may end with the session.
Interrupted == IF Busy THEN Dropped("failed") ELSE run
StopSession ==
    /\ call = Idle /\ session.live
    /\ session' = [session EXCEPT !.live = FALSE] /\ run' \in {run, Interrupted}
    /\ UNCHANGED <<closure, edits, bit, launch, call>>

CancelActiveOperation ==
    /\ call # Idle /\ session.live
    /\ session' = [session EXCEPT !.live = FALSE] /\ run' \in {run, Interrupted}
    /\ launch' = None
    /\ UNCHANGED <<closure, edits, bit, call>>

StartSession ==
    /\ call = Idle /\ ~session.live /\ SessionLeft
    /\ session' = [gen |-> session.gen + 1, live |-> TRUE]
    /\ UNCHANGED <<closure, edits, run, bit, launch, call>>

RunTools == \/ RunImplementation \/ GenerateBitstream
            \/ \E e \in BOOLEAN : GetRunProgress(e)
            \/ CleanRunOutputs
RunSteps == Preflight \/ LaunchRun \/ LaunchRefused \/ ReadStatus \/ CaptureTerminal
World    == \/ ResetRun \/ EditFiles \/ EditSettings
            \/ RunReads \/ RunRoutes \/ RunWrites \/ RunFails
            \/ UserLaunches \/ \E e \in {0, run.exec} : OverwriteBit(e)
            \/ StopSession \/ CancelActiveOperation \/ StartSession
=============================================================================
