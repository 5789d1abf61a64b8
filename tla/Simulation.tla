----------------------------- MODULE Simulation -----------------------------
(***************************************************************************)
(* Behavioral simulation: run_behavioral_simulation, get_simulation_result *)
(* and the simulation part of run_pre_hw_signoff (tools.py, simulation.py, *)
(* prehardware.py), on Windows, where files can be held.  Elsewhere        *)
(* hold_managed_paths_stable refuses every managed run.                    *)
(*                                                                         *)
(* The stable input identity of the code is a hash over the name and the   *)
(* properties of the simset, and over the files of its closure with their  *)
(* mtime: an edit of a file never returns to an old identity, a property   *)
(* may.  Properties are changed by configure_simulation between tools and  *)
(* by the user, who may also simulate in the GUI, between any two Tcl      *)
(* commands.  The .xpr, which the identity leaves out, is not modelled.    *)
(***************************************************************************)
EXTENDS Naturals

CONSTANTS Simsets,
          None,
          MaxEdits,  \* bound: edits of source files
          MaxSets,   \* bound: changes of simset properties
          MaxRuns,   \* bound: simulations launched by the tool
          MaxGui     \* bound: simulations launched in the GUI

VARIABLES
    files,    \* the source files and what they include
    props,    \* the properties of each simset
    live,     \* whether there is a Vivado session
    globals,  \* the Tcl globals the last launch has set
    logs,     \* simulate.log in the simulation directory of each simset
    call,     \* the tool that runs
    answer,   \* history: the last tool's answer, if it was a success
    spent     \* what has been used of the bounds

vars == <<files, props, live, globals, logs, call, answer, spent>>

Identities == [sim : Simsets, files : 0..MaxEdits, props : 0..1]

\* by: the launch that wrote the log, 0 for the GUI; of: what it simulated;
\* done: whether the simulation came to its end.
Logs == [by : 0..MaxRuns, of : Identities, done : BOOLEAN]

\* before and after: the context snapshots of the command; after is that of
\* the launch before if the last one failed.  mixed: there was a log in the
\* directory at launch.  moved: history, the properties changed in between.
Globals == [run : 1..MaxRuns, id : Identities, before : Identities,
            after : Identities \cup {None}, mixed : BOOLEAN, moved : BOOLEAN]

\* whole: the log was read from its first line.
Reads == [log : Logs \cup {None}, whole : BOOLEAN, globals : Globals \cup {None}]

\* id: the identity the tool took; moves: changes of the properties between its
\* recheck and its verdict; gui: the user simulated around its launch.
Tools == {"run", "get", "signoff"}
Steps == {"idle", "preflight", "policy", "lock", "pin", "recheck", "launch", "post",
          "read", "current"}
Calls == [tool : Tools \cup {"none"}, at : Steps, sim : Simsets \cup {None},
          id : Identities \cup {None}, read : Reads \cup {None}, moves : Nat,
          gui : BOOLEAN]
Answers == [tool : Tools, sim : Simsets, id : Identities, read : Reads,
            moves : Nat, gui : BOOLEAN]

Idle == [tool |-> "none", at |-> "idle", sim |-> None, id |-> None, read |-> None,
         moves |-> 0, gui |-> FALSE]

TypeOK ==
    /\ files \in 0..MaxEdits /\ props \in [Simsets -> 0..1] /\ live \in BOOLEAN
    /\ globals \in Globals \cup {None}
    /\ globals # None => live
    /\ logs \in [Simsets -> Logs \cup {None}]
    /\ \A s \in Simsets : logs[s] # None => logs[s].of.sim = s
    /\ call \in Calls
    /\ call = Idle <=> call.at = "idle"
    /\ call # Idle => call.tool \in Tools /\ call.sim \in Simsets
    /\ answer \in Answers \cup {None}
    /\ spent \in [sets : 0..MaxSets, runs : 0..MaxRuns, gui : 0..MaxGui]

Init ==
    /\ files = 0 /\ props = [s \in Simsets |-> 0] /\ live = TRUE
    /\ globals = None /\ logs = [s \in Simsets |-> None]
    /\ call = Idle /\ answer = None
    /\ spent = [sets |-> 0, runs |-> 0, gui |-> 0]

-----------------------------------------------------------------------------
\* What a simulation of s would run now.  build_simulation_stable_input_identity
\* tells any two of them apart.
Closure(s)  == [sim |-> s, files |-> files, props |-> props[s]]
Identity(s) == Closure(s)

\* The context snapshot of the command: each source's size and modification time in
\* whole seconds, and a few properties of the simset.  It is narrower than the
\* identity; of the changes that occur here it tells apart as much.
Snapshot(s) == Closure(s)

At(step) == call.at = step
Go(step) == call' = [call EXCEPT !.at = step]
Finish(result) == call' = Idle /\ answer' = result

Start(tool, s, step) ==
    /\ call = Idle /\ live
    /\ call' = [Idle EXCEPT !.tool = tool, !.sim = s, !.at = step]
    /\ answer' = None
    /\ UNCHANGED <<files, props, live, globals, logs, spent>>

\* Any step may end the tool: an untrusted closure, an uncontrolled waveform,
\* a Tcl error, a file that cannot be held, a session that is gone.
Refuse ==
    /\ call # Idle
    /\ Finish(None)
    /\ UNCHANGED <<files, props, live, globals, logs, spent>>

-----------------------------------------------------------------------------
(* run_behavioral_simulation *)

RunBehavioralSimulation(s) == Start("run", s, "preflight")

\* The first preflight only decides whether to go on; the second clears
\* INCREMENTAL and takes the identities that count.
Preflight ==
    /\ At("preflight") /\ live /\ Go("policy")
    /\ UNCHANGED <<files, props, live, globals, logs, answer, spent>>
PolicyPreflight ==
    /\ At("policy") /\ live
    /\ call' = [call EXCEPT !.at = "lock", !.id = Identity(call.sim)]
    /\ UNCHANGED <<files, props, live, globals, logs, answer, spent>>

\* From here to the end of the tool nobody can write the files of the closure.
Held_NotAtAll == FALSE
Held == call.at \in {"pin", "recheck", "launch", "post"}

\* The simulation directory is empty, and is again once it is pinned; that
\* does not keep files from being created in it.
Empty == logs[call.sim] = None
HoldSources ==
    /\ At("lock") /\ Empty /\ Go("pin")
    /\ UNCHANGED <<files, props, live, globals, logs, answer, spent>>
HoldOutput ==
    /\ At("pin") /\ Empty /\ Go("recheck")
    /\ UNCHANGED <<files, props, live, globals, logs, answer, spent>>

RecheckLocked ==
    /\ At("recheck") /\ live /\ Identity(call.sim) = call.id /\ Go("launch")
    /\ UNCHANGED <<files, props, live, globals, logs, answer, spent>>

\* behavioral_simulation_command up to launch_simulation: the globals of this
\* launch, except for what its end will set.
Launched == [run |-> spent.runs + 1, id |-> call.id, before |-> Snapshot(call.sim),
             after |-> IF globals = None THEN None ELSE globals.after,
             mixed |-> logs[call.sim] # None, moved |-> call.moves > 0]
OwnLog(done) == [by |-> spent.runs + 1, of |-> Closure(call.sim), done |-> done]

\* simulation_result_read_command: where there was a log at launch, the reader
\* may skip as many characters as that one had.
ReadLog(s, g) == {[log |-> logs'[s], whole |-> w, globals |-> g] :
                  w \in IF g # None /\ g.mixed THEN BOOLEAN ELSE {TRUE}}
Launch ==
    /\ At("launch") /\ live /\ spent.runs < MaxRuns
    /\ globals' = [Launched EXCEPT !.after = Snapshot(call.sim)]
    /\ \E done \in BOOLEAN : logs' = [logs EXCEPT ![call.sim] = OwnLog(done)]
    /\ \E r \in ReadLog(call.sim, globals') : call' = [call EXCEPT !.at = "post", !.read = r]
    /\ spent' = [spent EXCEPT !.runs = @ + 1]
    /\ UNCHANGED <<files, props, live, answer>>

\* The hook guard refuses before anything is set (Refuse), or the command fails
\* later; a time-out and an empty launch script end the session.
LaunchFails ==
    /\ At("launch") /\ live /\ spent.runs < MaxRuns
    /\ live' \in BOOLEAN
    /\ globals' = IF live' THEN Launched ELSE None
    /\ logs' \in {logs} \cup {[logs EXCEPT ![call.sim] = OwnLog(done)] : done \in BOOLEAN}
    /\ spent' = [spent EXCEPT !.runs = @ + 1]
    /\ Finish(None)
    /\ UNCHANGED <<files, props>>

\* The post preflight and the verdict; what does not match is not a success.
\* That the answer carries this launch's globals is checked as well.
StillAttested_Unchecked == TRUE
StillAttested == Identity(call.sim) = call.id
Answer == [tool |-> call.tool, sim |-> call.sim, id |-> call.id, read |-> call.read,
           moves |-> call.moves, gui |-> call.gui]
Accept ==
    /\ At("post") /\ live
    /\ call.read.globals.run = spent.runs
    /\ StillAttested /\ call.read.log.done
    /\ Finish(Answer)
    /\ UNCHANGED <<files, props, live, globals, logs, spent>>

-----------------------------------------------------------------------------
(* get_simulation_result, and the same within run_pre_hw_signoff *)

GetSimulationResult(s) == Start("get", s, "read")
RunPreHwSignoff(s)     == Start("signoff", s, "read")

\* The log and the globals as they are, then the identity of the simset.
ReadResult ==
    /\ At("read") /\ live
    /\ UNCHANGED <<files, props, live, globals, logs, answer, spent>>
    /\ \E r \in ReadLog(call.sim, globals) : call' = [call EXCEPT !.at = "current", !.read = r]

\* _has_fresh_simulation_invocation and _merge_simulation.
SignoffPasses(r) == /\ r.globals.after = r.globals.before
                    /\ r.log # None /\ r.log.done
Recorded_ForAnySources(r) == r.globals # None
Recorded(r) == r.globals # None /\ r.globals.id = Identity(call.sim)
CheckCurrent ==
    /\ At("current") /\ live
    /\ Recorded(call.read)
    /\ call.tool = "signoff" => SignoffPasses(call.read)
    /\ Finish([Answer EXCEPT !.id = Identity(call.sim)])
    /\ UNCHANGED <<files, props, live, globals, logs, spent>>

-----------------------------------------------------------------------------
(* The user, the other tools, and the end of a session. *)

EditFiles ==
    /\ files < MaxEdits /\ ~Held
    /\ files' = files + 1
    /\ UNCHANGED <<props, live, globals, logs, call, answer, spent>>

\* configure_simulation, or set_property in the GUI.  After the recheck nothing
\* looks at the properties until the launch has run.
ConfigureSimulation(s) ==
    /\ live /\ spent.sets < MaxSets
    /\ props' = [props EXCEPT ![s] = 1 - @]
    /\ call' = IF call.sim = s /\ call.at \in {"launch", "post"}
               THEN [call EXCEPT !.moves = @ + 1] ELSE call
    /\ spent' = [spent EXCEPT !.sets = @ + 1]
    /\ UNCHANGED <<files, live, globals, logs, answer>>

UserSimulates(s) ==
    /\ live /\ spent.gui < MaxGui
    /\ \E done \in BOOLEAN :
           logs' = [logs EXCEPT ![s] = [by |-> 0, of |-> Closure(s), done |-> done]]
    /\ call' = IF call.sim = s /\ call.at \in {"recheck", "launch"}
               THEN [call EXCEPT !.gui = TRUE] ELSE call
    /\ spent' = [spent EXCEPT !.gui = @ + 1]
    /\ UNCHANGED <<files, props, live, globals, answer>>

\* clean_run_outputs with simsets, or the user.
CleanOutputs(s) ==
    /\ logs[s] # None
    /\ logs' = [logs EXCEPT ![s] = None]
    /\ UNCHANGED <<files, props, live, globals, call, answer, spent>>

\* The session is stopped, killed by a cancellation or by a time-out.
EndSession ==
    /\ live
    /\ live' = FALSE /\ globals' = None
    /\ UNCHANGED <<files, props, logs, call, answer, spent>>
StartSession ==
    /\ call = Idle /\ ~live
    /\ live' = TRUE
    /\ UNCHANGED <<files, props, globals, logs, call, answer, spent>>

Next ==
    \/ \E s \in Simsets :
           \/ RunBehavioralSimulation(s) \/ GetSimulationResult(s) \/ RunPreHwSignoff(s)
           \/ ConfigureSimulation(s) \/ UserSimulates(s) \/ CleanOutputs(s)
    \/ Preflight \/ PolicyPreflight \/ HoldSources \/ HoldOutput \/ RecheckLocked
    \/ Launch \/ LaunchFails \/ Accept
    \/ ReadResult \/ CheckCurrent \/ Refuse
    \/ EditFiles \/ EndSession \/ StartSession

Spec == Init /\ [][Next]_vars

-----------------------------------------------------------------------------
(* XSIM, which executes what the sources say with the rights of the user,  *)
(* only ever runs the files that were attested and trusted, also where the *)
(* run is not accepted (hold_managed_paths_stable, managed_path.py).       *)
OnlyTrustedFilesRun == globals # None => globals.before.files = globals.id.files

(* A run that is reported completed is judged by the whole log of its own  *)
(* launch, and that launch simulated what was attested; except where the   *)
(* user changed the properties to and fro, or simulated in the GUI, in the *)
(* moments around the launch (run_behavioral_simulation, tools.py).        *)
AcceptedRunIsAttested ==
    answer # None /\ answer.tool = "run" =>
        /\ answer.read.log.by = answer.read.globals.run
        /\ answer.read.log.of = answer.id \/ answer.moves > 1
        /\ answer.read.whole \/ answer.gui

(* A later result is about the simset that was asked for, as it is now,    *)
(* and about the last launch: never an earlier one's log, whatever was     *)
(* cleaned, failed or launched in between.  The user's own simulation may  *)
(* have replaced the log, and properties may have moved as above.  What    *)
(* signoff passes has come to its end (_get_simulation_result, tools.py).  *)
ResultIsOfLastLaunch ==
    answer # None /\ answer.tool \in {"get", "signoff"} =>
        LET r == answer.read
        IN  /\ answer.tool = "signoff" => r.log # None /\ r.log.done
            /\ r.log # None /\ r.log.by # 0 =>
                   /\ r.log.by = r.globals.run
                   /\ r.log.of = answer.id \/ r.globals.moved
=============================================================================
