-------------------------- MODULE SessionLifecycle --------------------------
(***************************************************************************)
(* SessionManager and the life of the sessions it creates: start, status   *)
(* and stop of GuiTcpVivadoSession (vivado/session.py), with the Vivado    *)
(* process and the secret-bearing bootstrap file each of them owns.        *)
(*                                                                         *)
(* Two threads work on the manager.  The worker runs one tool at a time:   *)
(* start_session, stop_session, or one that sends Tcl.  The canceller runs *)
(* cancel_active_operation, which is manager.stop(), while the worker is   *)
(* inside a tool; the dispatcher starts no tool while it runs (see         *)
(* Dispatcher).  One exchange of run_tcl is one step here; what can happen *)
(* inside it is in TclChannel, from which this module takes that a session *)
(* with a request of unknown fate never accepts another (insync).          *)
(***************************************************************************)
EXTENDS Naturals, FiniteSets

CONSTANTS MaxGen,         \* bound: sessions created
          MaxOps,         \* bound: tools the worker runs
          MaxCancels,     \* bound: cancellations
          KillMayFail     \* _terminate_process_tree may leave the process

ASSUME LifecycleAssumption ==
    /\ MaxGen \in Nat \ {0} /\ MaxOps \in Nat /\ MaxCancels \in Nat
    /\ KillMayFail \in BOOLEAN

Gens   == 1..MaxGen
NoGen  == 0
Actors == {"worker", "canceller"}

States == {"NEW", "STARTING", "READY", "TAINTED", "START_FAILED",
           "STOP_FAILED", "STOPPED"}

VARIABLES
    mgr,        \* SessionManager.session
    created,    \* sessions created so far
    st,         \* state of each session
    spawned,    \* process is not None
    alive,      \* the process runs
    up,         \* its Tcl server listens
    insync,     \* no request of unknown fate was sent to it
    attested,   \* the version it reported is the supported one
    file,       \* its bootstrap file is on disk
    named,      \* _bootstrap_path is set
    served,     \* sessions that ran Tcl for a tool
    pc,         \* where each thread is
    op,         \* the tool the worker runs
    self,       \* the session a thread works on
    held,       \* stop() found a process to wait for
    result,     \* what the running start() will return
    ops, cancels

sessionVars == <<created, st, spawned, alive, up, insync, attested, file, named>>
threadVars  == <<pc, op, self, held, result>>
vars == <<mgr, sessionVars, served, threadVars, ops, cancels>>

ManagerType ==
    /\ mgr \in Gens \cup {NoGen} /\ created \in 0..MaxGen
    /\ mgr # NoGen => mgr <= created
    /\ st \in [Gens -> States]
    /\ \A g \in Gens : g > created => st[g] = "NEW"
    /\ served \in SUBSET Gens

\* Only a process that runs listens, and only one that was started runs.
ProcessType ==
    /\ spawned \in [Gens -> BOOLEAN] /\ alive \in [Gens -> BOOLEAN]
    /\ up \in [Gens -> BOOLEAN]
    /\ \A g \in Gens : (alive[g] => spawned[g]) /\ (up[g] => alive[g])

FlagType ==
    /\ insync \in [Gens -> BOOLEAN] /\ attested \in [Gens -> BOOLEAN]
    /\ file \in [Gens -> BOOLEAN] /\ named \in [Gens -> BOOLEAN]

ThreadType ==
    /\ pc \in [Actors -> {"idle", "probe", "stop", "terminate", "poll", "release",
                          "create", "prepare", "spawn", "connect", "return", "use"}]
    /\ op \in {"start", "stop", "use"}
    /\ self \in [Actors -> Gens \cup {NoGen}]
    /\ held \in [Actors -> BOOLEAN]
    /\ result \in {"ok", "failed"}
    /\ ops \in 0..MaxOps /\ cancels \in 0..MaxCancels

TypeOK == ManagerType /\ ProcessType /\ FlagType /\ ThreadType

Init ==
    /\ mgr = NoGen /\ created = 0
    /\ st = [g \in Gens |-> "NEW"]
    /\ spawned = [g \in Gens |-> FALSE] /\ alive = [g \in Gens |-> FALSE]
    /\ up = [g \in Gens |-> FALSE] /\ insync = [g \in Gens |-> TRUE]
    /\ attested = [g \in Gens |-> FALSE]
    /\ file = [g \in Gens |-> FALSE] /\ named = [g \in Gens |-> FALSE]
    /\ served = {}
    /\ pc = [a \in Actors |-> "idle"] /\ op = "use"
    /\ self = [a \in Actors |-> NoGen] /\ held = [a \in Actors |-> FALSE]
    /\ result = "failed"
    /\ ops = 0 /\ cancels = 0

Go(a, l) == pc' = [pc EXCEPT ![a] = l]

SetState(g, s) == st' = [st EXCEPT ![g] = s]

Killed(g) == /\ alive' = [alive EXCEPT ![g] = FALSE]
             /\ up' = [up EXCEPT ![g] = FALSE]

\* _terminate_process_tree
Terminate(g) == Killed(g) \/ (KillMayFail /\ UNCHANGED <<alive, up>>)

\* unlink(missing_ok=True) that may raise OSError
Unlink(g) == file' = [file EXCEPT ![g] = FALSE] \/ UNCHANGED file

(***************************************************************************)
(* The tools of the worker                                                 *)
(***************************************************************************)

Begin(o) ==
    /\ pc["worker"] = "idle" /\ pc["canceller"] = "idle" /\ ops < MaxOps
    /\ ops' = ops + 1 /\ op' = o
    /\ UNCHANGED <<mgr, sessionVars, served, self, held, result, cancels>>

\* SessionManager.start: an existing session is probed first.
BeginStart == Begin("start") /\ Go("worker", IF mgr = NoGen THEN "create" ELSE "probe")

BeginStop == Begin("stop") /\ Go("worker", "stop")

\* current() raises without a session, run_tcl on a tainted one.
BeginUse == mgr # NoGen /\ st[mgr] # "TAINTED" /\ Begin("use") /\ Go("worker", "use")

\* A request to session g ends in one of these ways: accepted and answered,
\* never sent, or of unknown fate, which taints the session and kills it.
Answered(g) == up[g] /\ insync[g] /\ UNCHANGED <<st, alive, up, insync>>
NotSent     == UNCHANGED <<st, alive, up, insync>>
Tainted(g)  == /\ alive[g]
               /\ SetState(g, "TAINTED")
               /\ insync' = [insync EXCEPT ![g] = FALSE]
               /\ Terminate(g)

Use ==
    /\ pc["worker"] = "use"
    /\ Go("worker", "idle")
    /\ \/ mgr = NoGen /\ NotSent /\ UNCHANGED served
       \/ mgr # NoGen /\ Answered(mgr) /\ served' = served \cup {mgr}
       \/ mgr # NoGen /\ NotSent /\ UNCHANGED served
       \/ mgr # NoGen /\ Tainted(mgr) /\ UNCHANGED served
    /\ UNCHANGED <<mgr, created, spawned, attested, file, named, op, self, held,
                   result, ops, cancels>>

\* status(probe_connection=True): "version -short" is sent in every state but
\* TAINTED; a session that answers is returned as it is, any other is stopped.
\* If the canceller has just taken the session away an AttributeError ends the tool.
Probe ==
    /\ pc["worker"] = "probe"
    /\ \/ mgr = NoGen /\ NotSent /\ Go("worker", "idle")
       \/ /\ mgr # NoGen /\ st[mgr] # "TAINTED"
          /\ \/ Answered(mgr) /\ Go("worker", "idle")
             \/ (NotSent \/ Tainted(mgr)) /\ Go("worker", "stop")
       \/ mgr # NoGen /\ st[mgr] = "TAINTED" /\ NotSent /\ Go("worker", "stop")
    /\ UNCHANGED <<mgr, created, spawned, attested, file, named, served, op, self,
                   held, result, ops, cancels>>

(***************************************************************************)
(* stop(), by either thread                                                *)
(***************************************************************************)

\* cancel_active_operation: the dispatcher aborts the tool the worker is in.
BeginCancel ==
    /\ pc["canceller"] = "idle" /\ pc["worker"] # "idle" /\ cancels < MaxCancels
    /\ cancels' = cancels + 1
    /\ Go("canceller", "stop")
    /\ UNCHANGED <<mgr, sessionVars, served, op, self, held, result, ops>>

StopCall(a) ==
    /\ pc[a] = "stop"
    /\ IF mgr = NoGen
       THEN Go(a, "idle") /\ UNCHANGED <<self, held>>
       ELSE /\ self' = [self EXCEPT ![a] = mgr]
            /\ held' = [held EXCEPT ![a] = spawned[mgr]]
            /\ Go(a, IF alive[mgr] THEN "terminate" ELSE "poll")
    /\ UNCHANGED <<mgr, sessionVars, served, op, result, ops, cancels>>

StopTerminate(a) ==
    /\ pc[a] = "terminate"
    /\ Terminate(self[a])
    /\ Go(a, "poll")
    /\ UNCHANGED <<mgr, created, st, spawned, insync, attested, file, named,
                   served, op, self, held, result, ops, cancels>>

\* A process that survived keeps its handle and its bootstrap file.
StopPoll(a) ==
    /\ pc[a] = "poll"
    /\ IF held[a] /\ alive[self[a]]
       THEN SetState(self[a], "STOP_FAILED") /\ Go(a, "idle") /\ UNCHANGED file
       ELSE /\ IF named[self[a]] THEN Unlink(self[a]) ELSE UNCHANGED file
            /\ SetState(self[a], "STOPPED") /\ Go(a, "release")
    /\ UNCHANGED <<mgr, created, spawned, alive, up, insync, attested, named,
                   served, op, self, held, result, ops, cancels>>

\* self.session = None, whichever session that is by now.
Release(a) ==
    /\ pc[a] = "release"
    /\ mgr' = NoGen
    /\ Go(a, IF a = "worker" /\ op = "start" THEN "create" ELSE "idle")
    /\ UNCHANGED <<sessionVars, served, op, self, held, result, ops, cancels>>

(***************************************************************************)
(* GuiTcpVivadoSession.start, in the worker                                *)
(***************************************************************************)

\* The path assertion may refuse; otherwise a new session enters STARTING.
Create ==
    /\ pc["worker"] = "create"
    /\ \/ Go("worker", "idle") /\ UNCHANGED <<mgr, created, st, self, result>>
       \/ /\ created < MaxGen
          /\ created' = created + 1 /\ mgr' = created + 1
          /\ self' = [self EXCEPT !["worker"] = created + 1]
          /\ SetState(created + 1, "STARTING")
          /\ result' = "failed"
          /\ Go("worker", "prepare")
    /\ UNCHANGED <<spawned, alive, up, insync, attested, file, named, served, op,
                   held, ops, cancels>>

\* find_vivado and the runtime identity may fail, write_bootstrap may fail and
\* removes what it wrote; otherwise the secret is on disk.
Prepare ==
    LET g == self["worker"] IN
    /\ pc["worker"] = "prepare"
    /\ \/ Go("worker", "return") /\ UNCHANGED <<st, file, named>>
       \/ Go("worker", "return") /\ SetState(g, "START_FAILED") /\ UNCHANGED <<file, named>>
       \/ /\ file' = [file EXCEPT ![g] = TRUE] /\ named' = [named EXCEPT ![g] = TRUE]
          /\ Go("worker", "spawn") /\ UNCHANGED st
    /\ UNCHANGED <<mgr, created, spawned, alive, up, insync, attested, served, op,
                   self, held, result, ops, cancels>>

\* Mutant: the handle Popen returns is not kept.
Spawn_NoHandle ==
    LET g == self["worker"] IN
    /\ pc["worker"] = "spawn"
    /\ alive' = [alive EXCEPT ![g] = TRUE]
    /\ Go("worker", "connect")
    /\ UNCHANGED <<mgr, created, st, spawned, up, insync, attested, file, named,
                   served, op, self, held, result, ops, cancels>>

\* The executable's identity is checked again before Popen, which may raise.
Spawn ==
    LET g == self["worker"] IN
    /\ pc["worker"] = "spawn"
    /\ \/ /\ spawned' = [spawned EXCEPT ![g] = TRUE]
          /\ alive' = [alive EXCEPT ![g] = TRUE]
          /\ Go("worker", "connect") /\ UNCHANGED <<st, file>>
       \/ Unlink(g) /\ SetState(g, "START_FAILED") /\ Go("worker", "return")
          /\ UNCHANGED <<spawned, alive>>
       \/ Go("worker", "idle") /\ UNCHANGED <<st, file, spawned, alive>>
    /\ UNCHANGED <<mgr, created, up, insync, attested, named, served, op, self,
                   held, result, ops, cancels>>

\* The first "version" is answered by the supported version and the secret is
\* removed: READY.
Handshake ==
    LET g == self["worker"] IN
    /\ pc["worker"] = "connect" /\ up[g] /\ insync[g] /\ st[g] # "TAINTED"
    /\ attested' = [attested EXCEPT ![g] = TRUE]
    /\ file' = [file EXCEPT ![g] = FALSE]
    /\ SetState(g, "READY") /\ result' = "ok"
    /\ Go("worker", "return")
    /\ UNCHANGED <<mgr, created, spawned, alive, up, insync, named, served, op,
                   self, held, ops, cancels>>

\* Mutant: a version that is not the supported one only gets a warning.
RefuseHandshake_Warns ==
    LET g == self["worker"] IN
    /\ pc["worker"] = "connect" /\ up[g] /\ insync[g] /\ st[g] # "TAINTED"
    /\ file' = [file EXCEPT ![g] = FALSE]
    /\ SetState(g, "READY") /\ result' = "ok"
    /\ Go("worker", "return")
    /\ UNCHANGED <<mgr, created, spawned, alive, up, insync, attested, named, served,
                   op, self, held, ops, cancels>>

\* Another version answers, or the secret cannot be removed.
RefuseHandshake ==
    LET g == self["worker"] IN
    /\ pc["worker"] = "connect" /\ up[g] /\ insync[g] /\ st[g] # "TAINTED"
    /\ \/ Unlink(g) /\ UNCHANGED attested
       \/ file[g] /\ UNCHANGED file /\ attested' = [attested EXCEPT ![g] = TRUE]
    /\ Terminate(g) /\ SetState(g, "TAINTED")
    /\ Go("worker", "return")
    /\ UNCHANGED <<mgr, created, spawned, insync, named, served, op, self, held,
                   result, ops, cancels>>

\* A version request of unknown fate: a bad reply ends start(), which kills once
\* more; a timeout is an OSError and goes round the loop.
LoseHandshake ==
    LET g == self["worker"] IN
    /\ pc["worker"] = "connect" /\ st[g] # "TAINTED" /\ Tainted(g)
    /\ pc' \in {[pc EXCEPT !["worker"] = "return"], pc}
    /\ UNCHANGED <<mgr, created, spawned, attested, file, named, served, op, self,
                   held, result, ops, cancels>>

\* The loop sees that the process has ended.
SeeExit ==
    LET g == self["worker"] IN
    /\ pc["worker"] = "connect" /\ ~alive[g]
    /\ Go("worker", "return")
    /\ UNCHANGED <<mgr, sessionVars, served, op, self, held, result, ops, cancels>>

\* After a timeout that did not kill the process run_tcl raises
\* SessionTaintedError, which nothing up to the tool service catches.
RaiseTainted ==
    LET g == self["worker"] IN
    /\ pc["worker"] = "connect" /\ alive[g] /\ st[g] = "TAINTED"
    /\ Go("worker", "idle")
    /\ UNCHANGED <<mgr, sessionVars, served, op, self, held, result, ops, cancels>>

\* Mutant: start() has no deadline.
Deadline_Never == FALSE

Deadline ==
    LET g == self["worker"] IN
    /\ pc["worker"] = "connect"
    /\ IF alive[g] THEN Terminate(g) ELSE UNCHANGED <<alive, up>>
    /\ SetState(g, "TAINTED")
    /\ Go("worker", "return")
    /\ UNCHANGED <<mgr, created, spawned, insync, attested, file, named, served,
                   op, self, held, result, ops, cancels>>

\* Mutant: a failed start always drops the session.
Return_DropsFailed ==
    /\ pc["worker"] = "return"
    /\ mgr' = IF result = "failed" THEN NoGen ELSE mgr
    /\ Go("worker", "idle")
    /\ UNCHANGED <<sessionVars, served, op, self, held, result, ops, cancels>>

\* Back in SessionManager.start: a failed session is dropped unless its process
\* still runs.  The test is made on self.session, not on the session started.
Return ==
    /\ pc["worker"] = "return"
    /\ mgr' = IF result = "failed" /\ mgr # NoGen /\ ~alive[mgr] THEN NoGen ELSE mgr
    /\ Go("worker", "idle")
    /\ UNCHANGED <<sessionVars, served, op, self, held, result, ops, cancels>>

(***************************************************************************)
(* The Vivado process                                                      *)
(***************************************************************************)

\* It sources the bootstrap, if that is there, and listens.
ComesUp(g) ==
    /\ alive[g] /\ ~up[g] /\ file[g]
    /\ up' = [up EXCEPT ![g] = TRUE]
    /\ UNCHANGED <<mgr, created, st, spawned, alive, insync, attested, file, named,
                   served, threadVars, ops, cancels>>

Exits(g) ==
    /\ alive[g] /\ Killed(g)
    /\ UNCHANGED <<mgr, created, st, spawned, insync, attested, file, named, served,
                   threadVars, ops, cancels>>

(***************************************************************************)
(* Specification                                                           *)
(***************************************************************************)

Stopping(a) == StopCall(a) \/ StopTerminate(a) \/ StopPoll(a) \/ Release(a)

Starting == \/ Create \/ Prepare \/ Spawn \/ Handshake \/ RefuseHandshake
            \/ LoseHandshake \/ SeeExit \/ RaiseTainted \/ Deadline \/ Return

WorkerSteps == Use \/ Probe \/ Starting \/ Stopping("worker")

\* The instance has run the tools it may run.
OutOfOps == ops = MaxOps /\ (\A a \in Actors : pc[a] = "idle") /\ UNCHANGED vars

Next == \/ BeginStart \/ BeginStop \/ BeginUse \/ WorkerSteps
        \/ BeginCancel \/ Stopping("canceller")
        \/ \E g \in Gens : ComesUp(g) \/ Exits(g)
        \/ OutOfOps

Spec == Init /\ [][Next]_vars

\* Every wait of the worker has a deadline; Vivado owes nothing.
FairSpec == /\ Spec
            /\ WF_vars(Use \/ Probe \/ Create \/ Prepare \/ Spawn \/ SeeExit
                       \/ RaiseTainted \/ Deadline \/ Return \/ Stopping("worker"))
            /\ WF_vars(Stopping("canceller"))

(***************************************************************************)
(* Properties                                                              *)
(***************************************************************************)

\* What SessionManager.start promises when it refuses to go on (session.py:711):
\* there is never a second Vivado process.
OneManagedProcess == Cardinality({g \in Gens : alive[g]}) <= 1

\* A running process can be stopped: the manager still holds the session that
\* owns it, whatever start and stop ran into; so there is one at most.
ProcessHasHandle == cancels = 0 => \A g \in Gens : alive[g] => mgr = g

\* Tools begin to run Tcl only in a process whose version start() has accepted
\* and whose secret file is gone.  The exception is STOP_FAILED: stop() sets it
\* over TAINTED, and run_tcl refuses only TAINTED.
OnlyAcceptedServes ==
    [][\A g \in served' \ served :
          st[g] # "STOP_FAILED" => attested[g] /\ ~file[g]]_vars

\* Every tool ends, even if Vivado never listens or never dies.
ToolEnds == pc["worker"] # "idle" ~> pc["worker"] = "idle"
=============================================================================
