---------------------------- MODULE ProjectGate ----------------------------
(***************************************************************************)
(* Which Vivado project a tool may change: the mutation scope and the      *)
(* project capabilities of VivadoToolService (tools.py), the gate in       *)
(* call(), and the tools that open, create and close projects and start    *)
(* and stop sessions.  cancel_active_operation runs in a second thread.    *)
(*                                                                         *)
(* The user owns the Vivado GUI and the disk: any project may become the   *)
(* current one between two Tcl commands, and project files may be edited   *)
(* or replaced between two tools.  Whether an edit reaches a project while *)
(* a tool runs is not modelled.                                            *)
(*                                                                         *)
(* A capability records the generation it is bound to and the file object  *)
(* it was captured from; drift says whether the content on disk still is   *)
(* what the registered capability recorded.                                *)
(***************************************************************************)
EXTENDS Naturals

CONSTANTS Paths,       \* project paths
          Existing,    \* those where a project exists that MCP did not create
          None,        \* no capability, no current project
          MaxGen,      \* bound: sessions started
          MaxOutside,  \* bound: interventions of the user
          MaxCancels   \* bound: cancelled tools

ASSUME GateAssumption ==
    /\ Existing \subseteq Paths
    /\ MaxGen \in Nat \ {0}
    /\ MaxOutside \in Nat
    /\ MaxCancels \in Nat

Objects      == {"absent", "foreign", "made"}
Capabilities == [path : Paths, gen : 0..MaxGen, obj : Objects \ {"absent"}]
Projects     == [path : Paths, obj : Objects \ {"absent"}, readOnly : BOOLEAN,
                 by : {"mcp", "repair", "user"}]

ASSUME NoneAssumption == None \notin Capabilities \cup Projects

VARIABLES
    \* VivadoToolService
    scope,      \* _project_mutation_scope
    caps,       \* _mcp_created_project_capabilities
    active,     \* _active_project_capability
    \* the worker thread
    pc, op,     \* where it is, and in which tool
    target,     \* the path argument of that tool
    held,       \* the capability the handler works with
    canceller,  \* the thread in cancel_active_operation
    \* the session and its Vivado process
    gen, sess,
    current,    \* Vivado's current_project
    \* the disk
    disk,       \* the object at each project path
    drift,      \* paths whose content is not what caps[p] recorded
    \* history
    touched,    \* the projects guarded tools have changed
    settled,    \* projects closed by a tool that nobody has opened or changed since
    outside, cancels

serviceVars == <<scope, caps, active>>
threadVars  == <<pc, op, target, held, canceller>>
vivadoVars  == <<gen, sess, current>>
diskVars    == <<disk, drift>>
bounds      == <<outside, cancels>>
history     == <<touched, settled>>
vars == <<serviceVars, threadVars, vivadoVars, diskVars, history, bounds>>

ServiceType ==
    /\ scope \in {"unbound", "indeterminate", "mcp_created_project",
                  "existing_project_read_only"}
    /\ caps \in [Paths -> Capabilities \cup {None}]
    /\ \A p \in Paths : caps[p] # None => caps[p].path = p
    /\ active \in Capabilities \cup {None}

ThreadType ==
    /\ pc \in {"idle", "mutate", "repair", "reconcile", "xdc", "create", "bind",
               "register", "open", "guard", "grant", "close", "closed", "start", "stop"}
    /\ op \in {"tool", "stop"}
    /\ target \in Paths
    /\ held \in Capabilities \cup {None}
    /\ canceller \in {"idle", "stop", "clear"}

VivadoType ==
    /\ gen \in 0..MaxGen
    /\ sess \in {"none", "live", "exited", "tainted"}
    /\ current \in Projects \cup {None}
    /\ current # None => sess = "live"

DiskType ==
    /\ disk \in [Paths -> Objects]
    /\ drift \in SUBSET Paths
    /\ touched \in SUBSET Projects
    /\ settled \in SUBSET Paths
    /\ outside \in 0..MaxOutside
    /\ cancels \in 0..MaxCancels

TypeOK == ServiceType /\ ThreadType /\ VivadoType /\ DiskType

Init ==
    /\ scope = "unbound" /\ caps = [p \in Paths |-> None] /\ active = None
    /\ pc = "idle" /\ op = "tool" /\ target \in Paths /\ held = None
    /\ canceller = "idle"
    /\ gen = 0 /\ sess = "none" /\ current = None
    /\ disk = [p \in Paths |-> IF p \in Existing THEN "foreign" ELSE "absent"]
    /\ drift = {} /\ touched = {} /\ settled = {}
    /\ outside = 0 /\ cancels = 0

\* One tool at a time, none while a cancelled one is being cleared away.
Idle == pc = "idle" /\ canceller = "idle"

Go(l) == pc' = l

(***************************************************************************)
(* One run_tcl as the handlers see it                                      *)
(***************************************************************************)

\* The request leaves Vivado and the session as they are.
Quiet == UNCHANGED <<gen, sess, current>>

\* A request of unknown fate: the session is tainted and the process killed.
Lost == /\ sess = "live" /\ sess' = "tainted" /\ current' = None
        /\ UNCHANGED gen

\* ok = False: a Tcl error, or a reply that cannot be trusted.
Fails == (sess = "live" /\ Quiet) \/ Lost

\* An OSError: nothing could be sent, or the reply did not come in time.
RaisesOSError == (sess # "tainted" /\ Quiet) \/ Lost

\* A SessionTaintedError, or no session to ask.
RaisesOther == sess \in {"tainted", "none"} /\ Quiet

\* What active_project_identity_guard_command lets through.
IsCurrent(c) == current # None /\ current.path = c.path

(***************************************************************************)
(* The capability checks of vivado/project_capability.py                   *)
(***************************************************************************)

\* Mutant: the identity of the project file is not compared.
SameObject_Unchecked(c) == TRUE

SameObject(c) == disk[c.path] = c.obj

\* verify_project_capability without the content
Verified(c) == c.gen = gen /\ SameObject(c)

(***************************************************************************)
(* The gate of call() and the tools behind it                              *)
(***************************************************************************)

\* A guarded tool is let in only while the active capability can be verified;
\* in every other scope it is refused, which changes nothing.
Gate ==
    /\ Idle /\ sess # "none" /\ scope = "mcp_created_project"
    /\ IF active # None /\ Verified(active)
       THEN pc' \in {"mutate", "repair", "xdc"} /\ held' = active /\ UNCHANGED scope
       ELSE scope' = "indeterminate" /\ UNCHANGED <<pc, held>>
    /\ UNCHANGED <<caps, active, op, target, canceller, vivadoVars, diskVars,
                   history, bounds>>

\* What a command that adds or removes files, sets top or part, or configures
\* the project does to the project it runs in.
Touches(q) == touched' = touched \cup {q} /\ drift' = drift \cup {q.path}

\* Mutant: the commands carry no check of the current project.
MutateRun_Unguarded ==
    /\ pc = "mutate" /\ sess = "live" /\ current # None
    /\ Touches(current)
    /\ Go("idle")
    /\ Quiet
    /\ UNCHANGED <<serviceVars, op, target, held, canceller, disk, settled, bounds>>

\* One Tcl command of a guarded handler, behind the identity check.  It may
\* change the project even if it then fails; the handler may send another.
MutateRun ==
    /\ pc = "mutate" /\ sess = "live" /\ IsCurrent(held)
    /\ Touches(current)
    /\ \/ Quiet /\ pc' \in {"mutate", "idle"}
       \/ Lost /\ Go("idle")
    /\ UNCHANGED <<serviceVars, op, target, held, canceller, disk, settled, bounds>>

\* The same for every guarded command.
GuardedSteps == {"mutate", "repair", "reconcile", "xdc"}
MutateMismatch ==
    /\ pc \in GuardedSteps /\ sess = "live" /\ ~IsCurrent(held)
    /\ scope' = "indeterminate" /\ active' = None
    /\ Go("idle")
    /\ UNCHANGED <<caps, op, target, held, canceller, vivadoVars, diskVars, history,
                   bounds>>

MutateRaises ==
    /\ pc \in GuardedSteps /\ (Fails \/ RaisesOSError \/ RaisesOther)
    /\ Go("idle")
    /\ UNCHANGED <<serviceVars, op, target, held, canceller, diskVars, history,
                   bounds>>

(***************************************************************************)
(* create_managed_xdc                                                      *)
(***************************************************************************)

\* A guarded command names the directory, and the file is written into it from
\* outside Vivado, under a new name; then it is added by another command.
WriteXdc ==
    /\ pc = "xdc" /\ sess = "live" /\ IsCurrent(held)
    /\ \/ touched' = touched \cup {[current EXCEPT !.obj = disk[held.path]]} /\ Go("mutate")
       \/ UNCHANGED touched /\ Go("idle")
    /\ Quiet
    /\ UNCHANGED <<serviceVars, op, target, held, canceller, diskVars, settled, bounds>>

(***************************************************************************)
(* repair_project_setup                                                    *)
(***************************************************************************)

\* A dry run is not guarded and changes nothing.  The inputs of a repair are
\* refused if one is missing, executable or not a readable, declarative XDC.
RepairRefused ==
    /\ pc = "repair" /\ Go("idle")
    /\ UNCHANGED <<serviceVars, op, target, held, canceller, vivadoVars, diskVars,
                   history, bounds>>

\* The trusted-input preflight reads the closure of the current project.
TrustedInputs ==
    /\ pc = "repair" /\ sess = "live" /\ IsCurrent(held)
    /\ pc' \in {"reconcile", "idle"} /\ Quiet
    /\ UNCHANGED <<serviceVars, op, target, held, canceller, diskVars, history, bounds>>

\* The project the command works on: the one at project_path, which is opened,
\* for writing, unless it is the current one.
RepairTarget(p) ==
    IF p = current.path THEN current
    ELSE [path |-> p, obj |-> disk[p], readOnly |-> FALSE, by |-> "repair"]

\* What run_hook_guard_command refuses is closed as well as may be.
HookGuardRefuses(q) == current' \in {q, None}

\* The identity of the current project is checked before project_path is opened
\* and not after it.  The hook guard comes next, the operations follow, as far
\* as they get, and at the end the filesets are compared with the request.
Reconcile(p) ==
    LET q == RepairTarget(p) IN
    /\ pc = "reconcile" /\ sess = "live" /\ IsCurrent(held) /\ q.obj # "absent"
    /\ Go("idle")
    /\ settled' = settled \ {p}
    /\ \/ /\ Touches(q)
          /\ \/ current' = q /\ UNCHANGED <<gen, sess>>
             \/ Lost
       \/ HookGuardRefuses(q) /\ UNCHANGED <<touched, drift, gen, sess>>
    /\ UNCHANGED <<serviceVars, op, target, held, canceller, disk, bounds>>

(***************************************************************************)
(* create_project                                                          *)
(***************************************************************************)

\* An existing .xpr is refused.
CreateBegin(p) ==
    /\ Idle /\ disk[p] = "absent"
    /\ scope' = "indeterminate"
    /\ target' = p
    /\ Go("create")
    /\ UNCHANGED <<caps, active, op, held, canceller, vivadoVars, diskVars, history,
                   bounds>>

\* The script may fail after the project was made; only the reply decides.
CreateRun ==
    /\ pc = "create"
    /\ \/ /\ sess = "live"
          /\ disk' = [disk EXCEPT ![target] = "made"]
          /\ current' = [path |-> target, obj |-> "made", readOnly |-> FALSE, by |-> "mcp"]
          /\ pc' \in {"bind", "idle"}
          /\ UNCHANGED <<gen, sess>>
       \/ /\ Lost /\ Go("idle")
          /\ disk' \in {disk, [disk EXCEPT ![target] = "made"]}
       \/ /\ Fails \/ RaisesOSError \/ RaisesOther
          /\ Go("idle") /\ UNCHANGED disk
    /\ UNCHANGED <<serviceVars, op, target, held, canceller, drift, history, bounds>>

\* The session is looked up again, the file semantics may not match, and the
\* marker may exist already.
Bind ==
    /\ pc = "bind"
    /\ \/ sess = "none" /\ Go("idle") /\ UNCHANGED <<scope, active, held>>
       \/ /\ sess # "none"
          /\ scope' = "indeterminate" /\ active' = None
          /\ Go("idle") /\ UNCHANGED held
       \/ /\ sess # "none"
          /\ held' = [path |-> target, gen |-> gen, obj |-> disk[target]]
          /\ Go("register") /\ UNCHANGED <<scope, active>>
    /\ UNCHANGED <<caps, op, target, canceller, vivadoVars, diskVars, history,
                   bounds>>

Register ==
    /\ pc = "register"
    /\ scope' = "mcp_created_project"
    /\ caps' = [caps EXCEPT ![target] = held]
    /\ active' = held
    /\ drift' = drift \ {target}
    /\ Go("idle")
    /\ UNCHANGED <<op, target, held, canceller, vivadoVars, disk, history, bounds>>

(***************************************************************************)
(* open_project                                                            *)
(***************************************************************************)

\* A registered project must still be the object, with the content, that the
\* capability recorded; its capability then moves to the current generation.
OpenBegin(p) ==
    /\ Idle
    /\ target' = p
    /\ \/ /\ sess = "none"
          /\ scope' = "indeterminate"
          /\ UNCHANGED <<caps, active, pc, held>>
       \/ /\ sess # "none" /\ caps[p] # None /\ ~(SameObject(caps[p]) /\ p \notin drift)
          /\ scope' = "unbound" /\ active' = None
          /\ caps' = [caps EXCEPT ![p] = None]
          /\ UNCHANGED <<pc, held>>
       \/ /\ sess # "none" /\ caps[p] # None /\ SameObject(caps[p]) /\ p \notin drift
          /\ scope' = "indeterminate"
          /\ caps' = [caps EXCEPT ![p].gen = gen]
          /\ held' = caps'[p]
          /\ Go("open") /\ UNCHANGED active
       \/ /\ sess # "none" /\ caps[p] = None
          /\ scope' = "indeterminate"
          /\ held' = None
          /\ Go("open") /\ UNCHANGED <<caps, active>>
    /\ UNCHANGED <<op, canceller, vivadoVars, diskVars, history, bounds>>

\* A project without a capability is opened -read_only.
OpenRun ==
    /\ pc = "open"
    /\ \/ /\ sess = "live" /\ disk[target] # "absent"
          /\ current' = [path |-> target, obj |-> disk[target],
                         readOnly |-> held = None, by |-> "mcp"]
          /\ settled' = settled \ {target}
          /\ Go("guard") /\ UNCHANGED <<scope, gen, sess>>
       \/ Fails /\ scope' = "unbound" /\ Go("idle") /\ UNCHANGED settled
       \/ (RaisesOSError \/ RaisesOther) /\ Go("idle") /\ UNCHANGED <<scope, settled>>
    /\ UNCHANGED <<caps, active, op, target, held, canceller, diskVars, touched,
                   bounds>>

\* The hook guard: a project it refuses is closed as well as may be.
OpenGuard ==
    /\ pc = "guard"
    /\ \/ sess = "live" /\ Quiet /\ Go("grant") /\ UNCHANGED scope
       \/ /\ sess = "live" /\ scope' = "unbound" /\ Go("idle")
          /\ HookGuardRefuses(current) /\ UNCHANGED <<gen, sess>>
       \/ Lost /\ scope' = "unbound" /\ Go("idle")
       \/ (RaisesOSError \/ RaisesOther) /\ UNCHANGED scope /\ Go("idle")
    /\ UNCHANGED <<caps, active, op, target, held, canceller, diskVars, history,
                   bounds>>

OpenGrant ==
    /\ pc = "grant"
    /\ scope' = IF held # None THEN "mcp_created_project" ELSE "existing_project_read_only"
    /\ active' = held
    /\ Go("idle")
    /\ UNCHANGED <<caps, op, target, held, canceller, vivadoVars, diskVars, history,
                   bounds>>

(***************************************************************************)
(* close_project, also as the checkpoint of stop_session                   *)
(***************************************************************************)

\* Where a close ends: on its own, or on the way to manager.stop.
Closed == IF op = "stop" THEN "stop" ELSE "idle"

\* A failed checkpoint costs the project its capability.
Checkpoint(c) ==
    /\ scope' = "unbound" /\ active' = None
    /\ caps' = IF c = None THEN caps ELSE [caps EXCEPT ![c.path] = None]

\* PROJECT_CAPABILITY_CLOSE_GUARD_FAILED
CloseGuardFails(c) ==
    IF op = "stop" THEN Checkpoint(c)
    ELSE /\ scope' = "indeterminate" /\ active' = None
         /\ caps' = IF c = None THEN caps ELSE [caps EXCEPT ![c.path] = None]

\* Any other failure leaves the service as it is.
CloseFails(c) == IF op = "stop" THEN Checkpoint(c) ELSE UNCHANGED serviceVars

\* PROJECT_ACTIVE_IDENTITY_MISMATCH, which call() answers for a tool of its own.
CloseMismatch(c) ==
    IF op = "stop" THEN Checkpoint(c)
    ELSE scope' = "indeterminate" /\ active' = None /\ UNCHANGED caps

CloseBegin ==
    /\ Idle /\ sess # "none"
    /\ op' = "tool" /\ held' = active
    /\ IF active = None \/ Verified(active)
       THEN Go("close") /\ UNCHANGED serviceVars
       ELSE /\ scope' = "indeterminate" /\ active' = None
            /\ caps' = [caps EXCEPT ![active.path] = None]
            /\ UNCHANGED pc
    /\ UNCHANGED <<target, canceller, vivadoVars, diskVars, history, bounds>>

\* stop_session: without an active capability there is nothing to checkpoint.
StopBegin ==
    /\ Idle
    /\ op' = "stop" /\ held' = active
    /\ IF active # None /\ sess # "none" /\ Verified(active)
       THEN Go("close") /\ UNCHANGED serviceVars
       ELSE /\ Go("stop")
            /\ IF active = None THEN UNCHANGED serviceVars ELSE Checkpoint(active)
    /\ UNCHANGED <<target, canceller, vivadoVars, diskVars, history, bounds>>

CloseRun ==
    /\ pc = "close"
    /\ \/ /\ sess = "live" /\ current # None
          /\ held # None => IsCurrent(held)
          /\ current' = None
          /\ Go("closed") /\ UNCHANGED <<serviceVars, gen, sess>>
       \/ /\ sess = "live" /\ held # None /\ ~IsCurrent(held)
          /\ CloseMismatch(held) /\ Quiet /\ Go(Closed)
       \/ Fails /\ CloseFails(held) /\ Go(Closed)
       \/ RaisesOSError /\ CloseGuardFails(held) /\ Go(Closed)
       \/ RaisesOther /\ CloseFails(held) /\ Go(Closed)
    /\ UNCHANGED <<op, target, held, canceller, diskVars, history, bounds>>

\* Mutant: the refreshed capability is not stored.
CloseDone_NoRefresh ==
    /\ pc = "closed"
    /\ scope' = "unbound" /\ active' = None
    /\ settled' = IF held = None THEN settled ELSE settled \cup {held.path}
    /\ Go(Closed)
    /\ UNCHANGED <<caps, op, target, held, canceller, vivadoVars, diskVars, touched,
                   bounds>>

\* Mutant: stored under the path the last tool was given.
CloseDone_WrongKey ==
    /\ pc = "closed"
    /\ IF held = None THEN UNCHANGED <<caps, drift, settled>>
       ELSE /\ caps' = [caps EXCEPT ![target] = held]
            /\ drift' = drift \ {held.path} /\ settled' = settled \cup {held.path}
    /\ scope' = "unbound" /\ active' = None
    /\ Go(Closed)
    /\ UNCHANGED <<op, target, held, canceller, vivadoVars, disk, touched, bounds>>

\* refresh_project_capability records the content the project was closed with.
CloseDone ==
    /\ pc = "closed"
    /\ \/ /\ held # None /\ SameObject(held)
          /\ caps' = [caps EXCEPT ![held.path] = held]
          /\ drift' = drift \ {held.path} /\ settled' = settled \cup {held.path}
          /\ scope' = "unbound" /\ active' = None
       \/ /\ held = None
          /\ scope' = "unbound" /\ active' = None
          /\ UNCHANGED <<caps, drift, settled>>
       \/ held # None /\ CloseGuardFails(held) /\ UNCHANGED <<drift, settled>>
    /\ Go(Closed)
    /\ UNCHANGED <<op, target, held, canceller, vivadoVars, disk, touched, bounds>>

\* manager.stop may fail, and then the session and the scope stay.
StopRun ==
    /\ pc = "stop"
    /\ Go("idle")
    /\ \/ /\ sess' = "none" /\ current' = None
          /\ scope' = "unbound" /\ active' = None
       \/ sess # "none" /\ UNCHANGED <<sess, current, scope, active>>
    /\ UNCHANGED <<caps, op, target, held, canceller, gen, diskVars, history, bounds>>

(***************************************************************************)
(* start_session                                                           *)
(***************************************************************************)

\* Mutant: what was trusted in the last session stays trusted.
StartBegin_KeepsScope ==
    /\ Idle
    /\ Go("start")
    /\ UNCHANGED <<serviceVars, op, target, held, canceller, vivadoVars, diskVars,
                   history, bounds>>

StartBegin ==
    /\ Idle
    /\ scope' = "unbound" /\ active' = None
    /\ Go("start")
    /\ UNCHANGED <<caps, op, target, held, canceller, vivadoVars, diskVars, history,
                   bounds>>

\* A session that answers is kept, with whatever it has open; any other is
\* replaced by a new generation, or the start fails.
StartRun ==
    /\ pc = "start"
    /\ \/ sess = "live" /\ Quiet
       \/ /\ gen < MaxGen
          /\ gen' = gen + 1 /\ sess' = "live" /\ current' = None
       \/ /\ sess' \in {sess, "none"} /\ UNCHANGED gen
          /\ current' = IF sess' = "none" THEN None ELSE current
    /\ Go("idle")
    /\ UNCHANGED <<serviceVars, op, target, held, canceller, diskVars, history, bounds>>

(***************************************************************************)
(* cancel_active_operation                                                 *)
(***************************************************************************)

CancelBegin ==
    /\ canceller = "idle" /\ pc # "idle" /\ cancels < MaxCancels
    /\ cancels' = cancels + 1 /\ canceller' = "stop"
    /\ UNCHANGED <<serviceVars, pc, op, target, held, vivadoVars, diskVars, history, outside>>

CancelStop ==
    /\ canceller = "stop"
    /\ canceller' = "clear"
    /\ \/ /\ sess' = "none" /\ current' = None
       \/ UNCHANGED <<sess, current>>
    /\ UNCHANGED <<serviceVars, pc, op, target, held, gen, diskVars, history, bounds>>

\* The worker may still write the service's fields after this.
CancelClear ==
    /\ canceller = "clear"
    /\ canceller' = "idle"
    /\ scope' = "unbound" /\ caps' = [p \in Paths |-> None] /\ active' = None
    /\ UNCHANGED <<pc, op, target, held, vivadoVars, diskVars, history, bounds>>

(***************************************************************************)
(* The world outside                                                       *)
(***************************************************************************)

ProcessExits ==
    /\ sess = "live"
    /\ sess' = "exited" /\ current' = None
    /\ UNCHANGED <<serviceVars, threadVars, gen, diskVars, history, bounds>>

Intervene == outside < MaxOutside /\ outside' = outside + 1 /\ UNCHANGED cancels

\* In the GUI the user closes the current project or opens another.
UserSwitches(p) ==
    /\ Intervene /\ sess = "live"
    /\ \/ current' = None
       \/ /\ disk[p] # "absent"
          /\ current' = [path |-> p, obj |-> disk[p], readOnly |-> FALSE, by |-> "user"]
    /\ settled' = settled \ {p}
    /\ UNCHANGED <<serviceVars, threadVars, gen, sess, diskVars, touched>>

\* A project file is edited in place.
UserEdits(p) ==
    /\ Intervene /\ pc = "idle" /\ disk[p] # "absent"
    /\ drift' = drift \cup {p} /\ settled' = settled \ {p}
    /\ UNCHANGED <<serviceVars, threadVars, vivadoVars, disk, touched>>

\* Another project is put in its place.
UserReplaces(p) ==
    /\ Intervene /\ pc = "idle" /\ disk[p] # "absent"
    /\ disk' = [disk EXCEPT ![p] = "foreign"]
    /\ drift' = drift \cup {p} /\ settled' = settled \ {p}
    /\ UNCHANGED <<serviceVars, threadVars, vivadoVars, touched>>

(***************************************************************************)
(* Specification                                                           *)
(***************************************************************************)

Guarded == Gate \/ MutateRun \/ MutateMismatch \/ MutateRaises
Repair  == RepairRefused \/ TrustedInputs \/ \E p \in Paths : Reconcile(p)
Create  == (\E p \in Paths : CreateBegin(p)) \/ CreateRun \/ Bind \/ Register
Open    == (\E p \in Paths : OpenBegin(p)) \/ OpenRun \/ OpenGuard \/ OpenGrant
Close   == CloseBegin \/ StopBegin \/ CloseRun \/ CloseDone
Session == StopRun \/ StartBegin \/ StartRun
Cancel  == CancelBegin \/ CancelStop \/ CancelClear
World   == ProcessExits \/ \E p \in Paths : UserSwitches(p) \/ UserEdits(p) \/ UserReplaces(p)

Next == Guarded \/ WriteXdc \/ Repair \/ Create \/ Open \/ Close \/ Session \/ Cancel \/ World

Spec == Init /\ [][Next]_vars

(***************************************************************************)
(* Properties                                                              *)
(***************************************************************************)

Ours(q) == q.obj = "made" /\ ~q.readOnly

\* Whatever the user does in the GUI and whatever was cancelled or timed out,
\* a guarded tool only ever changes a project that create_project made; but
\* repair_project_setup also changes one it has opened by project_path.
OnlyRepairStrays == \A q \in touched : Ours(q) \/ q.by = "repair"

\* The same without the exception, as the catalog says: external projects remain
\* inspection-only and cannot be repaired in place (agent_catalog.py:473).
ForeignUntouched == \A q \in touched : Ours(q)

\* open_project opens a project MCP did not create -read_only, also at a path
\* where MCP once created one.
ForeignIsReadOnly ==
    current # None /\ current.by = "mcp" /\ current.obj = "foreign" => current.readOnly

\* While a session is there to be used and no tool runs, the created scope rests
\* on a capability of that very generation: what a cancelled or stranded tool
\* left behind never carries over into a new session.
TrustIsCurrent ==
    Idle /\ sess # "none" /\ scope = "mcp_created_project" =>
        active # None /\ active.gen = gen

\* A project that close_project closed, or stop_session checkpointed, and that
\* nobody has touched since, is not refused by open_project, however many
\* sessions came and went in between.
CheckpointReopens ==
    [][\A p \in settled : OpenBegin(p) /\ caps[p] # None => caps'[p] # None]_vars
=============================================================================
