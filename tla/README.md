# Formal verification of vivado-agent-mcp

vivado-agent-mcp is an MCP server through which an agent drives the Vivado GUI:
tool calls arrive over stdio, a service turns them into Tcl, a numbered and
authenticated channel on the loopback interface carries the Tcl into a Vivado
process the server started, and the answers are assessed, recorded and gated. The
program is mostly shape (a hundred handlers that build a command and describe its
answer) around a small core that must never be wrong: a command that changes a
project runs at most once, in the process the server owns, in the project MCP
created, on evidence that belongs to it, and what happened is on record. This
directory models that core in TLA+, checks it with TLC and proves part of it with
TLAPS.

Paths below are relative to `src/src/vivado_agent_mcp/` unless they begin with
`tests/`.

## 1. The system

| Component | State | Operations | Hard behaviour |
|---|---|---|---|
| Tcl channel (`vivado/session.py`, `vivado/bootstrap.py`) | session state and taint reason, `_sequence`, `_request_lock`; in Vivado the last accepted sequence number and the running command | `run_tcl`, `stop`, the Tcl procedure `vivado_agent_mcp_handle` | one connection per request, timeouts with unknown outcome, repeated and late requests, threads waiting for the lock, a stop at any time |
| Tool dispatcher (`server.py`) | executor queue, `_active_request`, `_cancellation_done`, a cancelled event per request, `_shutdown` | `call`, `_call_owned`, `_cancel_if_active`, `_cancel_for_shutdown`, `shutdown` | an event loop, a worker thread and a thread per cancellation; shutdown against all of them |
| Session lifecycle (`vivado/session.py`) | `SessionManager.session`; process handle, bootstrap file, state and attested version of each session | `start`, `status`, `stop`, `current` | start fails at any of a dozen points; a process survives its termination; cancellation stops a session that is being started |
| Project gate (`tools.py`, `vivado/project_capability.py`) | mutation scope, registry of capabilities, active capability | the gate of `call`, `create_project`, `open_project`, `close_project`, `repair_project_setup`, `create_managed_xdc`, `start_session`, `stop_session`, `cancel_active_operation` | the user works in the same GUI; cancellation clears the state while the cancelled tool still runs; checks and Tcl commands are apart in time |
| Workflow trace (`vivado/workflow_trace.py`) | a global ledger per server, a ledger per project shared by servers, lock files | `record`, `status`, `ensure_project_dir` | two processes, stale locks, torn lines, two files written one after the other |
| Tool service, other handlers (`tools.py`) | `_run_launches`, the last evidence | about a hundred handlers | a launch record that outlives its run; evidence collected from a run that was reset |
| Run management (`vivado/runs.py`) | none (generates Tcl, classifies run states) | launch, poll, reset, collect | classification of states that Vivado reports inconsistently |
| Managed files (`vivado/managed_path.py`, `vivado/evidence_store.py`) | files and directories, by identity | atomic write and copy, snapshot, delete by snapshot | replacement of a path between check and use, rollback that fails |
| Runtime cache and programming (`vivado/runtime_cache.py`, `runtime_identity.py`, `tools.py`) | marker, bootstrap and staged files of the runtime directory; the board | status, plan, apply; `program_hw_device`, `program_from_artifact_manifest` | a plan is reviewed, then applied while sessions come and go; a bitstream or a board is exchanged after it was confirmed |
| Evidence attestation (`vivado/evidence_attestation.py`) | key, trust anchor and ledger files | attest, verify | creation by several servers that may die in the middle |
| Policy pipeline (`policy_pipeline.py`, `policy_shadow.py`, `capability_spec.py`) | issued allows and grants of an issuer | evaluate, issue, consume | agreement with the gate it shadows |
| Artifacts, audit, signoff (`vivado/artifacts.py`, `audit.py`, `prehardware.py`, `readiness.py`) | manifests and bundles on disk | collect, validate, waive, sign off | evidence older than the inputs it speaks of; a bundle read while another is written |
| Simulation (`vivado/simulation.py`) | Tcl globals of the last launch, logs on disk | preflight, run, result | sources that change between attestation and launch; result of an earlier run taken for the present one |
| Constraints, Tcl policy, wire, parsers (`vivado/constraints.py`, `tcl_policy.py`, `wire.py`, `parsers.py`, `tcl.py`, `project.py`) | none | scan, allow or refuse, encode, decode, parse | quoting, truncation, nesting |
| Results (`result.py`) | none | shape an answer | the table that makes ok, status and stop_required agree |
| Release identity, qualification, self test (`release_identity.py`, `qualification.py`, `selftest.py`) | records and a matrix on disk | build, validate, update | which transitions of the matrix are allowed |
| Registry, catalog, IP, block design, other hardware tools, environment, entry points | none | static tables, stateless Tcl generation, discovery | none worth a model |

How they interact. The dispatcher calls `VivadoToolService.call` in its worker
thread, one request at a time; that is why the gate and the trace may be modelled
with one tool at a time. `cancel_active_operation` is the only entry that runs
beside it: it stops the manager's session and clears the gate's state. A handler
reaches Vivado through `SessionManager.current().run_tcl`; a channel that is in
doubt taints its session, and the manager replaces tainted sessions by new
generations. The gate binds capabilities to generations. `call` ends by recording
the answer in the trace, and answers `WORKFLOW_TRACE_WRITE_FAILED` if it cannot.

What makes each component correct, in one line: the channel runs a command at most
once and says truthfully what became of it; the dispatcher aborts only what was
cancelled and settles every request; the lifecycle keeps a handle on the one process
it may have; the gate lets nothing change a project MCP did not create and carries
no trust over; the trace never loses or contradicts what it acknowledged; evidence
that is accepted, audited or bundled describes one build, and the one it names; a
simulation runs and reports what was attested; files are replaced and deleted only as
they were seen, and a board gets what was confirmed for it.

## 2. The modules

`TclChannel` implements `CallContract`; `TclChannelProofs` holds its theorems. The
other components are separate modules, and each takes from its neighbours only what
it names: `SessionLifecycle` takes from the channel that a generation with a request
of unknown fate accepts nothing more (its variable `insync`; the property
`NothingRunsAfterTaint` of the channel), `ProjectGate` takes from the lifecycle that
a session is live, exited, tainted or gone, and `Dispatcher` leaves the tool service
abstract. Two chains are composed: `Handoff` extends `RunEvidence`, which extends
`RunLaunch`: one state, one step at a time of the tool, of Vivado or of the user; and
`PolicyGate` puts `PolicyShadow` beside every state of `ProjectGate`. Two modules,
`ProjectTools` and `ManagedStorage`, put parts side by side that share no state: a
behaviour of theirs is one of a single part while the others rest. That loses
nothing: no step of a part reads what another keeps, so the steps of one part in any
interleaving are a behaviour of that part alone, and a property of one part that an
interleaving breaks is broken there too. `MC*` modules only give names to the values
of an instance and hold the constants a configuration file cannot write.

### TclChannel

One generation of the channel. State to code: `state`, `tainted`, `seq`, `lock` are
`GuiTcpVivadoSession.state`, `taint_reason`, `_sequence`, `_request_lock`; `pc`,
`cur`, `stage`, `pending` say where a thread is inside `run_tcl`; `wire` and `reply`
are the listening socket's backlog and the connections; `alive`, `lastSeq`, `busy`
are the process, `vivado_agent_mcp_last_sequence` and the command in `uplevel`;
`log` is the history of what the server accepted.

`RunTcl` is the unlocked test of the state, `Acquire` the lock, `Send` and
`SendFails` connect and sendall, `ReadResult` the authenticated reply that commits
the number, `Verify` the checks between a preflight and its command
(`_run_with_trusted_project_inputs`), `Timeout` and `BadReply` the ways to
`_mark_tainted`, `FinishTaint` its termination of the process and the raise.
`Accept`, `Reject` and `Complete` are the Tcl handler: check, take the number, run,
reply. `StopBegin`, `StopTerminate`, `StopFinish` are `stop()` in another thread,
which does not take the request lock. `Replay` presents a request again.

Abstractions. A request that was cut short is refused whatever it contained; its
content is one of whole, truncated, replay. A command is atomic between accept and
complete, may take for ever, and may be cut by the end of the process. Connections
are served in the order they were made, as Tcl's event loop does. `READY` stands for
every state `run_tcl` does not tell apart.

### CallContract

What a caller of `run_tcl` may rely on: done, refused (never ran and never will) or
unknown, each command at most once. `TclChannel!ContractKept` is the refinement; its
mapping calls a guarded call's `error` and `blocked` unknown, the second because of
the finding `BlockedNeverRuns`.

### Dispatcher

`task` is the coroutine of a request, `queue` and `future` the executor's, `worker`
and `job` the worker thread, `active` and `gate` are `_active_request` and
`_cancellation_done`, `canceller` the `asyncio.to_thread` work of a cancellation,
`stop` the progress of `shutdown`. Every section under `_lock` is one action.
`Cancel`, `CheckOwner`, `Join`, `Recancel` are the `except CancelledError` clause: a
cancellation leaves the queue alone and `Take` skips a request that was cancelled in it;
`PassGate`, `Admit`, `CallReturns`, `Leave` are `_call_owned`; `BeginAbort` and
`EndAbort` are `_cancel_if_active`; `Drain`, `ClaimAbort`, `EndShutdownAbort`,
`JoinWorker` are `shutdown`. Calls that the event loop answers itself (local control
tools) touch none of this and are left out.

### SessionLifecycle

Sessions are numbered by generation; `mgr` is `SessionManager.session`, and per
session there are the state, the process (`spawned`, `alive`, `up`), the accepted
version and the bootstrap file with the secret. Two threads work: the worker, in
`start_session`, `stop_session` or a tool that sends Tcl, and the canceller, in
`manager.stop`. `Create` to `Return` are `GuiTcpVivadoSession.start` with each of
its failures, `StopCall` to `Release` are `stop` and the manager's forgetting,
`Probe` is the status test at the head of `SessionManager.start`. An unlink of the
bootstrap file may fail; a termination may leave the process (`KillMayFail`).

### ProjectGate

`scope`, `caps`, `active` are the three fields of `VivadoToolService`; `current` is
the project open in Vivado and `disk` the object at each path; `drift` says that the
content of a path is no longer what its capability recorded. Guarded tools are one
action for the gate and one per Tcl command (`MutateRun`, with `Touches` for what it
does), because the user can switch projects in between; `create_project`,
`open_project`, `close_project`, `create_managed_xdc`, `repair_project_setup` and the
checkpoint in `stop_session` are split where the code sends Tcl. Of a repair,
`RepairRefused` is the check of the inputs, `TrustedInputs` the preflight of the
channel, `Reconcile` the command that opens `project_path` if it is another project
(`RepairTarget`), passes or fails the hook guard and changes what it has open.
`CancelStop` and `CancelClear` are `cancel_active_operation`. Edits of a project on
disk happen between tools only: the window between a content check and the Tcl
command that follows it is not modelled. Of Vivado it is assumed that it keeps
several projects open and that `open_project` makes the new one current.

### PolicyShadow and PolicyGate

`PolicyShadow` computes two judgements of a tool call: `Legacy`, the checks of
`call()` in their order, and the shadow pipeline's, from the metadata `registry.py`
derives of its lists of names, over one tool of each kind. `Disagreements` are the
observations of the service on which they differ for some call; `PolicyGate` takes
the observation from each state of `ProjectGate`. Two differences are excepted: the
pipeline asks for the executable before the facade does, and asks again a moment
later. The part of the pipeline that issues and consumes grants is left out: no
shipped code path reaches it (section 7).

### RunLaunch, RunEvidence, Handoff

One implementation run of one project. `closure` is what the design execution
identity hashes: files, whose edits never return to an old identity because the
modification time is part of it, and settings, which may. `run` is what Vivado
reports of the run with the closure it was really built from; `bit` the bitstream: the
execution its modification time fits, which is all the code compares, and its origin,
which no code can see and which is foreign once somebody has put another file there
(`OverwriteBit`); `launch` is `_run_launches[run_name]`. A tool is
the sequence of Tcl commands and file reads its handler makes (`call.todo`): the
dispatcher runs one tool at a time, so between two of them Vivado, the user and a
cancellation act. NEEDS_REFRESH is taken at its word; that is why no property rests on
the launch record, which is a second guard of the same.

`RunLaunch` has launch, poll, reset, configuration and cleaning. `RunEvidence` adds
`collect_build_artifacts` (identity, context, markers, export), the validation of an
artifact manifest, `collect_report_bundle` and the loading of a report manifest, each
with its failures (`TclFails`, `TclTimesOut`, `Refuse`, `Tolerated` where the audit
goes on without it). `Handoff` adds `run_project_audit` with the signoff it runs,
and `collect_diagnostic_bundle` with an audit of its own or one reused from an
earlier bundle. Of an audit only what makes its evidence fresh is kept: findings and
waivers change its status.

### Simulation

`files` and `props` are what the stable input identity hashes, `globals` the Tcl
globals the last launch set, `logs` simulate.log of each simset, `call` the tool.
The steps of `run_behavioral_simulation` are the two preflights, the holding of the
sources (`HoldSources`) and of the output directory (`HoldOutput`), the recheck under
the lock, the launch, which may fail, time out or end the session, and the verdict
(`StillAttested`, `Accept`). `get_simulation_result` and the signoff read the log and
the globals and then compare the identity (`ReadResult`, `CheckCurrent`). The user
edits, sets properties, simulates in the GUI and cleans outputs between any two
steps, as far as held files allow. `ProjectTools` puts the module beside the gate.

### ManagedStorage: ManagedFiles, RuntimeFiles, TrustStore, BundleFolder

Four places where servers share files without a common lock; `place` says which.

* `ManagedFiles`: `atomic_write_bytes` and `atomic_copy_file`. On Windows (`windows`,
  from `Platform`) an operation holds the target, fills a temporary file, displaces
  the target to a quarantine name, installs the new file and retires the old one, or
  rolls back (`Raise`, `Rollback`, `Cleanup`); elsewhere it replaces the target. Any
  system call may fail, a server may die between any two.
* `RuntimeFiles`: the marker, the bootstrap file, staged bitstreams and foreign files
  of the runtime directory. One server starts sessions and programs a board (manifest
  or path, hash, preflight, staging, verification, programming), another cleans:
  dry run, digest, process detection, rescan, validation and deletion file by file. The
  detection (`Detect`) goes on when no process is listed, which a listing that fails
  without output does as well: `blind` notes that it went on beside a running session.
* `TrustStore`: anchor, key and ledger of the attestation, created by whichever server
  comes first, with the tokens it writes into them; verification by any server.
* `BundleFolder`: the files of one bundle directory, written one after another by
  servers that may meet there, and a validation that reads them one after another. The
  trace is listed in two steps (`SizeTrace`, `HashTrace`) and read in three: a stable
  read that fails if the file changes under it (`OpenTrace`, `ReadTrace`) and a second
  reading for its lines (`CheckTrace`), of which one may be torn (`ragged`).
  What the trust directory answers to it is any answer `AttestationIsTrue` allows
  (`Attested`), which is what makes the two parts separable.

### WorkflowTrace

`ledger` is `workflow_trace.jsonl` of each project and `global` the server's own
trace, both sequences of lines written by the same `_append_jsonl`. A line is whole,
cut short (`partial`), lacks only its newline (`bare`), is what becomes of a bare line
when another is appended (`junk`, by `Glue`), or is `split`: its summary has a
character that `json.dumps` leaves alone and `str.splitlines` takes for the end of a
line. Number and previous hash of a line both name the line its writer saw, so its
position stands for both. `holder`, `open`, `old` are the lock file, its descriptor
and its age. `Record` and `Note` are the part of `record()` up to the global trace,
with the look for a failure to resolve that takes no lock; `Create`, `SeeStale`,
`TakeOver`, `LockTimeout` are `_trace_file_lock`; `Check` and `Write` are
`_append_jsonl`; `Close` and `Remove` the lock's finally clause. The file system is
that of Windows, the only platform the program supports: a file that is open cannot be
removed. The global trace of a server has one writer (its trace id), so its lock is
left out and its append is one step; a trace id given to two servers by
`VIVADO_AGENT_MCP_TRACE_ID` is not modelled. Legacy lines without hashes cannot be
written by this version and are left out.

## 3. Runs

Every bound is a CONSTANT of its module and named there. States are distinct states.

| Run | Instance | States | Shows |
|---|---|---|---|
| `TclChannel` | 2 threads, 2 calls of which one guarded, 2 replays, 2 stops | 308 000 | `AtMostOnce`, `Lockstep`, `NothingRunsAfterTaint`, `GuardedIsAtomic`; refinement `ContractKept`; liveness `EveryCallAnswered` |
| `TclChannelBlockedNeverRuns` | 1 thread, no replays | finding | see 6 |
| `TclChannelTaintedSessionRefuses` | 1 thread, 2 calls, 1 stop | finding | see 6 |
| `Dispatcher` | 3 requests, 1 repeated cancellation | 214 500 | `AbortHitsOnlyItsOwner`, `CancelledIsSettled`, `ShutdownIsQuiet`, `NothingOutlivesShutdownAbort`; liveness `EveryRequestSettles`, `ShutdownEnds` |
| `DispatcherRecancel` | 2 requests | finding | see 6 |
| `SessionLifecycle` | 2 sessions, 4 tools, 1 cancellation, terminations may fail | 199 000 | `ProcessHasHandle`, `OnlyAcceptedServes`; liveness `ToolEnds` |
| `SessionLifecycleOrphan` | 2 sessions, 2 tools, 1 cancellation | finding | see 6 |
| `ProjectGate` | gate: 2 paths, one with a project of the user, 2 generations, 2 interventions, 1 cancellation; simulation: 2 simsets, 2 launches, 1 edit, 2 property changes, 1 simulation in the GUI | 1 419 000 | `OnlyRepairStrays`, `ForeignIsReadOnly`, `TrustIsCurrent`, `CheckpointReopens`, `ShadowAgrees`; `OnlyTrustedFilesRun`, `AcceptedRunIsAttested`, `ResultIsOfLastLaunch` |
| `ProjectGateForeign` | 2 paths, 1 generation, no intervention | finding | see 6 |
| `Handoff` | 2 edits, 2 executions, 2 sessions, at most four of these six together; the bitstream overwritten once in each execution | 1 934 000 | `AcceptedArtifactsAreTrue`, `FreshAuditIsOneBuild`, `BundleMatchesAudit` |
| `ManagedStorage` | 2 servers; 5 files and edits; 4 runtime files and 1 change from outside; 3 tokens and 1 removal; 2 collections, 1 tampering, a trace written to once more | 1 986 000 | `ReplacementIsSafe`, `OnlyReviewedDeleted`, `ProgrammedAsConfirmed`, `VerdictIsTrue` |
| `WorkflowTrace` | 2 servers, 1 project, 3 calls of 4 kinds, 1 fault | 569 000 | `OneWriter`, `AcknowledgedIsRecorded`, `NoFailureForgotten`, `MirrorFollowsGlobal`; liveness `EveryCallAnswered` |

What the newer properties say, with the exceptions they state:

* `OnlyRepairStrays`: only `repair_project_setup` ever changes a project MCP did not
  create, and then the one at its `project_path`.
* `ShadowAgrees`: as above, with the two exceptions of order and time.
* `AcceptedArtifactsAreTrue`: bits that validation accepts were built by the recorded
  execution from the closure the manifest names, or are a foreign file whose
  modification time lies in that execution or the two seconds after it.
  `FreshAuditIsOneBuild`: a FRESH audit rests on manifests of one session and one
  closure, with the same exception for the bits. `BundleMatchesAudit`: so does a bundle,
  and they are those of its audit.
* `OnlyTrustedFilesRun`: XSIM runs attested files, accepted or not.
  `AcceptedRunIsAttested`: a run reported complete is judged by the whole log of its
  own launch and simulated what was attested, unless properties were changed to and
  fro, or a GUI simulation ran, in the moments around the launch.
  `ResultIsOfLastLaunch`: a later result is the last launch's and is about the simset
  as it is, unless the user's own simulation replaced the log.
* `ReplacementIsSafe`: the target never holds half a file, and on Windows the only
  file an operation removes is the one it saw, unchanged, after the new one was in
  place. `OnlyReviewedDeleted`: a cleanup deletes reviewed objects, and a staged
  bitstream a session is about to program only if the listing of the processes failed
  and showed none (`blind`); elsewhere than on Windows it may hit a file that took the
  name after the last look. `ProgrammedAsConfirmed`: the bits whose hash was
  confirmed, unless the staged copy is edited after its last check, on the confirmed
  board, unless another was selected after the preflight.
* `AcknowledgedIsRecorded`: an entry answered without a trace failure is in both traces
  with a chain that verifies up to it (`Keeps`). The exception is the entry that damages
  a trace, because it is glued to a line without its newline or has a line separator in
  its summary: it is the last that trace takes.
* `NoFailureForgotten`: a failure is reported unresolved until the same operation has
  succeeded after it, and what an entry resolves is a failure of the same operation in
  the same project that its server put into its own trace before (`Keeps`).
  `MirrorFollowsGlobal`: so is every entry of a ledger in its server's own trace.
* `VerdictIsTrue`: an attestation that is found is of what was attested, and no honest
  bundle is refused as forged (`AttestationIsTrue`); a bundle is offered for review
  only as one collection wrote it, and one that nobody touched is blocked by nothing
  but its audit, unless its trace was written while it was listed or read, or has a
  torn line (`TraceAtRest` in `HealthIsTrue`).

`Handoff`, `Simulation` and `ManagedStorage` have type invariants (`TypeOK`) that
their configurations do not list; they are proved (section 5).

Why the bounds are enough for what they are meant to show:

* Channel. The dangerous schedules involve one request of unknown fate and one
  later request that takes its number; two calls of two threads, one of them made of
  two requests, give both orders and the case where a thread queued before the taint
  sends after it. Two replays are one before and one after a taint. The safety of the
  numbering does not depend on the bounds at all: it is proved (section 5).
* Dispatcher. One request that runs, one that waits at the gate and one that is
  queued are all the roles there are; a fourth only waits longer.
* Lifecycle. Two sessions are needed for a second process; four tools are a start
  that fails, a stop or use of what it left, a start that replaces it, and a use.
* Gate. One path with a project of the user and one without; two generations for
  trust that is carried over; two interventions are a switch and a switch back, or a
  replacement and a switch.
* Trace. One fault is enough for each kind of damage (a cut, a lock left behind, a
  newline that is missing in either trace); three calls leave two to run into it, one to
  be glued and one to look for what it resolves. A summary that breaks a line takes no
  fault.
* Simulation. A property changed and changed back takes two changes; a result of an
  earlier launch takes two launches; a second simset makes the wrong log possible.
* Handoff. Evidence can be older than its run in three ways: an edit, another
  execution, another session. Any two of them with a first execution and a first
  session fit into four events, and so does an edit of the settings that is taken back;
  the six together add only repetitions. A bitstream is overwritten once in an
  execution; a second file put there is one the first could have been.
* Storage. Two servers meet at each place; each fault (an edit, a removal, a death)
  is one; four runtime files are a marker, a bootstrap file, a staged copy and its
  contents; three tokens are an anchor, a key and one issued again.

The mutants in `PROJECT.json` replace one definition each by a form a plausible bug
would give it (a lock released early, a guard dropped, a field not cleared); each
property has one that breaks it, so no property holds by the shape of its model.

Deadlock checking is on except in `Handoff` and `ManagedStorage`, where an instance
may really come to an end: the last session is over, or every server has died, and
the bounds allow no other. In the other modules there is an action for the state in
which the instance has done all it may.

## 4. Fairness

* `TclChannel!FairSpec`: a thread inside `run_tcl` keeps going. Connect, send and
  receive have timeouts and the termination of the process tree waits a bounded time
  (`session.py`). Vivado is assumed to do nothing: it may never answer.
* `Dispatcher!FairSpec`: the event loop runs what is ready, the worker and the
  cancelling threads are scheduled, a tool call returns. The last is what
  `EveryCallAnswered` and `ToolEnds` establish for the waits inside one. Clients need
  not cancel and nobody need shut down.
* `SessionLifecycle!FairSpec`: the worker's steps, each of which has a deadline in
  the code, and the canceller's. Vivado need neither listen nor die.
* `WorkflowTrace!FairSpec`: a server inside `record()` keeps going as long as it
  lives. That a lock grows old is not assumed.

All of it is weak fairness. `ProjectGate`, `Handoff`, `Simulation` and the storage
modules have no liveness property and no fairness: each of their tools is a bounded
sequence of steps that may end in a refusal at any of them.

## 5. Proofs

What a run shows of one instance, the theorems state for every value of the
constants. Each component's proofs are in a module of their own, laid out alike: the
inductive invariant, conjunct by conjunct; its types; one lemma per action or group of
actions; the step (`InvStep`, `IInvStep` or the like); the theorems. A strengthened
invariant was checked by TLC on the instance of the run before it was proved. Every
safety property listed under "Runs" is proved; the end of this section says what is not.

Nothing is assumed of the constants that an instance could not meet: the named
assumptions (`ChannelAssumption`, `RunAssumption`, `HandoffAssumption` and so on) say
that bounds are natural numbers and that a special value (`NoCall`, `None`, `NoItem`,
...) is none of the ordinary ones; TLC evaluates each in a run of its module. Sets of
threads, requests, paths, servers, files and boards are arbitrary, infinite ones
included.

### TclChannelProofs

| Theorem | States |
|---|---|
| `ChannelTyped`, `ChannelInvariant` | `TypeOK`, and the invariant `IInv` |
| `AtMostOnceHolds` | no request is accepted twice |
| `LockstepHolds` | outside a request and short of a taint both sides have counted the same |
| `GuardedIsAtomicHolds` | a guarded command directly follows its own preflight |
| `NothingRunsAfterTaintHolds` | what is submitted after a taint never runs |
| `ContractKeptHolds` | the channel implements `CallContract` |

The properties are not inductive: nothing in `AtMostOnce` says why a replay is
refused. The invariant `IInv` adds, to the types:

* `Ownership`: each open call has one thread, so the outcome a thread writes is its
  own call's.
* `Unsent`: what was not made or not reached has number 0; this is why a number is
  given to a request once.
* `LogNumbered`: the i-th accepted request carries number i and `lastSeq` is their
  count. A request has one number, so it is in the log at one place: `AtMostOnce`.
* `Heard`: a result belongs to an accepted request; the client therefore commits only
  what the server has.
* `Committed`: `seq <= lastSeq`, a waiting thread's request has number `seq + 1`, and
  short of a taint nobody else's has a number beyond `seq`. With nobody waiting the
  last accepted number is `seq`: `Lockstep`.
* `GuardHeld`: between preflight and command the thread's preflight is the last
  number committed, so the command's number follows it, and by `LogNumbered` so does
  its place in the log: `GuardedIsAtomic`.

The taint needs a second one, `TaintInv`, because `run_tcl` looks at the state before it
has the lock and sends with the next number all the same. `Counted`: nobody's number is
beyond `seq + 1`. `Flight`: before a taint the request a thread waits for `Claims` the
next number: it is logged, or first on the wire of all that carry it, or the server is
gone. `Barrier`: from a taint on there is one request that claims `seq + 1`, was made
before the taint and that nobody waits for; its answer is never read, the number is never
committed, and every later request carries a number that is its. Hence `Barred`: nothing
late is logged.

`ContractKept` is a refinement: `Init` maps to the abstract `Init` and every step to a
step of `CallContract` or a stutter (`ContractStep`). It needs `Answers` (a refused
call has no number for its command, a done one is in the log) and `Doubt` (what a taint
is about to answer is one of the answers that leave the command's fate open).

### DispatcherProofs

| Theorem | States |
|---|---|
| `DispatcherTyped`, `DispatcherInvariant` | `TypeOK`, and the invariant |
| `AbortHitsOnlyItsOwnerHolds` | while one request is being aborted no other is in the service |
| `CancelledIsSettledHolds` | a cancelled call never begins, is over, or was aborted |
| `ShutdownIsQuietHolds` | after `shutdown()` nothing runs or is queued |
| `NothingOutlivesShutdownAbortHolds` | the shutdown's abort finds every call admitted |

`Once`: a request is in the queue or in the worker's hands, once, and only after its
task was made. `Withdrawn`: whoever waits for an abort has first set the cancelled
event. `OneAbort` is the argument: the gate is shut by one abort at a time, and behind
the abort of a request the worker is not between gate and service and the service holds
that request or none. So an admission that was checked before the gate closed is either
the owner's or already over. `Over` keeps what a finished abort has achieved (a task that
is done does not come back), `Stopping` says how far a shutdown is and includes
`NothingOutlivesShutdownAbort`, which is inductive together with the rest.

### SessionLifecycleProofs

| Theorem | States |
|---|---|
| `LifecycleTyped`, `LifecycleInvariant` | `TypeOK`, and the invariant |
| `ProcessHasHandleHolds` | without a cancellation a running process is that of the session the manager has |
| `OneProcessHolds` | and there is one at most |
| `OnlyAcceptedServesHolds` | Tcl runs in an accepted process whose secret file is gone, or behind a failed stop |

`Places` and `Starts` say which session a start or stop in the middle works on and that
it has no process before `Popen`. `Seen`: a stop waits for the process it has looked at,
unless the process was started after it looked; this only a stop of the canceller can
miss. `Handle`: without a cancellation every process is the manager's, and the manager
lets go only after it has ended. `Calm` and `InUse` carry acceptance from the end of
`start()` to the use: outside a start the manager's session is accepted, or its state
bars it, or a cancellation is about to take it.

### ProjectGateProofs

| Theorem | States |
|---|---|
| `GateTyped`, `GateInvariant` | `TypeOK`, and the invariant |
| `OnlyRepairStraysHolds` | only `repair_project_setup` changes a project MCP did not create |
| `ForeignIsReadOnlyHolds` | `open_project` opens foreign projects for reading only |
| `TrustIsCurrentHolds` | the created scope does not outlive its session |
| `CheckpointReopensHolds` | what was closed and not touched is let in again (an action property) |
| `PoliciesAgree` | facade and pipeline agree on every call, for any observation |
| `ShadowAgreesHolds` | so they do in every state |

A guarded tool checks its capability and then sends several commands, between which the
user may switch or replace projects. The invariant therefore says, for each point of each
tool, what still agrees: `Captured` (every capability is of a project that MCP made),
`Genuine` (what is open lies on the disk, and is the created project where that still
lies: nothing puts it back once it was replaced), `Creating`, `Opening`, `Working`
(the capability a tool holds was verified and, where the tool's path is the current
project's, that project is one it may change), `Trusted` (the created scope rests on a
capability of this generation), `Settled` (what was closed is as it was).

`PoliciesAgree` compares two sequences of checks. `Legacy` and the pipeline pick the first
that fails; the proof brings both into the form of nested decisions (`LegacyVerdict`,
`ShadowVerdict`) and compares them. It holds of the two functions, whatever state the
service is in: `ShadowAgreesHolds` follows from it and not from what `Spec` reaches.

### SimulationProofs

| Theorem | States |
|---|---|
| `ToolsKeepBoth` | `ToolsSpec` implies the specifications of both its parts |
| `SimulationTyped`, `SimulationInvariant` | the types, and the invariant |
| `OnlyTrustedFilesRunHolds` | XSIM runs attested files |
| `AcceptedRunIsAttestedHolds` | an accepted run is judged by its own log and simulated what was attested |
| `ResultIsOfLastLaunchHolds` | a later result is of the last launch |

`Pinned`: from the recheck to the verdict the held files are those of the identity, and
the properties are too, unless they were changed once meanwhile (`moves`, which
`AcceptedRunIsAttested` excepts at two). `Cleared`: a log that lies in the emptied
directory before the launch is of a simulation in the GUI. `OwnRead`: what is judged is
the launch's own log. `LastLaunch` and `HeldRead`: a log that a tool wrote next to the
globals of a launch is of that launch, on the disk and in the hands of a tool that has
read both and goes on to compare identities. By `ToolsKeepBoth` the theorems of
`ProjectGateProofs` hold of `ToolsSpec` as well, the specification the run checks.

### WorkflowTraceProofs

| Theorem | States |
|---|---|
| `LockInvariant`, `OneWriterHolds` | whoever is between creation and close of a lock holds it: one writer for each project |
| `TraceTyped`, `TraceInvariant` | the types, and the invariant |
| `AcknowledgedIsRecordedHolds` | what was answered without a trace failure is in trace and ledger, unless it damaged them |
| `NoFailureForgottenHolds` | a failure is open until its operation succeeds, and what an entry resolves is such a failure |
| `MirrorFollowsGlobalHolds` | a ledger has the entries of each server in their order and none that its trace does not keep |

`OneWriter` says nothing of the lock file, so `LockInv` adds that a writer's lock file
is its own and open. Open is what matters: `Unlink`, whether of a takeover or of a
server that removes what it believes to be its own, spares an open file
(`UnlinkSpares`), so the file stays until its writer closes it, and `O_EXCL` keeps
others out as long as it is there. On a file system where open files can be removed
the argument, and the property, fail.

Of the entries, `Named` says that a call's entry bears the number its server gave last;
`Noted` that it is in the server's own trace before the ledger is looked at; `Poised`
that what is about to be written was made for the ledger as it still is, which is where
the lock comes in; `Own`, `Mirror` and `Genuine` whose entries are where and what they
resolve; `AckedAreNoted` and `Kept` that an answered entry stays, in trace and ledger: one
that is glued to a line without its newline, or split, is lost, and nothing is ever
appended after it, because such a trace no longer verifies.

### ManagedStorageProofs

| Theorem | States |
|---|---|
| `FilesInvariant`, `ReplacementIsSafeHolds` | no half file at a target, nothing destroyed but what was replaced |
| `RuntimeInvariant`, `OnlyReviewedDeletedHolds`, `ProgrammedAsConfirmedHolds` | a cleanup deletes what was reviewed; a board gets what was confirmed |
| `TrustInvariant`, `FolderInvariant`, `VerdictIsTrueHolds` | attested and reviewable mean what they say |
| `StorageTyped` | the types of all four places |

Each place has its invariant and its own step lemma. `PlacesAct` puts them together: a
step of `Next` is, for every place, a step of it or a stutter.

* `FilesInv`: `Sound` says for each point of an operation which of the files it knows of
  are there and whole; what a server pins (`Pins`: it holds the file it has seen, on
  Windows) stays at the target; `Exclusive`: two servers never hold the same file.
* `RuntimeInv`: `DrawnFirst` (a staged name is drawn before anything has it) and
  `Spares`: after a cleaner found no Vivado where none of a session ran, what a
  session stages since is not among the files it has reviewed, because its name is
  newer. `Cleans`: the plan that is deleted is the reviewed one. `Stages`: what is
  programmed is the verified copy, or was edited since.
* `TrustInv`: as long as nothing was removed, a token in use is the one in its slot
  (`Proper`), one server writes a slot (`Alone`), and all that is signed is signed with the
  tokens there are (`Booked`, `Bundled`); a verification therefore fails only for what
  was changed.
* `FolderInv`: a listing nobody edited has the files of its collection (`Listed`), and the
  only collection that was ever made, while nobody disturbs it, is found again at each
  point of a validation as it was written, its trace at least as long as it was listed
  (`Calm`, with `Gathered`, `Whole`, `Validated`).

### HandoffProofs

| Theorem | States |
|---|---|
| `HandoffTyped`, `HandoffInvariant` | the types, and the invariant |
| `AcceptedArtifactsAreTrueHolds` | an accepted artifact manifest exports bits built from the closure it names, or a foreign file whose time fits |
| `FreshAuditIsOneBuildHolds` | the manifests of a FRESH audit are of one session and one closure |
| `BundleMatchesAuditHolds` | a bundle is written with the manifests its fresh audit was made of |

Nothing the tools read says what the bits were built from; the argument is that all
they accept was compared with one run that has not moved. `IInv` is the conjunction of

* `RunInv`, of the run and the files it leaves. `Tracked`: a run knows what it reads,
  and unless NEEDS_REFRESH is set that is the closure as it is. `BitIsOfRun`: a
  bitstream whose time fits the last execution is the one the run wrote, from what it
  read, or foreign; none fits a later one.
  `ArtIsOfRun`: the manifest on disk is of its own markers, and as long as these are
  the markers of the run (`Same`) nothing was executed since.
* `Laid`, of the steps a tool has left: they follow one another as in `Follows`, belong
  to the tool (`Belongs`), and a bundle that has its audit has an end of the seven
  `BundleSteps` left (`Bundling`). Signoff may put three or two steps in front of what
  is left, and a tolerated failure takes a stage away; both leave it so.
* `Identities`. An identity that was read is `Captured`: it is that of the run, if the
  run is still the manifest's and clean. After the context, which shows that the run is
  clean, it is `Confirmed`: it is that of the run if the run is still the manifest's. No
  step of the world undoes either (`Stays`): a new execution ends `Same`, and a dirty
  run stays dirty until one. A manifest that was accepted is therefore of the run's own
  input, and two that were accepted are of the same.
* `Findings` and `Verdicts`: which of these manifests a tool may hold at which step,
  that the audit of a bundle is about the artifact manifest on disk, and that from the
  load on a bundle works with the report manifest its audit names.

`FreshAuditIsOneBuild` is not inductive because `EvidenceFresh` compares the two
identities and not the sessions: that the sessions agree is what `Identities` says of
each of them.

### What stays with TLC

* Liveness: `EveryCallAnswered` of channel and trace, `EveryRequestSettles`,
  `ShutdownEnds`, `ToolEnds`. They need fairness and ENABLED, which the prover's backends
  do not treat.
* The findings of section 6, which are behaviours.

No model uses a RECURSIVE operator and none computes by recursion over data, so
nothing else is out of the prover's reach.

## 6. Disagreements between code and its own statements

* `BlockedNeverRuns` (`vivado/session.py:474`). The except clause around the
  preflight checks catches OSError, and with it the TimeoutError of the command that
  follows. A guarded command that was sent and not answered in time is reported as
  blocked before it ran; the session is tainted, the answer does not say so.
* `TaintedSessionRefuses` (`vivado/session.py:322`). `stop()` writes `STOP_FAILED`
  over `TAINTED` when the process survives, and `run_tcl` refuses only `TAINTED`. The
  sequence check still keeps any later command from running
  (`NothingRunsAfterTaint`); but a process that was refused for its version and
  survives its termination can be used in this state (the exemption in
  `OnlyAcceptedServes`).
* `CancelledIsAborted` (`server.py:121`). The abort runs in a helper thread that is
  not shielded from a second cancellation; if that comes before the thread starts,
  the client is told the call is cancelled while it goes on.
* `OneManagedProcess` (`vivado/session.py:735`). A cancellation that reaches a start
  before its process exists makes the manager forget the session; the process comes
  up on a session nobody holds and the next start spawns another.
* `ForeignUntouched` (`tools.py:6173`). The command of `repair_project_setup` checks
  the identity of the current project and then opens `project_path`, for writing, if
  that is another one; nothing compares the project it goes on to change with the
  capability. The catalog says that external projects remain inspection-only and
  cannot be repaired in place (`vivado/agent_catalog.py:473`). The gate's passing
  property excepts exactly this (`OnlyRepairStrays`).

Met and not made a run: `open_project` on a managed project that is still open and
was changed by guarded tools is refused, since its content is no longer that of the
capability (`tools.py:2951`); a trace line that lacks only its newline, left by a full
disk or a crash, verifies, and the next entry, acknowledged, is glued to it and lost, in
a global trace as in a ledger (`vivado/workflow_trace.py:193`); an entry whose summary has
a U+0085, U+2028 or U+2029 is written as one line and read as two
(`vivado/workflow_trace.py:541`, `:608`), so that its trace never verifies again (both
are the exception in `AcknowledgedIsRecorded`);
`VIVADO_PROCESS_EXITED` leaves the bootstrap file behind (`vivado/session.py:172`).

## 7. Limits

What the models say of this code that a reader may not expect. None contradicts a
statement of the repository; each is stated as an exception of a property or follows
from what an abstraction keeps.

Evidence:

* A bitstream is dated, not identified: what somebody puts in its place within two seconds
  of the end of the run, or with a modification time that fits, is exported and validated
  as that run's (`vivado/artifacts.py:605`, `ARTIFACT_COMPLETION_MTIME_TOLERANCE_NS`).
* A trace that is appended to while a bundle lists or reads it, or that has a line torn by
  the death of a server, blocks the bundle (`vivado/managed_path.py:134`,
  `vivado/agent_catalog.py:969`, `:1587`).
* Report manifests are bound to the closure and the session, not to the markers of an
  execution as artifact manifests are.
* A reused audit keeps a waiver that has been removed since. A bundle may be written
  with a READY audit and without an artifact manifest.
* A partial bundle, written when the audit times out, includes the legacy report
  manifest without validating it (`tools.py:4174`). Its audit blocks.
* A launch record of an old session is dropped by `get_run_progress` only.
* Two collections into one directory may mix plain files (`raced`), and the bundle
  manifest is written in place. No bundle is READY, since none is portable. A stale
  audit turns a blocking trace or authenticity into a warning, but not into a bundle
  that is offered for review.

Simulation:

* `get_simulation_result` reports success for a log a simulation of the GUI wrote
  while the recorded identity still holds.
* A simulation whose properties changed after the recheck and changed back before the
  verdict is accepted.
* Off Windows every managed simulation is refused, since files cannot be held.

Files and hardware:

* Off Windows an atomic write does not compare the target again before `os.replace`.
* A crash between the exclusive creation of marker, anchor or key and its contents
  leaves an invalid file for good. A deletion of a temporary file that Windows refuses
  skips the closing of the handles: they stay open until the server ends.
* `ps` and `tasklist` run without a look at their return code
  (`vivado/runtime_cache.py:272`): one that fails with nothing on its output reads as no
  Vivado, and a cleanup may then delete what a session is about to use.
* The board is not looked at after the preflight. Staged bitstreams stay until a
  cleanup; a cleanup that meets a change halfway reports nothing deleted.
* A bootstrap file that was reviewed before its process was started can be deleted
  between the detection of processes and its use.
* `create_managed_xdc` that fails after its file was written cannot be retried under
  the same name, and answers a timeout as `MANAGED_XDC_FILESYSTEM_IDENTITY_CHANGED`,
  because TimeoutError is an OSError.

Not modelled:

* The authority of the policy pipeline (issuers, one-time grants, post-execution
  phase): the stages that would use it are stubs that refuse, or nothing calls them.
* Static tables, stateless Tcl generation and parsing, the XDC scanner and the Tcl
  allow-list (their verdict is a refusal that may come at any time), IP and block
  design, whose tools the gate refuses, the hardware tools that only look, discovery
  of the environment, offline qualification, entry points, wording of answers.
* Findings, waivers and the status derived from them; links and reparse points, whose
  checks all refuse; age and size limits, which only shrink a plan; a write into a
  file between the last comparison and its deletion on Windows.

## 8. What is left

Every safety property of a run is proved. What could be added, in the order in which it
would say most about the code:

* More than one implementation run. `_run_launches` is a table, and runs that share
  sources are dirtied by one edit; the properties of one run do not need the others.
* The table of transitions of the qualification matrix (`qualification.py`).
* An abstract specification of the handoff (one build goes in, a bundle of that build
  comes out) that `Handoff` implements; `BundleMatchesAudit` is its core.
