----------------------------- MODULE Dispatcher -----------------------------
(***************************************************************************)
(* _SerializedToolDispatcher (server.py): asyncio tasks hand tool calls to *)
(* an executor with one worker thread; a cancelled task aborts its own     *)
(* call from a third thread; shutdown drains the queue, aborts what runs   *)
(* and joins the worker.                                                   *)
(*                                                                         *)
(* Each section the code runs under _lock is one action.  The tool service *)
(* is abstract here: call() runs for a while and returns, and              *)
(* cancel_active_operation() runs for a while.  The local control tools,   *)
(* which call() answers on the event loop itself, touch nothing of this.   *)
(***************************************************************************)
EXTENDS Naturals, Sequences, Functions

CONSTANTS Requests,      \* the tool calls clients make for the backend
          None,          \* no request
          MaxRecancels   \* bound: cancellations of a task already unwinding

ASSUME DispatcherAssumption ==
    /\ None \notin Requests
    /\ MaxRecancels \in Nat

VARIABLES
    \* event loop
    task,        \* the asyncio task of each request
    cancelled,   \* requests whose cancelled event is set
    recancels,
    \* executor
    queue,       \* submitted work the worker has not taken
    future,      \* how the future of each request was resolved
    worker,      \* where the worker thread is
    job,         \* the request it works on
    \* dispatcher
    active,      \* _active_request
    gate,        \* _cancellation_done is set
    canceller,   \* the thread that runs _cancel_if_active
    aborted,     \* requests that were active while an abort began
    stop         \* progress of shutdown(); _shutdown is set unless "running"

loopVars   == <<task, cancelled, recancels>>
workerVars == <<queue, future, worker, job>>
vars == <<loopVars, workerVars, active, gate, canceller, aborted, stop>>

Settled == {"answered", "error", "cancelled"}

LoopType ==
    /\ task \in [Requests -> {"new", "awaiting", "checking", "joining"} \cup Settled]
    /\ cancelled \in SUBSET Requests
    /\ recancels \in 0..MaxRecancels

\* The active request is the one the worker calls the tool service for.
WorkerType ==
    /\ queue \in Seq(Requests)
    /\ future \in [Requests -> {"none", "result", "error", "cancelled"}]
    /\ worker \in {"idle", "gate", "admit", "calling", "leaving"}
    /\ job \in Requests \cup {None}
    /\ job = None <=> worker = "idle"
    /\ active = IF worker \in {"calling", "leaving"} THEN job ELSE None

AbortType ==
    /\ canceller \in [Requests -> {"none", "queued", "aborting", "finished", "dropped"}]
    /\ aborted \in SUBSET Requests
    /\ stop \in {"running", "draining", "claiming", "aborting", "joining", "done"}

TypeOK == LoopType /\ WorkerType /\ AbortType /\ gate \in BOOLEAN

Init ==
    /\ task = [r \in Requests |-> "new"]
    /\ cancelled = {} /\ recancels = 0
    /\ queue = << >> /\ future = [r \in Requests |-> "none"]
    /\ worker = "idle" /\ job = None
    /\ active = None /\ gate = TRUE
    /\ canceller = [r \in Requests |-> "none"]
    /\ aborted = {} /\ stop = "running"

IsShutdown == stop # "running"

SetTask(r, t) == task' = [task EXCEPT ![r] = t]

(***************************************************************************)
(* call() on the event loop                                                *)
(***************************************************************************)

\* _get_executor raises once the dispatcher is shut down.
Submit(r) ==
    /\ task[r] = "new"
    /\ IF IsShutdown THEN SetTask(r, "error") /\ UNCHANGED queue
                     ELSE SetTask(r, "awaiting") /\ queue' = Append(queue, r)
    /\ UNCHANGED <<cancelled, recancels, future, worker, job, active, gate,
                   canceller, aborted, stop>>

\* return await future; a future cancelled by shutdown raises CancelledError.
Deliver(r) ==
    /\ task[r] = "awaiting" /\ future[r] # "none"
    /\ SetTask(r, IF future[r] = "result" THEN "answered" ELSE future[r])
    /\ cancelled' = IF future[r] = "cancelled" THEN cancelled \cup {r} ELSE cancelled
    /\ UNCHANGED <<recancels, workerVars, active, gate, canceller, aborted, stop>>

\* The client cancels: the event is set and the future is cancelled, for the
\* worker to find if it has not started on it.
Cancel(r) ==
    /\ task[r] = "awaiting"
    /\ SetTask(r, "checking")
    /\ cancelled' = cancelled \cup {r}
    /\ UNCHANGED <<recancels, workerVars, active, gate, canceller, aborted, stop>>

\* Under the lock: does this request own the running call?
CheckOwner(r) ==
    /\ task[r] = "checking"
    /\ IF active = r
       THEN SetTask(r, "joining") /\ canceller' = [canceller EXCEPT ![r] = "queued"]
       ELSE SetTask(r, "cancelled") /\ UNCHANGED canceller
    /\ UNCHANGED <<cancelled, recancels, workerVars, active, gate, aborted, stop>>

Join(r) ==
    /\ task[r] = "joining" /\ canceller[r] = "finished"
    /\ SetTask(r, "cancelled")
    /\ UNCHANGED <<cancelled, recancels, workerVars, active, gate, canceller,
                   aborted, stop>>

\* The task is cancelled again while it awaits asyncio.to_thread: the thread's
\* work is cancelled with it unless it has started.
Recancel(r) ==
    /\ task[r] = "joining" /\ recancels < MaxRecancels
    /\ recancels' = recancels + 1
    /\ SetTask(r, "cancelled")
    /\ canceller' = [canceller EXCEPT ![r] = IF @ = "queued" THEN "dropped" ELSE @]
    /\ UNCHANGED <<cancelled, workerVars, active, gate, aborted, stop>>

(***************************************************************************)
(* _call_owned in the worker thread                                        *)
(***************************************************************************)

\* The worker passes over work whose future has been cancelled.
Take ==
    /\ worker = "idle" /\ queue # << >>
    /\ queue' = Tail(queue)
    /\ IF Head(queue) \in cancelled
       THEN UNCHANGED <<worker, job>>
       ELSE worker' = "gate" /\ job' = Head(queue)
    /\ UNCHANGED <<loopVars, future, active, gate, canceller, aborted, stop>>

\* Mutant: the worker does not wait for a cancellation in progress.
PassGate_NoWait ==
    /\ worker = "gate"
    /\ worker' = "admit"
    /\ UNCHANGED <<loopVars, queue, future, job, active, gate, canceller, aborted, stop>>

PassGate ==
    /\ worker = "gate" /\ gate
    /\ worker' = "admit"
    /\ UNCHANGED <<loopVars, queue, future, job, active, gate, canceller, aborted, stop>>

\* Mutant: the request's cancelled event is not looked at.
Admit_IgnoresCancelled ==
    /\ worker = "admit"
    /\ IF IsShutdown
       THEN /\ future' = [future EXCEPT ![job] = "error"]
            /\ worker' = "idle" /\ job' = None /\ UNCHANGED active
       ELSE worker' = "calling" /\ active' = job /\ UNCHANGED <<future, job>>
    /\ UNCHANGED <<loopVars, queue, gate, canceller, aborted, stop>>

\* Mutant: shutdown is only noticed by _get_executor.
Admit_IgnoresShutdown ==
    /\ worker = "admit"
    /\ IF job \in cancelled
       THEN /\ future' = [future EXCEPT ![job] = "result"]
            /\ worker' = "idle" /\ job' = None /\ UNCHANGED active
       ELSE worker' = "calling" /\ active' = job /\ UNCHANGED <<future, job>>
    /\ UNCHANGED <<loopVars, queue, gate, canceller, aborted, stop>>

\* Under the lock: refuse, or become the active request and start the call.
Admit ==
    /\ worker = "admit"
    /\ IF IsShutdown \/ job \in cancelled
       THEN /\ future' = [future EXCEPT ![job] = IF IsShutdown THEN "error" ELSE "result"]
            /\ worker' = "idle" /\ job' = None /\ UNCHANGED active
       ELSE worker' = "calling" /\ active' = job /\ UNCHANGED <<future, job>>
    /\ UNCHANGED <<loopVars, queue, gate, canceller, aborted, stop>>

\* tool_service.call returns.
CallReturns ==
    /\ worker = "calling"
    /\ worker' = "leaving"
    /\ UNCHANGED <<loopVars, queue, future, job, active, gate, canceller, aborted, stop>>

\* Mutant: _active_request is not cleared.
Leave_KeepsActive ==
    /\ worker = "leaving"
    /\ future' = [future EXCEPT ![job] = "result"]
    /\ worker' = "idle" /\ job' = None
    /\ UNCHANGED <<loopVars, queue, active, gate, canceller, aborted, stop>>

Leave ==
    /\ worker = "leaving"
    /\ active' = None
    /\ future' = [future EXCEPT ![job] = "result"]
    /\ worker' = "idle" /\ job' = None
    /\ UNCHANGED <<loopVars, queue, gate, canceller, aborted, stop>>

(***************************************************************************)
(* _cancel_if_active in a thread of its own                                *)
(***************************************************************************)

\* Under the lock: the request may have left, or another abort be under way.
BeginAbort(r) ==
    /\ canceller[r] = "queued"
    /\ IF active = r /\ gate
       THEN /\ gate' = FALSE /\ aborted' = aborted \cup {r}
            /\ canceller' = [canceller EXCEPT ![r] = "aborting"]
       ELSE /\ canceller' = [canceller EXCEPT ![r] = "finished"]
            /\ UNCHANGED <<gate, aborted>>
    /\ UNCHANGED <<loopVars, workerVars, active, stop>>

\* Mutant: the gate is not reopened after an abort.
EndAbort_GateStaysShut(r) ==
    /\ canceller[r] = "aborting"
    /\ canceller' = [canceller EXCEPT ![r] = "finished"]
    /\ UNCHANGED <<loopVars, workerVars, active, gate, aborted, stop>>

EndAbort(r) ==
    /\ canceller[r] = "aborting"
    /\ gate' = TRUE
    /\ canceller' = [canceller EXCEPT ![r] = "finished"]
    /\ UNCHANGED <<loopVars, workerVars, active, aborted, stop>>

(***************************************************************************)
(* shutdown()                                                              *)
(***************************************************************************)

Shutdown ==
    /\ stop = "running"
    /\ stop' = "draining"
    /\ UNCHANGED <<loopVars, workerVars, active, gate, canceller, aborted>>

\* Mutant: the queue is dropped and nobody is told.
Drain_Silent ==
    /\ stop = "draining"
    /\ queue' = << >>
    /\ stop' = "claiming"
    /\ UNCHANGED <<loopVars, future, worker, job, active, gate, canceller, aborted>>

\* executor.shutdown(False, cancel_futures=True)
Drain ==
    /\ stop = "draining"
    /\ future' = [r \in Requests |-> IF r \in Range(queue) THEN "cancelled" ELSE future[r]]
    /\ queue' = << >>
    /\ stop' = "claiming"
    /\ UNCHANGED <<loopVars, worker, job, active, gate, canceller, aborted>>

\* _cancel_for_shutdown waits until it is the one to close the gate.
ClaimAbort ==
    /\ stop = "claiming" /\ gate
    /\ gate' = FALSE
    /\ aborted' = aborted \cup ({active} \ {None})
    /\ stop' = "aborting"
    /\ UNCHANGED <<loopVars, workerVars, active, canceller>>

EndShutdownAbort ==
    /\ stop = "aborting"
    /\ gate' = TRUE
    /\ stop' = "joining"
    /\ UNCHANGED <<loopVars, workerVars, active, canceller, aborted>>

\* Mutant: shutdown does not wait for the worker thread.
JoinWorker_NoWait ==
    /\ stop = "joining"
    /\ stop' = "done"
    /\ UNCHANGED <<loopVars, workerVars, active, gate, canceller, aborted>>

JoinWorker ==
    /\ stop = "joining" /\ worker = "idle" /\ queue = << >>
    /\ stop' = "done"
    /\ UNCHANGED <<loopVars, workerVars, active, gate, canceller, aborted>>

(***************************************************************************)
(* Specification                                                           *)
(***************************************************************************)

EventLoop(r)  == Deliver(r) \/ CheckOwner(r) \/ Join(r)
Worker        == Take \/ PassGate \/ Admit \/ CallReturns \/ Leave
Canceller(r)  == BeginAbort(r) \/ EndAbort(r)
ShutdownSteps == Drain \/ ClaimAbort \/ EndShutdownAbort \/ JoinWorker

\* The server process ends after shutdown.
Ended == stop = "done" /\ (\A r \in Requests : task[r] \in Settled) /\ UNCHANGED vars

Next == \/ \E r \in Requests : \/ Submit(r) \/ Cancel(r) \/ Recancel(r)
                               \/ EventLoop(r) \/ Canceller(r)
        \/ Worker \/ Shutdown \/ ShutdownSteps \/ Ended

Spec == Init /\ [][Next]_vars

\* The event loop runs what is ready, threads are scheduled, a handler returns
\* (every wait in one has a timeout) and so does an abort (bounded waits for
\* taskkill).  Nothing forces a client to cancel or the server to shut down.
FairSpec == /\ Spec
            /\ \A r \in Requests : WF_vars(EventLoop(r)) /\ WF_vars(Canceller(r))
            /\ WF_vars(Worker) /\ WF_vars(ShutdownSteps)

(***************************************************************************)
(* Properties                                                              *)
(***************************************************************************)

\* While the abort of one request runs (it kills the session), no other request
\* is inside the tool service: the next one waits at _cancellation_done.
AbortHitsOnlyItsOwner ==
    \A r \in Requests :
        canceller[r] = "aborting" /\ worker \in {"calling", "leaving"} => job = r

\* Nothing is left running for a request that was cancelled: its call has not
\* begun and never will, or it is over, or it was aborted.
NothingLeftOf(r) == active # r \/ r \in aborted

\* A client told that its request is cancelled can rely on it, unless it was
\* cancelled once more while the abort was waiting for a thread.
CancelledIsSettled ==
    \A r \in Requests :
        task[r] = "cancelled" /\ canceller[r] # "dropped" => NothingLeftOf(r)

\* What tests/test_mcp_stdio.py:109-111 asserts of a cancelled call: when the
\* client has seen CancelledError the running call has been aborted.
CancelledIsAborted == \A r \in Requests : task[r] = "cancelled" => NothingLeftOf(r)

\* Once shutdown() has returned no tool call runs and none will: the worker is
\* idle, the queue is empty and the gate is where the next abort expects it or
\* held by an abort that began before.
ShutdownIsQuiet ==
    stop = "done" => /\ worker = "idle" /\ queue = << >>
                     /\ gate \/ \E r \in Requests : canceller[r] = "aborting"

\* The abort that shutdown runs finds every call that was admitted: none is
\* admitted behind its back.
NothingOutlivesShutdownAbort ==
    stop \in {"aborting", "joining"} => active = None \/ active \in aborted

\* Every request is answered, refused or cancelled in the end.
EveryRequestSettles ==
    \A r \in Requests : task[r] # "new" ~> task[r] \in Settled

\* shutdown() terminates, whatever it interrupts.
ShutdownEnds == IsShutdown ~> stop = "done"
=============================================================================
