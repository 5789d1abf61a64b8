-------------------------- MODULE DispatcherProofs --------------------------
(***************************************************************************)
(* Proofs about the dispatcher, for any number of requests and of repeated *)
(* cancellations.                                                          *)
(***************************************************************************)
EXTENDS Dispatcher, SequenceTheorems, TLAPS

(***************************************************************************)
(* The inductive invariant                                                 *)
(***************************************************************************)

\* A request is handed to the executor once: it is queued at one place, or the
\* worker has it, or its future is resolved.
Begun(r) == task[r] # "new" /\ future[r] = "none"
Once ==
    /\ \A i, j \in DOMAIN queue : queue[i] = queue[j] => i = j
    /\ \A i \in DOMAIN queue : queue[i] # job /\ Begun(queue[i])
    /\ job # None => Begun(job)
    /\ \A r \in Requests : task[r] = "new" => future[r] = "none"

\* The cancelled event is set before anything else is done about a cancellation,
\* and only a task that waits for its abort has one.
Withdrawn == \A r \in Requests :
    /\ task[r] \in {"checking", "joining", "cancelled"} \/ canceller[r] # "none"
          => r \in cancelled
    /\ task[r] = "joining" => canceller[r] \in {"queued", "aborting", "finished"}
    /\ canceller[r] = "queued" => task[r] = "joining"
    /\ canceller[r] # "none" => task[r] \in {"joining", "cancelled"}

\* The gate is shut by one abort at a time, and behind the abort of a request
\* nobody else is admitted.
OneAbort ==
    /\ ~gate => stop = "aborting" \/ \E r \in Requests : canceller[r] = "aborting"
    /\ stop = "aborting" => ~gate /\ \A r \in Requests : canceller[r] # "aborting"
    /\ \A r \in Requests : canceller[r] = "aborting" =>
          /\ ~gate /\ worker # "admit" /\ active \in {None, r} /\ r \in aborted
          /\ \A q \in Requests : canceller[q] = "aborting" => q = r

\* What has been cancelled does not run, or has been aborted.
Over == \A r \in Requests :
    canceller[r] = "finished" \/ (task[r] = "cancelled" /\ canceller[r] # "dropped")
        => NothingLeftOf(r)

\* How far a shutdown has come.
Stopping ==
    /\ stop \notin {"running", "draining"} => queue = << >>
    /\ stop = "done" => worker = "idle"
    /\ NothingOutlivesShutdownAbort

IInv == TypeOK /\ Once /\ Withdrawn /\ OneAbort /\ Over /\ Stopping

(***************************************************************************)
(* Types                                                                   *)
(***************************************************************************)

LEMMA TypeInit == Init => TypeOK
<1> USE DispatcherAssumption DEF DispatcherAssumption, Init
<1>1. Init => LoopType /\ WorkerType
  BY DEF LoopType, WorkerType, Settled
<1>2. Init => AbortType /\ gate \in BOOLEAN
  BY DEF AbortType
<1> QED
  BY <1>1, <1>2 DEF TypeOK

\* A queue that is not empty has a first element and a rest.
LEMMA QueueType ==
    ASSUME TypeOK, queue # << >>
    PROVE  /\ Head(queue) \in Requests /\ Head(queue) = queue[1]
           /\ Tail(queue) \in Seq(Requests) /\ Len(queue) \in Nat
           /\ DOMAIN queue = 1..Len(queue) /\ 1 \in DOMAIN queue
           /\ \A i \in DOMAIN Tail(queue) : /\ i + 1 \in DOMAIN queue
                                            /\ Tail(queue)[i] = queue[i + 1]
<1>1. queue \in Seq(Requests)
  BY DEF TypeOK, WorkerType
<1>2. Len(queue) \in Nat /\ DOMAIN queue = 1..Len(queue) /\ Len(queue) # 0
  BY <1>1, LenProperties, EmptySeq
<1>3. Head(queue) \in Requests /\ Head(queue) = queue[1] /\ Tail(queue) \in Seq(Requests)
  BY <1>1, HeadTailProperties
<1> QED
  BY <1>1, <1>2, <1>3, HeadTailProperties

\* No step leaves the declared types; the active request is always the one the
\* worker is calling or leaving.
LEMMA TypeStep == TypeOK /\ [Next]_vars => TypeOK'
<1> SUFFICES ASSUME TypeOK, [Next]_vars PROVE TypeOK'
  OBVIOUS
<1> USE DispatcherAssumption
    DEF DispatcherAssumption, loopVars, workerVars, SetTask, Settled, TypeOK
<1>1. ASSUME NEW r \in Requests, Submit(r) PROVE TypeOK'
  BY <1>1, AppendProperties DEF Submit, LoopType, WorkerType, AbortType
<1>2. ASSUME NEW r \in Requests, Cancel(r) PROVE TypeOK'
  BY <1>2 DEF Cancel, LoopType, WorkerType, AbortType
<1>3. ASSUME NEW r \in Requests, Recancel(r) PROVE TypeOK'
  BY <1>3 DEF Recancel, LoopType, WorkerType, AbortType
<1>4. ASSUME NEW r \in Requests, EventLoop(r) PROVE TypeOK'
  BY <1>4 DEF EventLoop, Deliver, CheckOwner, Join, LoopType, WorkerType, AbortType
<1>5. ASSUME NEW r \in Requests, Canceller(r) PROVE TypeOK'
  <2>1. gate' \in BOOLEAN
    BY <1>5 DEF Canceller, BeginAbort, EndAbort
  <2>2. LoopType' /\ WorkerType'
    BY <1>5 DEF Canceller, BeginAbort, EndAbort, LoopType, WorkerType
  <2>3. AbortType'
    BY <1>5 DEF Canceller, BeginAbort, EndAbort, AbortType
  <2> QED
    BY <2>1, <2>2, <2>3
<1>6. CASE Take
  BY <1>6, QueueType DEF Take, LoopType, WorkerType, AbortType
<1>7. CASE PassGate \/ Admit \/ CallReturns \/ Leave
  BY <1>7 DEF PassGate, Admit, CallReturns, Leave, LoopType, WorkerType, AbortType
<1>8. CASE Shutdown \/ ShutdownSteps
  <2> USE <1>8 DEF Shutdown, ShutdownSteps, Drain, ClaimAbort, EndShutdownAbort, JoinWorker
  <2>1. gate' \in BOOLEAN
    OBVIOUS
  <2>2. LoopType'
    BY DEF LoopType
  <2>3. WorkerType'
    <3>1. UNCHANGED <<worker, job, active>>
      OBVIOUS
    <3>3. queue' = queue \/ queue' = << >>
      OBVIOUS
    <3>4. queue' \in Seq(Requests)
      <4>1. queue \in Seq(Requests) /\ << >> \in Seq(Requests)
        BY EmptySeq DEF WorkerType
      <4> QED
        BY <3>3, <4>1, Zenon
    <3>2. future' \in [Requests -> {"none", "result", "error", "cancelled"}]
      BY DEF WorkerType
    <3> QED
      BY <3>1, <3>2, <3>4 DEF WorkerType
  <2>4. AbortType'
    BY DEF AbortType, WorkerType
  <2> QED
    BY <2>1, <2>2, <2>3, <2>4
<1>9. CASE UNCHANGED vars
  BY <1>9 DEF vars, LoopType, WorkerType, AbortType
<1> QED
  BY <1>1, <1>2, <1>3, <1>4, <1>5, <1>6, <1>7, <1>8, <1>9 DEF Next, Worker, Ended

(***************************************************************************)
(* The steps                                                               *)
(***************************************************************************)

LEMMA OnceStep ==
    ASSUME TypeOK, Once, [Next]_vars
    PROVE  Once'
<1> USE DispatcherAssumption DEF DispatcherAssumption, loopVars, workerVars, SetTask, Begun
<1> USE DEF TypeOK, LoopType, WorkerType
<1>1. ASSUME NEW r \in Requests, Submit(r) PROVE Once'
  <2>1. CASE IsShutdown
    BY <1>1, <2>1 DEF Submit, Once
  <2>2. CASE ~IsShutdown
    <3>1. queue' = Append(queue, r) /\ task' = [task EXCEPT ![r] = "awaiting"]
      BY <1>1, <2>2 DEF Submit
    <3>2. /\ Len(queue) \in Nat /\ DOMAIN queue = 1..Len(queue)
          /\ DOMAIN queue' = 1..(Len(queue) + 1) /\ queue'[Len(queue) + 1] = r
          /\ \A i \in 1..Len(queue) : queue'[i] = queue[i] /\ queue[i] \in Requests
      BY <3>1, AppendProperties, LenProperties, ElementOfSeq
    <3>3. \A i \in DOMAIN queue : queue[i] # r
      BY <1>1 DEF Submit, Once
    <3>4. r # job /\ future[r] = "none" /\ UNCHANGED <<future, job>>
      BY <1>1 DEF Submit, Once
    <3>5. /\ task'[r] = "awaiting"
          /\ \A q \in Requests \ {r} : task'[q] = task[q]
      BY <3>1
    <3>6. \A i, j \in DOMAIN queue' : queue'[i] = queue'[j] => i = j
      BY <3>2, <3>3 DEF Once
    <3>7. ASSUME NEW i \in DOMAIN queue' PROVE queue'[i] # job' /\ Begun(queue[i])'
      <4>1. CASE i = Len(queue) + 1
        BY <3>2, <3>4, <3>5, <4>1
      <4>2. CASE i \in 1..Len(queue)
        <5>1. queue'[i] = queue[i] /\ queue[i] \in Requests \ {r} /\ queue[i] # job
          BY <3>2, <3>3, <4>2 DEF Once
        <5>2. Begun(queue[i]) /\ task'[queue[i]] = task[queue[i]]
          BY <3>2, <3>5, <4>2, <5>1 DEF Once
        <5> QED
          BY <3>4, <5>1, <5>2
      <4> QED
        BY <3>2, <4>1, <4>2
    <3>8. job' # None => Begun(job)'
      BY <3>4, <3>5 DEF Once
    <3> QED
      BY <3>4, <3>5, <3>6, <3>7, <3>8 DEF Once
  <2> QED
    BY <2>1, <2>2
<1>2. ASSUME NEW r \in Requests, Cancel(r) \/ Recancel(r) \/ EventLoop(r) \/ Canceller(r)
      PROVE  Once'
  <2>1. /\ UNCHANGED <<queue, job, future>>
        /\ \A q \in Requests : task'[q] = "new" <=> task[q] = "new"
    BY <1>2
    DEF Cancel, Recancel, EventLoop, Deliver, CheckOwner, Join, Canceller, BeginAbort,
        EndAbort, Settled
  <2>2. \A i \in DOMAIN queue : queue[i] \in Requests
    BY ElementOfSeq, LenProperties
  <2> QED
    BY <2>1, <2>2 DEF Once
<1>3. CASE Take
  <2>1. queue # << >> /\ queue' = Tail(queue) /\ job = None /\ UNCHANGED <<task, future>>
        /\ job' \in {job, Head(queue)}
    BY <1>3 DEF Take
  <2> QED
    BY <2>1, QueueType DEF Once
<1>4. CASE PassGate \/ Admit \/ CallReturns \/ Leave
  <2>1. /\ UNCHANGED <<queue, task>> /\ job' \in {job, None}
        /\ \/ future' = future
           \/ job' = None /\ job \in Requests /\ \E f : future' = [future EXCEPT ![job] = f]
    BY <1>4 DEF PassGate, Admit, CallReturns, Leave
  <2>2. \A i \in DOMAIN queue : queue[i] \in Requests
    BY ElementOfSeq, LenProperties
  <2> QED
    BY <2>1, <2>2 DEF Once
<1>5. CASE Drain
  <2>1. /\ queue' = << >> /\ UNCHANGED <<job, task>>
        /\ \A r \in Requests : future'[r] = IF r \in Range(queue) THEN "cancelled" ELSE future[r]
    BY <1>5 DEF Drain
  <2>2. \A r \in Range(queue) : r # job /\ task[r] # "new"
    BY DEF Once, Range
  <2> QED
    BY <2>1, <2>2 DEF Once
<1>6. CASE UNCHANGED <<queue, job, future, task>>
  BY <1>6 DEF Once
<1> QED
  BY <1>1, <1>2, <1>3, <1>4, <1>5, <1>6
  DEF Next, Worker, Shutdown, ShutdownSteps, ClaimAbort, EndShutdownAbort, JoinWorker, Ended,
      vars

LEMMA WithdrawnStep ==
    ASSUME TypeOK, Once, Withdrawn, [Next]_vars
    PROVE  Withdrawn'
<1> USE DEF loopVars, workerVars, SetTask, TypeOK, LoopType, AbortType, Withdrawn
<1>1. ASSUME NEW r \in Requests, Submit(r) PROVE Withdrawn'
  BY <1>1 DEF Submit
<1>2. ASSUME NEW r \in Requests, Cancel(r) \/ Recancel(r) PROVE Withdrawn'
  BY <1>2 DEF Cancel, Recancel
<1>3. ASSUME NEW r \in Requests, Deliver(r) PROVE Withdrawn'
  BY <1>3 DEF Deliver, WorkerType
<1>4. ASSUME NEW r \in Requests, CheckOwner(r) \/ Join(r) PROVE Withdrawn'
  BY <1>4 DEF CheckOwner, Join
<1>5. ASSUME NEW r \in Requests, Canceller(r) PROVE Withdrawn'
  BY <1>5 DEF Canceller, BeginAbort, EndAbort
<1>6. CASE UNCHANGED <<task, cancelled, canceller>>
  BY <1>6
<1> QED
  BY <1>1, <1>2, <1>3, <1>4, <1>5, <1>6
  DEF Next, EventLoop, Worker, Take, PassGate, Admit, CallReturns, Leave, Shutdown,
      ShutdownSteps, Drain, ClaimAbort, EndShutdownAbort, JoinWorker, Ended, vars

LEMMA OneAbortStep ==
    ASSUME TypeOK, Withdrawn, OneAbort, [Next]_vars
    PROVE  OneAbort'
<1> USE DispatcherAssumption
    DEF DispatcherAssumption, loopVars, workerVars, SetTask, TypeOK, WorkerType, AbortType
<1> DEFINE Aborts(r) == canceller[r] = "aborting"
\* A step that begins or ends no abort and admits nobody.
<1>1. ASSUME UNCHANGED <<gate, aborted>>, stop' = stop,
             \A r \in Requests : Aborts(r)' <=> Aborts(r),
             \/ UNCHANGED <<worker, active>>
             \/ worker' # "admit" /\ active' \in {active, None}
      PROVE  OneAbort'
  BY <1>1 DEF OneAbort
<1>2. ASSUME NEW r \in Requests, Submit(r) \/ Cancel(r) \/ EventLoop(r) PROVE OneAbort'
  BY <1>1, <1>2 DEF Submit, Cancel, EventLoop, Deliver, CheckOwner, Join, Withdrawn
<1>3. ASSUME NEW r \in Requests, Recancel(r) PROVE OneAbort'
  BY <1>1, <1>3 DEF Recancel
<1>4. ASSUME NEW r \in Requests, BeginAbort(r) PROVE OneAbort'
  <2>1. CASE active = r /\ gate
    <3>1. gate' = FALSE /\ aborted' = aborted \cup {r} /\ UNCHANGED <<worker, active, stop>>
          /\ canceller' = [canceller EXCEPT ![r] = "aborting"]
      BY <1>4, <2>1 DEF BeginAbort
    <3>2. worker # "admit" /\ stop # "aborting" /\ \A q \in Requests : ~Aborts(q)
      BY <2>1 DEF OneAbort
    <3> QED
      BY <2>1, <3>1, <3>2 DEF OneAbort
  <2>2. CASE ~(active = r /\ gate)
    <3>1. UNCHANGED <<gate, aborted, stop, worker, active>>
          /\ canceller' = [canceller EXCEPT ![r] = "finished"] /\ canceller[r] = "queued"
      BY <1>4, <2>2 DEF BeginAbort
    <3> QED
      BY <1>1, <3>1
  <2> QED
    BY <2>1, <2>2
<1>5. ASSUME NEW r \in Requests, EndAbort(r) PROVE OneAbort'
  <2>1. gate' = TRUE /\ UNCHANGED <<aborted, stop, worker, active>> /\ Aborts(r)
        /\ canceller' = [canceller EXCEPT ![r] = "finished"]
    BY <1>5 DEF EndAbort
  <2> QED
    BY <2>1 DEF OneAbort
<1>6. CASE Take \/ CallReturns \/ Leave
  BY <1>1, <1>6 DEF Take, CallReturns, Leave
<1>7. CASE PassGate
  BY <1>7 DEF PassGate, OneAbort
<1>8. CASE Admit
  BY <1>8 DEF Admit, OneAbort
<1>9. CASE Shutdown \/ Drain \/ JoinWorker
  BY <1>9 DEF Shutdown, Drain, JoinWorker, OneAbort
<1>10. CASE ClaimAbort
  <2>1. gate /\ gate' = FALSE /\ stop' = "aborting" /\ UNCHANGED canceller
    BY <1>10 DEF ClaimAbort
  <2> QED
    BY <2>1 DEF OneAbort
<1>11. CASE EndShutdownAbort
  <2>1. stop = "aborting" /\ gate' = TRUE /\ stop' = "joining" /\ UNCHANGED canceller
    BY <1>11 DEF EndShutdownAbort
  <2> QED
    BY <2>1 DEF OneAbort
<1>12. CASE UNCHANGED vars
  BY <1>1, <1>12 DEF vars
<1> QED
  BY <1>2, <1>3, <1>4, <1>5, <1>6, <1>7, <1>8, <1>9, <1>10, <1>11, <1>12
  DEF Next, Canceller, Worker, ShutdownSteps, Ended

LEMMA StoppingStep ==
    ASSUME TypeOK, Stopping, [Next]_vars
    PROVE  Stopping'
<1> USE DispatcherAssumption
    DEF DispatcherAssumption, loopVars, workerVars, SetTask, TypeOK, WorkerType, AbortType,
        Stopping, NothingOutlivesShutdownAbort, IsShutdown
<1>1. ASSUME NEW r \in Requests, Submit(r) PROVE Stopping'
  BY <1>1 DEF Submit
<1>2. ASSUME NEW r \in Requests,
             Cancel(r) \/ Recancel(r) \/ EventLoop(r) \/ Canceller(r)
      PROVE  Stopping'
  <2>1. UNCHANGED <<queue, stop, worker, active>> /\ aborted \subseteq aborted'
    BY <1>2
    DEF Cancel, Recancel, EventLoop, Deliver, CheckOwner, Join, Canceller, BeginAbort,
        EndAbort
  <2> QED
    BY <2>1
<1>3. CASE Take
  BY <1>3 DEF Take
<1>4. CASE PassGate \/ Admit \/ CallReturns \/ Leave
  BY <1>4 DEF PassGate, Admit, CallReturns, Leave
<1>5. CASE Shutdown \/ ShutdownSteps
  BY <1>5 DEF Shutdown, ShutdownSteps, Drain, ClaimAbort, EndShutdownAbort, JoinWorker
<1>6. CASE UNCHANGED vars
  BY <1>6 DEF vars
<1> QED
  BY <1>1, <1>2, <1>3, <1>4, <1>5, <1>6 DEF Next, Worker, Ended

LEMMA OverStep ==
    ASSUME IInv, [Next]_vars
    PROVE  Over'
<1> USE DispatcherAssumption
    DEF DispatcherAssumption, loopVars, workerVars, SetTask, IInv, TypeOK, LoopType,
        WorkerType, AbortType, NothingLeftOf
<1> DEFINE Told(r) == canceller[r] = "finished" \/ (task[r] = "cancelled" /\ canceller[r] # "dropped")
\* What is over stays over: a cancelled request is not admitted again.
<1>1. ASSUME NEW r \in Requests, r \in cancelled, NothingLeftOf(r) PROVE NothingLeftOf(r)'
  <2>1. aborted \subseteq aborted'
    BY
    DEF Next, Submit, Cancel, Recancel, EventLoop, Deliver, CheckOwner, Join, Canceller,
        BeginAbort, EndAbort, Worker, Take, PassGate, Admit, CallReturns, Leave, Shutdown,
        ShutdownSteps, Drain, ClaimAbort, EndShutdownAbort, JoinWorker, Ended, vars
  <2>2. active' = r => active = r
    BY <1>1
    DEF Next, Submit, Cancel, Recancel, EventLoop, Deliver, CheckOwner, Join, Canceller,
        BeginAbort, EndAbort, Worker, Take, PassGate, Admit, CallReturns, Leave, Shutdown,
        ShutdownSteps, Drain, ClaimAbort, EndShutdownAbort, JoinWorker, Ended, vars
  <2> QED
    BY <1>1, <2>1, <2>2
<1>2. SUFFICES ASSUME NEW r \in Requests, Told(r)', ~Told(r) PROVE NothingLeftOf(r)'
  <2>1. ASSUME NEW r \in Requests, Told(r) PROVE r \in cancelled /\ NothingLeftOf(r)
    BY <2>1 DEF Over, Withdrawn
  <2> QED
    BY <1>1, <1>2, <2>1 DEF Over
<1>3. CASE Deliver(r)
  <2>1. future[r] = "cancelled" \/ task'[r] # "cancelled"
    BY <1>3 DEF Deliver
  <2>2. canceller' = canceller /\ active' = active
    BY <1>3 DEF Deliver
  <2>3. job # r
    BY <1>2, <1>3, <2>1, <2>2 DEF Deliver, Once, Begun
  <2> QED
    BY <2>2, <2>3
<1>4. CASE CheckOwner(r)
  <2>1. canceller[r] = "none"
    BY <1>4 DEF CheckOwner, Withdrawn
  <2> QED
    BY <1>2, <1>4, <2>1 DEF CheckOwner
<1>5. CASE Recancel(r)
  <2>1. canceller[r] \in {"queued", "aborting", "finished"} /\ UNCHANGED <<active, aborted>>
        /\ canceller'[r] = IF canceller[r] = "queued" THEN "dropped" ELSE canceller[r]
    BY <1>5 DEF Recancel, Withdrawn
  <2>2. canceller[r] = "aborting"
    BY <1>2, <2>1
  <2> QED
    BY <2>1, <2>2 DEF OneAbort
<1>6. CASE BeginAbort(r)
  <2>1. task[r] = "joining" /\ UNCHANGED <<task, active>>
    BY <1>6 DEF BeginAbort, Withdrawn
  <2>2. CASE active = r /\ gate
    BY <1>6, <2>2 DEF BeginAbort
  <2>3. CASE active # r
    BY <2>1, <2>3
  \* Another abort is under way while r runs: it is the shutdown's, since the
  \* abort of another request would not have let r in.
  <2>4. CASE active = r /\ ~gate
    <3>1. \A q \in Requests : canceller[q] = "aborting" => q = r
      BY <2>4 DEF OneAbort
    <3>2. stop = "aborting"
      BY <1>6, <2>4, <3>1 DEF OneAbort, BeginAbort
    <3>3. r \in aborted
      BY <2>4, <3>2 DEF Stopping, NothingOutlivesShutdownAbort
    <3> QED
      BY <1>6, <2>4, <3>3 DEF BeginAbort
  <2> QED
    BY <2>2, <2>3, <2>4
<1>7. CASE EndAbort(r)
  BY <1>7 DEF EndAbort, OneAbort
<1>8. CASE Join(r)
  BY <1>2, <1>8 DEF Join
<1>9. CASE UNCHANGED <<task, canceller>>
  BY <1>2, <1>9
<1>10. ASSUME NEW q \in Requests, q # r,
              Deliver(q) \/ CheckOwner(q) \/ Recancel(q) \/ BeginAbort(q) \/ EndAbort(q) \/ Join(q)
       PROVE  FALSE
  <2>1. task'[r] = task[r] /\ canceller'[r] = canceller[r]
    BY <1>10 DEF Deliver, CheckOwner, Recancel, BeginAbort, EndAbort, Join
  <2> QED
    BY <1>2, <2>1
<1>11. ASSUME NEW q \in Requests, Submit(q) \/ Cancel(q) PROVE FALSE
  <2>1. canceller' = canceller /\ (task'[r] = task[r] \/ task'[r] # "cancelled")
    BY <1>11 DEF Submit, Cancel
  <2> QED
    BY <1>2, <2>1
<1> QED
  BY <1>3, <1>4, <1>5, <1>6, <1>7, <1>8, <1>9, <1>10, <1>11
  DEF Next, EventLoop, Canceller, Worker, Take, PassGate, Admit, CallReturns, Leave, Shutdown,
      ShutdownSteps, Drain, ClaimAbort, EndShutdownAbort, JoinWorker, Ended, vars

(***************************************************************************)
(* The invariant is inductive                                              *)
(***************************************************************************)

LEMMA InvInit == Init => IInv
<1> SUFFICES ASSUME Init PROVE IInv
  OBVIOUS
<1>1. TypeOK
  BY TypeInit
<1>2. Once /\ Withdrawn
  BY DEF Init, Once, Withdrawn
<1>3. OneAbort /\ Over /\ Stopping
  BY DEF Init, OneAbort, Over, Stopping, NothingOutlivesShutdownAbort
<1> QED
  BY <1>1, <1>2, <1>3 DEF IInv

LEMMA InvStep == IInv /\ [Next]_vars => IInv'
<1> SUFFICES ASSUME IInv, [Next]_vars PROVE IInv'
  OBVIOUS
<1>1. TypeOK /\ Once /\ Withdrawn /\ OneAbort /\ Stopping
  BY DEF IInv
<1>2. TypeOK' /\ Once' /\ Withdrawn'
  BY <1>1, TypeStep, OnceStep, WithdrawnStep
<1>3. OneAbort' /\ Over' /\ Stopping'
  BY <1>1, OneAbortStep, OverStep, StoppingStep
<1> QED
  BY <1>2, <1>3 DEF IInv

\* The inductive invariant of the dispatcher holds of every reachable state: each
\* call is handed over once, one abort at a time shuts the gate, and what was
\* cancelled is over or aborted.
THEOREM DispatcherInvariant == Spec => []IInv
  BY InvInit, InvStep, PTL DEF Spec

(***************************************************************************)
(* What the dispatcher promises                                            *)
(***************************************************************************)

\* Every variable keeps its type, and _active_request is the request the worker
\* thread calls the tool service for.
THEOREM DispatcherTyped == Spec => []TypeOK
  BY DispatcherInvariant, PTL DEF IInv

\* cancel_active_operation kills the session, so it must not hit the next
\* request: while it runs for one request no other is inside the tool service
\* (_cancellation_done makes the worker wait, _active_request names the owner).
THEOREM AbortHitsOnlyItsOwnerHolds == Spec => []AbortHitsOnlyItsOwner
<1>1. IInv => AbortHitsOnlyItsOwner
  BY DispatcherAssumption
  DEF IInv, OneAbort, TypeOK, WorkerType, AbortHitsOnlyItsOwner, DispatcherAssumption
<1> QED
  BY <1>1, DispatcherInvariant, PTL

\* A client that is told of its cancellation can rely on it, at whatever point
\* of queueing, admission, execution, another abort or shutdown it came: the call
\* has not begun and never will, is over, or was aborted.
THEOREM CancelledIsSettledHolds == Spec => []CancelledIsSettled
<1>1. IInv => CancelledIsSettled
  BY DEF IInv, Over, CancelledIsSettled
<1> QED
  BY <1>1, DispatcherInvariant, PTL

\* After shutdown() has returned the worker is idle, nothing is queued, and the
\* gate is open unless the abort of a cancelled request still runs.
THEOREM ShutdownIsQuietHolds == Spec => []ShutdownIsQuiet
<1>1. IInv => ShutdownIsQuiet
  BY DEF IInv, Stopping, OneAbort, ShutdownIsQuiet
<1> QED
  BY <1>1, DispatcherInvariant, PTL

\* The abort that shutdown() runs finds every call that was admitted: the worker
\* tests _shutdown under the lock before it makes a request the active one.
THEOREM NothingOutlivesShutdownAbortHolds == Spec => []NothingOutlivesShutdownAbort
<1>1. IInv => NothingOutlivesShutdownAbort
  BY DEF IInv, Stopping
<1> QED
  BY <1>1, DispatcherInvariant, PTL
=============================================================================
