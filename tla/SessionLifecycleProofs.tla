----------------------- MODULE SessionLifecycleProofs -----------------------
(***************************************************************************)
(* Proofs about the life of a session, for any number of sessions, tools   *)
(* and cancellations, whether or not a process can always be killed.       *)
(***************************************************************************)
EXTENDS SessionLifecycle, TLAPS

(***************************************************************************)
(* The inductive invariant                                                 *)
(***************************************************************************)

\* A thread works on a session that was created; what was not has no process.
Places ==
    /\ \A a \in Actors : pc[a] \in {"terminate", "poll"} => self[a] \in 1..created
    /\ pc["worker"] \in {"prepare", "spawn", "connect"} => self["worker"] \in 1..created
    /\ \A g \in Gens : g > created => ~alive[g]

\* While start() is at work the manager has its session, or none if a stop took
\* it away, and there is no process before Popen.
Starts ==
    /\ pc["worker"] \in {"prepare", "spawn", "connect"} => mgr \in {self["worker"], NoGen}
    /\ pc["worker"] \in {"prepare", "spawn"} => ~alive[self["worker"]]

\* A stop has seen the process it is to wait for, unless the process was started
\* after it looked, which only the canceller's stop can miss.
Sees(a) == pc[a] \in {"terminate", "poll"} /\ alive[self[a]] => held[a]
Seen == Sees("worker") /\ (pc["worker"] = "use" => Sees("canceller"))

\* Without a cancellation the manager has the session of every process, and gives
\* it up only when that process has ended.
Handle == cancels = 0 =>
    /\ pc["canceller"] = "idle"
    /\ \A g \in Gens : alive[g] => mgr = g
    /\ pc["worker"] \in {"terminate", "poll"} => self["worker"] = mgr
    /\ pc["worker"] \in {"release", "create"} => \A g \in Gens : ~alive[g]
    /\ pc["worker"] \in {"prepare", "spawn"} => self["worker"] = mgr

\* A process that would answer has been accepted and its secret is gone.
Accepted(g) == alive[g] /\ insync[g] => attested[g] /\ ~file[g]

\* Outside start() the managed session is accepted, or its state keeps it from
\* being used, or a cancellation is about to take it away.
Calm == (mgr # NoGen /\ pc["worker"] \notin {"prepare", "spawn", "connect"}
            /\ pc["canceller"] # "release")
        => st[mgr] \in {"TAINTED", "STOP_FAILED"} \/ Accepted(mgr)

\* A tool that has begun to use it found it so.
InUse == mgr # NoGen /\ pc["worker"] = "use" =>
            st[mgr] # "TAINTED" /\ (st[mgr] = "STOP_FAILED" \/ Accepted(mgr))

IInv == TypeOK /\ Places /\ Starts /\ Seen /\ Handle /\ Calm /\ InUse

(***************************************************************************)
(* Types                                                                   *)
(***************************************************************************)

LEMMA TypeInit == Init => TypeOK
<1> USE LifecycleAssumption DEF LifecycleAssumption, Init, Gens, NoGen, Actors
<1>1. Init => ManagerType
  BY DEF ManagerType, States
<1>2. Init => ProcessType
  BY DEF ProcessType
<1>3. Init => FlagType
  BY DEF FlagType
<1>4. Init => ThreadType
  BY DEF ThreadType
<1> QED
  BY <1>1, <1>2, <1>3, <1>4 DEF TypeOK

LEMMA StepCases ==
    ASSUME [Next]_vars
    PROVE  \/ BeginStart \/ BeginStop \/ BeginUse \/ BeginCancel
           \/ Use \/ Probe
           \/ Create \/ Prepare \/ Spawn \/ Handshake \/ RefuseHandshake \/ LoseHandshake
           \/ SeeExit \/ RaiseTainted \/ Deadline \/ Return
           \/ \E a \in Actors : StopCall(a) \/ StopTerminate(a) \/ StopPoll(a) \/ Release(a)
           \/ \E g \in Gens : ComesUp(g) \/ Exits(g)
           \/ UNCHANGED vars
  BY DEF Next, WorkerSteps, Starting, Stopping, OutOfOps, Actors

LEMMA ManagerTypeStep ==
    ASSUME TypeOK, Places, [Next]_vars
    PROVE  ManagerType'
<1> USE LifecycleAssumption
    DEF LifecycleAssumption, sessionVars, threadVars, Gens, NoGen, Actors, Go, SetState,
        Killed, Terminate, Unlink, Answered, NotSent, Tainted, Begin, TypeOK, Places,
        ManagerType, ThreadType, States
<1>1. CASE UNCHANGED <<mgr, created, st, served>>
  BY <1>1
<1>2. CASE Use
  BY <1>2 DEF Use
<1>3. CASE Probe
  BY <1>3 DEF Probe
<1>4. CASE Create
  BY <1>4 DEF Create
<1>5. CASE Prepare
  BY <1>5 DEF Prepare
<1>6. CASE Spawn
  BY <1>6 DEF Spawn
<1>7. CASE Handshake
  BY <1>7 DEF Handshake
<1>8. CASE RefuseHandshake
  BY <1>8 DEF RefuseHandshake
<1>9. CASE LoseHandshake
  BY <1>9 DEF LoseHandshake
<1>10. CASE Deadline
  BY <1>10 DEF Deadline
<1>11. CASE Return
  BY <1>11 DEF Return
<1>12. ASSUME NEW a \in Actors, StopPoll(a) PROVE ManagerType'
  BY <1>12 DEF StopPoll
<1>13. ASSUME NEW a \in Actors, Release(a) PROVE ManagerType'
  BY <1>13 DEF Release
<1>14. ASSUME \/ BeginStart \/ BeginStop \/ BeginUse \/ BeginCancel \/ SeeExit
              \/ RaiseTainted
              \/ \E a \in Actors : StopCall(a) \/ StopTerminate(a)
              \/ \E g \in Gens : ComesUp(g) \/ Exits(g)
              \/ UNCHANGED vars
      PROVE  UNCHANGED <<mgr, created, st, served>>
  BY <1>14 DEF BeginStart, BeginStop, BeginUse, BeginCancel, SeeExit, RaiseTainted,
               StopCall, StopTerminate, ComesUp, Exits, vars
<1> QED
  BY <1>1, <1>2, <1>3, <1>4, <1>5, <1>6, <1>7, <1>8, <1>9, <1>10, <1>11, <1>12, <1>13,
     <1>14, StepCases

LEMMA ProcessTypeStep ==
    ASSUME TypeOK, Places, [Next]_vars
    PROVE  ProcessType'
<1> USE LifecycleAssumption
    DEF LifecycleAssumption, sessionVars, threadVars, Gens, NoGen, Actors, Go, SetState,
        Killed, Terminate, Unlink, Answered, NotSent, Tainted, Begin, TypeOK, Places,
        ProcessType, ThreadType, ManagerType
<1>1. CASE UNCHANGED <<spawned, alive, up>>
  BY <1>1
<1>2. CASE Use
  BY <1>2 DEF Use
<1>3. CASE Probe
  BY <1>3, ZenonT(60) DEF Probe
<1>4. CASE Spawn
  BY <1>4 DEF Spawn
<1>5. CASE RefuseHandshake
  <2>1. self["worker"] \in Gens
    BY <1>5 DEF RefuseHandshake
  <2>2. /\ spawned' = spawned
        /\ \/ /\ alive' = [alive EXCEPT ![self["worker"]] = FALSE]
              /\ up' = [up EXCEPT ![self["worker"]] = FALSE]
           \/ alive' = alive /\ up' = up
    BY <1>5 DEF RefuseHandshake
  <2> QED
    BY <2>1, <2>2
<1>6. CASE LoseHandshake
  <2>1. self["worker"] \in Gens
    BY <1>6 DEF LoseHandshake
  <2>2. /\ spawned' = spawned
        /\ \/ /\ alive' = [alive EXCEPT ![self["worker"]] = FALSE]
              /\ up' = [up EXCEPT ![self["worker"]] = FALSE]
           \/ alive' = alive /\ up' = up
    BY <1>6 DEF LoseHandshake
  <2> QED
    BY <2>1, <2>2
<1>7. CASE Deadline
  BY <1>7, ZenonT(60) DEF Deadline
<1>8. ASSUME NEW a \in Actors, StopTerminate(a) PROVE ProcessType'
  BY <1>8 DEF StopTerminate
<1>9. ASSUME NEW g \in Gens, ComesUp(g) PROVE ProcessType'
  BY <1>9 DEF ComesUp
<1>10. ASSUME NEW g \in Gens, Exits(g) PROVE ProcessType'
  BY <1>10 DEF Exits
<1>11. ASSUME \/ BeginStart \/ BeginStop \/ BeginUse \/ BeginCancel \/ Create \/ Prepare
              \/ Handshake \/ SeeExit \/ RaiseTainted \/ Return
              \/ \E a \in Actors : StopCall(a) \/ StopPoll(a) \/ Release(a)
              \/ UNCHANGED vars
      PROVE  UNCHANGED <<spawned, alive, up>>
  BY <1>11 DEF BeginStart, BeginStop, BeginUse, BeginCancel, Create, Prepare, Handshake,
               SeeExit, RaiseTainted, Return, StopCall, StopPoll, Release, vars
<1> QED
  BY <1>1, <1>2, <1>3, <1>4, <1>5, <1>6, <1>7, <1>8, <1>9, <1>10, <1>11, StepCases

LEMMA FlagTypeStep ==
    ASSUME TypeOK, Places, [Next]_vars
    PROVE  FlagType'
<1> USE LifecycleAssumption
    DEF LifecycleAssumption, sessionVars, threadVars, Gens, NoGen, Actors, Go, SetState,
        Killed, Terminate, Unlink, Answered, NotSent, Tainted, Begin, TypeOK, Places,
        FlagType, ThreadType
<1>1. CASE UNCHANGED <<insync, attested, file, named>>
  BY <1>1
<1>2. CASE Use
  BY <1>2 DEF Use
<1>3. CASE Probe
  BY <1>3 DEF Probe
<1>4. CASE Prepare
  BY <1>4 DEF Prepare
<1>5. CASE Spawn
  BY <1>5 DEF Spawn
<1>6. CASE Handshake
  BY <1>6 DEF Handshake
<1>7. CASE RefuseHandshake
  BY <1>7 DEF RefuseHandshake
<1>8. CASE LoseHandshake
  BY <1>8 DEF LoseHandshake
<1>9. ASSUME NEW a \in Actors, StopPoll(a) PROVE FlagType'
  BY <1>9 DEF StopPoll
<1>10. ASSUME \/ BeginStart \/ BeginStop \/ BeginUse \/ BeginCancel \/ Create \/ SeeExit
              \/ RaiseTainted \/ Deadline \/ Return
              \/ \E a \in Actors : StopCall(a) \/ StopTerminate(a) \/ Release(a)
              \/ \E g \in Gens : ComesUp(g) \/ Exits(g)
              \/ UNCHANGED vars
      PROVE  UNCHANGED <<insync, attested, file, named>>
  BY <1>10 DEF BeginStart, BeginStop, BeginUse, BeginCancel, Create, SeeExit, RaiseTainted,
               Deadline, Return, StopCall, StopTerminate, Release, ComesUp, Exits, vars
<1> QED
  BY <1>1, <1>2, <1>3, <1>4, <1>5, <1>6, <1>7, <1>8, <1>9, <1>10, StepCases

LEMMA ThreadTypeStep ==
    ASSUME TypeOK, Places, [Next]_vars
    PROVE  ThreadType'
<1> USE LifecycleAssumption
    DEF LifecycleAssumption, sessionVars, threadVars, Gens, NoGen, Actors, Go, SetState,
        Killed, Terminate, Unlink, Answered, NotSent, Tainted, Begin, TypeOK, Places,
        ThreadType, ManagerType, ProcessType
<1>1. CASE UNCHANGED <<pc, op, self, held, result, ops, cancels>>
  BY <1>1
<1>2. CASE BeginStart
  BY <1>2 DEF BeginStart
<1>3. CASE BeginStop
  BY <1>3 DEF BeginStop
<1>4. CASE BeginUse
  BY <1>4 DEF BeginUse
<1>5. CASE BeginCancel
  BY <1>5 DEF BeginCancel
<1>6. CASE Use
  BY <1>6 DEF Use
<1>7. CASE Probe
  BY <1>7 DEF Probe
<1>8. CASE Create
  BY <1>8 DEF Create
<1>9. CASE Prepare
  BY <1>9 DEF Prepare
<1>10. CASE Spawn
  BY <1>10 DEF Spawn
<1>11. CASE Handshake
  BY <1>11 DEF Handshake
<1>12. CASE RefuseHandshake
  BY <1>12 DEF RefuseHandshake
<1>13. CASE LoseHandshake
  BY <1>13 DEF LoseHandshake
<1>14. CASE SeeExit
  BY <1>14 DEF SeeExit
<1>15. CASE RaiseTainted
  BY <1>15 DEF RaiseTainted
<1>16. CASE Deadline
  BY <1>16 DEF Deadline
<1>17. CASE Return
  BY <1>17 DEF Return
<1>18. ASSUME NEW a \in Actors, StopCall(a) PROVE ThreadType'
  BY <1>18 DEF StopCall
<1>19. ASSUME NEW a \in Actors, StopTerminate(a) PROVE ThreadType'
  BY <1>19 DEF StopTerminate
<1>20. ASSUME NEW a \in Actors, StopPoll(a) PROVE ThreadType'
  BY <1>20 DEF StopPoll
<1>21. ASSUME NEW a \in Actors, Release(a) PROVE ThreadType'
  BY <1>21 DEF Release
<1>22. ASSUME \/ \E g \in Gens : ComesUp(g) \/ Exits(g)
              \/ UNCHANGED vars
      PROVE  UNCHANGED <<pc, op, self, held, result, ops, cancels>>
  BY <1>22 DEF ComesUp, Exits, vars
<1> QED
  BY <1>1, <1>2, <1>3, <1>4, <1>5, <1>6, <1>7, <1>8, <1>9, <1>10, <1>11, <1>12, <1>13,
     <1>14, <1>15, <1>16, <1>17, <1>18, <1>19, <1>20, <1>21, <1>22, StepCases

LEMMA TypeStep ==
    ASSUME TypeOK, Places, [Next]_vars
    PROVE  TypeOK'
  BY ManagerTypeStep, ProcessTypeStep, FlagTypeStep, ThreadTypeStep DEF TypeOK

LEMMA PlacesStep ==
    ASSUME IInv, [Next]_vars
    PROVE  Places'
<1> USE LifecycleAssumption
    DEF LifecycleAssumption, sessionVars, threadVars, Gens, NoGen, Actors, Go, SetState,
        Killed, Terminate, Unlink, Answered, NotSent, Tainted, Begin, IInv, TypeOK,
        ManagerType, ProcessType, ThreadType, Places
<1>1. CASE UNCHANGED <<pc, self, created, alive>>
  BY <1>1
<1>2. CASE BeginStart
  BY <1>2 DEF BeginStart
<1>3. CASE BeginStop
  BY <1>3 DEF BeginStop
<1>4. CASE BeginUse
  BY <1>4 DEF BeginUse
<1>5. CASE BeginCancel
  BY <1>5 DEF BeginCancel
<1>6. CASE Use
  BY <1>6 DEF Use
<1>7. CASE Probe
  BY <1>7 DEF Probe
<1>8. CASE Create
  BY <1>8 DEF Create
<1>9. CASE Prepare
  BY <1>9 DEF Prepare
<1>10. CASE Spawn
  BY <1>10 DEF Spawn
<1>11. CASE Handshake
  BY <1>11 DEF Handshake
<1>12. CASE RefuseHandshake
  BY <1>12 DEF RefuseHandshake
<1>13. CASE LoseHandshake
  BY <1>13, ZenonT(60) DEF LoseHandshake
<1>14. CASE SeeExit
  BY <1>14 DEF SeeExit
<1>15. CASE RaiseTainted
  BY <1>15 DEF RaiseTainted
<1>16. CASE Deadline
  BY <1>16 DEF Deadline
<1>17. CASE Return
  BY <1>17 DEF Return
<1>18. ASSUME NEW a \in Actors, StopCall(a) PROVE Places'
  BY <1>18 DEF StopCall
<1>19. ASSUME NEW a \in Actors, StopTerminate(a) PROVE Places'
  BY <1>19 DEF StopTerminate
<1>20. ASSUME NEW a \in Actors, StopPoll(a) PROVE Places'
  BY <1>20 DEF StopPoll
<1>21. ASSUME NEW a \in Actors, Release(a) PROVE Places'
  BY <1>21 DEF Release
<1>22. ASSUME NEW g \in Gens, Exits(g) PROVE Places'
  BY <1>22 DEF Exits
<1>23. ASSUME \/ \E g \in Gens : ComesUp(g)
              \/ UNCHANGED vars
      PROVE  UNCHANGED <<pc, self, created, alive>>
  BY <1>23 DEF ComesUp, vars
<1> QED
  BY <1>1, <1>2, <1>3, <1>4, <1>5, <1>6, <1>7, <1>8, <1>9, <1>10, <1>11, <1>12, <1>13,
     <1>14, <1>15, <1>16, <1>17, <1>18, <1>19, <1>20, <1>21, <1>22, <1>23, StepCases

LEMMA StartsStep ==
    ASSUME IInv, [Next]_vars
    PROVE  Starts'
<1> USE LifecycleAssumption
    DEF LifecycleAssumption, sessionVars, threadVars, Gens, NoGen, Actors, Go, SetState,
        Killed, Terminate, Unlink, Answered, NotSent, Tainted, Begin, IInv, TypeOK,
        ManagerType, ProcessType, ThreadType, Places, Starts
<1>1. CASE UNCHANGED <<pc, self, mgr, alive>>
  BY <1>1
<1>2. CASE pc'["worker"] \notin {"prepare", "spawn", "connect"}
  BY <1>2
<1>3. ASSUME \/ BeginStart \/ BeginStop \/ BeginUse \/ Use \/ Probe \/ Handshake
             \/ RefuseHandshake \/ SeeExit \/ RaiseTainted \/ Deadline \/ Return
      PROVE  pc'["worker"] \notin {"prepare", "spawn", "connect"}
  BY <1>3 DEF BeginStart, BeginStop, BeginUse, Use, Probe, Handshake, RefuseHandshake,
              SeeExit, RaiseTainted, Deadline, Return
<1>4. CASE BeginCancel
  BY <1>4 DEF BeginCancel
<1>5. CASE Create
  BY <1>5 DEF Create
<1>6. CASE Prepare
  BY <1>6 DEF Prepare
<1>7. CASE Spawn
  BY <1>7 DEF Spawn
<1>8. CASE LoseHandshake
  BY <1>8 DEF LoseHandshake
<1>9. ASSUME NEW a \in Actors, StopCall(a) PROVE Starts'
  BY <1>9 DEF StopCall
<1>10. ASSUME NEW a \in Actors, StopTerminate(a) PROVE Starts'
  BY <1>10, SMTT(30) DEF StopTerminate
<1>11. ASSUME NEW a \in Actors, StopPoll(a) PROVE Starts'
  BY <1>11 DEF StopPoll
<1>12. ASSUME NEW a \in Actors, Release(a) PROVE Starts'
  BY <1>12 DEF Release
<1>13. ASSUME NEW g \in Gens, Exits(g) PROVE Starts'
  BY <1>13 DEF Exits
<1>14. ASSUME \/ \E g \in Gens : ComesUp(g)
              \/ UNCHANGED vars
      PROVE  UNCHANGED <<pc, self, mgr, alive>>
  BY <1>14 DEF ComesUp, vars
<1> QED
  BY <1>1, <1>2, <1>3, <1>4, <1>5, <1>6, <1>7, <1>8, <1>9, <1>10, <1>11, <1>12, <1>13,
     <1>14, StepCases

LEMMA SeenStep ==
    ASSUME IInv, [Next]_vars
    PROVE  Seen'
<1> USE LifecycleAssumption
    DEF LifecycleAssumption, sessionVars, threadVars, Gens, NoGen, Actors, Go, SetState,
        Killed, Terminate, Unlink, Answered, NotSent, Tainted, Begin, IInv, TypeOK,
        ManagerType, ProcessType, ThreadType, Places, Starts, Seen, Sees
<1>1. CASE UNCHANGED <<pc, self, alive, held>>
  BY <1>1
<1>2. CASE BeginStart
  BY <1>2 DEF BeginStart
<1>3. CASE BeginStop
  BY <1>3 DEF BeginStop
<1>4. CASE BeginUse
  BY <1>4 DEF BeginUse
<1>5. CASE BeginCancel
  BY <1>5 DEF BeginCancel
<1>6. CASE Use
  BY <1>6 DEF Use
<1>7. CASE Probe
  BY <1>7 DEF Probe
<1>8. CASE Create
  BY <1>8 DEF Create
<1>9. CASE Prepare
  BY <1>9 DEF Prepare
<1>10. CASE Spawn
  BY <1>10 DEF Spawn
<1>11. CASE Handshake
  BY <1>11 DEF Handshake
<1>12. CASE RefuseHandshake
  BY <1>12 DEF RefuseHandshake
<1>13. CASE LoseHandshake
  BY <1>13 DEF LoseHandshake
<1>14. CASE SeeExit
  BY <1>14 DEF SeeExit
<1>15. CASE RaiseTainted
  BY <1>15 DEF RaiseTainted
<1>16. CASE Deadline
  BY <1>16 DEF Deadline
<1>17. CASE Return
  BY <1>17 DEF Return
<1>18. ASSUME NEW a \in Actors, StopCall(a) PROVE Seen'
  BY <1>18 DEF StopCall
<1>19. ASSUME NEW a \in Actors, StopTerminate(a) PROVE Seen'
  <2>1. /\ pc[a] = "terminate" /\ self[a] \in Gens
        /\ pc' = [pc EXCEPT ![a] = "poll"]
        /\ self' = self /\ held' = held
        /\ \/ alive' = [alive EXCEPT ![self[a]] = FALSE]
           \/ alive' = alive
    BY <1>19 DEF StopTerminate
  <2>2. ASSUME NEW b \in Actors, Sees(b) PROVE Sees(b)'
    BY <2>1, <2>2
  <2> QED
    BY <2>1, <2>2
<1>20. ASSUME NEW a \in Actors, StopPoll(a) PROVE Seen'
  BY <1>20 DEF StopPoll
<1>21. ASSUME NEW a \in Actors, Release(a) PROVE Seen'
  BY <1>21 DEF Release
<1>22. ASSUME NEW g \in Gens, Exits(g) PROVE Seen'
  BY <1>22 DEF Exits
<1>23. ASSUME \/ \E g \in Gens : ComesUp(g)
              \/ UNCHANGED vars
      PROVE  UNCHANGED <<pc, self, alive, held>>
  BY <1>23 DEF ComesUp, vars
<1> QED
  BY <1>1, <1>2, <1>3, <1>4, <1>5, <1>6, <1>7, <1>8, <1>9, <1>10, <1>11, <1>12, <1>13,
     <1>14, <1>15, <1>16, <1>17, <1>18, <1>19, <1>20, <1>21, <1>22, <1>23, StepCases

LEMMA HandleStep ==
    ASSUME IInv, [Next]_vars
    PROVE  Handle'
<1> USE LifecycleAssumption
    DEF LifecycleAssumption, sessionVars, threadVars, Gens, NoGen, Actors, Go, SetState,
        Killed, Terminate, Unlink, Answered, NotSent, Tainted, Begin, IInv, TypeOK,
        ManagerType, ProcessType, ThreadType, Places, Starts, Seen, Sees, Handle
<1>1. CASE UNCHANGED <<cancels, pc, mgr, self, alive>>
  BY <1>1
<1>2. CASE BeginStart
  BY <1>2 DEF BeginStart
<1>3. CASE BeginStop
  BY <1>3 DEF BeginStop
<1>4. CASE BeginUse
  BY <1>4 DEF BeginUse
<1>5. CASE BeginCancel
  BY <1>5 DEF BeginCancel
<1>6. CASE Use
  BY <1>6 DEF Use
<1>7. CASE Probe
  BY <1>7 DEF Probe
<1>8. CASE Create
  BY <1>8 DEF Create
<1>9. CASE Prepare
  BY <1>9 DEF Prepare
<1>10. CASE Spawn
  BY <1>10 DEF Spawn
<1>11. CASE Handshake
  BY <1>11 DEF Handshake
<1>12. CASE RefuseHandshake
  <2>1. /\ pc["worker"] = "connect" /\ self["worker"] \in Gens
        /\ pc' = [pc EXCEPT !["worker"] = "return"]
        /\ mgr' = mgr /\ self' = self /\ cancels' = cancels
        /\ \/ alive' = [alive EXCEPT ![self["worker"]] = FALSE]
           \/ alive' = alive
    BY <1>12 DEF RefuseHandshake
  <2> QED
    BY <2>1
<1>13. CASE LoseHandshake
  BY <1>13 DEF LoseHandshake
<1>14. CASE SeeExit
  BY <1>14 DEF SeeExit
<1>15. CASE RaiseTainted
  BY <1>15 DEF RaiseTainted
<1>16. CASE Deadline
  BY <1>16 DEF Deadline
<1>17. CASE Return
  BY <1>17 DEF Return
<1>18. ASSUME NEW a \in Actors, StopCall(a) PROVE Handle'
  BY <1>18 DEF StopCall
<1>19. ASSUME NEW a \in Actors, StopTerminate(a) PROVE Handle'
  BY <1>19 DEF StopTerminate
<1>20. ASSUME NEW a \in Actors, StopPoll(a) PROVE Handle'
  BY <1>20 DEF StopPoll
<1>21. ASSUME NEW a \in Actors, Release(a) PROVE Handle'
  BY <1>21 DEF Release
<1>22. ASSUME NEW g \in Gens, Exits(g) PROVE Handle'
  BY <1>22 DEF Exits
<1>23. ASSUME \/ \E g \in Gens : ComesUp(g)
              \/ UNCHANGED vars
      PROVE  UNCHANGED <<cancels, pc, mgr, self, alive>>
  BY <1>23 DEF ComesUp, vars
<1> QED
  BY <1>1, <1>2, <1>3, <1>4, <1>5, <1>6, <1>7, <1>8, <1>9, <1>10, <1>11, <1>12, <1>13,
     <1>14, <1>15, <1>16, <1>17, <1>18, <1>19, <1>20, <1>21, <1>22, <1>23, StepCases

LEMMA CalmStep ==
    ASSUME IInv, [Next]_vars
    PROVE  Calm'
<1> USE LifecycleAssumption
    DEF LifecycleAssumption, sessionVars, threadVars, Gens, NoGen, Actors, Go, SetState,
        Killed, Terminate, Unlink, Answered, NotSent, Tainted, Begin, IInv, TypeOK,
        ManagerType, ProcessType, ThreadType, FlagType, Places, Starts, Seen, Sees, Calm,
        InUse, Accepted
<1>1. CASE UNCHANGED <<mgr, pc, st, alive, insync, attested, file>>
  BY <1>1
<1>2. CASE BeginStart
  BY <1>2 DEF BeginStart
<1>3. CASE BeginStop
  BY <1>3 DEF BeginStop
<1>4. CASE BeginUse
  BY <1>4 DEF BeginUse
<1>5. CASE BeginCancel
  BY <1>5 DEF BeginCancel
<1>6. CASE Use
  BY <1>6 DEF Use
<1>7. CASE Probe
  BY <1>7 DEF Probe
<1>8. CASE Create
  BY <1>8 DEF Create
<1>9. CASE Prepare
  BY <1>9 DEF Prepare
<1>10. CASE Spawn
  BY <1>10 DEF Spawn
<1>11. CASE Handshake
  BY <1>11 DEF Handshake
<1>12. CASE RefuseHandshake
  BY <1>12 DEF RefuseHandshake
<1>13. CASE LoseHandshake
  BY <1>13 DEF LoseHandshake
<1>14. CASE SeeExit
  BY <1>14 DEF SeeExit
<1>15. CASE RaiseTainted
  BY <1>15 DEF RaiseTainted
<1>16. CASE Deadline
  BY <1>16 DEF Deadline
<1>17. CASE Return
  BY <1>17 DEF Return
<1>18. ASSUME NEW a \in Actors, StopCall(a) PROVE Calm'
  BY <1>18 DEF StopCall
<1>19. ASSUME NEW a \in Actors, StopTerminate(a) PROVE Calm'
  BY <1>19 DEF StopTerminate
<1>20. ASSUME NEW a \in Actors, StopPoll(a) PROVE Calm'
  <2>1. /\ pc[a] = "poll" /\ self[a] \in Gens
        /\ mgr' = mgr /\ alive' = alive /\ insync' = insync /\ attested' = attested
    BY <1>20 DEF StopPoll
  <2>2. CASE held[a] /\ alive[self[a]]
    <3>1. st' = [st EXCEPT ![self[a]] = "STOP_FAILED"] /\ file' = file
          /\ pc' = [pc EXCEPT ![a] = "idle"]
      BY <1>20, <2>2 DEF StopPoll
    <3> QED
      BY <2>1, <3>1
  <2>3. CASE ~(held[a] /\ alive[self[a]])
    <3>1. /\ st' = [st EXCEPT ![self[a]] = "STOPPED"]
          /\ file' = [file EXCEPT ![self[a]] = FALSE] \/ file' = file
          /\ pc' = [pc EXCEPT ![a] = "release"]
      BY <1>20, <2>3 DEF StopPoll
    <3>2. CASE a = "canceller"
      BY <2>1, <3>1, <3>2
    <3>3. CASE a = "worker" /\ mgr = self[a]
      BY <2>1, <2>3, <3>1, <3>3
    <3>4. CASE a = "worker" /\ mgr # self[a]
      BY <2>1, <3>1, <3>4
    <3> QED
      BY <3>2, <3>3, <3>4
  <2> QED
    BY <2>2, <2>3
<1>21. ASSUME NEW a \in Actors, Release(a) PROVE Calm'
  BY <1>21 DEF Release
<1>22. ASSUME NEW g \in Gens, Exits(g) PROVE Calm'
  BY <1>22 DEF Exits
<1>23. ASSUME \/ \E g \in Gens : ComesUp(g)
              \/ UNCHANGED vars
      PROVE  UNCHANGED <<mgr, pc, st, alive, insync, attested, file>>
  BY <1>23 DEF ComesUp, vars
<1> QED
  BY <1>1, <1>2, <1>3, <1>4, <1>5, <1>6, <1>7, <1>8, <1>9, <1>10, <1>11, <1>12, <1>13,
     <1>14, <1>15, <1>16, <1>17, <1>18, <1>19, <1>20, <1>21, <1>22, <1>23, StepCases

LEMMA InUseStep ==
    ASSUME IInv, [Next]_vars
    PROVE  InUse'
<1> USE LifecycleAssumption
    DEF LifecycleAssumption, sessionVars, threadVars, Gens, NoGen, Actors, Go, SetState,
        Killed, Terminate, Unlink, Answered, NotSent, Tainted, Begin, IInv, TypeOK,
        ManagerType, ProcessType, ThreadType, FlagType, Places, Starts, Seen, Sees, Calm,
        InUse, Accepted
<1>1. CASE UNCHANGED <<mgr, pc, st, alive, insync, attested, file>>
  BY <1>1
<1>2. CASE pc'["worker"] # "use"
  BY <1>2
<1>3. ASSUME \/ BeginStart \/ BeginStop \/ Use \/ Probe \/ Create \/ Prepare \/ Spawn
             \/ Handshake \/ RefuseHandshake \/ LoseHandshake \/ SeeExit \/ RaiseTainted
             \/ Deadline \/ Return
      PROVE  pc'["worker"] # "use"
  BY <1>3 DEF BeginStart, BeginStop, Use, Probe, Create, Prepare, Spawn, Handshake,
              RefuseHandshake, LoseHandshake, SeeExit, RaiseTainted, Deadline, Return
<1>4. CASE BeginUse
  BY <1>4 DEF BeginUse
<1>5. CASE BeginCancel
  BY <1>5 DEF BeginCancel
<1>6. ASSUME NEW a \in Actors, StopCall(a) PROVE InUse'
  BY <1>6 DEF StopCall
<1>7. ASSUME NEW a \in Actors, StopTerminate(a) PROVE InUse'
  BY <1>7 DEF StopTerminate
<1>8. ASSUME NEW a \in Actors, StopPoll(a) PROVE InUse'
  BY <1>8 DEF StopPoll
<1>9. ASSUME NEW a \in Actors, Release(a) PROVE InUse'
  BY <1>9 DEF Release
<1>10. ASSUME NEW g \in Gens, Exits(g) PROVE InUse'
  BY <1>10 DEF Exits
<1>11. ASSUME \/ \E g \in Gens : ComesUp(g)
              \/ UNCHANGED vars
      PROVE  UNCHANGED <<mgr, pc, st, alive, insync, attested, file>>
  BY <1>11 DEF ComesUp, vars
<1> QED
  BY <1>1, <1>2, <1>3, <1>4, <1>5, <1>6, <1>7, <1>8, <1>9, <1>10, <1>11, StepCases

(***************************************************************************)
(* The invariant, and what follows from it                                 *)
(***************************************************************************)

LEMMA InvInit == Init => IInv
  BY TypeInit, LifecycleAssumption
  DEF LifecycleAssumption, Init, Gens, NoGen, Actors, IInv, Places, Starts, Seen, Sees,
      Handle, Calm, InUse

LEMMA InvStep == IInv /\ [Next]_vars => IInv'
<1> SUFFICES ASSUME IInv, [Next]_vars PROVE IInv'
  OBVIOUS
<1>1. TypeOK'
  BY TypeStep DEF IInv
<1> QED
  BY <1>1, PlacesStep, StartsStep, SeenStep, HandleStep, CalmStep, InUseStep DEF IInv

\* The seven parts of the invariant hold in every state.
THEOREM LifecycleInvariant == Spec => []IInv
  BY InvInit, InvStep, PTL DEF Spec

\* The variables keep their types, an unborn session stays NEW, and only a process
\* that was started runs or listens.
THEOREM LifecycleTyped == Spec => []TypeOK
<1>1. IInv => TypeOK
  BY DEF IInv
<1> QED
  BY <1>1, LifecycleInvariant, PTL

\* However start and stop end, and whether or not a kill succeeds, a running process
\* belongs to the session the manager holds, as long as nothing was cancelled.
THEOREM ProcessHasHandleHolds == Spec => []ProcessHasHandle
<1>1. IInv => ProcessHasHandle
  BY DEF IInv, Handle, ProcessHasHandle
<1> QED
  BY <1>1, LifecycleInvariant, PTL

\* Outside a cancellation there is one Vivado process at most.
COROLLARY OneProcessHolds == Spec => [](cancels = 0 =>
    \A g, h \in Gens : alive[g] /\ alive[h] => g = h)
<1>1. ProcessHasHandle => (cancels = 0 => \A g, h \in Gens : alive[g] /\ alive[h] => g = h)
  BY DEF ProcessHasHandle
<1> QED
  BY <1>1, ProcessHasHandleHolds, PTL

\* A tool's Tcl runs only in a process that start() accepted and whose secret file is
\* gone, unless a stop that failed has hidden the taint.
THEOREM OnlyAcceptedServesHolds == Spec => OnlyAcceptedServes
<1> DEFINE Good == \A g \in served' \ served :
                       st[g] # "STOP_FAILED" => attested[g] /\ ~file[g]
<1>1. ASSUME IInv, Next, served' # served
      PROVE  Use /\ mgr # NoGen /\ up[mgr] /\ insync[mgr] /\ served' = served \cup {mgr}
  <2>1. ~(UNCHANGED served)
    BY <1>1
  <2>2. Use
    BY <2>1, <1>1, StepCases
    DEF BeginStart, BeginStop, BeginUse, BeginCancel, Begin, Probe, Create, Prepare, Spawn,
        Handshake, RefuseHandshake, LoseHandshake, SeeExit, RaiseTainted, Deadline, Return,
        StopCall, StopTerminate, StopPoll, Release, ComesUp, Exits, vars
  <2> QED
    BY <2>1, <2>2 DEF Use, Answered
<1>2. ASSUME IInv, [Next]_vars PROVE Good
  <2>1. CASE served' = served
    BY <2>1
  <2>2. CASE served' # served
    <3>1. Use /\ mgr # NoGen /\ up[mgr] /\ insync[mgr] /\ served' = served \cup {mgr}
      BY <1>1, <1>2, <2>2 DEF vars
    <3>2. alive[mgr] /\ (st[mgr] = "STOP_FAILED" \/ Accepted(mgr))
      BY <1>2, <3>1 DEF IInv, TypeOK, ManagerType, ProcessType, InUse, Use, NoGen
    <3> QED
      BY <3>1, <3>2 DEF Accepted
  <2> QED
    BY <2>1, <2>2
<1>3. IInv /\ [Next]_vars => [Good]_vars
  BY <1>2
<1> QED
  BY <1>3, LifecycleInvariant, PTL DEF Spec, OnlyAcceptedServes
=============================================================================
