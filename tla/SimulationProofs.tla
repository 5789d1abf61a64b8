-------------------------- MODULE SimulationProofs --------------------------
(***************************************************************************)
(* Proofs about the simulations that VivadoToolService runs and judges,    *)
(* for any simsets and any number of launches, edits, changes of           *)
(* properties and simulations of the user's.                               *)
(***************************************************************************)
EXTENDS ProjectTools, TLAPS

(***************************************************************************)
(* The inductive invariant                                                 *)
(***************************************************************************)

\* From the recheck to the verdict the files are those that were attested, and the
\* properties are unless somebody has changed them, which takes two to undo.
Pinned == call.at \in {"launch", "post"} =>
    /\ call.id \in Sim!Identities /\ call.id.sim = call.sim /\ call.id.files = files
    /\ call.moves = 0 => props[call.sim] = call.id.props
    /\ call.moves = 1 => props[call.sim] # call.id.props

\* A run goes its own way, and whoever asks for a result another.
OneTool ==
    /\ call.at \in {"preflight", "policy", "lock", "pin", "recheck", "launch", "post"} =>
           call.tool = "run"
    /\ call.at \in {"read", "current"} => call.tool \in {"get", "signoff"}

\* Changes are counted from the recheck on.
Unmoved == call.at \notin {"launch", "post"} => call.moves = 0

\* The directory was empty when it was pinned: a log in it is the user's.
Cleared == call.at \in {"recheck", "launch"} /\ logs[call.sim] # None =>
    logs[call.sim].by = 0 /\ call.gui

\* What is judged after a launch is its own log.
OwnRead == call.at = "post" =>
    /\ call.read \in Sim!Reads /\ call.read.log \in Sim!Logs
    /\ call.read.globals \in Sim!Globals
    /\ call.read.log.by = call.read.globals.run
    /\ call.moves = 0 => call.read.log.of = call.id
    /\ call.read.whole \/ call.gui

\* A log that a tool wrote, next to the globals of a launch in that simset, is of
\* that launch.
LastLog(log, g) == log # None /\ log.by # 0 =>
    log.by = g.run /\ (log.of = g.id \/ g.moved)

LastLaunch == globals # None => LastLog(logs[globals.id.sim], globals)

\* So does what a result tool has read, whatever happens before it is judged.
HeldRead == call.at = "current" =>
    /\ call.read \in Sim!Reads
    /\ call.read.globals # None /\ call.read.globals.id.sim = call.sim =>
           LastLog(call.read.log, call.read.globals)

IInv == /\ Sim!TypeOK /\ OneTool /\ Pinned /\ Unmoved /\ Cleared /\ OwnRead
        /\ LastLaunch /\ HeldRead
        /\ OnlyTrustedFilesRun /\ AcceptedRunIsAttested /\ ResultIsOfLastLaunch

(***************************************************************************)
(* Steps                                                                   *)
(***************************************************************************)

LEMMA StepCases ==
    ASSUME Sim!Next \/ UNCHANGED simulationVars
    PROVE  \/ Sim!Preflight \/ Sim!PolicyPreflight \/ Sim!HoldSources \/ Sim!HoldOutput
           \/ Sim!RecheckLocked \/ Sim!Launch \/ Sim!LaunchFails \/ Sim!Accept
           \/ Sim!ReadResult \/ Sim!CheckCurrent \/ Sim!Refuse
           \/ Sim!EditFiles \/ Sim!EndSession \/ Sim!StartSession
           \/ \E s \in Simsets :
                  \/ Sim!RunBehavioralSimulation(s) \/ Sim!GetSimulationResult(s)
                  \/ Sim!RunPreHwSignoff(s) \/ Sim!ConfigureSimulation(s)
                  \/ Sim!UserSimulates(s) \/ Sim!CleanOutputs(s)
           \/ UNCHANGED simulationVars
  BY DEF Sim!Next

(***************************************************************************)
(* Types                                                                   *)
(***************************************************************************)

\* files, props, live, and the logs and globals, and what has been used.
SourceType ==
    /\ files \in 0..MaxEdits /\ props \in [Simsets -> 0..1] /\ live \in BOOLEAN
    /\ spent \in [sets : 0..MaxSets, runs : 0..MaxRuns, gui : 0..MaxGui]
GlobalType == globals \in Sim!Globals \cup {None} /\ (globals # None => live)
LogType ==
    /\ logs \in [Simsets -> Sim!Logs \cup {None}]
    /\ \A s \in Simsets : logs[s] # None => logs[s].of.sim = s
CallType ==
    /\ call \in Sim!Calls
    /\ call = Sim!Idle <=> call.at = "idle"
    /\ call # Sim!Idle => call.tool \in Sim!Tools /\ call.sim \in Simsets
AnswerType == answer \in Sim!Answers \cup {None}

LEMMA Types == Sim!TypeOK <=> SourceType /\ GlobalType /\ LogType /\ CallType /\ AnswerType
  BY DEF Sim!TypeOK, SourceType, GlobalType, LogType, CallType, AnswerType

LEMMA Closures ==
    ASSUME SourceType, NEW s \in Simsets
    PROVE  Sim!Closure(s) \in Sim!Identities
  BY DEF SourceType, Sim!Closure, Sim!Identities

LEMMA OwnLogs ==
    ASSUME SourceType, call.sim \in Simsets, spent.runs < MaxRuns, NEW d \in BOOLEAN
    PROVE  Sim!OwnLog(d) \in Sim!Logs
  BY Closures, SimulationAssumption
  DEF SimulationAssumption, SourceType, Sim!OwnLog, Sim!Logs

\* What a launch leaves in the globals.
LEMMA LaunchGlobals ==
    ASSUME SourceType, GlobalType, LogType, CallType, Pinned,
           Sim!At("launch"), spent.runs < MaxRuns
    PROVE  /\ call.sim \in Simsets
           /\ Sim!Launched \in Sim!Globals
           /\ [Sim!Launched EXCEPT !.after = Sim!Snapshot(call.sim)] \in Sim!Globals
<1>1. call.sim \in Simsets /\ call.id \in Sim!Identities
  BY DEF CallType, Pinned, Sim!At, Sim!Idle
<1>2. Sim!Snapshot(call.sim) \in Sim!Identities
  BY <1>1, Closures DEF Sim!Snapshot
<1>3. spent.runs + 1 \in 1..MaxRuns
  BY SimulationAssumption DEF SimulationAssumption, SourceType
<1>4. (logs[call.sim] # None) \in BOOLEAN /\ (call.moves > 0) \in BOOLEAN
  OBVIOUS
<1>5. (IF globals = None THEN None ELSE globals.after) \in Sim!Identities \cup {None}
  BY DEF GlobalType, Sim!Globals
<1>6. Sim!Launched \in Sim!Globals
  BY <1>1, <1>2, <1>3, <1>4, <1>5 DEF Sim!Launched, Sim!Globals
<1> QED
  BY <1>1, <1>2, <1>6 DEF Sim!Globals

\* What is read: the log as it is, whole unless there was one when it was launched.
LEMMA ReadsLog ==
    ASSUME LogType', NEW s \in Simsets, NEW g \in Sim!Globals \cup {None},
           NEW r \in Sim!ReadLog(s, g)
    PROVE  /\ r \in Sim!Reads
           /\ r.log = logs'[s] /\ r.globals = g
           /\ r.whole \/ (g # None /\ g.mixed)
<1>1. logs'[s] \in Sim!Logs \cup {None}
  BY DEF LogType
<1>2. PICK w \in IF g # None /\ g.mixed THEN BOOLEAN ELSE {TRUE} :
          r = [log |-> logs'[s], whole |-> w, globals |-> g]
  BY DEF Sim!ReadLog
<1>3. w \in BOOLEAN /\ (w = TRUE \/ (g # None /\ g.mixed))
  BY <1>2
<1> QED
  BY <1>1, <1>2, <1>3 DEF Sim!Reads

LEMMA SourceTypeStep ==
    ASSUME IInv, Sim!Next \/ UNCHANGED simulationVars
    PROVE  SourceType'
<1> USE SimulationAssumption, Types
    DEF SimulationAssumption, IInv, Sim!TypeOK, Sim!Identities, Sim!Logs, Sim!Globals,
        Sim!Reads, Sim!Calls, Sim!Answers, Sim!Tools, Sim!Steps, Sim!Idle, Sim!Closure,
        Sim!Identity, Sim!Snapshot, SourceType, GlobalType, CallType
<1>1. CASE UNCHANGED <<files, props, live, spent>>
  BY <1>1
<1>2. CASE Sim!Launch
  BY <1>2 DEF Sim!Launch, Sim!At, Sim!Launched, Sim!OwnLog, Sim!ReadLog
<1>3. CASE Sim!LaunchFails
  BY <1>3 DEF Sim!LaunchFails, Sim!At, Sim!Launched, Sim!OwnLog, Sim!Finish
<1>4. CASE Sim!EditFiles
  BY <1>4 DEF Sim!EditFiles, Sim!Held
<1>5. ASSUME NEW s \in Simsets, Sim!ConfigureSimulation(s) PROVE SourceType'
  BY <1>5 DEF Sim!ConfigureSimulation
<1>6. ASSUME NEW s \in Simsets, Sim!UserSimulates(s) PROVE SourceType'
  BY <1>6 DEF Sim!UserSimulates
<1>7. CASE Sim!EndSession
  BY <1>7 DEF Sim!EndSession
<1>8. CASE Sim!StartSession
  BY <1>8 DEF Sim!StartSession
<1>9. ASSUME \/ Sim!Refuse \/ Sim!Preflight \/ Sim!PolicyPreflight \/ Sim!HoldSources
             \/ Sim!HoldOutput \/ Sim!RecheckLocked \/ Sim!Accept \/ Sim!ReadResult
             \/ Sim!CheckCurrent
             \/ \E s \in Simsets : Sim!RunBehavioralSimulation(s) \/ Sim!GetSimulationResult(s)
             \/ \E s \in Simsets : Sim!RunPreHwSignoff(s) \/ Sim!CleanOutputs(s)
             \/ UNCHANGED simulationVars
      PROVE  UNCHANGED <<files, props, live, spent>>
  BY <1>9 DEF Sim!RunBehavioralSimulation, Sim!GetSimulationResult, Sim!RunPreHwSignoff,
              Sim!Refuse, Sim!Preflight, Sim!PolicyPreflight, Sim!HoldSources,
              Sim!HoldOutput, Sim!RecheckLocked, Sim!Accept, Sim!ReadResult,
              Sim!CheckCurrent, Sim!CleanOutputs, Sim!Start, Sim!Finish, Sim!At, Sim!Go,
              Sim!Empty, Sim!StillAttested, Sim!Answer, Sim!ReadLog, Sim!Recorded,
              Sim!SignoffPasses, simulationVars
<1> QED
  BY <1>1, <1>2, <1>3, <1>4, <1>5, <1>6, <1>7, <1>8, <1>9, StepCases

LEMMA GlobalTypeStep ==
    ASSUME IInv, Sim!Next \/ UNCHANGED simulationVars
    PROVE  GlobalType'
<1> USE SimulationAssumption, Types
    DEF SimulationAssumption, IInv, Sim!TypeOK, Sim!Identities, Sim!Logs, Sim!Globals,
        Sim!Reads, Sim!Calls, Sim!Answers, Sim!Tools, Sim!Steps, Sim!Idle, Sim!Closure,
        Sim!Identity, Sim!Snapshot, SourceType, GlobalType, CallType, Pinned
<1>1. CASE UNCHANGED <<globals, live>>
  BY <1>1
<1>2. CASE Sim!Launch
  <2>1. [Sim!Launched EXCEPT !.after = Sim!Snapshot(call.sim)] \in Sim!Globals
    BY <1>2, LaunchGlobals DEF Sim!Launch, LogType
  <2> QED
    BY <1>2, <2>1 DEF Sim!Launch
<1>3. CASE Sim!LaunchFails
  <2>1. Sim!Launched \in Sim!Globals
    BY <1>3, LaunchGlobals DEF Sim!LaunchFails, LogType
  <2> QED
    BY <1>3, <2>1 DEF Sim!LaunchFails
<1>4. CASE Sim!EndSession
  BY <1>4 DEF Sim!EndSession
<1>5. CASE Sim!StartSession
  BY <1>5 DEF Sim!StartSession
<1>6. ASSUME \/ Sim!Refuse \/ Sim!Preflight \/ Sim!PolicyPreflight \/ Sim!HoldSources
             \/ Sim!HoldOutput \/ Sim!RecheckLocked \/ Sim!Accept \/ Sim!ReadResult
             \/ Sim!CheckCurrent \/ Sim!EditFiles
             \/ \E s \in Simsets : Sim!RunBehavioralSimulation(s) \/ Sim!GetSimulationResult(s)
             \/ \E s \in Simsets : Sim!RunPreHwSignoff(s) \/ Sim!ConfigureSimulation(s)
             \/ \E s \in Simsets : Sim!UserSimulates(s) \/ Sim!CleanOutputs(s)
             \/ UNCHANGED simulationVars
      PROVE  UNCHANGED <<globals, live>>
  BY <1>6 DEF Sim!RunBehavioralSimulation, Sim!GetSimulationResult, Sim!RunPreHwSignoff,
              Sim!Refuse, Sim!Preflight, Sim!PolicyPreflight, Sim!HoldSources,
              Sim!HoldOutput, Sim!RecheckLocked, Sim!Accept, Sim!ReadResult,
              Sim!CheckCurrent, Sim!EditFiles, Sim!ConfigureSimulation, Sim!UserSimulates,
              Sim!CleanOutputs, Sim!Start, Sim!Finish, Sim!At, Sim!Go, Sim!Empty,
              Sim!StillAttested, Sim!Answer, Sim!ReadLog, Sim!Recorded, Sim!SignoffPasses,
              Sim!Held, simulationVars
<1> QED
  BY <1>1, <1>2, <1>3, <1>4, <1>5, <1>6, StepCases

LEMMA LogTypeStep ==
    ASSUME IInv, Sim!Next \/ UNCHANGED simulationVars
    PROVE  LogType'
<1> USE SimulationAssumption, Types
    DEF SimulationAssumption, IInv, Sim!TypeOK, Sim!Identities, Sim!Logs, Sim!Globals,
        Sim!Reads, Sim!Calls, Sim!Answers, Sim!Tools, Sim!Steps, Sim!Idle, Sim!Closure,
        Sim!Identity, Sim!Snapshot, SourceType, GlobalType, CallType, LogType
<1>1. CASE UNCHANGED logs
  BY <1>1
<1>2. CASE Sim!Launch
  BY <1>2 DEF Sim!Launch, Sim!At, Sim!Launched, Sim!OwnLog, Sim!ReadLog
<1>3. CASE Sim!LaunchFails
  BY <1>3 DEF Sim!LaunchFails, Sim!At, Sim!Launched, Sim!OwnLog, Sim!Finish
<1>4. ASSUME NEW s \in Simsets, Sim!UserSimulates(s) PROVE LogType'
  BY <1>4 DEF Sim!UserSimulates
<1>5. ASSUME NEW s \in Simsets, Sim!CleanOutputs(s) PROVE LogType'
  BY <1>5 DEF Sim!CleanOutputs
<1>6. ASSUME \/ Sim!Refuse \/ Sim!Preflight \/ Sim!PolicyPreflight \/ Sim!HoldSources
             \/ Sim!HoldOutput \/ Sim!RecheckLocked \/ Sim!Accept \/ Sim!ReadResult
             \/ Sim!CheckCurrent \/ Sim!EditFiles \/ Sim!EndSession \/ Sim!StartSession
             \/ \E s \in Simsets : Sim!RunBehavioralSimulation(s) \/ Sim!GetSimulationResult(s)
             \/ \E s \in Simsets : Sim!RunPreHwSignoff(s) \/ Sim!ConfigureSimulation(s)
             \/ UNCHANGED simulationVars
      PROVE  UNCHANGED logs
  BY <1>6 DEF Sim!RunBehavioralSimulation, Sim!GetSimulationResult, Sim!RunPreHwSignoff,
              Sim!Refuse, Sim!Preflight, Sim!PolicyPreflight, Sim!HoldSources,
              Sim!HoldOutput, Sim!RecheckLocked, Sim!Accept, Sim!ReadResult,
              Sim!CheckCurrent, Sim!EditFiles, Sim!ConfigureSimulation, Sim!EndSession,
              Sim!StartSession, Sim!Start, Sim!Finish, Sim!At, Sim!Go, Sim!Empty,
              Sim!StillAttested, Sim!Answer, Sim!ReadLog, Sim!Recorded, Sim!SignoffPasses,
              Sim!Held, simulationVars
<1> QED
  BY <1>1, <1>2, <1>3, <1>4, <1>5, <1>6, StepCases

LEMMA CallTypeStep ==
    ASSUME IInv, Sim!Next \/ UNCHANGED simulationVars
    PROVE  CallType'
<1> USE Types, Closures
    DEF IInv, Sim!Calls, Sim!Tools, Sim!Steps, Sim!Idle, CallType
<1>1. CASE UNCHANGED call
  BY <1>1
<1>2. ASSUME NEW s \in Simsets, Sim!RunBehavioralSimulation(s) PROVE CallType'
  BY <1>2 DEF Sim!RunBehavioralSimulation, Sim!Start
<1>3. ASSUME NEW s \in Simsets, Sim!GetSimulationResult(s) PROVE CallType'
  BY <1>3 DEF Sim!GetSimulationResult, Sim!Start
<1>4. ASSUME NEW s \in Simsets, Sim!RunPreHwSignoff(s) PROVE CallType'
  BY <1>4 DEF Sim!RunPreHwSignoff, Sim!Start
<1>5. CASE Sim!Refuse
  BY <1>5 DEF Sim!Refuse, Sim!Finish
<1>6. CASE Sim!Preflight
  BY <1>6 DEF Sim!Preflight, Sim!At, Sim!Go
<1>7. CASE Sim!PolicyPreflight
  <2>1. call.sim \in Simsets
    BY <1>7 DEF Sim!PolicyPreflight, Sim!At
  <2>2. Sim!Identity(call.sim) \in Sim!Identities
    BY <2>1 DEF Sim!Identity
  <2> QED
    BY <1>7, <2>1, <2>2 DEF Sim!PolicyPreflight, Sim!At
<1>8. CASE Sim!HoldSources
  BY <1>8 DEF Sim!HoldSources, Sim!At, Sim!Empty, Sim!Go
<1>9. CASE Sim!HoldOutput
  BY <1>9 DEF Sim!HoldOutput, Sim!At, Sim!Empty, Sim!Go
<1>10. CASE Sim!RecheckLocked
  BY <1>10 DEF Sim!RecheckLocked, Sim!At, Sim!Go
<1>11. CASE Sim!Launch
  <2>1. globals' \in Sim!Globals /\ call.sim \in Simsets
    BY <1>11, LaunchGlobals DEF Sim!Launch
  <2>2. PICK r \in Sim!ReadLog(call.sim, globals') :
            call' = [call EXCEPT !.at = "post", !.read = r]
    BY <1>11 DEF Sim!Launch
  <2>3. r \in Sim!Reads
    BY <2>1, <2>2, ReadsLog, LogTypeStep
  <2> QED
    BY <1>11, <2>1, <2>2, <2>3 DEF Sim!Launch, Sim!At
<1>12. CASE Sim!LaunchFails
  BY <1>12 DEF Sim!LaunchFails, Sim!At, Sim!Launched, Sim!OwnLog, Sim!Finish
<1>13. CASE Sim!Accept
  BY <1>13 DEF Sim!Accept, Sim!At, Sim!StillAttested, Sim!Finish, Sim!Answer
<1>14. CASE Sim!ReadResult
  <2>1. PICK r \in Sim!ReadLog(call.sim, globals) :
            call' = [call EXCEPT !.at = "current", !.read = r]
    BY <1>14 DEF Sim!ReadResult
  <2>2. call.sim \in Simsets
    BY <1>14 DEF Sim!ReadResult, Sim!At
  <2>3. r \in Sim!Reads
    BY <2>1, <2>2, ReadsLog, LogTypeStep DEF GlobalType
  <2> QED
    BY <1>14, <2>1, <2>2, <2>3 DEF Sim!ReadResult, Sim!At
<1>15. CASE Sim!CheckCurrent
  BY <1>15 DEF Sim!CheckCurrent, Sim!At, Sim!Recorded, Sim!SignoffPasses, Sim!Finish,
               Sim!Answer
<1>16. ASSUME NEW s \in Simsets, Sim!ConfigureSimulation(s) PROVE CallType'
  <2>1. CASE call' = call
    BY <2>1
  <2>2. CASE call.at \in {"launch", "post"} /\ call' = [call EXCEPT !.moves = @ + 1]
    <3>1. call' \in Sim!Calls /\ call'.at # "idle" /\ call # Sim!Idle
          /\ call'.tool = call.tool /\ call'.sim = call.sim
      BY <2>2
    <3>2. call' # Sim!Idle
      BY <3>1
    <3> QED
      BY <3>1, <3>2
  <2> QED
    BY <1>16, <2>1, <2>2 DEF Sim!ConfigureSimulation
<1>17. ASSUME NEW s \in Simsets, Sim!UserSimulates(s) PROVE CallType'
  BY <1>17 DEF Sim!UserSimulates
<1>18. ASSUME \/ Sim!EditFiles \/ Sim!EndSession \/ Sim!StartSession
              \/ \E s \in Simsets : Sim!CleanOutputs(s)
              \/ UNCHANGED simulationVars
      PROVE  UNCHANGED call
  BY <1>18 DEF Sim!EditFiles, Sim!CleanOutputs, Sim!EndSession, Sim!StartSession, Sim!Held,
               simulationVars
<1> QED
  BY <1>1, <1>2, <1>3, <1>4, <1>5, <1>6, <1>7, <1>8, <1>9, <1>10, <1>11, <1>12, <1>13,
     <1>14, <1>15, <1>16, <1>17, <1>18, StepCases

LEMMA AnswerTypeStep ==
    ASSUME IInv, Sim!Next \/ UNCHANGED simulationVars
    PROVE  AnswerType'
<1> USE SimulationAssumption, Types
    DEF SimulationAssumption, IInv, Sim!TypeOK, Sim!Identities, Sim!Logs, Sim!Globals,
        Sim!Reads, Sim!Calls, Sim!Answers, Sim!Tools, Sim!Steps, Sim!Idle, Sim!Closure,
        Sim!Identity, Sim!Snapshot, SourceType, GlobalType, CallType, AnswerType, Pinned,
        OwnRead, HeldRead
<1>1. CASE UNCHANGED answer
  BY <1>1
<1>2. ASSUME NEW s \in Simsets, Sim!RunBehavioralSimulation(s) PROVE AnswerType'
  BY <1>2 DEF Sim!RunBehavioralSimulation, Sim!Start
<1>3. ASSUME NEW s \in Simsets, Sim!GetSimulationResult(s) PROVE AnswerType'
  BY <1>3 DEF Sim!GetSimulationResult, Sim!Start
<1>4. ASSUME NEW s \in Simsets, Sim!RunPreHwSignoff(s) PROVE AnswerType'
  BY <1>4 DEF Sim!RunPreHwSignoff, Sim!Start
<1>5. CASE Sim!Refuse
  BY <1>5 DEF Sim!Refuse, Sim!Finish
<1>6. CASE Sim!LaunchFails
  BY <1>6 DEF Sim!LaunchFails, Sim!At, Sim!Launched, Sim!OwnLog, Sim!Finish
<1>7. CASE Sim!Accept
  <2>1. call.tool \in Sim!Tools /\ call.sim \in Simsets /\ call.id \in Sim!Identities
        /\ call.read \in Sim!Reads /\ call.moves \in Nat /\ call.gui \in BOOLEAN
    BY <1>7 DEF Sim!Accept, Sim!At
  <2>2. Sim!Answer \in Sim!Answers
    BY <2>1 DEF Sim!Answer
  <2> QED
    BY <1>7, <2>2 DEF Sim!Accept, Sim!Finish
<1>8. CASE Sim!CheckCurrent
  <2>1. call.tool \in Sim!Tools /\ call.sim \in Simsets
        /\ call.read \in Sim!Reads /\ call.moves \in Nat /\ call.gui \in BOOLEAN
    BY <1>8 DEF Sim!CheckCurrent, Sim!At
  <2>2. Sim!Identity(call.sim) \in Sim!Identities
    BY <2>1, Closures DEF Sim!Identity
  <2>3. [Sim!Answer EXCEPT !.id = Sim!Identity(call.sim)] \in Sim!Answers
    BY <2>1, <2>2 DEF Sim!Answer
  <2> QED
    BY <1>8, <2>3 DEF Sim!CheckCurrent, Sim!Finish
<1>9. ASSUME \/ Sim!Preflight \/ Sim!PolicyPreflight \/ Sim!HoldSources \/ Sim!HoldOutput
             \/ Sim!RecheckLocked \/ Sim!Launch \/ Sim!ReadResult \/ Sim!EditFiles
             \/ Sim!EndSession \/ Sim!StartSession
             \/ \E s \in Simsets : Sim!ConfigureSimulation(s) \/ Sim!UserSimulates(s)
             \/ \E s \in Simsets : Sim!CleanOutputs(s)
             \/ UNCHANGED simulationVars
      PROVE  UNCHANGED answer
  BY <1>9 DEF Sim!Preflight, Sim!PolicyPreflight, Sim!HoldSources, Sim!HoldOutput,
              Sim!RecheckLocked, Sim!Launch, Sim!ReadResult, Sim!EditFiles,
              Sim!ConfigureSimulation, Sim!UserSimulates, Sim!CleanOutputs, Sim!EndSession,
              Sim!StartSession, Sim!At, Sim!Go, Sim!Empty, Sim!Launched, Sim!OwnLog,
              Sim!ReadLog, Sim!Held, simulationVars
<1> QED
  BY <1>1, <1>2, <1>3, <1>4, <1>5, <1>6, <1>7, <1>8, <1>9, StepCases

LEMMA OneToolStep ==
    ASSUME IInv, Sim!Next \/ UNCHANGED simulationVars
    PROVE  OneTool'
<1> USE Types
    DEF IInv, Sim!Calls, Sim!Tools, Sim!Steps, Sim!Idle, CallType, OneTool
<1>1. CASE UNCHANGED call
  BY <1>1
<1>2. ASSUME NEW s \in Simsets, Sim!RunBehavioralSimulation(s) PROVE OneTool'
  BY <1>2 DEF Sim!RunBehavioralSimulation, Sim!Start
<1>3. ASSUME NEW s \in Simsets, Sim!GetSimulationResult(s) PROVE OneTool'
  BY <1>3 DEF Sim!GetSimulationResult, Sim!Start
<1>4. ASSUME NEW s \in Simsets, Sim!RunPreHwSignoff(s) PROVE OneTool'
  BY <1>4 DEF Sim!RunPreHwSignoff, Sim!Start
<1>5. CASE Sim!Refuse
  BY <1>5 DEF Sim!Refuse, Sim!Finish
<1>6. CASE Sim!Preflight
  BY <1>6 DEF Sim!Preflight, Sim!At, Sim!Go
<1>7. CASE Sim!PolicyPreflight
  BY <1>7 DEF Sim!PolicyPreflight, Sim!At
<1>8. CASE Sim!HoldSources
  BY <1>8 DEF Sim!HoldSources, Sim!At, Sim!Empty, Sim!Go
<1>9. CASE Sim!HoldOutput
  BY <1>9 DEF Sim!HoldOutput, Sim!At, Sim!Empty, Sim!Go
<1>10. CASE Sim!RecheckLocked
  BY <1>10 DEF Sim!RecheckLocked, Sim!At, Sim!Go
<1>11. CASE Sim!Launch
  BY <1>11 DEF Sim!Launch, Sim!At, Sim!Launched, Sim!OwnLog, Sim!ReadLog
<1>12. CASE Sim!LaunchFails
  BY <1>12 DEF Sim!LaunchFails, Sim!At, Sim!Launched, Sim!OwnLog, Sim!Finish
<1>13. CASE Sim!Accept
  BY <1>13 DEF Sim!Accept, Sim!At, Sim!StillAttested, Sim!Finish, Sim!Answer
<1>14. CASE Sim!ReadResult
  BY <1>14 DEF Sim!ReadResult, Sim!At, Sim!ReadLog
<1>15. CASE Sim!CheckCurrent
  BY <1>15 DEF Sim!CheckCurrent, Sim!At, Sim!Recorded, Sim!SignoffPasses, Sim!Finish,
               Sim!Answer
<1>16. ASSUME NEW s \in Simsets, Sim!ConfigureSimulation(s) PROVE OneTool'
  BY <1>16 DEF Sim!ConfigureSimulation
<1>17. ASSUME NEW s \in Simsets, Sim!UserSimulates(s) PROVE OneTool'
  BY <1>17 DEF Sim!UserSimulates
<1>18. ASSUME \/ Sim!EditFiles \/ Sim!EndSession \/ Sim!StartSession
              \/ \E s \in Simsets : Sim!CleanOutputs(s)
              \/ UNCHANGED simulationVars
      PROVE  UNCHANGED call
  BY <1>18 DEF Sim!EditFiles, Sim!CleanOutputs, Sim!EndSession, Sim!StartSession, Sim!Held,
               simulationVars
<1> QED
  BY <1>1, <1>2, <1>3, <1>4, <1>5, <1>6, <1>7, <1>8, <1>9, <1>10, <1>11, <1>12, <1>13,
     <1>14, <1>15, <1>16, <1>17, <1>18, StepCases

LEMMA PinnedStep ==
    ASSUME IInv, Sim!Next \/ UNCHANGED simulationVars
    PROVE  Pinned'
<1> USE SimulationAssumption, Types
    DEF SimulationAssumption, IInv, Sim!TypeOK, Sim!Identities, Sim!Logs, Sim!Globals,
        Sim!Reads, Sim!Calls, Sim!Answers, Sim!Tools, Sim!Steps, Sim!Idle, Sim!Closure,
        Sim!Identity, Sim!Snapshot, SourceType, GlobalType, CallType, Pinned, Unmoved
<1>1. CASE UNCHANGED <<call, files, props>>
  BY <1>1
<1>2. ASSUME NEW s \in Simsets, Sim!RunBehavioralSimulation(s) PROVE Pinned'
  BY <1>2 DEF Sim!RunBehavioralSimulation, Sim!Start
<1>3. ASSUME NEW s \in Simsets, Sim!GetSimulationResult(s) PROVE Pinned'
  BY <1>3 DEF Sim!GetSimulationResult, Sim!Start
<1>4. ASSUME NEW s \in Simsets, Sim!RunPreHwSignoff(s) PROVE Pinned'
  BY <1>4 DEF Sim!RunPreHwSignoff, Sim!Start
<1>5. CASE Sim!Refuse
  BY <1>5 DEF Sim!Refuse, Sim!Finish
<1>6. CASE Sim!Preflight
  BY <1>6 DEF Sim!Preflight, Sim!At, Sim!Go
<1>7. CASE Sim!PolicyPreflight
  BY <1>7 DEF Sim!PolicyPreflight, Sim!At
<1>8. CASE Sim!HoldSources
  BY <1>8 DEF Sim!HoldSources, Sim!At, Sim!Empty, Sim!Go
<1>9. CASE Sim!HoldOutput
  BY <1>9 DEF Sim!HoldOutput, Sim!At, Sim!Empty, Sim!Go
<1>10. CASE Sim!RecheckLocked
  <2>1. /\ call.at = "recheck" /\ call' = [call EXCEPT !.at = "launch"]
        /\ call.id = [sim |-> call.sim, files |-> files, props |-> props[call.sim]]
        /\ files' = files /\ props' = props
    BY <1>10 DEF Sim!RecheckLocked, Sim!At, Sim!Go
  <2>2. call.sim \in Simsets /\ call.moves = 0
    BY <2>1
  <2>3. call.id \in Sim!Identities
    BY <2>1, <2>2
  <2> QED
    BY <2>1, <2>2, <2>3
<1>11. CASE Sim!Launch
  BY <1>11 DEF Sim!Launch, Sim!At, Sim!Launched, Sim!OwnLog, Sim!ReadLog
<1>12. CASE Sim!LaunchFails
  BY <1>12 DEF Sim!LaunchFails, Sim!At, Sim!Launched, Sim!OwnLog, Sim!Finish
<1>13. CASE Sim!Accept
  BY <1>13 DEF Sim!Accept, Sim!At, Sim!StillAttested, Sim!Finish, Sim!Answer
<1>14. CASE Sim!ReadResult
  BY <1>14 DEF Sim!ReadResult, Sim!At, Sim!ReadLog
<1>15. CASE Sim!CheckCurrent
  BY <1>15 DEF Sim!CheckCurrent, Sim!At, Sim!Recorded, Sim!SignoffPasses, Sim!Finish,
               Sim!Answer
<1>16. CASE Sim!EditFiles
  BY <1>16 DEF Sim!EditFiles, Sim!Held
<1>17. ASSUME NEW s \in Simsets, Sim!ConfigureSimulation(s) PROVE Pinned'
  BY <1>17 DEF Sim!ConfigureSimulation
<1>18. ASSUME NEW s \in Simsets, Sim!UserSimulates(s) PROVE Pinned'
  BY <1>18 DEF Sim!UserSimulates
<1>19. ASSUME \/ Sim!EndSession \/ Sim!StartSession
              \/ \E s \in Simsets : Sim!CleanOutputs(s)
              \/ UNCHANGED simulationVars
      PROVE  UNCHANGED <<call, files, props>>
  BY <1>19 DEF Sim!CleanOutputs, Sim!EndSession, Sim!StartSession, simulationVars
<1> QED
  BY <1>1, <1>2, <1>3, <1>4, <1>5, <1>6, <1>7, <1>8, <1>9, <1>10, <1>11, <1>12, <1>13,
     <1>14, <1>15, <1>16, <1>17, <1>18, <1>19, StepCases

LEMMA UnmovedStep ==
    ASSUME IInv, Sim!Next \/ UNCHANGED simulationVars
    PROVE  Unmoved'
<1> USE SimulationAssumption, Types
    DEF SimulationAssumption, IInv, Sim!TypeOK, Sim!Identities, Sim!Logs, Sim!Globals,
        Sim!Reads, Sim!Calls, Sim!Answers, Sim!Tools, Sim!Steps, Sim!Idle, Sim!Closure,
        Sim!Identity, Sim!Snapshot, SourceType, GlobalType, CallType, Unmoved
<1>1. CASE UNCHANGED call
  BY <1>1
<1>2. ASSUME NEW s \in Simsets, Sim!RunBehavioralSimulation(s) PROVE Unmoved'
  BY <1>2 DEF Sim!RunBehavioralSimulation, Sim!Start
<1>3. ASSUME NEW s \in Simsets, Sim!GetSimulationResult(s) PROVE Unmoved'
  BY <1>3 DEF Sim!GetSimulationResult, Sim!Start
<1>4. ASSUME NEW s \in Simsets, Sim!RunPreHwSignoff(s) PROVE Unmoved'
  BY <1>4 DEF Sim!RunPreHwSignoff, Sim!Start
<1>5. CASE Sim!Refuse
  BY <1>5 DEF Sim!Refuse, Sim!Finish
<1>6. CASE Sim!Preflight
  BY <1>6 DEF Sim!Preflight, Sim!At, Sim!Go
<1>7. CASE Sim!PolicyPreflight
  BY <1>7 DEF Sim!PolicyPreflight, Sim!At
<1>8. CASE Sim!HoldSources
  BY <1>8 DEF Sim!HoldSources, Sim!At, Sim!Empty, Sim!Go
<1>9. CASE Sim!HoldOutput
  BY <1>9 DEF Sim!HoldOutput, Sim!At, Sim!Empty, Sim!Go
<1>10. CASE Sim!RecheckLocked
  BY <1>10 DEF Sim!RecheckLocked, Sim!At, Sim!Go
<1>11. CASE Sim!Launch
  BY <1>11 DEF Sim!Launch, Sim!At, Sim!Launched, Sim!OwnLog, Sim!ReadLog
<1>12. CASE Sim!LaunchFails
  BY <1>12 DEF Sim!LaunchFails, Sim!At, Sim!Launched, Sim!OwnLog, Sim!Finish
<1>13. CASE Sim!Accept
  BY <1>13 DEF Sim!Accept, Sim!At, Sim!StillAttested, Sim!Finish, Sim!Answer
<1>14. CASE Sim!ReadResult
  BY <1>14 DEF Sim!ReadResult, Sim!At, Sim!ReadLog
<1>15. CASE Sim!CheckCurrent
  BY <1>15 DEF Sim!CheckCurrent, Sim!At, Sim!Recorded, Sim!SignoffPasses, Sim!Finish,
               Sim!Answer
<1>16. ASSUME NEW s \in Simsets, Sim!ConfigureSimulation(s) PROVE Unmoved'
  BY <1>16 DEF Sim!ConfigureSimulation
<1>17. ASSUME NEW s \in Simsets, Sim!UserSimulates(s) PROVE Unmoved'
  BY <1>17 DEF Sim!UserSimulates
<1>18. ASSUME \/ Sim!EditFiles \/ Sim!EndSession \/ Sim!StartSession
              \/ \E s \in Simsets : Sim!CleanOutputs(s)
              \/ UNCHANGED simulationVars
      PROVE  UNCHANGED call
  BY <1>18 DEF Sim!EditFiles, Sim!CleanOutputs, Sim!EndSession, Sim!StartSession, Sim!Held,
               simulationVars
<1> QED
  BY <1>1, <1>2, <1>3, <1>4, <1>5, <1>6, <1>7, <1>8, <1>9, <1>10, <1>11, <1>12, <1>13,
     <1>14, <1>15, <1>16, <1>17, <1>18, StepCases

LEMMA ClearedStep ==
    ASSUME IInv, Sim!Next \/ UNCHANGED simulationVars
    PROVE  Cleared'
<1> USE SimulationAssumption, Types
    DEF SimulationAssumption, IInv, Sim!TypeOK, Sim!Identities, Sim!Logs, Sim!Globals,
        Sim!Reads, Sim!Calls, Sim!Answers, Sim!Tools, Sim!Steps, Sim!Idle, Sim!Closure,
        Sim!Identity, Sim!Snapshot, SourceType, GlobalType, CallType, Cleared
<1>1. CASE UNCHANGED <<call, logs>>
  BY <1>1
<1>2. ASSUME NEW s \in Simsets, Sim!RunBehavioralSimulation(s) PROVE Cleared'
  BY <1>2 DEF Sim!RunBehavioralSimulation, Sim!Start
<1>3. ASSUME NEW s \in Simsets, Sim!GetSimulationResult(s) PROVE Cleared'
  BY <1>3 DEF Sim!GetSimulationResult, Sim!Start
<1>4. ASSUME NEW s \in Simsets, Sim!RunPreHwSignoff(s) PROVE Cleared'
  BY <1>4 DEF Sim!RunPreHwSignoff, Sim!Start
<1>5. CASE Sim!Refuse
  BY <1>5 DEF Sim!Refuse, Sim!Finish
<1>6. CASE Sim!Preflight
  BY <1>6 DEF Sim!Preflight, Sim!At, Sim!Go
<1>7. CASE Sim!PolicyPreflight
  BY <1>7 DEF Sim!PolicyPreflight, Sim!At
<1>8. CASE Sim!HoldSources
  BY <1>8 DEF Sim!HoldSources, Sim!At, Sim!Empty, Sim!Go
<1>9. CASE Sim!HoldOutput
  BY <1>9 DEF Sim!HoldOutput, Sim!At, Sim!Empty, Sim!Go
<1>10. CASE Sim!RecheckLocked
  BY <1>10 DEF Sim!RecheckLocked, Sim!At, Sim!Go
<1>11. CASE Sim!Launch
  BY <1>11 DEF Sim!Launch, Sim!At, Sim!Launched, Sim!OwnLog, Sim!ReadLog
<1>12. CASE Sim!LaunchFails
  BY <1>12 DEF Sim!LaunchFails, Sim!At, Sim!Launched, Sim!OwnLog, Sim!Finish
<1>13. CASE Sim!Accept
  BY <1>13 DEF Sim!Accept, Sim!At, Sim!StillAttested, Sim!Finish, Sim!Answer
<1>14. CASE Sim!ReadResult
  BY <1>14 DEF Sim!ReadResult, Sim!At, Sim!ReadLog
<1>15. CASE Sim!CheckCurrent
  BY <1>15 DEF Sim!CheckCurrent, Sim!At, Sim!Recorded, Sim!SignoffPasses, Sim!Finish,
               Sim!Answer
<1>16. ASSUME NEW s \in Simsets, Sim!ConfigureSimulation(s) PROVE Cleared'
  BY <1>16 DEF Sim!ConfigureSimulation
<1>17. ASSUME NEW s \in Simsets, Sim!UserSimulates(s) PROVE Cleared'
  BY <1>17 DEF Sim!UserSimulates
<1>18. ASSUME NEW s \in Simsets, Sim!CleanOutputs(s) PROVE Cleared'
  BY <1>18 DEF Sim!CleanOutputs
<1>19. ASSUME \/ Sim!EditFiles \/ Sim!EndSession \/ Sim!StartSession \/ UNCHANGED simulationVars
      PROVE  UNCHANGED <<call, logs>>
  BY <1>19 DEF Sim!EditFiles, Sim!EndSession, Sim!StartSession, Sim!Held, simulationVars
<1> QED
  BY <1>1, <1>2, <1>3, <1>4, <1>5, <1>6, <1>7, <1>8, <1>9, <1>10, <1>11, <1>12, <1>13,
     <1>14, <1>15, <1>16, <1>17, <1>18, <1>19, StepCases

LEMMA OwnReadStep ==
    ASSUME IInv, Sim!Next \/ UNCHANGED simulationVars
    PROVE  OwnRead'
<1> USE SimulationAssumption, Types
    DEF SimulationAssumption, IInv, Sim!TypeOK, Sim!Identities, Sim!Logs, Sim!Globals,
        Sim!Reads, Sim!Calls, Sim!Answers, Sim!Tools, Sim!Steps, Sim!Idle, Sim!Closure,
        Sim!Identity, Sim!Snapshot, SourceType, GlobalType, CallType, OwnRead, Pinned,
        Cleared
<1>1. CASE UNCHANGED call
  BY <1>1
<1>2. ASSUME NEW s \in Simsets, Sim!RunBehavioralSimulation(s) PROVE OwnRead'
  BY <1>2 DEF Sim!RunBehavioralSimulation, Sim!Start
<1>3. ASSUME NEW s \in Simsets, Sim!GetSimulationResult(s) PROVE OwnRead'
  BY <1>3 DEF Sim!GetSimulationResult, Sim!Start
<1>4. ASSUME NEW s \in Simsets, Sim!RunPreHwSignoff(s) PROVE OwnRead'
  BY <1>4 DEF Sim!RunPreHwSignoff, Sim!Start
<1>5. CASE Sim!Refuse
  BY <1>5 DEF Sim!Refuse, Sim!Finish
<1>6. CASE Sim!Preflight
  BY <1>6 DEF Sim!Preflight, Sim!At, Sim!Go
<1>7. CASE Sim!PolicyPreflight
  BY <1>7 DEF Sim!PolicyPreflight, Sim!At
<1>8. CASE Sim!HoldSources
  BY <1>8 DEF Sim!HoldSources, Sim!At, Sim!Empty, Sim!Go
<1>9. CASE Sim!HoldOutput
  BY <1>9 DEF Sim!HoldOutput, Sim!At, Sim!Empty, Sim!Go
<1>10. CASE Sim!RecheckLocked
  BY <1>10 DEF Sim!RecheckLocked, Sim!At, Sim!Go
<1>11. CASE Sim!Launch
  <2>1. call.at = "launch" /\ globals' \in Sim!Globals /\ call.sim \in Simsets
    BY <1>11, LaunchGlobals, Types DEF Sim!Launch, Sim!At
  <2>2. PICK r \in Sim!ReadLog(call.sim, globals') :
            call' = [call EXCEPT !.at = "post", !.read = r]
    BY <1>11 DEF Sim!Launch
  <2>3. /\ r \in Sim!Reads /\ r.log = logs'[call.sim] /\ r.globals = globals'
        /\ r.whole \/ globals'.mixed
    BY <2>1, <2>2, ReadsLog, LogTypeStep
  <2>4. PICK done \in BOOLEAN : logs' = [logs EXCEPT ![call.sim] = Sim!OwnLog(done)]
    BY <1>11 DEF Sim!Launch
  <2>5. logs'[call.sim] = Sim!OwnLog(done) /\ Sim!OwnLog(done) \in Sim!Logs
    BY <1>11, <2>1, <2>4, OwnLogs, Types DEF Sim!Launch, LogType
  <2>6. /\ globals'.run = spent.runs + 1
        /\ globals'.mixed = (logs[call.sim] # None)
    BY <1>11 DEF Sim!Launch, Sim!Launched
  <2>7. globals'.mixed => call.gui
    BY <2>1, <2>6
  <2>8. call.moves = 0 => Sim!OwnLog(done).of = call.id
    BY <2>1 DEF Sim!OwnLog
  <2>9. Sim!OwnLog(done).by = spent.runs + 1
    BY DEF Sim!OwnLog
  <2>10. /\ call'.at = "post" /\ call'.read = r /\ call'.moves = call.moves
         /\ call'.id = call.id /\ call'.gui = call.gui
    BY <2>2
  <2> HIDE DEF Sim!Identities, Sim!Logs, Sim!Globals, Sim!Reads, Sim!Calls
  <2> QED
    BY <2>1, <2>3, <2>5, <2>6, <2>7, <2>8, <2>9, <2>10
<1>12. CASE Sim!LaunchFails
  BY <1>12 DEF Sim!LaunchFails, Sim!At, Sim!Launched, Sim!OwnLog, Sim!Finish
<1>13. CASE Sim!Accept
  BY <1>13 DEF Sim!Accept, Sim!At, Sim!StillAttested, Sim!Finish, Sim!Answer
<1>14. CASE Sim!ReadResult
  BY <1>14 DEF Sim!ReadResult, Sim!At, Sim!ReadLog
<1>15. CASE Sim!CheckCurrent
  BY <1>15 DEF Sim!CheckCurrent, Sim!At, Sim!Recorded, Sim!SignoffPasses, Sim!Finish,
               Sim!Answer
<1>16. ASSUME NEW s \in Simsets, Sim!ConfigureSimulation(s) PROVE OwnRead'
  BY <1>16 DEF Sim!ConfigureSimulation
<1>17. ASSUME NEW s \in Simsets, Sim!UserSimulates(s) PROVE OwnRead'
  BY <1>17 DEF Sim!UserSimulates
<1>18. ASSUME \/ Sim!EditFiles \/ Sim!EndSession \/ Sim!StartSession
              \/ \E s \in Simsets : Sim!CleanOutputs(s)
              \/ UNCHANGED simulationVars
      PROVE  UNCHANGED call
  BY <1>18 DEF Sim!EditFiles, Sim!CleanOutputs, Sim!EndSession, Sim!StartSession, Sim!Held,
               simulationVars
<1> HIDE DEF OwnRead, Pinned, Cleared, IInv
<1> QED
  BY <1>1, <1>2, <1>3, <1>4, <1>5, <1>6, <1>7, <1>8, <1>9, <1>10, <1>11, <1>12, <1>13,
     <1>14, <1>15, <1>16, <1>17, <1>18, StepCases

LEMMA LastLaunchStep ==
    ASSUME IInv, Sim!Next \/ UNCHANGED simulationVars
    PROVE  LastLaunch'
<1> USE SimulationAssumption, Types
    DEF SimulationAssumption, IInv, Sim!TypeOK, Sim!Identities, Sim!Logs, Sim!Globals,
        Sim!Reads, Sim!Calls, Sim!Answers, Sim!Tools, Sim!Steps, Sim!Idle, Sim!Closure,
        Sim!Identity, Sim!Snapshot, SourceType, GlobalType, CallType, LastLaunch, LastLog,
        Pinned, Cleared
<1>1. CASE UNCHANGED <<globals, logs>>
  BY <1>1
<1>2. CASE Sim!Launch
  <2>1. call.at = "launch" /\ call.sim \in Simsets /\ call.id.sim = call.sim
    BY <1>2, LaunchGlobals, Types DEF Sim!Launch, Sim!At
  <2>2. PICK done \in BOOLEAN : logs' = [logs EXCEPT ![call.sim] = Sim!OwnLog(done)]
    BY <1>2 DEF Sim!Launch
  <2>3. logs'[call.sim] = Sim!OwnLog(done)
    BY <2>1, <2>2, Types DEF LogType
  <2>4. /\ globals'.run = spent.runs + 1 /\ globals'.id = call.id
        /\ globals'.moved = (call.moves > 0)
    BY <1>2 DEF Sim!Launch, Sim!Launched
  <2>5. Sim!OwnLog(done).by = spent.runs + 1
    BY DEF Sim!OwnLog
  <2>6. call.moves = 0 => Sim!OwnLog(done).of = call.id
    BY <2>1 DEF Sim!OwnLog
  <2>7. call.moves = 0 \/ call.moves > 0
    OBVIOUS
  <2>8. LastLog(Sim!OwnLog(done), globals')
    BY <2>4, <2>5, <2>6, <2>7
  <2>9. logs'[globals'.id.sim] = Sim!OwnLog(done)
    BY <2>1, <2>3, <2>4
  <2> QED
    BY <2>8, <2>9
<1>3. CASE Sim!LaunchFails
  BY <1>3 DEF Sim!LaunchFails, Sim!At, Sim!Launched, Sim!OwnLog, Sim!Finish
<1>4. ASSUME NEW s \in Simsets, Sim!UserSimulates(s) PROVE LastLaunch'
  BY <1>4 DEF Sim!UserSimulates
<1>5. ASSUME NEW s \in Simsets, Sim!CleanOutputs(s) PROVE LastLaunch'
  BY <1>5 DEF Sim!CleanOutputs
<1>6. CASE Sim!EndSession
  BY <1>6 DEF Sim!EndSession
<1>7. ASSUME \/ Sim!Refuse \/ Sim!Preflight \/ Sim!PolicyPreflight \/ Sim!HoldSources
             \/ Sim!HoldOutput \/ Sim!RecheckLocked \/ Sim!Accept \/ Sim!ReadResult
             \/ Sim!CheckCurrent \/ Sim!EditFiles \/ Sim!StartSession
             \/ \E s \in Simsets : Sim!RunBehavioralSimulation(s) \/ Sim!GetSimulationResult(s)
             \/ \E s \in Simsets : Sim!RunPreHwSignoff(s) \/ Sim!ConfigureSimulation(s)
             \/ UNCHANGED simulationVars
      PROVE  UNCHANGED <<globals, logs>>
  BY <1>7 DEF Sim!RunBehavioralSimulation, Sim!GetSimulationResult, Sim!RunPreHwSignoff,
              Sim!Refuse, Sim!Preflight, Sim!PolicyPreflight, Sim!HoldSources,
              Sim!HoldOutput, Sim!RecheckLocked, Sim!Accept, Sim!ReadResult,
              Sim!CheckCurrent, Sim!EditFiles, Sim!ConfigureSimulation, Sim!StartSession,
              Sim!Start, Sim!Finish, Sim!At, Sim!Go, Sim!Empty, Sim!StillAttested,
              Sim!Answer, Sim!ReadLog, Sim!Recorded, Sim!SignoffPasses, Sim!Held, simulationVars
<1> HIDE DEF LastLaunch, LastLog, Pinned, Cleared, IInv
<1> QED
  BY <1>1, <1>2, <1>3, <1>4, <1>5, <1>6, <1>7, StepCases

LEMMA HeldReadStep ==
    ASSUME IInv, Sim!Next \/ UNCHANGED simulationVars
    PROVE  HeldRead'
<1> USE SimulationAssumption, Types
    DEF SimulationAssumption, IInv, Sim!TypeOK, Sim!Identities, Sim!Logs, Sim!Globals,
        Sim!Reads, Sim!Calls, Sim!Answers, Sim!Tools, Sim!Steps, Sim!Idle, Sim!Closure,
        Sim!Identity, Sim!Snapshot, SourceType, GlobalType, CallType, HeldRead, LastLog,
        LastLaunch
<1>1. CASE UNCHANGED call
  BY <1>1
<1>2. ASSUME NEW s \in Simsets, Sim!RunBehavioralSimulation(s) PROVE HeldRead'
  BY <1>2 DEF Sim!RunBehavioralSimulation, Sim!Start
<1>3. ASSUME NEW s \in Simsets, Sim!GetSimulationResult(s) PROVE HeldRead'
  BY <1>3 DEF Sim!GetSimulationResult, Sim!Start
<1>4. ASSUME NEW s \in Simsets, Sim!RunPreHwSignoff(s) PROVE HeldRead'
  BY <1>4 DEF Sim!RunPreHwSignoff, Sim!Start
<1>5. CASE Sim!Refuse
  BY <1>5 DEF Sim!Refuse, Sim!Finish
<1>6. CASE Sim!Preflight
  BY <1>6 DEF Sim!Preflight, Sim!At, Sim!Go
<1>7. CASE Sim!PolicyPreflight
  BY <1>7 DEF Sim!PolicyPreflight, Sim!At
<1>8. CASE Sim!HoldSources
  BY <1>8 DEF Sim!HoldSources, Sim!At, Sim!Empty, Sim!Go
<1>9. CASE Sim!HoldOutput
  BY <1>9 DEF Sim!HoldOutput, Sim!At, Sim!Empty, Sim!Go
<1>10. CASE Sim!RecheckLocked
  BY <1>10 DEF Sim!RecheckLocked, Sim!At, Sim!Go
<1>11. CASE Sim!Launch
  BY <1>11 DEF Sim!Launch, Sim!At, Sim!Launched, Sim!OwnLog, Sim!ReadLog
<1>12. CASE Sim!LaunchFails
  BY <1>12 DEF Sim!LaunchFails, Sim!At, Sim!Launched, Sim!OwnLog, Sim!Finish
<1>13. CASE Sim!Accept
  BY <1>13 DEF Sim!Accept, Sim!At, Sim!StillAttested, Sim!Finish, Sim!Answer
<1>14. CASE Sim!ReadResult
  <2>1. PICK r \in Sim!ReadLog(call.sim, globals) :
            call' = [call EXCEPT !.at = "current", !.read = r]
    BY <1>14 DEF Sim!ReadResult
  <2>2. call.sim \in Simsets /\ logs' = logs
    BY <1>14 DEF Sim!ReadResult, Sim!At
  <2>3. r \in Sim!Reads /\ r.log = logs[call.sim] /\ r.globals = globals
    BY <2>1, <2>2, ReadsLog, LogTypeStep
  <2> QED
    BY <1>14, <2>1, <2>2, <2>3
<1>15. CASE Sim!CheckCurrent
  BY <1>15 DEF Sim!CheckCurrent, Sim!At, Sim!Recorded, Sim!SignoffPasses, Sim!Finish,
               Sim!Answer
<1>16. ASSUME NEW s \in Simsets, Sim!ConfigureSimulation(s) PROVE HeldRead'
  BY <1>16 DEF Sim!ConfigureSimulation
<1>17. ASSUME NEW s \in Simsets, Sim!UserSimulates(s) PROVE HeldRead'
  BY <1>17 DEF Sim!UserSimulates
<1>18. ASSUME \/ Sim!EditFiles \/ Sim!EndSession \/ Sim!StartSession
              \/ \E s \in Simsets : Sim!CleanOutputs(s)
              \/ UNCHANGED simulationVars
      PROVE  UNCHANGED call
  BY <1>18 DEF Sim!EditFiles, Sim!CleanOutputs, Sim!EndSession, Sim!StartSession, Sim!Held,
               simulationVars
<1> HIDE DEF HeldRead, LastLaunch, LastLog, IInv
<1> QED
  BY <1>1, <1>2, <1>3, <1>4, <1>5, <1>6, <1>7, <1>8, <1>9, <1>10, <1>11, <1>12, <1>13,
     <1>14, <1>15, <1>16, <1>17, <1>18, StepCases

LEMMA OnlyTrustedFilesRunStep ==
    ASSUME IInv, Sim!Next \/ UNCHANGED simulationVars
    PROVE  OnlyTrustedFilesRun'
<1> USE SimulationAssumption, Types
    DEF SimulationAssumption, IInv, Sim!TypeOK, Sim!Identities, Sim!Logs, Sim!Globals,
        Sim!Reads, Sim!Calls, Sim!Answers, Sim!Tools, Sim!Steps, Sim!Idle, Sim!Closure,
        Sim!Identity, Sim!Snapshot, SourceType, GlobalType, CallType, OnlyTrustedFilesRun,
        Pinned, Sim!OnlyTrustedFilesRun
<1>1. CASE UNCHANGED globals
  BY <1>1
<1>2. CASE Sim!Launch
  BY <1>2 DEF Sim!Launch, Sim!At, Sim!Launched, Sim!OwnLog, Sim!ReadLog
<1>3. CASE Sim!LaunchFails
  BY <1>3 DEF Sim!LaunchFails, Sim!At, Sim!Launched, Sim!OwnLog, Sim!Finish
<1>4. CASE Sim!EndSession
  BY <1>4 DEF Sim!EndSession
<1>5. ASSUME \/ Sim!Refuse \/ Sim!Preflight \/ Sim!PolicyPreflight \/ Sim!HoldSources
             \/ Sim!HoldOutput \/ Sim!RecheckLocked \/ Sim!Accept \/ Sim!ReadResult
             \/ Sim!CheckCurrent \/ Sim!EditFiles \/ Sim!StartSession
             \/ \E s \in Simsets : Sim!RunBehavioralSimulation(s) \/ Sim!GetSimulationResult(s)
             \/ \E s \in Simsets : Sim!RunPreHwSignoff(s) \/ Sim!ConfigureSimulation(s)
             \/ \E s \in Simsets : Sim!UserSimulates(s) \/ Sim!CleanOutputs(s)
             \/ UNCHANGED simulationVars
      PROVE  UNCHANGED globals
  BY <1>5 DEF Sim!RunBehavioralSimulation, Sim!GetSimulationResult, Sim!RunPreHwSignoff,
              Sim!Refuse, Sim!Preflight, Sim!PolicyPreflight, Sim!HoldSources,
              Sim!HoldOutput, Sim!RecheckLocked, Sim!Accept, Sim!ReadResult,
              Sim!CheckCurrent, Sim!EditFiles, Sim!ConfigureSimulation, Sim!UserSimulates,
              Sim!CleanOutputs, Sim!StartSession, Sim!Start, Sim!Finish, Sim!At, Sim!Go,
              Sim!Empty, Sim!StillAttested, Sim!Answer, Sim!ReadLog, Sim!Recorded,
              Sim!SignoffPasses, Sim!Held, simulationVars
<1> QED
  BY <1>1, <1>2, <1>3, <1>4, <1>5, StepCases

LEMMA AcceptedRunIsAttestedStep ==
    ASSUME IInv, Sim!Next \/ UNCHANGED simulationVars
    PROVE  AcceptedRunIsAttested'
<1> USE SimulationAssumption, Types
    DEF SimulationAssumption, IInv, Sim!TypeOK, Sim!Identities, Sim!Logs, Sim!Globals,
        Sim!Reads, Sim!Calls, Sim!Answers, Sim!Tools, Sim!Steps, Sim!Idle, Sim!Closure,
        Sim!Identity, Sim!Snapshot, SourceType, GlobalType, CallType, AcceptedRunIsAttested,
        OneTool, Pinned, OwnRead, Sim!AcceptedRunIsAttested
<1>1. CASE UNCHANGED answer
  BY <1>1
<1>2. ASSUME NEW s \in Simsets, Sim!RunBehavioralSimulation(s) PROVE AcceptedRunIsAttested'
  BY <1>2 DEF Sim!RunBehavioralSimulation, Sim!Start
<1>3. ASSUME NEW s \in Simsets, Sim!GetSimulationResult(s) PROVE AcceptedRunIsAttested'
  BY <1>3 DEF Sim!GetSimulationResult, Sim!Start
<1>4. ASSUME NEW s \in Simsets, Sim!RunPreHwSignoff(s) PROVE AcceptedRunIsAttested'
  BY <1>4 DEF Sim!RunPreHwSignoff, Sim!Start
<1>5. CASE Sim!Refuse
  BY <1>5 DEF Sim!Refuse, Sim!Finish
<1>6. CASE Sim!LaunchFails
  BY <1>6 DEF Sim!LaunchFails, Sim!At, Sim!Launched, Sim!OwnLog, Sim!Finish
<1>7. CASE Sim!Accept
  <2>1. /\ call.at = "post" /\ answer' = Sim!Answer
        /\ props[call.sim] = call.id.props
    BY <1>7 DEF Sim!Accept, Sim!Finish, Sim!At, Sim!StillAttested
  <2>2. call.moves # 1 /\ (call.moves = 0 \/ call.moves > 1)
    BY <2>1
  <2>3. /\ answer'.read = call.read /\ answer'.id = call.id
        /\ answer'.moves = call.moves /\ answer'.gui = call.gui
    BY <2>1 DEF Sim!Answer
  <2> QED
    BY <2>1, <2>2, <2>3
<1>8. CASE Sim!CheckCurrent
  <2>1. answer'.tool # "run"
    BY <1>8 DEF Sim!CheckCurrent, Sim!Finish, Sim!Answer, Sim!At
  <2> QED
    BY <2>1
<1>9. ASSUME \/ Sim!Preflight \/ Sim!PolicyPreflight \/ Sim!HoldSources \/ Sim!HoldOutput
             \/ Sim!RecheckLocked \/ Sim!Launch \/ Sim!ReadResult \/ Sim!EditFiles
             \/ Sim!EndSession \/ Sim!StartSession
             \/ \E s \in Simsets : Sim!ConfigureSimulation(s) \/ Sim!UserSimulates(s)
             \/ \E s \in Simsets : Sim!CleanOutputs(s)
             \/ UNCHANGED simulationVars
      PROVE  UNCHANGED answer
  BY <1>9 DEF Sim!Preflight, Sim!PolicyPreflight, Sim!HoldSources, Sim!HoldOutput,
              Sim!RecheckLocked, Sim!Launch, Sim!ReadResult, Sim!EditFiles,
              Sim!ConfigureSimulation, Sim!UserSimulates, Sim!CleanOutputs, Sim!EndSession,
              Sim!StartSession, Sim!At, Sim!Go, Sim!Empty, Sim!Launched, Sim!OwnLog,
              Sim!ReadLog, Sim!Held, simulationVars
<1> QED
  BY <1>1, <1>2, <1>3, <1>4, <1>5, <1>6, <1>7, <1>8, <1>9, StepCases

LEMMA ResultIsOfLastLaunchStep ==
    ASSUME IInv, Sim!Next \/ UNCHANGED simulationVars
    PROVE  ResultIsOfLastLaunch'
<1> USE SimulationAssumption, Types
    DEF SimulationAssumption, IInv, Sim!TypeOK, Sim!Identities, Sim!Logs, Sim!Globals,
        Sim!Reads, Sim!Calls, Sim!Answers, Sim!Tools, Sim!Steps, Sim!Idle, Sim!Closure,
        Sim!Identity, Sim!Snapshot, SourceType, GlobalType, CallType, ResultIsOfLastLaunch,
        OneTool, HeldRead, LastLog, Sim!ResultIsOfLastLaunch
<1>1. CASE UNCHANGED answer
  BY <1>1
<1>2. ASSUME NEW s \in Simsets, Sim!RunBehavioralSimulation(s) PROVE ResultIsOfLastLaunch'
  BY <1>2 DEF Sim!RunBehavioralSimulation, Sim!Start
<1>3. ASSUME NEW s \in Simsets, Sim!GetSimulationResult(s) PROVE ResultIsOfLastLaunch'
  BY <1>3 DEF Sim!GetSimulationResult, Sim!Start
<1>4. ASSUME NEW s \in Simsets, Sim!RunPreHwSignoff(s) PROVE ResultIsOfLastLaunch'
  BY <1>4 DEF Sim!RunPreHwSignoff, Sim!Start
<1>5. CASE Sim!Refuse
  BY <1>5 DEF Sim!Refuse, Sim!Finish
<1>6. CASE Sim!LaunchFails
  BY <1>6 DEF Sim!LaunchFails, Sim!At, Sim!Launched, Sim!OwnLog, Sim!Finish
<1>7. CASE Sim!Accept
  <2>1. answer'.tool = "run"
    BY <1>7 DEF Sim!Accept, Sim!Finish, Sim!Answer, Sim!At
  <2> QED
    BY <2>1
<1>8. CASE Sim!CheckCurrent
  <2>1. /\ call.at = "current" /\ call.sim \in Simsets
        /\ answer' = [Sim!Answer EXCEPT !.id = Sim!Identity(call.sim)]
        /\ call.read.globals # None /\ call.read.globals.id = Sim!Identity(call.sim)
        /\ call.tool = "signoff" => call.read.log # None /\ call.read.log.done
    BY <1>8 DEF Sim!CheckCurrent, Sim!Finish, Sim!At, Sim!Recorded, Sim!SignoffPasses
  <2>2. /\ answer'.read = call.read /\ answer'.id = Sim!Identity(call.sim)
        /\ answer'.tool = call.tool
    BY <2>1 DEF Sim!Answer
  <2>3. LastLog(call.read.log, call.read.globals)
    BY <2>1
  <2> HIDE DEF Sim!Identity, HeldRead
  <2> QED
    BY <2>1, <2>2, <2>3
<1>9. ASSUME \/ Sim!Preflight \/ Sim!PolicyPreflight \/ Sim!HoldSources \/ Sim!HoldOutput
             \/ Sim!RecheckLocked \/ Sim!Launch \/ Sim!ReadResult \/ Sim!EditFiles
             \/ Sim!EndSession \/ Sim!StartSession
             \/ \E s \in Simsets : Sim!ConfigureSimulation(s) \/ Sim!UserSimulates(s)
             \/ \E s \in Simsets : Sim!CleanOutputs(s)
             \/ UNCHANGED simulationVars
      PROVE  UNCHANGED answer
  BY <1>9 DEF Sim!Preflight, Sim!PolicyPreflight, Sim!HoldSources, Sim!HoldOutput,
              Sim!RecheckLocked, Sim!Launch, Sim!ReadResult, Sim!EditFiles,
              Sim!ConfigureSimulation, Sim!UserSimulates, Sim!CleanOutputs, Sim!EndSession,
              Sim!StartSession, Sim!At, Sim!Go, Sim!Empty, Sim!Launched, Sim!OwnLog,
              Sim!ReadLog, Sim!Held, simulationVars
<1> QED
  BY <1>1, <1>2, <1>3, <1>4, <1>5, <1>6, <1>7, <1>8, <1>9, StepCases

(***************************************************************************)
(* The invariant, and what follows from it                                 *)
(***************************************************************************)

LEMMA InvInit == Sim!Init => IInv
<1> SUFFICES ASSUME Sim!Init PROVE IInv
  OBVIOUS
<1> USE SimulationAssumption DEF SimulationAssumption, Sim!Init, Sim!Idle
<1>1. Sim!TypeOK
  <2>1. SourceType /\ GlobalType /\ LogType /\ AnswerType
    BY DEF SourceType, GlobalType, LogType, AnswerType
  <2>2. CallType
    BY DEF CallType, Sim!Calls, Sim!Tools, Sim!Steps
  <2> QED
    BY <2>1, <2>2, Types
<1> QED
  BY <1>1 DEF IInv, OneTool, Pinned, Unmoved, Cleared, OwnRead, LastLaunch, HeldRead,
      OnlyTrustedFilesRun, Sim!OnlyTrustedFilesRun, AcceptedRunIsAttested,
      Sim!AcceptedRunIsAttested, ResultIsOfLastLaunch, Sim!ResultIsOfLastLaunch

LEMMA InvStep == IInv /\ [Sim!Next]_(Sim!vars) => IInv'
<1> SUFFICES ASSUME IInv, Sim!Next \/ UNCHANGED simulationVars PROVE IInv'
  BY DEF Sim!vars, simulationVars
<1>1. Sim!TypeOK'
  BY SourceTypeStep, GlobalTypeStep, LogTypeStep, CallTypeStep, AnswerTypeStep
  DEF Sim!TypeOK, SourceType, GlobalType, LogType, CallType, AnswerType
<1> QED
  BY <1>1, OneToolStep, PinnedStep, UnmovedStep, ClearedStep, OwnReadStep, LastLaunchStep,
     HeldReadStep, OnlyTrustedFilesRunStep, AcceptedRunIsAttestedStep,
     ResultIsOfLastLaunchStep DEF IInv

\* The tools together do what the gate allows and what the simulation tools allow: a
\* step is one of one of them, and the other one stutters.
THEOREM ToolsKeepBoth == ToolsSpec => Spec /\ Sim!Spec
<1>1. ToolsInit => Init /\ Sim!Init
  BY DEF ToolsInit
<1>2. [ToolsNext]_<<vars, simulationVars, inUse>> => [Next]_vars /\ [Sim!Next]_(Sim!vars)
  BY DEF ToolsNext, simulationVars, Sim!vars
<1> QED
  BY <1>1, <1>2, PTL DEF ToolsSpec, Spec, Sim!Spec

\* The parts of the invariant hold in every state.
THEOREM SimulationInvariant == ToolsSpec => []IInv
<1>1. Sim!Spec => []IInv
  BY InvInit, InvStep, PTL DEF Sim!Spec
<1> QED
  BY <1>1, ToolsKeepBoth, PTL

\* The variables keep their types: a log lies in the directory of its own simset, and
\* the globals die with the session.
THEOREM SimulationTyped == ToolsSpec => []Sim!TypeOK
<1>1. IInv => Sim!TypeOK
  BY DEF IInv
<1> QED
  BY <1>1, SimulationInvariant, PTL

\* XSIM only ever runs the files that were attested and trusted, whatever was edited,
\* cancelled or launched before and whether or not the run is accepted.
THEOREM OnlyTrustedFilesRunHolds == ToolsSpec => []OnlyTrustedFilesRun
<1>1. IInv => OnlyTrustedFilesRun
  BY DEF IInv
<1> QED
  BY <1>1, SimulationInvariant, PTL

\* A run that is reported completed was judged by its own log, and simulated what was
\* attested, unless the properties were changed twice meanwhile.
THEOREM AcceptedRunIsAttestedHolds == ToolsSpec => []AcceptedRunIsAttested
<1>1. IInv => AcceptedRunIsAttested
  BY DEF IInv
<1> QED
  BY <1>1, SimulationInvariant, PTL

\* A later result or signoff never rests on the log of an earlier launch.
THEOREM ResultIsOfLastLaunchHolds == ToolsSpec => []ResultIsOfLastLaunch
<1>1. IInv => ResultIsOfLastLaunch
  BY DEF IInv
<1> QED
  BY <1>1, SimulationInvariant, PTL
=============================================================================
