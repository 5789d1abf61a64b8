------------------------- MODULE ProjectGateProofs -------------------------
(***************************************************************************)
(* Proofs about the project gate, for any project paths and any number of  *)
(* sessions, interventions of the user and cancelled tools.                *)
(***************************************************************************)
EXTENDS PolicyGate, WellFoundedInduction, TLAPS

(***************************************************************************)
(* The inductive invariant                                                 *)
(***************************************************************************)

\* Capabilities are captured from projects that create_project made.
MadeByMcp(c) == c # None => c.obj = "made"
Captured == MadeByMcp(active) /\ MadeByMcp(held) /\ \A p \in Paths : MadeByMcp(caps[p])

\* An open project is on disk, and where the created one still lies it is that one:
\* nothing puts it back once it was replaced.
Genuine == current # None =>
    /\ disk[current.path] # "absent"
    /\ disk[current.path] = "made" => current.obj = "made"

\* The current project, if it lies at p, is one a guarded tool may change.
OursAt(p) == current # None /\ current.path = p => Ours(current)

\* create_project works where there was nothing before.
Creating ==
    /\ pc = "create" => disk[target] = "absent"
    /\ pc \in {"bind", "register"} =>
           disk[target] = "made" /\ OursAt(target) /\ target \notin settled
    /\ pc = "register" => held # None /\ held.path = target /\ held.gen = gen

\* open_project holds the capability of its path, verified, or none.
Opening == pc \in {"open", "guard", "grant"} /\ held # None =>
    /\ held.path = target /\ held.gen = gen /\ disk[target] = "made"
    /\ pc # "open" => OursAt(target) /\ target \notin settled

\* A guarded tool holds a capability that was verified when it was let in.
Working == pc \in GuardedSteps =>
    /\ held # None /\ disk[held.path] = "made"
    /\ OursAt(held.path) /\ held.path \notin settled

\* The created scope is given up before a session or a project is opened, and rests
\* on a capability of this generation, whose project is not open for reading only.
Trusted == scope = "mcp_created_project" =>
    /\ pc \notin {"create", "bind", "register", "open", "guard", "grant", "start"}
    /\ active # None /\ active.gen = gen /\ active.path \notin settled
    /\ current # None /\ current.path = active.path => ~current.readOnly

\* What was closed lies there as it was.
Settled == \A p \in settled : disk[p] = "made" /\ p \notin drift

IInv == /\ TypeOK /\ Captured /\ Genuine /\ Creating /\ Opening /\ Working /\ Trusted
        /\ Settled /\ OnlyRepairStrays /\ ForeignIsReadOnly

(***************************************************************************)
(* Types                                                                   *)
(***************************************************************************)

LEMMA StepCases ==
    ASSUME [Next]_vars
    PROVE  \/ Gate \/ MutateRun \/ MutateMismatch \/ MutateRaises
           \/ WriteXdc \/ RepairRefused \/ TrustedInputs
           \/ CreateRun \/ Bind \/ Register \/ OpenRun \/ OpenGuard \/ OpenGrant
           \/ CloseBegin \/ StopBegin \/ CloseRun \/ CloseDone
           \/ StopRun \/ StartBegin \/ StartRun
           \/ CancelBegin \/ CancelStop \/ CancelClear \/ ProcessExits
           \/ \E p \in Paths : \/ Reconcile(p) \/ CreateBegin(p) \/ OpenBegin(p)
                              \/ UserSwitches(p) \/ UserEdits(p) \/ UserReplaces(p)
           \/ UNCHANGED vars
  BY DEF Next, Guarded, Repair, Create, Open, Close, Session, Cancel, World

\* What is opened is a project.
LEMMA AProject ==
    ASSUME NEW p \in Paths, NEW o \in {"foreign", "made"}, NEW r \in BOOLEAN,
           NEW b \in {"mcp", "repair", "user"}
    PROVE  [path |-> p, obj |-> o, readOnly |-> r, by |-> b] \in Projects
  BY DEF Projects, Objects

LEMMA Present ==
    ASSUME TypeOK, NEW p \in Paths, disk[p] # "absent"
    PROVE  disk[p] \in {"foreign", "made"}
  BY DEF TypeOK, DiskType, Objects

\* What repair_project_setup works on is a project.
LEMMA RepairsAProject ==
    ASSUME TypeOK, NEW p \in Paths, current # None, RepairTarget(p).obj # "absent"
    PROVE  RepairTarget(p) \in Projects /\ RepairTarget(p) # None
<1>1. CASE p = current.path
  BY <1>1 DEF RepairTarget, TypeOK, VivadoType
<1>2. CASE p # current.path
  <2>1. RepairTarget(p) = [path |-> p, obj |-> disk[p], readOnly |-> FALSE, by |-> "repair"]
    BY <1>2 DEF RepairTarget
  <2>2. disk[p] # "absent"
    BY <2>1
  <2> QED
    BY <2>1, <2>2, Present, AProject, NoneAssumption
<1> QED
  BY <1>1, <1>2

LEMMA ServiceTypeStep ==
    ASSUME IInv, [Next]_vars
    PROVE  ServiceType'
<1> USE GateAssumption, NoneAssumption
    DEF IInv, TypeOK, ServiceType, ThreadType, VivadoType, Creating, Capabilities, Projects,
        Objects, serviceVars, threadVars, vivadoVars, diskVars, history, bounds,
        GateAssumption, Go
<1>1. CASE UNCHANGED <<scope, caps, active>>
  BY <1>1
<1>2. CASE Gate
  BY <1>2 DEF Gate, Idle, Verified, SameObject
<1>3. CASE MutateMismatch
  BY <1>3 DEF MutateMismatch, GuardedSteps
<1>4. ASSUME NEW p \in Paths, CreateBegin(p) PROVE ServiceType'
  BY <1>4 DEF CreateBegin, Idle
<1>5. CASE Bind
  BY <1>5 DEF Bind
<1>6. CASE Register
  BY <1>6 DEF Register
<1>7. ASSUME NEW p \in Paths, OpenBegin(p) PROVE ServiceType'
  BY <1>7 DEF OpenBegin, Idle, SameObject
<1>8. CASE OpenRun
  BY <1>8 DEF OpenRun, Fails, RaisesOSError, RaisesOther, Lost, Quiet
<1>9. CASE OpenGuard
  BY <1>9 DEF OpenGuard, Quiet, HookGuardRefuses, Lost, RaisesOSError, RaisesOther
<1>10. CASE OpenGrant
  BY <1>10 DEF OpenGrant
<1>11. CASE CloseBegin
  BY <1>11 DEF CloseBegin, Idle, Verified, SameObject
<1>12. CASE StopBegin
  BY <1>12 DEF StopBegin, Idle, Verified, SameObject, Checkpoint
<1>13. CASE CloseRun
  BY <1>13 DEF CloseRun, IsCurrent, CloseMismatch, Quiet, Closed, Fails, CloseFails,
               RaisesOSError, CloseGuardFails, RaisesOther, Lost, Checkpoint
<1>14. CASE CloseDone
  BY <1>14 DEF CloseDone, SameObject, Closed, CloseGuardFails, Checkpoint
<1>15. CASE StopRun
  BY <1>15 DEF StopRun
<1>16. CASE StartBegin
  BY <1>16 DEF StartBegin, Idle
<1>17. CASE CancelClear
  BY <1>17 DEF CancelClear
<1>18. ASSUME \/ MutateRun \/ MutateRaises \/ WriteXdc \/ RepairRefused \/ TrustedInputs
              \/ CreateRun \/ StartRun \/ CancelBegin \/ CancelStop \/ ProcessExits
              \/ \E p \in Paths : Reconcile(p) \/ UserSwitches(p) \/ UserEdits(p)
              \/ \E p \in Paths : UserReplaces(p) \/ UNCHANGED vars
      PROVE  UNCHANGED <<scope, caps, active>>
  BY <1>18 DEF MutateRun, MutateRaises, WriteXdc, RepairRefused, TrustedInputs, Reconcile,
               CreateRun, StartRun, CancelBegin, CancelStop, ProcessExits, UserSwitches,
               UserEdits, UserReplaces, Touches, IsCurrent, Quiet, Lost, GuardedSteps,
               Fails, RaisesOSError, RaisesOther, RepairTarget, HookGuardRefuses, Intervene,
               vars
<1> QED
  BY <1>1, <1>2, <1>3, <1>4, <1>5, <1>6, <1>7, <1>8, <1>9, <1>10, <1>11, <1>12, <1>13,
     <1>14, <1>15, <1>16, <1>17, <1>18, StepCases

LEMMA ThreadTypeStep ==
    ASSUME IInv, [Next]_vars
    PROVE  ThreadType'
<1> USE GateAssumption, NoneAssumption
    DEF IInv, TypeOK, ServiceType, ThreadType, VivadoType, DiskType, Capabilities, Projects,
        Objects, serviceVars, threadVars, vivadoVars, diskVars, history, bounds,
        GateAssumption, Go
<1>1. CASE UNCHANGED <<pc, op, target, held, canceller>>
  BY <1>1
<1>2. CASE Gate
  BY <1>2 DEF Gate, Idle, Verified, SameObject
<1>3. CASE MutateRun
  BY <1>3 DEF MutateRun, Touches, IsCurrent, Quiet, Lost
<1>4. CASE MutateMismatch
  BY <1>4 DEF MutateMismatch, GuardedSteps
<1>5. CASE MutateRaises
  BY <1>5 DEF MutateRaises, GuardedSteps, Fails, RaisesOSError, RaisesOther, Lost, Quiet
<1>6. CASE WriteXdc
  BY <1>6 DEF WriteXdc, IsCurrent, Quiet
<1>7. CASE RepairRefused
  BY <1>7 DEF RepairRefused
<1>8. CASE TrustedInputs
  BY <1>8 DEF TrustedInputs, Quiet
<1>9. ASSUME NEW p \in Paths, Reconcile(p) PROVE ThreadType'
  BY <1>9 DEF Reconcile, RepairTarget, IsCurrent, Touches, Lost, HookGuardRefuses
<1>10. ASSUME NEW p \in Paths, CreateBegin(p) PROVE ThreadType'
  BY <1>10 DEF CreateBegin, Idle
<1>11. CASE CreateRun
  BY <1>11 DEF CreateRun, Lost, Fails, RaisesOSError, RaisesOther, Quiet
<1>12. CASE Bind
  <2>1. disk[target] \in Objects \ {"absent"} /\ target \in Paths /\ gen \in 0..MaxGen
    BY <1>12 DEF Bind, Creating
  <2>2. [path |-> target, gen |-> gen, obj |-> disk[target]] \in Capabilities
    BY <2>1
  <2> QED
    BY <1>12, <2>2 DEF Bind
<1>13. CASE Register
  BY <1>13 DEF Register
<1>14. ASSUME NEW p \in Paths, OpenBegin(p) PROVE ThreadType'
  BY <1>14 DEF OpenBegin, Idle, SameObject
<1>15. CASE OpenRun
  BY <1>15 DEF OpenRun, Fails, RaisesOSError, RaisesOther, Lost, Quiet
<1>16. CASE OpenGuard
  BY <1>16 DEF OpenGuard, Quiet, HookGuardRefuses, Lost, RaisesOSError, RaisesOther
<1>17. CASE OpenGrant
  BY <1>17 DEF OpenGrant
<1>18. CASE CloseBegin
  BY <1>18 DEF CloseBegin, Idle, Verified, SameObject
<1>19. CASE StopBegin
  BY <1>19 DEF StopBegin, Idle, Verified, SameObject, Checkpoint
<1>20. CASE CloseRun
  BY <1>20 DEF CloseRun, IsCurrent, CloseMismatch, Quiet, Closed, Fails, CloseFails,
               RaisesOSError, CloseGuardFails, RaisesOther, Lost, Checkpoint
<1>21. CASE CloseDone
  BY <1>21 DEF CloseDone, SameObject, Closed, CloseGuardFails, Checkpoint
<1>22. CASE StopRun
  BY <1>22 DEF StopRun
<1>23. CASE StartBegin
  BY <1>23 DEF StartBegin, Idle
<1>24. CASE StartRun
  BY <1>24 DEF StartRun, Quiet
<1>25. CASE CancelBegin
  BY <1>25 DEF CancelBegin
<1>26. CASE CancelStop
  BY <1>26 DEF CancelStop
<1>27. CASE CancelClear
  BY <1>27 DEF CancelClear
<1>28. ASSUME \/ ProcessExits
              \/ \E p \in Paths : UserSwitches(p) \/ UserEdits(p) \/ UserReplaces(p)
              \/ UNCHANGED vars
      PROVE  UNCHANGED <<pc, op, target, held, canceller>>
  BY <1>28 DEF ProcessExits, UserSwitches, UserEdits, UserReplaces, Intervene, vars
<1> QED
  BY <1>1, <1>2, <1>3, <1>4, <1>5, <1>6, <1>7, <1>8, <1>9, <1>10, <1>11, <1>12, <1>13,
     <1>14, <1>15, <1>16, <1>17, <1>18, <1>19, <1>20, <1>21, <1>22, <1>23, <1>24, <1>25,
     <1>26, <1>27, <1>28, StepCases

LEMMA VivadoTypeStep ==
    ASSUME IInv, [Next]_vars
    PROVE  VivadoType'
<1> USE GateAssumption, NoneAssumption
    DEF IInv, TypeOK, VivadoType, ThreadType, DiskType, Capabilities, Projects, Objects,
        serviceVars, threadVars, vivadoVars, diskVars, history, bounds, GateAssumption, Go
<1>1. CASE UNCHANGED <<gen, sess, current>>
  BY <1>1
<1>2. CASE MutateRun
  BY <1>2 DEF MutateRun, Touches, IsCurrent, Quiet, Lost
<1>3. CASE MutateRaises
  BY <1>3 DEF MutateRaises, GuardedSteps, Fails, RaisesOSError, RaisesOther, Lost, Quiet
<1>4. ASSUME NEW p \in Paths, Reconcile(p) PROVE VivadoType'
  <2> DEFINE q == RepairTarget(p)
  <2>1. q \in Projects
    BY <1>4, RepairsAProject DEF Reconcile, IsCurrent
  <2>2. sess = "live" /\ current' \in {q, None}
        /\ (UNCHANGED <<gen, sess>> \/ (sess' = "tainted" /\ current' = None /\ gen' = gen))
    BY <1>4 DEF Reconcile, HookGuardRefuses, Lost
  <2> HIDE DEF q
  <2> QED
    BY <2>1, <2>2
<1>5. CASE CreateRun
  <2>1. [path |-> target, obj |-> "made", readOnly |-> FALSE, by |-> "mcp"] \in Projects
    BY AProject
  <2>2. gen' = gen
    BY <1>5 DEF CreateRun, Lost, Fails, RaisesOSError, RaisesOther, Quiet
  <2>3. \/ /\ sess = "live" /\ sess' = sess
           /\ current' = [path |-> target, obj |-> "made", readOnly |-> FALSE, by |-> "mcp"]
        \/ sess' = "tainted" /\ current' = None
        \/ sess' = sess /\ current' = current
    BY <1>5 DEF CreateRun, Lost, Fails, RaisesOSError, RaisesOther, Quiet
  <2> QED
    BY <2>1, <2>2, <2>3
<1>6. CASE OpenRun
  <2> DEFINE q == [path |-> target, obj |-> disk[target], readOnly |-> held = None,
                   by |-> "mcp"]
  <2>1. CASE disk[target] # "absent" /\ sess = "live" /\ sess' = sess /\ gen' = gen
             /\ current' = q
    <3>1. (held = None) \in BOOLEAN
      OBVIOUS
    <3>2. q \in Projects
      BY <2>1, <3>1, Present, AProject
    <3> QED
      BY <2>1, <3>2
  <2>2. CASE Lost \/ Quiet
    BY <2>2 DEF Lost, Quiet
  <2> QED
    BY <1>6, <2>1, <2>2 DEF OpenRun, Fails, RaisesOSError, RaisesOther
<1>7. CASE OpenGuard
  BY <1>7 DEF OpenGuard, Quiet, HookGuardRefuses, Lost, RaisesOSError, RaisesOther
<1>8. CASE CloseRun
  BY <1>8 DEF CloseRun, IsCurrent, CloseMismatch, Quiet, Closed, Fails, CloseFails,
              RaisesOSError, CloseGuardFails, RaisesOther, Lost, Checkpoint
<1>9. CASE StopRun
  BY <1>9 DEF StopRun
<1>10. CASE StartRun
  BY <1>10 DEF StartRun, Quiet
<1>11. CASE CancelStop
  BY <1>11 DEF CancelStop
<1>12. CASE ProcessExits
  BY <1>12 DEF ProcessExits
<1>13. ASSUME NEW p \in Paths, UserSwitches(p) PROVE VivadoType'
  <2>1. disk[p] # "absent" =>
           [path |-> p, obj |-> disk[p], readOnly |-> FALSE, by |-> "user"] \in Projects
    BY Present, AProject
  <2> QED
    BY <1>13, <2>1 DEF UserSwitches
<1>14. ASSUME \/ Gate \/ MutateMismatch \/ WriteXdc \/ RepairRefused \/ TrustedInputs
              \/ Bind \/ Register \/ OpenGrant \/ CloseBegin \/ StopBegin \/ CloseDone
              \/ StartBegin \/ CancelBegin \/ CancelClear
              \/ \E p \in Paths : CreateBegin(p) \/ OpenBegin(p) \/ UserEdits(p)
              \/ \E p \in Paths : UserReplaces(p) \/ UNCHANGED vars
      PROVE  UNCHANGED <<gen, sess, current>>
  BY <1>14 DEF Gate, MutateMismatch, WriteXdc, RepairRefused, TrustedInputs, CreateBegin,
               Bind, Register, OpenBegin, OpenGrant, CloseBegin, StopBegin, CloseDone,
               StartBegin, CancelBegin, CancelClear, UserEdits, UserReplaces, Idle,
               Verified, SameObject, GuardedSteps, IsCurrent, Quiet, Checkpoint, Closed,
               CloseGuardFails, Intervene, vars
<1> QED
  BY <1>1, <1>2, <1>3, <1>4, <1>5, <1>6, <1>7, <1>8, <1>9, <1>10, <1>11, <1>12, <1>13,
     <1>14, StepCases

LEMMA DiskTypeStep ==
    ASSUME IInv, [Next]_vars
    PROVE  DiskType'
<1> USE GateAssumption, NoneAssumption
    DEF IInv, TypeOK, ThreadType, VivadoType, DiskType, Capabilities, Projects, Objects,
        serviceVars, threadVars, vivadoVars, diskVars, history, bounds, GateAssumption, Go
<1>1. CASE UNCHANGED <<disk, drift, touched, settled, outside, cancels>>
  BY <1>1
<1>2. CASE MutateRun
  BY <1>2 DEF MutateRun, Touches, IsCurrent, Quiet, Lost
<1>3. CASE WriteXdc
  <2> DEFINE q == [current EXCEPT !.obj = disk[held.path]]
  <2>1. current \in Projects /\ disk[held.path] = "made"
    BY <1>3 DEF WriteXdc, IsCurrent, Working, GuardedSteps
  <2>2. q \in Projects
    BY <2>1
  <2>3. touched' \in {touched, touched \cup {q}}
    BY <1>3 DEF WriteXdc
  <2> HIDE DEF q
  <2> QED
    BY <1>3, <2>2, <2>3 DEF WriteXdc
<1>4. ASSUME NEW p \in Paths, Reconcile(p) PROVE DiskType'
  <2> DEFINE q == RepairTarget(p)
  <2>1. q \in Projects /\ q.path \in Paths
    BY <1>4, RepairsAProject DEF Reconcile, IsCurrent
  <2>2. /\ disk' = disk /\ outside' = outside /\ cancels' = cancels
        /\ settled' = settled \ {p}
        /\ \/ touched' = touched \cup {q} /\ drift' = drift \cup {q.path}
           \/ touched' = touched /\ drift' = drift
    BY <1>4 DEF Reconcile, Touches
  <2> HIDE DEF q
  <2> QED
    BY <2>1, <2>2
<1>5. CASE CreateRun
  BY <1>5 DEF CreateRun, Lost, Fails, RaisesOSError, RaisesOther, Quiet
<1>6. CASE Register
  BY <1>6 DEF Register
<1>7. CASE OpenRun
  BY <1>7 DEF OpenRun, Fails, RaisesOSError, RaisesOther, Lost, Quiet
<1>8. CASE CloseDone
  BY <1>8 DEF CloseDone, SameObject, Closed, CloseGuardFails, Checkpoint
<1>9. CASE CancelBegin
  BY <1>9 DEF CancelBegin
<1>10. ASSUME NEW p \in Paths, UserSwitches(p) PROVE DiskType'
  BY <1>10 DEF UserSwitches, Intervene
<1>11. ASSUME NEW p \in Paths, UserEdits(p) PROVE DiskType'
  BY <1>11 DEF UserEdits, Intervene
<1>12. ASSUME NEW p \in Paths, UserReplaces(p) PROVE DiskType'
  BY <1>12 DEF UserReplaces, Intervene
<1>13. ASSUME \/ Gate \/ MutateMismatch \/ MutateRaises \/ RepairRefused \/ TrustedInputs
              \/ Bind \/ OpenGuard \/ OpenGrant \/ CloseBegin \/ StopBegin \/ CloseRun
              \/ StopRun \/ StartBegin \/ StartRun \/ CancelStop \/ CancelClear
              \/ ProcessExits \/ \E p \in Paths : CreateBegin(p) \/ OpenBegin(p)
              \/ UNCHANGED vars
      PROVE  UNCHANGED <<disk, drift, touched, settled, outside, cancels>>
  BY <1>13 DEF Gate, MutateMismatch, MutateRaises, RepairRefused, TrustedInputs,
               CreateBegin, Bind, OpenBegin, OpenGuard, OpenGrant, CloseBegin, StopBegin,
               CloseRun, StopRun, StartBegin, StartRun, CancelStop, CancelClear,
               ProcessExits, Idle, Verified, SameObject, GuardedSteps, Fails, RaisesOSError,
               RaisesOther, Lost, Quiet, HookGuardRefuses, Checkpoint, IsCurrent,
               CloseMismatch, Closed, CloseFails, CloseGuardFails, vars
<1> QED
  BY <1>1, <1>2, <1>3, <1>4, <1>5, <1>6, <1>7, <1>8, <1>9, <1>10, <1>11, <1>12, <1>13,
     StepCases

LEMMA TypeStep ==
    ASSUME IInv, [Next]_vars
    PROVE  TypeOK'
  BY ServiceTypeStep, ThreadTypeStep, VivadoTypeStep, DiskTypeStep DEF TypeOK

LEMMA CapturedStep ==
    ASSUME IInv, [Next]_vars
    PROVE  Captured'
<1> USE GateAssumption, NoneAssumption
    DEF IInv, TypeOK, ServiceType, ThreadType, VivadoType, DiskType, Capabilities, Projects,
        Objects, serviceVars, threadVars, vivadoVars, diskVars, history, bounds, Go,
        Captured, MadeByMcp, Creating
<1>1. CASE UNCHANGED <<caps, active, held>>
  BY <1>1
<1>2. CASE Gate
  BY <1>2 DEF Gate, Idle, Verified, SameObject
<1>3. CASE MutateMismatch
  BY <1>3 DEF MutateMismatch, GuardedSteps
<1>4. CASE Bind
  BY <1>4 DEF Bind
<1>5. CASE Register
  BY <1>5 DEF Register
<1>6. ASSUME NEW p \in Paths, OpenBegin(p) PROVE Captured'
  BY <1>6 DEF OpenBegin, Idle, SameObject
<1>7. CASE OpenGrant
  BY <1>7 DEF OpenGrant
<1>8. CASE CloseBegin
  BY <1>8 DEF CloseBegin, Idle, Verified, SameObject
<1>9. CASE StopBegin
  BY <1>9 DEF StopBegin, Idle, Verified, SameObject, Checkpoint
<1>10. CASE CloseRun
  BY <1>10 DEF CloseRun, IsCurrent, CloseMismatch, Quiet, Closed, Fails, CloseFails,
               RaisesOSError, CloseGuardFails, RaisesOther, Lost, Checkpoint
<1>11. CASE CloseDone
  BY <1>11 DEF CloseDone, SameObject, Closed, CloseGuardFails, Checkpoint
<1>12. CASE StopRun
  BY <1>12 DEF StopRun
<1>13. CASE StartBegin
  BY <1>13 DEF StartBegin, Idle
<1>14. CASE CancelClear
  BY <1>14 DEF CancelClear
<1>15. ASSUME \/ MutateRun \/ MutateRaises \/ WriteXdc \/ RepairRefused \/ TrustedInputs
              \/ CreateRun \/ OpenRun \/ OpenGuard \/ StartRun \/ CancelBegin \/ CancelStop
              \/ ProcessExits
              \/ \E p \in Paths : Reconcile(p) \/ CreateBegin(p) \/ UserSwitches(p)
              \/ \E p \in Paths : UserEdits(p) \/ UserReplaces(p) \/ UNCHANGED vars
      PROVE  UNCHANGED <<caps, active, held>>
  BY <1>15 DEF MutateRun, MutateRaises, WriteXdc, RepairRefused, TrustedInputs, Reconcile,
               CreateBegin, CreateRun, OpenRun, OpenGuard, StartRun, CancelBegin,
               CancelStop, ProcessExits, UserSwitches, UserEdits, UserReplaces, Touches,
               IsCurrent, Quiet, Lost, GuardedSteps, Fails, RaisesOSError, RaisesOther,
               RepairTarget, HookGuardRefuses, Idle, Intervene, vars
<1> QED
  BY <1>1, <1>2, <1>3, <1>4, <1>5, <1>6, <1>7, <1>8, <1>9, <1>10, <1>11, <1>12, <1>13,
     <1>14, <1>15, StepCases

LEMMA GenuineStep ==
    ASSUME IInv, [Next]_vars
    PROVE  Genuine'
<1> USE GateAssumption, NoneAssumption
    DEF IInv, TypeOK, ServiceType, ThreadType, VivadoType, DiskType, Capabilities, Projects,
        Objects, serviceVars, threadVars, vivadoVars, diskVars, history, bounds, Go,
        Genuine, Creating
<1>1. CASE UNCHANGED <<current, disk>>
  BY <1>1
<1>2. CASE MutateRun
  BY <1>2 DEF MutateRun, Touches, IsCurrent, Quiet, Lost
<1>3. CASE MutateRaises
  BY <1>3 DEF MutateRaises, GuardedSteps, Fails, RaisesOSError, RaisesOther, Lost, Quiet
<1>4. ASSUME NEW p \in Paths, Reconcile(p) PROVE Genuine'
  BY <1>4 DEF Reconcile, RepairTarget, IsCurrent, Touches, Lost, HookGuardRefuses
<1>5. CASE CreateRun
  BY <1>5 DEF CreateRun, Lost, Fails, RaisesOSError, RaisesOther, Quiet
<1>6. CASE OpenRun
  BY <1>6 DEF OpenRun, Fails, RaisesOSError, RaisesOther, Lost, Quiet
<1>7. CASE OpenGuard
  BY <1>7 DEF OpenGuard, Quiet, HookGuardRefuses, Lost, RaisesOSError, RaisesOther
<1>8. CASE CloseRun
  BY <1>8 DEF CloseRun, IsCurrent, CloseMismatch, Quiet, Closed, Fails, CloseFails,
              RaisesOSError, CloseGuardFails, RaisesOther, Lost, Checkpoint
<1>9. CASE StopRun
  BY <1>9 DEF StopRun
<1>10. CASE StartRun
  BY <1>10 DEF StartRun, Quiet
<1>11. CASE CancelStop
  BY <1>11 DEF CancelStop
<1>12. CASE ProcessExits
  BY <1>12 DEF ProcessExits
<1>13. ASSUME NEW p \in Paths, UserSwitches(p) PROVE Genuine'
  BY <1>13 DEF UserSwitches, Intervene
<1>14. ASSUME NEW p \in Paths, UserReplaces(p) PROVE Genuine'
  BY <1>14 DEF UserReplaces, Intervene
<1>15. ASSUME \/ Gate \/ MutateMismatch \/ WriteXdc \/ RepairRefused \/ TrustedInputs
              \/ Bind \/ Register \/ OpenGrant \/ CloseBegin \/ StopBegin \/ CloseDone
              \/ StartBegin \/ CancelBegin \/ CancelClear
              \/ \E p \in Paths : CreateBegin(p) \/ OpenBegin(p) \/ UserEdits(p)
              \/ UNCHANGED vars
      PROVE  UNCHANGED <<current, disk>>
  BY <1>15 DEF Gate, MutateMismatch, WriteXdc, RepairRefused, TrustedInputs, CreateBegin,
               Bind, Register, OpenBegin, OpenGrant, CloseBegin, StopBegin, CloseDone,
               StartBegin, CancelBegin, CancelClear, UserEdits, Idle, Verified, SameObject,
               GuardedSteps, IsCurrent, Quiet, Checkpoint, Closed, CloseGuardFails,
               Intervene, vars
<1> QED
  BY <1>1, <1>2, <1>3, <1>4, <1>5, <1>6, <1>7, <1>8, <1>9, <1>10, <1>11, <1>12, <1>13,
     <1>14, <1>15, StepCases

LEMMA CreatingStep ==
    ASSUME IInv, [Next]_vars
    PROVE  Creating'
<1> USE GateAssumption, NoneAssumption
    DEF IInv, TypeOK, ServiceType, ThreadType, VivadoType, DiskType, Capabilities, Projects,
        Objects, serviceVars, threadVars, vivadoVars, diskVars, history, bounds, Go,
        Creating, OursAt, Ours, Genuine, Settled
<1>1. CASE UNCHANGED <<pc, target, held, gen, current, disk, settled>>
  BY <1>1
<1>2. CASE pc' \notin {"create", "bind", "register"}
  BY <1>2
<1>3. ASSUME \/ Gate \/ MutateRun \/ MutateMismatch \/ MutateRaises \/ WriteXdc
             \/ RepairRefused \/ TrustedInputs \/ Register \/ OpenRun \/ OpenGuard
             \/ OpenGrant \/ CloseBegin \/ StopBegin \/ CloseRun \/ CloseDone \/ StopRun
             \/ StartBegin \/ StartRun \/ \E p \in Paths : Reconcile(p) \/ OpenBegin(p)
      PROVE  pc' \notin {"create", "bind", "register"}
  BY <1>3 DEF Gate, MutateRun, MutateMismatch, MutateRaises, WriteXdc, RepairRefused,
              TrustedInputs, Reconcile, Register, OpenBegin, OpenRun, OpenGuard, OpenGrant,
              CloseBegin, StopBegin, CloseRun, CloseDone, StopRun, StartBegin, StartRun,
              Idle, Verified, SameObject, Touches, IsCurrent, Quiet, Lost, GuardedSteps,
              Fails, RaisesOSError, RaisesOther, RepairTarget, HookGuardRefuses, Checkpoint,
              CloseMismatch, Closed, CloseFails, CloseGuardFails
<1>4. ASSUME NEW p \in Paths, CreateBegin(p) PROVE Creating'
  BY <1>4 DEF CreateBegin, Idle
<1>5. CASE CreateRun
  <2>1. CASE disk' = [disk EXCEPT ![target] = "made"] /\ pc' \in {"bind", "idle"}
             /\ current' = [path |-> target, obj |-> "made", readOnly |-> FALSE,
                           by |-> "mcp"]
    <3>1. target' = target /\ settled' = settled /\ disk'[target] = "made"
      BY <1>5, <2>1 DEF CreateRun
    <3>2. target \notin settled
      BY <1>5 DEF CreateRun, Settled
    <3>3. OursAt(target)'
      BY <2>1
    <3> QED
      BY <2>1, <3>1, <3>2, <3>3
  <2>2. CASE pc' = "idle"
    BY <2>2
  <2> QED
    BY <1>5, <2>1, <2>2 DEF CreateRun
<1>6. CASE Bind
  BY <1>6 DEF Bind
<1>7. CASE CancelStop
  BY <1>7 DEF CancelStop
<1>8. CASE ProcessExits
  BY <1>8 DEF ProcessExits
<1>9. ASSUME NEW p \in Paths, UserSwitches(p) PROVE Creating'
  BY <1>9 DEF UserSwitches, Intervene
<1>10. ASSUME NEW p \in Paths, UserEdits(p) PROVE Creating'
  BY <1>10 DEF UserEdits, Intervene
<1>11. ASSUME NEW p \in Paths, UserReplaces(p) PROVE Creating'
  BY <1>11 DEF UserReplaces, Intervene
<1>12. ASSUME \/ CancelBegin \/ CancelClear \/ UNCHANGED vars
      PROVE  UNCHANGED <<pc, target, held, gen, current, disk, settled>>
  BY <1>12 DEF CancelBegin, CancelClear, vars
<1> QED
  BY <1>1, <1>2, <1>3, <1>4, <1>5, <1>6, <1>7, <1>8, <1>9, <1>10, <1>11, <1>12, StepCases

LEMMA OpeningStep ==
    ASSUME IInv, [Next]_vars
    PROVE  Opening'
<1> USE GateAssumption, NoneAssumption
    DEF IInv, TypeOK, ServiceType, ThreadType, VivadoType, DiskType, Capabilities, Projects,
        Objects, serviceVars, threadVars, vivadoVars, diskVars, history, bounds, Go,
        Opening, OursAt, Ours, Genuine, Captured, MadeByMcp
<1>1. CASE UNCHANGED <<pc, target, held, gen, current, disk, settled>>
  BY <1>1
<1>2. CASE pc' \notin {"open", "guard", "grant"}
  BY <1>2
<1>3. ASSUME \/ Gate \/ MutateRun \/ MutateMismatch \/ MutateRaises \/ WriteXdc
             \/ RepairRefused \/ TrustedInputs \/ CreateRun \/ Bind \/ Register \/ OpenGrant
             \/ CloseBegin \/ StopBegin \/ CloseRun \/ CloseDone \/ StopRun \/ StartBegin
             \/ StartRun \/ \E p \in Paths : Reconcile(p) \/ CreateBegin(p)
      PROVE  pc' \notin {"open", "guard", "grant"}
  BY <1>3 DEF Gate, MutateRun, MutateMismatch, MutateRaises, WriteXdc, RepairRefused,
              TrustedInputs, Reconcile, CreateBegin, CreateRun, Bind, Register, OpenGrant,
              CloseBegin, StopBegin, CloseRun, CloseDone, StopRun, StartBegin, StartRun,
              Idle, Verified, SameObject, Touches, IsCurrent, Quiet, Lost, GuardedSteps,
              Fails, RaisesOSError, RaisesOther, RepairTarget, HookGuardRefuses, Checkpoint,
              CloseMismatch, Closed, CloseFails, CloseGuardFails
<1>4. ASSUME NEW p \in Paths, OpenBegin(p) PROVE Opening'
  BY <1>4 DEF OpenBegin, Idle, SameObject
<1>5. CASE OpenRun
  <2>1. CASE pc' = "idle"
    BY <2>1
  <2>2. CASE /\ pc' = "guard" /\ settled' = settled \ {target}
             /\ current' = [path |-> target, obj |-> disk[target],
                           readOnly |-> held = None, by |-> "mcp"]
    <3>1. target' = target /\ held' = held /\ disk' = disk /\ pc = "open" /\ gen' = gen
      BY <1>5, <2>2 DEF OpenRun, Fails, Lost, Quiet, RaisesOSError, RaisesOther
    <3>2. SUFFICES ASSUME held # None PROVE Opening'
      BY <3>1
    <3>3. held.path = target /\ held.gen = gen /\ disk[target] = "made"
      BY <3>1, <3>2
    <3>4. ~current'.readOnly /\ current'.obj = "made"
      BY <2>2, <3>2, <3>3
    <3> QED
      BY <2>2, <3>1, <3>3, <3>4
  <2> QED
    BY <1>5, <2>1, <2>2 DEF OpenRun
<1>6. CASE OpenGuard
  BY <1>6 DEF OpenGuard, Quiet, HookGuardRefuses, Lost, RaisesOSError, RaisesOther
<1>7. CASE CancelStop
  BY <1>7 DEF CancelStop
<1>8. CASE ProcessExits
  BY <1>8 DEF ProcessExits
<1>9. ASSUME NEW p \in Paths, UserSwitches(p) PROVE Opening'
  BY <1>9 DEF UserSwitches, Intervene
<1>10. ASSUME NEW p \in Paths, UserEdits(p) PROVE Opening'
  BY <1>10 DEF UserEdits, Intervene
<1>11. ASSUME NEW p \in Paths, UserReplaces(p) PROVE Opening'
  BY <1>11 DEF UserReplaces, Intervene
<1>12. ASSUME \/ CancelBegin \/ CancelClear \/ UNCHANGED vars
      PROVE  UNCHANGED <<pc, target, held, gen, current, disk, settled>>
  BY <1>12 DEF CancelBegin, CancelClear, vars
<1> QED
  BY <1>1, <1>2, <1>3, <1>4, <1>5, <1>6, <1>7, <1>8, <1>9, <1>10, <1>11, <1>12, StepCases

LEMMA WorkingStep ==
    ASSUME IInv, [Next]_vars
    PROVE  Working'
<1> USE GateAssumption, NoneAssumption
    DEF IInv, TypeOK, ServiceType, ThreadType, VivadoType, DiskType, Capabilities, Projects,
        Objects, serviceVars, threadVars, vivadoVars, diskVars, history, bounds, Go,
        Working, GuardedSteps, OursAt, Ours, Genuine, Trusted, Captured, MadeByMcp
<1>1. CASE UNCHANGED <<pc, held, current, disk, settled>>
  BY <1>1
<1>2. CASE pc' \notin GuardedSteps
  BY <1>2
<1>3. ASSUME \/ MutateMismatch \/ MutateRaises \/ RepairRefused \/ CreateRun \/ Bind
             \/ Register \/ OpenRun \/ OpenGuard \/ OpenGrant \/ CloseBegin \/ StopBegin
             \/ CloseRun \/ CloseDone \/ StopRun \/ StartBegin \/ StartRun
             \/ \E p \in Paths : Reconcile(p) \/ CreateBegin(p) \/ OpenBegin(p)
      PROVE  pc' \notin GuardedSteps
  BY <1>3 DEF MutateMismatch, MutateRaises, RepairRefused, Reconcile, CreateBegin,
              CreateRun, Bind, Register, OpenBegin, OpenRun, OpenGuard, OpenGrant,
              CloseBegin, StopBegin, CloseRun, CloseDone, StopRun, StartBegin, StartRun,
              Fails, RaisesOSError, RaisesOther, Lost, Quiet, RepairTarget, IsCurrent,
              Touches, HookGuardRefuses, Idle, SameObject, Verified, Checkpoint,
              CloseMismatch, Closed, CloseFails, CloseGuardFails
<1>4. CASE Gate
  BY <1>4 DEF Gate, Idle, Verified, SameObject
<1>5. CASE MutateRun
  BY <1>5 DEF MutateRun, Touches, IsCurrent, Quiet, Lost
<1>6. CASE WriteXdc
  BY <1>6 DEF WriteXdc, IsCurrent, Quiet
<1>7. CASE TrustedInputs
  BY <1>7 DEF TrustedInputs, Quiet
<1>8. CASE CancelStop
  BY <1>8 DEF CancelStop
<1>9. CASE ProcessExits
  BY <1>9 DEF ProcessExits
<1>10. ASSUME NEW p \in Paths, UserSwitches(p) PROVE Working'
  BY <1>10 DEF UserSwitches, Intervene
<1>11. ASSUME NEW p \in Paths, UserEdits(p) PROVE Working'
  BY <1>11 DEF UserEdits, Intervene
<1>12. ASSUME NEW p \in Paths, UserReplaces(p) PROVE Working'
  BY <1>12 DEF UserReplaces, Intervene
<1>13. ASSUME \/ CancelBegin \/ CancelClear \/ UNCHANGED vars
      PROVE  UNCHANGED <<pc, held, current, disk, settled>>
  BY <1>13 DEF CancelBegin, CancelClear, vars
<1> QED
  BY <1>1, <1>2, <1>3, <1>4, <1>5, <1>6, <1>7, <1>8, <1>9, <1>10, <1>11, <1>12, <1>13,
     StepCases

LEMMA TrustedStep ==
    ASSUME IInv, [Next]_vars
    PROVE  Trusted'
<1> USE GateAssumption, NoneAssumption
    DEF IInv, TypeOK, ServiceType, ThreadType, VivadoType, DiskType, Capabilities, Projects,
        Objects, serviceVars, threadVars, vivadoVars, diskVars, history, bounds, Go,
        Trusted, Opening, OursAt, Ours, Creating, GuardedSteps, Working
<1>1. CASE UNCHANGED <<scope, active, pc, gen, current, settled>>
  BY <1>1
<1>2. CASE scope' # "mcp_created_project"
  BY <1>2
<1>3. ASSUME \/ StartBegin \/ CloseDone \/ CancelClear
             \/ \E p \in Paths : CreateBegin(p) \/ OpenBegin(p)
      PROVE  scope' # "mcp_created_project"
  BY <1>3 DEF CreateBegin, StartBegin, OpenBegin, CloseDone, CancelClear, Idle, SameObject,
              Closed, CloseGuardFails, Checkpoint
<1>4. CASE Gate
  BY <1>4 DEF Gate, Idle, Verified, SameObject
<1>5. CASE MutateRun
  BY <1>5 DEF MutateRun, Touches, IsCurrent, Quiet, Lost
<1>6. CASE MutateMismatch
  BY <1>6 DEF MutateMismatch
<1>7. CASE MutateRaises
  BY <1>7 DEF MutateRaises, Fails, RaisesOSError, RaisesOther, Lost, Quiet
<1>8. CASE WriteXdc
  BY <1>8 DEF WriteXdc, IsCurrent, Quiet
<1>9. CASE RepairRefused
  BY <1>9 DEF RepairRefused
<1>10. CASE TrustedInputs
  BY <1>10 DEF TrustedInputs, Quiet
<1>11. ASSUME NEW p \in Paths, Reconcile(p) PROVE Trusted'
  BY <1>11 DEF Reconcile, RepairTarget, IsCurrent, Touches, Lost, HookGuardRefuses
<1>12. CASE CreateRun
  BY <1>12 DEF CreateRun, Lost, Fails, RaisesOSError, RaisesOther, Quiet
<1>13. CASE Bind
  BY <1>13 DEF Bind
<1>14. CASE Register
  BY <1>14 DEF Register
<1>15. CASE OpenRun
  BY <1>15 DEF OpenRun, Fails, RaisesOSError, RaisesOther, Lost, Quiet
<1>16. CASE OpenGuard
  BY <1>16 DEF OpenGuard, Quiet, HookGuardRefuses, Lost, RaisesOSError, RaisesOther
<1>17. CASE OpenGrant
  BY <1>17 DEF OpenGrant
<1>18. CASE CloseBegin
  BY <1>18 DEF CloseBegin, Idle, Verified, SameObject
<1>19. CASE StopBegin
  BY <1>19 DEF StopBegin, Idle, Verified, SameObject, Checkpoint
<1>20. CASE CloseRun
  BY <1>20 DEF CloseRun, IsCurrent, CloseMismatch, Quiet, Closed, Fails, CloseFails,
               RaisesOSError, CloseGuardFails, RaisesOther, Lost, Checkpoint
<1>21. CASE StopRun
  BY <1>21 DEF StopRun
<1>22. CASE StartRun
  BY <1>22 DEF StartRun, Quiet
<1>23. CASE CancelStop
  BY <1>23 DEF CancelStop
<1>24. CASE ProcessExits
  BY <1>24 DEF ProcessExits
<1>25. ASSUME NEW p \in Paths, UserSwitches(p) PROVE Trusted'
  BY <1>25 DEF UserSwitches, Intervene
<1>26. ASSUME NEW p \in Paths, UserEdits(p) PROVE Trusted'
  BY <1>26 DEF UserEdits, Intervene
<1>27. ASSUME NEW p \in Paths, UserReplaces(p) PROVE Trusted'
  BY <1>27 DEF UserReplaces, Intervene
<1>28. ASSUME \/ CancelBegin \/ UNCHANGED vars
      PROVE  UNCHANGED <<scope, active, pc, gen, current, settled>>
  BY <1>28 DEF CancelBegin, vars
<1> QED
  BY <1>1, <1>2, <1>3, <1>4, <1>5, <1>6, <1>7, <1>8, <1>9, <1>10, <1>11, <1>12, <1>13,
     <1>14, <1>15, <1>16, <1>17, <1>18, <1>19, <1>20, <1>21, <1>22, <1>23, <1>24, <1>25,
     <1>26, <1>27, <1>28, StepCases

LEMMA SettledStep ==
    ASSUME IInv, [Next]_vars
    PROVE  Settled'
<1> USE GateAssumption, NoneAssumption
    DEF IInv, TypeOK, ServiceType, ThreadType, VivadoType, DiskType, Capabilities, Projects,
        Objects, serviceVars, threadVars, vivadoVars, diskVars, history, bounds, Go,
        Settled, Working, GuardedSteps, Creating, Captured, MadeByMcp
<1>1. CASE UNCHANGED <<disk, drift, settled>>
  BY <1>1
<1>2. CASE MutateRun
  BY <1>2 DEF MutateRun, Touches, IsCurrent, Quiet, Lost
<1>3. ASSUME NEW p \in Paths, Reconcile(p) PROVE Settled'
  BY <1>3 DEF Reconcile, RepairTarget, IsCurrent, Touches, Lost, HookGuardRefuses
<1>4. CASE CreateRun
  BY <1>4 DEF CreateRun, Lost, Fails, RaisesOSError, RaisesOther, Quiet
<1>5. CASE Register
  BY <1>5 DEF Register
<1>6. CASE OpenRun
  BY <1>6 DEF OpenRun, Fails, RaisesOSError, RaisesOther, Lost, Quiet
<1>7. CASE CloseDone
  BY <1>7 DEF CloseDone, SameObject, Closed, CloseGuardFails, Checkpoint
<1>8. ASSUME NEW p \in Paths, UserSwitches(p) PROVE Settled'
  BY <1>8 DEF UserSwitches, Intervene
<1>9. ASSUME NEW p \in Paths, UserEdits(p) PROVE Settled'
  BY <1>9 DEF UserEdits, Intervene
<1>10. ASSUME NEW p \in Paths, UserReplaces(p) PROVE Settled'
  BY <1>10 DEF UserReplaces, Intervene
<1>11. ASSUME \/ Gate \/ MutateMismatch \/ MutateRaises \/ WriteXdc \/ RepairRefused
              \/ TrustedInputs \/ Bind \/ OpenGuard \/ OpenGrant \/ CloseBegin \/ StopBegin
              \/ CloseRun \/ StopRun \/ StartBegin \/ StartRun \/ CancelBegin \/ CancelStop
              \/ CancelClear \/ ProcessExits
              \/ \E p \in Paths : CreateBegin(p) \/ OpenBegin(p) \/ UNCHANGED vars
      PROVE  UNCHANGED <<disk, drift, settled>>
  BY <1>11 DEF Gate, MutateMismatch, MutateRaises, WriteXdc, RepairRefused, TrustedInputs,
               CreateBegin, Bind, OpenBegin, OpenGuard, OpenGrant, CloseBegin, StopBegin,
               CloseRun, StopRun, StartBegin, StartRun, CancelBegin, CancelStop,
               CancelClear, ProcessExits, Idle, Verified, SameObject, Fails, RaisesOSError,
               RaisesOther, Lost, Quiet, IsCurrent, HookGuardRefuses, Checkpoint,
               CloseMismatch, Closed, CloseFails, CloseGuardFails, vars
<1> QED
  BY <1>1, <1>2, <1>3, <1>4, <1>5, <1>6, <1>7, <1>8, <1>9, <1>10, <1>11, StepCases

LEMMA OnlyRepairStraysStep ==
    ASSUME IInv, [Next]_vars
    PROVE  OnlyRepairStrays'
<1> USE GateAssumption, NoneAssumption
    DEF IInv, TypeOK, ServiceType, ThreadType, VivadoType, DiskType, Capabilities, Projects,
        Objects, serviceVars, threadVars, vivadoVars, diskVars, history, bounds, Go,
        OnlyRepairStrays, Working, GuardedSteps, OursAt, Ours
<1>1. CASE UNCHANGED touched
  BY <1>1
<1>2. CASE MutateRun
  BY <1>2 DEF MutateRun, Touches, IsCurrent, Quiet, Lost
<1>3. CASE WriteXdc
  BY <1>3 DEF WriteXdc, IsCurrent, Quiet
<1>4. ASSUME NEW p \in Paths, Reconcile(p) PROVE OnlyRepairStrays'
  BY <1>4 DEF Reconcile, RepairTarget, IsCurrent, Touches, Lost, HookGuardRefuses
<1>5. ASSUME \/ Gate \/ MutateMismatch \/ MutateRaises \/ RepairRefused \/ TrustedInputs
             \/ CreateRun \/ Bind \/ Register \/ OpenRun \/ OpenGuard \/ OpenGrant
             \/ CloseBegin \/ StopBegin \/ CloseRun \/ CloseDone \/ StopRun \/ StartBegin
             \/ StartRun \/ CancelBegin \/ CancelStop \/ CancelClear \/ ProcessExits
             \/ \E p \in Paths : CreateBegin(p) \/ OpenBegin(p) \/ UserSwitches(p)
             \/ \E p \in Paths : UserEdits(p) \/ UserReplaces(p) \/ UNCHANGED vars
      PROVE  UNCHANGED touched
  BY <1>5 DEF Gate, MutateMismatch, MutateRaises, RepairRefused, TrustedInputs, CreateBegin,
              CreateRun, Bind, Register, OpenBegin, OpenRun, OpenGuard, OpenGrant,
              CloseBegin, StopBegin, CloseRun, CloseDone, StopRun, StartBegin, StartRun,
              CancelBegin, CancelStop, CancelClear, ProcessExits, UserSwitches, UserEdits,
              UserReplaces, Idle, Verified, SameObject, Fails, RaisesOSError, RaisesOther,
              Lost, Quiet, HookGuardRefuses, Checkpoint, IsCurrent, CloseMismatch, Closed,
              CloseFails, CloseGuardFails, Intervene, vars
<1> QED
  BY <1>1, <1>2, <1>3, <1>4, <1>5, StepCases

LEMMA ForeignIsReadOnlyStep ==
    ASSUME IInv, [Next]_vars
    PROVE  ForeignIsReadOnly'
<1> USE GateAssumption, NoneAssumption
    DEF IInv, TypeOK, ServiceType, ThreadType, VivadoType, DiskType, Capabilities, Projects,
        Objects, serviceVars, threadVars, vivadoVars, diskVars, history, bounds, Go,
        ForeignIsReadOnly, Opening
<1>1. CASE UNCHANGED current
  BY <1>1
<1>2. CASE MutateRun
  BY <1>2 DEF MutateRun, Touches, IsCurrent, Quiet, Lost
<1>3. CASE MutateRaises
  BY <1>3 DEF MutateRaises, GuardedSteps, Fails, RaisesOSError, RaisesOther, Lost, Quiet
<1>4. ASSUME NEW p \in Paths, Reconcile(p) PROVE ForeignIsReadOnly'
  BY <1>4 DEF Reconcile, RepairTarget, IsCurrent, Touches, Lost, HookGuardRefuses
<1>5. CASE CreateRun
  BY <1>5 DEF CreateRun, Lost, Fails, RaisesOSError, RaisesOther, Quiet
<1>6. CASE OpenRun
  <2>1. CASE current' \in {current, None}
    BY <2>1
  <2>2. CASE /\ current' = [path |-> target, obj |-> disk[target],
                           readOnly |-> held = None, by |-> "mcp"]
    <3>1. CASE held = None
      BY <2>2, <3>1
    <3>2. CASE held # None
      BY <1>6, <2>2, <3>2 DEF OpenRun
    <3> QED
      BY <3>1, <3>2
  <2> QED
    BY <1>6, <2>1, <2>2 DEF OpenRun, Fails, RaisesOSError, RaisesOther, Lost, Quiet
<1>7. CASE OpenGuard
  BY <1>7 DEF OpenGuard, Quiet, HookGuardRefuses, Lost, RaisesOSError, RaisesOther
<1>8. CASE CloseRun
  BY <1>8 DEF CloseRun, IsCurrent, CloseMismatch, Quiet, Closed, Fails, CloseFails,
              RaisesOSError, CloseGuardFails, RaisesOther, Lost, Checkpoint
<1>9. CASE StopRun
  BY <1>9 DEF StopRun
<1>10. CASE StartRun
  BY <1>10 DEF StartRun, Quiet
<1>11. CASE CancelStop
  BY <1>11 DEF CancelStop
<1>12. CASE ProcessExits
  BY <1>12 DEF ProcessExits
<1>13. ASSUME NEW p \in Paths, UserSwitches(p) PROVE ForeignIsReadOnly'
  BY <1>13 DEF UserSwitches, Intervene
<1>14. ASSUME \/ Gate \/ MutateMismatch \/ WriteXdc \/ RepairRefused \/ TrustedInputs
              \/ Bind \/ Register \/ OpenGrant \/ CloseBegin \/ StopBegin \/ CloseDone
              \/ StartBegin \/ CancelBegin \/ CancelClear
              \/ \E p \in Paths : CreateBegin(p) \/ OpenBegin(p) \/ UserEdits(p)
              \/ \E p \in Paths : UserReplaces(p) \/ UNCHANGED vars
      PROVE  UNCHANGED current
  BY <1>14 DEF Gate, MutateMismatch, WriteXdc, RepairRefused, TrustedInputs, CreateBegin,
               Bind, Register, OpenBegin, OpenGrant, CloseBegin, StopBegin, CloseDone,
               StartBegin, CancelBegin, CancelClear, UserEdits, UserReplaces, Idle,
               Verified, SameObject, GuardedSteps, IsCurrent, Quiet, Checkpoint, Closed,
               CloseGuardFails, Intervene, vars
<1> QED
  BY <1>1, <1>2, <1>3, <1>4, <1>5, <1>6, <1>7, <1>8, <1>9, <1>10, <1>11, <1>12, <1>13,
     <1>14, StepCases

(***************************************************************************)
(* The invariant, and what follows from it                                 *)
(***************************************************************************)

LEMMA InvInit == Init => IInv
<1> SUFFICES ASSUME Init PROVE IInv
  OBVIOUS
<1> USE GateAssumption, NoneAssumption DEF GateAssumption, Init
<1>1. TypeOK
  BY DEF TypeOK, ServiceType, ThreadType, VivadoType, DiskType, Objects
<1> QED
  BY <1>1 DEF IInv, Captured, MadeByMcp, Genuine, Creating, Opening, Working, GuardedSteps,
      Trusted, Settled, OnlyRepairStrays, ForeignIsReadOnly

LEMMA InvStep == IInv /\ [Next]_vars => IInv'
<1> SUFFICES ASSUME IInv, [Next]_vars PROVE IInv'
  OBVIOUS
<1> QED
  BY TypeStep, CapturedStep, GenuineStep, CreatingStep, OpeningStep, WorkingStep,
     TrustedStep, SettledStep, OnlyRepairStraysStep, ForeignIsReadOnlyStep DEF IInv

\* The ten parts of the invariant hold in every state.
THEOREM GateInvariant == Spec => []IInv
  BY InvInit, InvStep, PTL DEF Spec

\* The variables keep their types; a capability is registered under its own path, and
\* only a live session has a current project.
THEOREM GateTyped == Spec => []TypeOK
<1>1. IInv => TypeOK
  BY DEF IInv
<1> QED
  BY <1>1, GateInvariant, PTL

\* Whatever the user opens or replaces and whatever is cancelled, lost or refused, a
\* guarded tool changes only projects that create_project made, or, the one way out,
\* a project that repair_project_setup itself has opened by its path.
THEOREM OnlyRepairStraysHolds == Spec => []OnlyRepairStrays
<1>1. IInv => OnlyRepairStrays
  BY DEF IInv
<1> QED
  BY <1>1, GateInvariant, PTL

\* open_project never opens a foreign project for writing, also where a capability of
\* the path is registered.
THEOREM ForeignIsReadOnlyHolds == Spec => []ForeignIsReadOnly
<1>1. IInv => ForeignIsReadOnly
  BY DEF IInv
<1> QED
  BY <1>1, GateInvariant, PTL

\* The created scope never outlives the session its capability was verified in,
\* however many sessions were started and whoever was cancelled meanwhile.
THEOREM TrustIsCurrentHolds == Spec => []TrustIsCurrent
<1>1. IInv => TrustIsCurrent
  BY DEF IInv, Trusted, TrustIsCurrent
<1> QED
  BY <1>1, GateInvariant, PTL

\* What was closed and not touched since is let in again by open_project.
THEOREM CheckpointReopensHolds == Spec => CheckpointReopens
<1> DEFINE Reopens == \A p \in settled : OpenBegin(p) /\ caps[p] # None => caps'[p] # None
<1>1. ASSUME IInv PROVE Reopens
  <2>1. SUFFICES ASSUME NEW p \in settled, OpenBegin(p), caps[p] # None PROVE caps'[p] # None
    OBVIOUS
  <2>2. p \in Paths /\ SameObject(caps[p]) /\ p \notin drift
    BY <1>1, <2>1 DEF IInv, TypeOK, ServiceType, DiskType, Settled, Captured, MadeByMcp,
                      SameObject
  <2>3. caps' \in {caps, [caps EXCEPT ![p].gen = gen]}
    BY <2>1, <2>2 DEF OpenBegin
  <2>4. caps[p] \in Capabilities /\ [caps[p] EXCEPT !.gen = gen] \in Capabilities
    BY <1>1, <2>1, <2>2 DEF IInv, TypeOK, ServiceType, VivadoType, Capabilities
  <2>5. caps'[p] \in Capabilities
    BY <1>1, <2>2, <2>3, <2>4 DEF IInv, TypeOK, ServiceType
  <2> QED
    BY <2>5, NoneAssumption
<1>2. IInv => [Reopens]_vars
  BY <1>1
<1> QED
  BY <1>2, GateInvariant, PTL DEF CheckpointReopens


(***************************************************************************)
(* The two judges of a call                                                *)
(***************************************************************************)

\* FirstRefusal finds the check that applies first.
LEMMA FirstOf ==
  ASSUME NEW n \in Nat, NEW checks, Len(checks) = n
  PROVE  \/ (\A i \in 1..n : ~checks[i][1]) /\ FirstRefusal(checks) = Allowed
         \/ \E i \in 1..n : /\ checks[i][1]
                            /\ \A j \in 1..n : checks[j][1] => i <= j
                            /\ FirstRefusal(checks) = Refused(checks[i][2], checks[i][3])
<1> DEFINE I == {i \in 1..Len(checks) : checks[i][1]}
<1>1. CASE I = {}
  BY <1>1 DEF FirstRefusal, SelectInSeq
<1>2. CASE I # {}
  <2>1. PICK i \in I : \A j \in I : ~ <<j, i>> \in OpToRel(<, Nat)
    <3>1. I \subseteq Nat
      OBVIOUS
    <3> QED
      BY <1>2, <3>1, NatLessThanWellFounded, WFMin
  <2>2. \A j \in I : i <= j
    <3>1. I \subseteq Nat
      OBVIOUS
    <3> HIDE DEF I
    <3>2. \A j \in I : ~(j < i)
      <4> TAKE j \in I
      <4>1. ~ <<j, i>> \in OpToRel(<, Nat)
        BY <2>1
      <4> QED
        BY <3>1, <4>1, SMT DEF OpToRel
    <3> QED
      BY <3>1, <3>2
  <2>3. Min(I) \in I /\ \A j \in I : Min(I) <= j
    BY <2>2 DEF Min
  <2>4. Min(I) = i
    BY <2>2, <2>3
  <2>5. FirstRefusal(checks) = Refused(checks[i][2], checks[i][3])
    BY <1>2, <2>4 DEF FirstRefusal, SelectInSeq
  <2> QED
    BY <2>2, <2>5
<1> QED
  BY <1>1, <1>2

\* The parts of a check.
LEMMA Entry ==
  ASSUME NEW x, NEW b \in BOOLEAN, NEW r, NEW s, x = <<b, r, s>>
  PROVE  (x[1] <=> b) /\ x[2] = r /\ x[3] = s
<1>1. x[1] = b
  OBVIOUS
<1>2. x[1] <=> b
  BY <1>1
<1> QED
  BY <1>2

\* The checks, by what they ask.
Unknown(c) == c.tool = "unregistered"
Invalid(c) == ~c.valid
BarredFrom(c) == c.enforced /\ c.profile \notin Profiles(c.tool)
BadPath(c) == AsksPath(c) /\ c.path = "mismatch"
BadAgain(c) == AsksPath(c) /\ c.again = "mismatch"
WrongScope(c, o) == Looks(c, o) /\ o.scope # "mcp_created_project"
TooComposite(c, o) == Looks(c, o) /\ c.tool \in Composite

\* The legacy decision, check by check.
LegacyVerdict(c, o) ==
    IF Unknown(c)
    THEN Refused("UNKNOWN_TOOL", "policy_pipeline")
    ELSE IF Invalid(c)
    THEN Refused("INVALID_TOOL_ARGUMENTS", "argument_schema")
    ELSE IF BarredFrom(c)
    THEN Refused("TOOL_NOT_AVAILABLE_IN_PROFILE", "capability_profile_authorization")
    ELSE IF BadPath(c)
    THEN Refused("VIVADO_PATH", "executable_session_identity")
    ELSE IF CapabilityFails(c, o)
    THEN Refused("PROJECT_CAPABILITY_INVALID", "project_capability_generation")
    ELSE IF WrongScope(c, o)
    THEN Refused("EXISTING_PROJECT_MUTATION_REQUIRES_WORKING_COPY",
                 "mutation_destructive_intent")
    ELSE IF TooComposite(c, o)
    THEN Refused("EXECUTABLE_COMPOSITE_INPUT_UNSUPPORTED",
                 "execution_input_closure")
    ELSE Allowed

\* What the stages behind the facade ask, from facts that are only gathered for
\* calls which pass the facade.
Unverified(c, o) == ~FailsFirst(c) /\ CapabilityFails(c, o)
OutOfScope(c, o) == ~FailsFirst(c) /\ (CapabilityFails(c, o) \/ WrongScope(c, o))
Executes(c, o) == ~FailsFirst(c) /\ TooComposite(c, o)

\* The decision of the pipeline, stage by stage.
ShadowVerdict(c, o) ==
    IF BadAgain(c)
    THEN Refused("VIVADO_PATH", "executable_session_identity")
    ELSE IF Invalid(c)
    THEN Refused("INVALID_TOOL_ARGUMENTS", "argument_schema")
    ELSE IF BarredFrom(c)
    THEN Refused("TOOL_NOT_AVAILABLE_IN_PROFILE", "capability_profile_authorization")
    ELSE IF Unverified(c, o)
    THEN Refused("PROJECT_CAPABILITY_INVALID", "project_capability_generation")
    ELSE IF OutOfScope(c, o)
    THEN Refused("EXISTING_PROJECT_MUTATION_REQUIRES_WORKING_COPY",
                 "mutation_destructive_intent")
    ELSE IF Executes(c, o)
    THEN Refused("EXECUTABLE_COMPOSITE_INPUT_UNSUPPORTED",
                 "execution_input_closure")
    ELSE Allowed

\* call() decides as its checks say, in their order.
LEMMA LegacyIs ==
    ASSUME NEW c, NEW o
    PROVE  Legacy(c, o) = LegacyVerdict(c, o)
<1> DEFINE checks == FacadeChecks(c) \o GateChecks(c, o)
<1>1. /\ Len(checks) = 7
      /\ checks[1] = <<Unknown(c), "UNKNOWN_TOOL",
                       "policy_pipeline">>
      /\ checks[2] = <<Invalid(c), "INVALID_TOOL_ARGUMENTS",
                       "argument_schema">>
      /\ checks[3] = <<BarredFrom(c), "TOOL_NOT_AVAILABLE_IN_PROFILE",
                       "capability_profile_authorization">>
      /\ checks[4] = <<BadPath(c), "VIVADO_PATH",
                       "executable_session_identity">>
      /\ checks[5] = <<CapabilityFails(c, o), "PROJECT_CAPABILITY_INVALID",
                       "project_capability_generation">>
      /\ checks[6] = <<WrongScope(c, o), "EXISTING_PROJECT_MUTATION_REQUIRES_WORKING_COPY",
                       "mutation_destructive_intent">>
      /\ checks[7] = <<TooComposite(c, o), "EXECUTABLE_COMPOSITE_INPUT_UNSUPPORTED",
                       "execution_input_closure">>
  BY DEF FacadeChecks, GateChecks, Unknown, Invalid, BarredFrom, BadPath, WrongScope,
         TooComposite
<1> HIDE DEF checks
<1>11. /\ checks[1][1] <=> Unknown(c)
      /\ checks[1][2] = "UNKNOWN_TOOL"
      /\ checks[1][3] = "policy_pipeline"
  <2>1. Unknown(c) \in BOOLEAN
    BY DEF Unknown
  <2> QED
    BY <1>1, <2>1, Entry
<1>12. /\ checks[2][1] <=> Invalid(c)
      /\ checks[2][2] = "INVALID_TOOL_ARGUMENTS"
      /\ checks[2][3] = "argument_schema"
  <2>1. Invalid(c) \in BOOLEAN
    BY DEF Invalid
  <2> QED
    BY <1>1, <2>1, Entry
<1>13. /\ checks[3][1] <=> BarredFrom(c)
      /\ checks[3][2] = "TOOL_NOT_AVAILABLE_IN_PROFILE"
      /\ checks[3][3] = "capability_profile_authorization"
  <2>1. BarredFrom(c) \in BOOLEAN
    BY DEF BarredFrom
  <2> QED
    BY <1>1, <2>1, Entry
<1>14. /\ checks[4][1] <=> BadPath(c)
      /\ checks[4][2] = "VIVADO_PATH"
      /\ checks[4][3] = "executable_session_identity"
  <2>1. BadPath(c) \in BOOLEAN
    BY DEF BadPath
  <2> QED
    BY <1>1, <2>1, Entry
<1>15. /\ checks[5][1] <=> CapabilityFails(c, o)
      /\ checks[5][2] = "PROJECT_CAPABILITY_INVALID"
      /\ checks[5][3] = "project_capability_generation"
  <2>1. CapabilityFails(c, o) \in BOOLEAN
    BY DEF CapabilityFails
  <2> QED
    BY <1>1, <2>1, Entry
<1>16. /\ checks[6][1] <=> WrongScope(c, o)
      /\ checks[6][2] = "EXISTING_PROJECT_MUTATION_REQUIRES_WORKING_COPY"
      /\ checks[6][3] = "mutation_destructive_intent"
  <2>1. WrongScope(c, o) \in BOOLEAN
    BY DEF WrongScope
  <2> QED
    BY <1>1, <2>1, Entry
<1>17. /\ checks[7][1] <=> TooComposite(c, o)
      /\ checks[7][2] = "EXECUTABLE_COMPOSITE_INPUT_UNSUPPORTED"
      /\ checks[7][3] = "execution_input_closure"
  <2>1. TooComposite(c, o) \in BOOLEAN
    BY DEF TooComposite
  <2> QED
    BY <1>1, <2>1, Entry
<1>2. \/ (\A i \in 1..7 : ~checks[i][1]) /\ FirstRefusal(checks) = Allowed
      \/ \E i \in 1..7 : /\ checks[i][1]
                         /\ \A j \in 1..7 : checks[j][1] => i <= j
                         /\ FirstRefusal(checks) = Refused(checks[i][2], checks[i][3])
  BY <1>1, FirstOf
<1>3. Legacy(c, o) = FirstRefusal(checks)
  BY DEF Legacy, checks
<1>4. CASE (\A i \in 1..7 : ~checks[i][1]) /\ FirstRefusal(checks) = Allowed
  BY <1>3, <1>4, <1>11, <1>12, <1>13, <1>14, <1>15, <1>16, <1>17 DEF LegacyVerdict
<1>5. CASE \E i \in 1..7 : /\ checks[i][1]
                         /\ \A j \in 1..7 : checks[j][1] => i <= j
                         /\ FirstRefusal(checks) = Refused(checks[i][2], checks[i][3])
  <2>1. PICK i \in 1..7 : /\ checks[i][1]
                         /\ \A j \in 1..7 : checks[j][1] => i <= j
                         /\ FirstRefusal(checks) = Refused(checks[i][2], checks[i][3])
    BY <1>5
  <2>2. i \in {1, 2, 3, 4, 5, 6, 7}
    OBVIOUS
  <2>3. \A j \in 1..7 : j < i => ~checks[j][1]
    BY <2>1
  <2>4. CASE i = 1
    BY <2>1, <2>3, <2>4, <1>3, <1>11, <1>12, <1>13, <1>14, <1>15, <1>16, <1>17 DEF LegacyVerdict
  <2>5. CASE i = 2
    BY <2>1, <2>3, <2>5, <1>3, <1>11, <1>12, <1>13, <1>14, <1>15, <1>16, <1>17 DEF LegacyVerdict
  <2>6. CASE i = 3
    BY <2>1, <2>3, <2>6, <1>3, <1>11, <1>12, <1>13, <1>14, <1>15, <1>16, <1>17 DEF LegacyVerdict
  <2>7. CASE i = 4
    BY <2>1, <2>3, <2>7, <1>3, <1>11, <1>12, <1>13, <1>14, <1>15, <1>16, <1>17 DEF LegacyVerdict
  <2>8. CASE i = 5
    BY <2>1, <2>3, <2>8, <1>3, <1>11, <1>12, <1>13, <1>14, <1>15, <1>16, <1>17 DEF LegacyVerdict
  <2>9. CASE i = 6
    BY <2>1, <2>3, <2>9, <1>3, <1>11, <1>12, <1>13, <1>14, <1>15, <1>16, <1>17 DEF LegacyVerdict
  <2>10. CASE i = 7
    BY <2>1, <2>3, <2>10, <1>3, <1>11, <1>12, <1>13, <1>14, <1>15, <1>16, <1>17 DEF LegacyVerdict
  <2> QED
    BY <2>2, <2>4, <2>5, <2>6, <2>7, <2>8, <2>9, <2>10
<1> QED
  BY <1>2, <1>4, <1>5

\* A guarded tool names a project and changes something, so that no stage that could
\* refuse it is left out for it.
LEMMA GuardedTools ==
    ASSUME NEW c, GuardedAction(c)
    PROVE  RequiredProject(c.tool) # "none" /\ Mutation(c.tool)
<1>1. c.tool \in (Immediate \cup Execution \cup Composite) \ {"create_project"}
  BY DEF GuardedAction
<1>2. c.tool \notin ProjectFree /\ c.tool \notin ReadOnly
  BY <1>1 DEF Immediate, Execution, Composite, ProjectFree, HwSafe, HwOff, HwDestroy, ReadOnly
<1> QED
  BY <1>2 DEF RequiredProject, Mutation

\* No tool that takes vivado_path skips the stage that checks it.
LEMMA PathTools ==
    ASSUME NEW c, AsksPath(c)
    PROVE  StageRequired(c.tool, "executable_session_identity")
<1>1. Mutation(c.tool) \/ c.tool \in HwSafe
  BY DEF AsksPath, TakesVivadoPath, Mutation, ReadOnly, HwSafe
<1>2. Mutation(c.tool) \/ HardwareTier(c.tool)
  BY <1>1 DEF HardwareTier
<1> QED
  BY <1>2 DEF StageRequired

\* What makes each stage refuse.
LEMMA StagesAre ==
    ASSUME NEW c, NEW o
    PROVE  LET Stops(s) == StageRequired(c.tool, s) /\ StageRefuses(s, c, Facts(c, o))
           IN  /\ Stops("executable_session_identity") <=> BadAgain(c)
               /\ Stops("argument_schema") <=> Invalid(c)
               /\ Stops("capability_profile_authorization") <=> BarredFrom(c)
               /\ Stops("project_capability_generation") <=> Unverified(c, o)
               /\ Stops("mutation_destructive_intent") <=> OutOfScope(c, o)
               /\ Stops("execution_input_closure") <=> Executes(c, o)
<1> DEFINE f == Facts(c, o)
           Stops(s) == StageRequired(c.tool, s) /\ StageRefuses(s, c, f)
<1>1. /\ f.guarded <=> ~FailsFirst(c) /\ GuardedAction(c)
      /\ f.repairDryRun <=> ~FailsFirst(c) /\ RepairDryRun(c)
      /\ f.managed <=> ~FailsFirst(c) /\ Looks(c, o)
      /\ f.failed <=> ~FailsFirst(c) /\ CapabilityFails(c, o)
      /\ f.scope = IF ~FailsFirst(c) /\ CapabilityFails(c, o) THEN "indeterminate" ELSE o.scope
  BY DEF Facts
<1> HIDE DEF f
<1>2. Stops("executable_session_identity") <=> BadAgain(c)
  BY PathTools DEF StageRefuses, BadAgain
<1>3. Stops("argument_schema") <=> Invalid(c)
  BY DEF StageRequired, StageRefuses, Invalid
<1>4. Stops("capability_profile_authorization") <=> BarredFrom(c)
  BY DEF StageRequired, StageRefuses, BarredFrom
<1>5. Stops("project_capability_generation") <=> Unverified(c, o)
  <2>1. StageRefuses("project_capability_generation", c, f) <=> f.failed
    BY DEF StageRefuses
  <2>2. StageRequired(c.tool, "project_capability_generation")
            <=> \/ RequiredProject(c.tool) # "none"
                \/ Risk(c.tool) = "project_execution" \/ c.tool \in Composite
    BY DEF StageRequired
  <2>3. f.failed => GuardedAction(c)
    BY <1>1 DEF CapabilityFails, Looks
  <2> QED
    BY <1>1, <2>1, <2>2, <2>3, GuardedTools DEF Unverified
<1>6. Stops("mutation_destructive_intent") <=> OutOfScope(c, o)
  <2>1. StageRefuses("mutation_destructive_intent", c, f)
            <=> (f.managed /\ f.guarded /\ ~f.repairDryRun) /\ f.scope # "mcp_created_project"
    BY DEF StageRefuses
  <2>2. Mutation(c.tool) => StageRequired(c.tool, "mutation_destructive_intent")
    BY DEF StageRequired
  <2>3. f.managed => GuardedAction(c)
    BY <1>1 DEF Looks
  <2>4. f.managed /\ f.guarded /\ ~f.repairDryRun <=> ~FailsFirst(c) /\ Looks(c, o)
    BY <1>1 DEF Looks
  <2>5. CapabilityFails(c, o) => Looks(c, o)
    BY DEF CapabilityFails
  <2> QED
    BY <1>1, <2>1, <2>2, <2>3, <2>4, <2>5, GuardedTools DEF OutOfScope, WrongScope
<1>7. Stops("execution_input_closure") <=> Executes(c, o)
  <2>1. StageRefuses("execution_input_closure", c, f)
            <=> (f.managed /\ f.guarded /\ ~f.repairDryRun) /\ c.tool \in Composite
    BY DEF StageRefuses
  <2>2. c.tool \in Composite => StageRequired(c.tool, "execution_input_closure")
    BY DEF StageRequired
  <2>4. f.managed /\ f.guarded /\ ~f.repairDryRun <=> ~FailsFirst(c) /\ Looks(c, o)
    BY <1>1 DEF Looks
  <2> QED
    BY <2>1, <2>2, <2>4 DEF Executes, TooComposite
<1> QED
  BY <1>2, <1>3, <1>4, <1>5, <1>6, <1>7 DEF f

\* The pipeline decides as its stages say, in their order.
LEMMA ShadowIs ==
    ASSUME NEW c, NEW o
    PROVE  Pipeline(c, Facts(c, o)) = ShadowVerdict(c, o)
<1> DEFINE f == Facts(c, o)
           Stops(s) == StageRequired(c.tool, s) /\ StageRefuses(s, c, f)
           checks == [i \in DOMAIN StageOrder |->
                        <<Stops(StageOrder[i]), StageReason(StageOrder[i]), StageOrder[i]>>]
<1>1. DOMAIN StageOrder = 1..6 /\ checks \in Seq({checks[i] : i \in 1..6}) /\ Len(checks) = 6
  <2>1. DOMAIN StageOrder = 1..6
    BY DEF StageOrder
  <2>2. DOMAIN checks = 1..6
    BY <2>1
  <2> HIDE DEF checks
  <2>3. checks = [i \in 1..6 |-> checks[i]]
    BY <2>1, <2>2 DEF checks
  <2> QED
    BY <2>1, <2>3
<1>2. \A i \in 1..6 : /\ checks[i][1] <=> Stops(StageOrder[i])
                      /\ checks[i][2] = StageReason(StageOrder[i])
                      /\ checks[i][3] = StageOrder[i]
  <2> TAKE i \in 1..6
  <2>1. checks[i] = <<Stops(StageOrder[i]), StageReason(StageOrder[i]), StageOrder[i]>>
    BY <1>1
  <2>2. Stops(StageOrder[i]) \in BOOLEAN
    OBVIOUS
  <2> HIDE DEF checks, Stops
  <2> QED
    BY <2>1, <2>2, Entry
<1>3. /\ Stops("executable_session_identity") <=> BadAgain(c)
      /\ Stops("argument_schema") <=> Invalid(c)
      /\ Stops("capability_profile_authorization") <=> BarredFrom(c)
      /\ Stops("project_capability_generation") <=> Unverified(c, o)
      /\ Stops("mutation_destructive_intent") <=> OutOfScope(c, o)
      /\ Stops("execution_input_closure") <=> Executes(c, o)
  BY StagesAre
<1>4. Pipeline(c, f) = FirstRefusal(checks)
  BY DEF Pipeline
<1> HIDE DEF checks, Stops, f
<1>11. /\ checks[1][1] <=> BadAgain(c)
      /\ checks[1][2] = "VIVADO_PATH"
      /\ checks[1][3] = "executable_session_identity"
  <2>1. StageOrder[1] = "executable_session_identity"
    BY DEF StageOrder
  <2>2. StageReason("executable_session_identity") = "VIVADO_PATH"
    BY DEF StageReason
  <2> QED
    BY <1>2, <1>3, <2>1, <2>2
<1>12. /\ checks[2][1] <=> Invalid(c)
      /\ checks[2][2] = "INVALID_TOOL_ARGUMENTS"
      /\ checks[2][3] = "argument_schema"
  <2>1. StageOrder[2] = "argument_schema"
    BY DEF StageOrder
  <2>2. StageReason("argument_schema") = "INVALID_TOOL_ARGUMENTS"
    BY DEF StageReason
  <2> QED
    BY <1>2, <1>3, <2>1, <2>2
<1>13. /\ checks[3][1] <=> BarredFrom(c)
      /\ checks[3][2] = "TOOL_NOT_AVAILABLE_IN_PROFILE"
      /\ checks[3][3] = "capability_profile_authorization"
  <2>1. StageOrder[3] = "capability_profile_authorization"
    BY DEF StageOrder
  <2>2. StageReason("capability_profile_authorization") = "TOOL_NOT_AVAILABLE_IN_PROFILE"
    BY DEF StageReason
  <2> QED
    BY <1>2, <1>3, <2>1, <2>2
<1>14. /\ checks[4][1] <=> Unverified(c, o)
      /\ checks[4][2] = "PROJECT_CAPABILITY_INVALID"
      /\ checks[4][3] = "project_capability_generation"
  <2>1. StageOrder[4] = "project_capability_generation"
    BY DEF StageOrder
  <2>2. StageReason("project_capability_generation") = "PROJECT_CAPABILITY_INVALID"
    BY DEF StageReason
  <2> QED
    BY <1>2, <1>3, <2>1, <2>2
<1>15. /\ checks[5][1] <=> OutOfScope(c, o)
      /\ checks[5][2] = "EXISTING_PROJECT_MUTATION_REQUIRES_WORKING_COPY"
      /\ checks[5][3] = "mutation_destructive_intent"
  <2>1. StageOrder[5] = "mutation_destructive_intent"
    BY DEF StageOrder
  <2>2. StageReason("mutation_destructive_intent")
            = "EXISTING_PROJECT_MUTATION_REQUIRES_WORKING_COPY"
    BY DEF StageReason
  <2> QED
    BY <1>2, <1>3, <2>1, <2>2
<1>16. /\ checks[6][1] <=> Executes(c, o)
      /\ checks[6][2] = "EXECUTABLE_COMPOSITE_INPUT_UNSUPPORTED"
      /\ checks[6][3] = "execution_input_closure"
  <2>1. StageOrder[6] = "execution_input_closure"
    BY DEF StageOrder
  <2>2. StageReason("execution_input_closure") = "EXECUTABLE_COMPOSITE_INPUT_UNSUPPORTED"
    BY DEF StageReason
  <2> QED
    BY <1>2, <1>3, <2>1, <2>2
<1>5. \/ (\A i \in 1..6 : ~checks[i][1]) /\ FirstRefusal(checks) = Allowed
      \/ \E i \in 1..6 : /\ checks[i][1]
                         /\ \A j \in 1..6 : checks[j][1] => i <= j
                         /\ FirstRefusal(checks) = Refused(checks[i][2], checks[i][3])
  BY <1>1, FirstOf
<1>6. CASE (\A i \in 1..6 : ~checks[i][1]) /\ FirstRefusal(checks) = Allowed
  BY <1>4, <1>6, <1>11, <1>12, <1>13, <1>14, <1>15, <1>16 DEF ShadowVerdict, f
<1>7. CASE \E i \in 1..6 : /\ checks[i][1]
                         /\ \A j \in 1..6 : checks[j][1] => i <= j
                         /\ FirstRefusal(checks) = Refused(checks[i][2], checks[i][3])
  <2>1. PICK i \in 1..6 : /\ checks[i][1]
                         /\ \A j \in 1..6 : checks[j][1] => i <= j
                         /\ FirstRefusal(checks) = Refused(checks[i][2], checks[i][3])
    BY <1>7
  <2>2. i \in {1, 2, 3, 4, 5, 6}
    OBVIOUS
  <2>3. \A j \in 1..6 : j < i => ~checks[j][1]
    BY <2>1
  <2>4. CASE i = 1
    BY <2>1, <2>3, <2>4, <1>4, <1>11, <1>12, <1>13, <1>14, <1>15, <1>16 DEF ShadowVerdict, f
  <2>5. CASE i = 2
    BY <2>1, <2>3, <2>5, <1>4, <1>11, <1>12, <1>13, <1>14, <1>15, <1>16 DEF ShadowVerdict, f
  <2>6. CASE i = 3
    BY <2>1, <2>3, <2>6, <1>4, <1>11, <1>12, <1>13, <1>14, <1>15, <1>16 DEF ShadowVerdict, f
  <2>7. CASE i = 4
    BY <2>1, <2>3, <2>7, <1>4, <1>11, <1>12, <1>13, <1>14, <1>15, <1>16 DEF ShadowVerdict, f
  <2>8. CASE i = 5
    BY <2>1, <2>3, <2>8, <1>4, <1>11, <1>12, <1>13, <1>14, <1>15, <1>16 DEF ShadowVerdict, f
  <2>9. CASE i = 6
    BY <2>1, <2>3, <2>9, <1>4, <1>11, <1>12, <1>13, <1>14, <1>15, <1>16 DEF ShadowVerdict, f
  <2> QED
    BY <2>2, <2>4, <2>5, <2>6, <2>7, <2>8, <2>9
<1> QED
  BY <1>5, <1>6, <1>7

\* The two judges agree on every call, whatever call() observes.
THEOREM PoliciesAgree ==
    ASSUME NEW c \in Calls, NEW o
    PROVE  Agree(c, o)
<1>1. Legacy(c, o) = LegacyVerdict(c, o) /\ Pipeline(c, Facts(c, o)) = ShadowVerdict(c, o)
  BY LegacyIs, ShadowIs
<1>2. FailsFirst(c) <=> Unknown(c) \/ Invalid(c) \/ BarredFrom(c) \/ BadPath(c)
  BY DEF FailsFirst, Unknown, Invalid, BarredFrom, BadPath
<1>3. c.path = c.again => (BadPath(c) <=> BadAgain(c))
  BY DEF BadPath, BadAgain
<1>4. PathShadowsReason(c) <=> BadAgain(c)
  BY DEF PathShadowsReason, BadAgain
<1>5. /\ Allowed.allowed
      /\ \A r, s : ~Refused(r, s).allowed
  BY DEF Allowed, Refused
<1>6. Shadow(c, o) = IF Unknown(c) THEN Refused("UNKNOWN_TOOL", "policy_pipeline")
                     ELSE IF ~c.small
                     THEN Refused("POLICY_SHADOW_EVALUATION_FAILED", "policy_pipeline")
                     ELSE ShadowVerdict(c, o)
  BY <1>1 DEF Shadow, Unknown
<1>7. /\ Legacy(c, o).allowed <=> ~FailsFirst(c) /\ ~CapabilityFails(c, o)
                                 /\ ~WrongScope(c, o) /\ ~TooComposite(c, o)
  BY <1>1, <1>2, <1>5 DEF LegacyVerdict
<1>8. /\ Shadow(c, o).allowed <=>
            /\ ~Unknown(c) /\ c.small /\ ~BadAgain(c) /\ ~Invalid(c) /\ ~BarredFrom(c)
            /\ ~Unverified(c, o) /\ ~OutOfScope(c, o) /\ ~Executes(c, o)
  BY <1>5, <1>6 DEF ShadowVerdict
<1>9. ~Legacy(c, o).allowed => ~Shadow(c, o).allowed \/ c.path # c.again
  BY <1>2, <1>3, <1>7, <1>8 DEF Unverified, OutOfScope, Executes
<1>10. c.small /\ c.path = c.again => (Shadow(c, o).allowed <=> Legacy(c, o).allowed)
  BY <1>2, <1>3, <1>7, <1>8 DEF Unverified, OutOfScope, Executes
<1>11. c.small /\ ~PathShadowsReason(c) /\ c.path = c.again => Shadow(c, o) = Legacy(c, o)
  BY <1>1, <1>2, <1>3, <1>4, <1>6
  DEF LegacyVerdict, ShadowVerdict, Unverified, OutOfScope, Executes
<1>12. Shadow(c, o).allowed \in BOOLEAN /\ Legacy(c, o).allowed \in BOOLEAN
  <2>1. Allowed.allowed \in BOOLEAN /\ \A r, s : Refused(r, s).allowed \in BOOLEAN
    BY DEF Allowed, Refused
  <2> QED
    BY <1>1, <1>6, <2>1 DEF LegacyVerdict, ShadowVerdict
<1>13. c.small /\ c.path = c.again => Shadow(c, o).allowed = Legacy(c, o).allowed
  BY <1>10, <1>12
<1> QED
  BY <1>9, <1>11, <1>13 DEF Agree

\* They agree in every state of the service.  The gate keeps nothing that would be
\* needed for it: ShadowAgrees follows from PoliciesAgree, not from what Spec reaches.
THEOREM ShadowAgreesHolds == Spec => []ShadowAgrees
<1>1. ShadowAgrees
  BY PoliciesAgree DEF ShadowAgrees, Disagreements, Disputed
<1> QED
  BY <1>1, PTL
=============================================================================
