--------------------------- MODULE HandoffProofs ---------------------------
(***************************************************************************)
(* Proofs about the handoff, for any number of changes of the design,      *)
(* executions of the run and sessions.                                     *)
(***************************************************************************)
EXTENDS Handoff, SequenceTheorems, WellFoundedInduction, TLAPS

(***************************************************************************)
(* The inductive invariant: the run                                        *)
(***************************************************************************)

\* A run that was launched and has neither failed nor been reset.
Built == run.phase \in {"queued", "building", "routed", "written"}

\* A run knows what it reads.  Unless NEEDS_REFRESH is set that is the closure as it
\* is; a queued run is going to read the files as they are.
Tracked ==
    /\ closure.files <= edits /\ run.marks \in {0, run.exec}
    /\ Built => run.in \in Closures
    /\ Built /\ ~run.needs => run.in.set = closure.set
    /\ Built /\ ~run.needs /\ run.phase # "queued" => run.in.files = closure.files

\* A bitstream is there of a run that was written; it is the one of that run, or
\* something else was put over it.
BitIsOfRun ==
    bit # None => /\ run.phase = "written" /\ bit.exec <= run.exec
                  /\ bit.in # None => bit.exec = run.exec /\ bit.in = run.in

\* The artifact manifest on disk: its bitstream belongs to its markers, and as long as
\* they are the markers of the run, the run has not moved since.
ArtIsOfRun ==
    art # None => /\ art.marks > 0 /\ art.bit.exec = art.marks /\ art.marks <= run.exec
                  /\ art.marks = run.marks => run.phase = "written"

\* The types of what the tools work on.
WorldType ==
    /\ closure \in Closures /\ edits \in 0..MaxEdits
    /\ session \in [gen : 1..MaxGen, live : BOOLEAN]
    /\ run \in Runs /\ bit \in Bits \cup {None} /\ launch \in Launches \cup {None}
    /\ art \in ArtifactManifests \cup {None} /\ rep \in ReportManifests \cup {None}
RunInv == WorldType /\ Tracked /\ BitIsOfRun /\ ArtIsOfRun

(***************************************************************************)
(* The inductive invariant: the steps of a tool                            *)
(***************************************************************************)

\* The tools and the names of their steps.
ToolNames == {"implementation", "bitstream", "progress", "artifacts", "manifest",
              "reports", "audit", "bundle"}
LaunchNames   == {"preflight", "launch"}
ProgressNames == {"status", "terminal"}
EvidenceNames == {"evidence", "context", "markers", "export", "identity", "validate",
                  "generate", "write"}
AuditNames    == {"configurations", "load", "current_run", "signoff", "judge", "evaluate",
                  "reuse", "bundle"}
Names == LaunchNames \cup ProgressNames \cup EvidenceNames \cup AuditNames

\* Which step may come after which, in any tool.
Follows ==
    {<<"preflight", "launch">>, <<"status", "terminal">>,
     <<"evidence", "context">>, <<"evidence", "generate">>, <<"context", "markers">>,
     <<"context", "validate">>, <<"markers", "export">>, <<"generate", "write">>,
     <<"configurations", "identity">>, <<"identity", "context">>,
     <<"identity", "current_run">>, <<"identity", "reuse">>, <<"load", "identity">>,
     <<"validate", "load">>, <<"validate", "bundle">>, <<"write", "evaluate">>,
     <<"current_run", "signoff">>, <<"current_run", "judge">>,
     <<"current_run", "identity">>, <<"signoff", "evaluate">>, <<"judge", "evaluate">>,
     <<"evaluate", "load">>, <<"reuse", "load">>}

\* A plan of a tool: its steps follow one another as above, and a load has its two
\* comparisons behind it.
InOrder(q) ==
    /\ \A i \in 1..Len(q) : i < Len(q) => <<q[i], q[i + 1]>> \in Follows
    /\ \A i \in 1..Len(q) : q[i] = "load" => i + 2 <= Len(q) /\ q[i + 2] = "current_run"

\* A bundle ends with BundleSteps, after an audit or after the look at one to use again.
Bundling(q) ==
    /\ \A i \in 1..Len(q) : Len(q) - i < 7 => q[i] = BundleSteps[7 - (Len(q) - i)]
    /\ \A i \in 1..Len(q) : Len(q) - i = 7 => q[i] \in {"evaluate", "reuse"}
    /\ \A i \in 1..Len(q) : q[i] = "evaluate" => Len(q) - i = 7
    /\ \A i \in 1..Len(q) : q[i] = "reuse" => Len(q) - i = 7 /\ i <= 2

\* What is left to do for each tool.
Belongs(tool, q) ==
    /\ tool \in {"implementation", "bitstream"} => \A i \in 1..Len(q) : q[i] \in LaunchNames
    /\ tool = "progress" => \A i \in 1..Len(q) : q[i] \in ProgressNames
    /\ tool \in {"artifacts", "manifest", "reports"} =>
           /\ \A i \in 1..Len(q) : q[i] \in EvidenceNames
           /\ \A i \in 1..Len(q) : q[i] \in {"export", "validate", "write"} => i = Len(q)
    /\ tool = "audit" =>
           /\ \A i \in 1..Len(q) :
                  q[i] \in (EvidenceNames \cup AuditNames)
                           \ {"markers", "export", "bundle", "reuse"}
           /\ \A i \in 1..Len(q) : q[i] = "evaluate" <=> i = Len(q)
    /\ tool = "bundle" =>
           /\ \A i \in 1..Len(q) :
                  q[i] \in (EvidenceNames \cup AuditNames) \ {"markers", "export"}
           /\ Bundling(q)

\* The types of a tool and of its local variables.
Handlers == [tool : ToolNames \cup {"none"}, todo : Seq(Names), id : Closures \cup {None},
             seen : Logs \cup {None}, expect : BOOLEAN]
Locals == [marks : 0..MaxExecs \cup {None}, art : ArtifactManifests \cup {None},
           load : ReportManifests \cup {None}, rep : ReportManifests \cup {None}]
\* What is left of the tool that runs is a plan of that tool.
Laid == /\ call \in Handlers /\ got \in Locals
        /\ call # Idle => /\ call.tool \in ToolNames /\ call.todo # << >>
                          /\ InOrder(call.todo) /\ Belongs(call.tool, call.todo)

(***************************************************************************)
(* The inductive invariant: identities                                     *)
(***************************************************************************)

\* The execution the manifest on disk is about is still that of the run.
Same == art # None /\ art.marks = run.marks

\* An identity that was captured is that of such an execution, if it has not been
\* dirtied since; one that was confirmed is.
Captured(id)  == id \in Closures /\ (Same /\ ~run.needs => run.in = id)
Confirmed(id) == id \in Closures /\ (Same => run.in = id)

\* What each step relies on: the identity read before it, the manifests accepted so far.
Identities ==
    /\ Now = "launch" => call.id \in Closures
    /\ Now \in {"context", "current_run", "generate", "reuse"} => Captured(call.id)
    /\ Now \in {"validate", "markers", "export"} => Confirmed(call.id)
    /\ Now = "write" => call.id \in Closures /\ (call.seen # None => Confirmed(call.id))
    /\ got.rep # None => Confirmed(got.rep.id) /\ got.rep.gen = session.gen
    /\ got.art # None => got.art = art /\ got.art.gen = session.gen
                         /\ got.art.bit.in \in {got.art.id, None}

\* How far a bundle is, once its audit is there.
InBundle == call # Idle /\ call.tool = "bundle" /\ ~InAudit
Left     == Len(call.todo)

\* Which tool has found what.
Findings ==
    /\ got.marks # None => got.marks > 0
    /\ call = Idle \/ call.tool \in {"implementation", "bitstream", "progress"} => got = Nothing
    /\ call # Idle /\ call.tool \notin {"audit", "bundle"} => got.art = None /\ got.rep = None
    /\ InBundle /\ Left > 1 => got.art = None
    /\ InBundle /\ got.art # None /\ got.rep # None => got.art.id = got.rep.id

\* A fresh audit is of one build.
FreshAudit(a) == a.fresh => a.art # None /\ a.rep # None /\ OneBuild(a.art, a.rep)
\* The audits: the one a bundle is being made with and the one of the last bundle.
Verdicts ==
    /\ verdict # None => FreshAudit(verdict)
    /\ bundle # None => FreshAudit(bundle) /\ bundle.fresh
    /\ call # Idle /\ call.tool = "bundle" /\ verdict # None /\ verdict.fresh
           => verdict.art = art
    /\ InBundle /\ Left > 7 => bundle # None
    /\ InBundle /\ Left < 8 => /\ verdict # None
                               /\ verdict.fresh /\ Left \in {5, 6} => got.load = verdict.rep
                               /\ verdict.fresh /\ Left < 5 => got.rep = verdict.rep

(***************************************************************************)
(* The run and its files                                                   *)
(***************************************************************************)

\* The execution a manifest is about does not change its origin, and stays dirty.
Stays == Same' => Same /\ run'.in = run.in /\ (run.needs => run'.needs)

\* Then what was captured or confirmed still is.
LEMMA StaysTrue ==
    ASSUME RunInv, Stays, NEW id
    PROVE  /\ Captured(id) => (id \in Closures /\ (Same' /\ ~run'.needs => run'.in = id))
           /\ Confirmed(id) => (id \in Closures /\ (Same' => run'.in = id))
  BY DEF Stays, Captured, Confirmed

\* What was not written when its markers were read is not what the manifest is about.
LEMMA NotTheSame ==
    ASSUME RunInv, run.phase # "written"
    PROVE  ~Same
  BY DEF RunInv, ArtIsOfRun, Same

\* A dropped run has nothing built.
LEMMA DroppedIs ==
    ASSUME run \in Runs, NEW phase \in Phases, NEW r, r = Dropped(phase)
    PROVE  /\ r \in Runs /\ r.phase = phase /\ r.exec = run.exec /\ r.marks = run.marks
           /\ r.in = None /\ r.needs = FALSE
  BY DEF Dropped, Runs

\* A run that ends without results.
LEMMA DropKeeps ==
    ASSUME RunInv, run' = Dropped("failed"), Busy,
           UNCHANGED <<closure, edits, bit, art, rep>>,
           session' \in [gen : 1..MaxGen, live : BOOLEAN],
           launch' \in Launches \cup {None}
    PROVE  RunInv' /\ Stays
<1>1. /\ run' \in Runs /\ run'.phase = "failed" /\ run'.exec = run.exec
      /\ run'.marks = run.marks /\ run'.in = None /\ run'.needs = FALSE
  BY DroppedIs DEF RunInv, WorldType, Phases
<1>2. ~Same /\ run.phase # "written"
  BY NotTheSame DEF Busy
<1>3. WorldType'
  BY <1>1 DEF RunInv, WorldType
<1>4. Tracked'
  BY <1>1 DEF RunInv, WorldType, Tracked, Built
<1>5. BitIsOfRun'
  BY <1>1, <1>2 DEF RunInv, BitIsOfRun
<1>6. ArtIsOfRun' /\ ~Same'
  BY <1>1, <1>2 DEF RunInv, ArtIsOfRun, Same
<1> QED
  BY <1>3, <1>4, <1>5, <1>6 DEF RunInv, Stays

\* Steps that leave the run as it is.
LEMMA RunRests ==
    ASSUME RunInv, UNCHANGED <<closure, edits, run, bit, art, rep>>,
           session' \in [gen : 1..MaxGen, live : BOOLEAN], launch' \in Launches \cup {None}
    PROVE  RunInv' /\ Stays
<1>1. WorldType'
  BY DEF RunInv, WorldType
<1> QED
  BY <1>1 DEF RunInv, Tracked, Built, BitIsOfRun, ArtIsOfRun, Stays, Same


\* A file of the closure is edited (configure_run or an editor).
LEMMA EditFilesKeeps ==
    ASSUME RunInv, EditFiles, UNCHANGED <<art, rep>>
    PROVE  RunInv' /\ Stays
<1>1. /\ edits' = edits + 1 /\ edits' \in 0..MaxEdits
      /\ UNCHANGED <<session, bit, launch, art, rep>>
  BY RunAssumption DEF EditFiles, EditLeft, RunInv, WorldType
<1>2. closure' \in Closures /\ closure'.files = closure.files + 1 /\ closure'.set = closure.set
  <2>1. closure.files + 1 \in 0..MaxEdits
    BY <1>1, RunAssumption DEF RunInv, WorldType, Tracked, Closures
  <2>2. closure' = [closure EXCEPT !.files = closure.files + 1]
    BY DEF EditFiles
  <2> QED
    BY <2>1, <2>2 DEF RunInv, WorldType, Closures
<1>3. /\ run' \in Runs /\ run'.phase = run.phase /\ run'.exec = run.exec
      /\ run'.marks = run.marks /\ run'.in = run.in /\ (run.needs => run'.needs)
      /\ run.phase = "queued" => run' = run
      /\ ~run'.needs /\ run.phase # "queued" => run.in = None \/ run.in = closure'
  <2>1. CASE run.phase = "queued"
    BY <2>1 DEF EditFiles, RunInv, WorldType
  <2>2. CASE run.phase # "queued"
    <3>1. NeedsAfter(closure') \in BOOLEAN
      BY DEF NeedsAfter, RunInv, WorldType, Runs
    <3>2. run' = [run EXCEPT !.needs = NeedsAfter(closure')]
      BY <2>2 DEF EditFiles
    <3>3. run'.needs <=> NeedsAfter(closure')
      BY <3>1, <3>2 DEF RunInv, WorldType, Runs
    <3>4. run' \in Runs /\ run'.phase = run.phase /\ run'.exec = run.exec
          /\ run'.marks = run.marks /\ run'.in = run.in
      BY <3>1, <3>2 DEF RunInv, WorldType, Runs
    <3> QED
      BY <2>2, <3>3, <3>4 DEF NeedsAfter
  <2> QED
    BY <2>1, <2>2
<1>4. WorldType'
  BY <1>1, <1>2, <1>3 DEF RunInv, WorldType
<1>5. Tracked'
  <2>1. closure'.files <= edits' /\ run'.marks \in {0, run'.exec}
    BY <1>1, <1>2, <1>3 DEF RunInv, WorldType, Tracked, Closures
  <2>2. Built' => Built
    BY <1>3 DEF Built
  <2>3. Built' => run'.in \in Closures /\ run'.in # None
    BY <2>2, <1>3, HandoffAssumption DEF RunInv, Tracked
  <2>4. Built' /\ ~run'.needs => run'.in.set = closure'.set
    BY <2>2, <2>3, <1>2, <1>3 DEF RunInv, Tracked
  <2>5. Built' /\ ~run'.needs /\ run'.phase # "queued" => run'.in.files = closure'.files
    BY <2>2, <2>3, <1>2, <1>3 DEF RunInv, Tracked
  <2> QED
    BY <2>1, <2>3, <2>4, <2>5 DEF Tracked, Built
<1> QED
  BY <1>1, <1>3, <1>4, <1>5 DEF RunInv, BitIsOfRun, ArtIsOfRun, Stays, Same

\* A setting of the run changes.
LEMMA EditSettingsKeeps ==
    ASSUME RunInv, EditSettings, UNCHANGED <<art, rep>>
    PROVE  RunInv' /\ Stays
<1>1. /\ edits' = edits + 1 /\ edits' \in 0..MaxEdits
      /\ UNCHANGED <<session, bit, launch, art, rep>>
  BY RunAssumption DEF EditSettings, EditLeft, RunInv, WorldType
<1>2. closure' \in Closures /\ closure'.files = closure.files
  <2>1. 3 - closure.set \in Settings
    BY DEF RunInv, WorldType, Closures, Settings
  <2>2. closure' = [closure EXCEPT !.set = 3 - closure.set]
    BY DEF EditSettings
  <2> QED
    BY <2>1, <2>2 DEF RunInv, WorldType, Closures
<1>3. /\ run' \in Runs /\ run'.phase = run.phase /\ run'.exec = run.exec
      /\ run'.marks = run.marks /\ run'.in = run.in /\ (run.needs => run'.needs)
      /\ ~run'.needs => run.in = None \/ run.in = closure'
  <2>1. NeedsAfter(closure') \in BOOLEAN
    BY DEF NeedsAfter, RunInv, WorldType, Runs
  <2>2. run' = [run EXCEPT !.needs = NeedsAfter(closure')]
    BY DEF EditSettings
  <2>3. run'.needs <=> NeedsAfter(closure')
    BY <2>1, <2>2 DEF RunInv, WorldType, Runs
  <2>4. run' \in Runs /\ run'.phase = run.phase /\ run'.exec = run.exec
        /\ run'.marks = run.marks /\ run'.in = run.in
    BY <2>1, <2>2 DEF RunInv, WorldType, Runs
  <2> QED
    BY <2>3, <2>4 DEF NeedsAfter
<1>4. WorldType'
  BY <1>1, <1>2, <1>3 DEF RunInv, WorldType
<1>5. Tracked'
  <2>1. closure'.files <= edits' /\ run'.marks \in {0, run'.exec}
    BY <1>1, <1>2, <1>3 DEF RunInv, WorldType, Tracked, Closures
  <2>2. Built' => Built
    BY <1>3 DEF Built
  <2>3. Built' => run'.in \in Closures /\ run'.in # None
    BY <2>2, <1>3, HandoffAssumption DEF RunInv, Tracked
  <2>4. Built' /\ ~run'.needs => run'.in = closure'
    BY <2>3, <1>3
  <2> QED
    BY <2>1, <2>3, <2>4 DEF Tracked, Built
<1> QED
  BY <1>1, <1>3, <1>4, <1>5 DEF RunInv, BitIsOfRun, ArtIsOfRun, Stays, Same

\* A new execution: what the manifest on disk is about is over.
LEMMA ExecutionKeeps ==
    ASSUME RunInv, run' \in Runs, run'.exec = run.exec + 1, run'.marks = run'.exec,
           run.phase # "written", run'.phase \in {"queued", "building"}, run'.in \in Closures,
           ~run'.needs => /\ run'.in.set = closure.set
                          /\ run'.phase = "building" => run'.in.files = closure.files,
           launch' \in Launches \cup {None},
           UNCHANGED <<closure, edits, session, bit, art, rep>>
    PROVE  RunInv' /\ Stays
<1>1. WorldType'
  BY DEF RunInv, WorldType
<1>2. run.exec \in Nat
  BY RunAssumption DEF RunInv, WorldType, Runs
<1>3. Tracked'
  BY DEF RunInv, WorldType, Tracked, Built
<1>4. BitIsOfRun'
  BY DEF RunInv, BitIsOfRun
<1>5. ArtIsOfRun' /\ ~Same'
  <2>1. art # None => art.marks \in Nat
    BY RunAssumption DEF RunInv, WorldType, ArtifactManifests
  <2> QED
    BY <1>2, <2>1 DEF RunInv, ArtIsOfRun, Same
<1> QED
  BY <1>1, <1>3, <1>4, <1>5 DEF RunInv, Stays

\* The user launches the run in the GUI.
LEMMA UserLaunchesKeeps ==
    ASSUME RunInv, UserLaunches, UNCHANGED <<art, rep>>
    PROVE  RunInv' /\ Stays
<1>1. run.exec + 1 \in 0..MaxExecs
  BY RunAssumption DEF RunInv, WorldType, Runs, UserLaunches, ExecLeft
<1>2. /\ run' \in Runs /\ run'.exec = run.exec + 1 /\ run'.marks = run.exec + 1
      /\ run'.phase = "queued" /\ run'.in = closure
  BY <1>1 DEF RunInv, WorldType, Runs, UserLaunches, Phases
<1> QED
  BY <1>2, ExecutionKeeps DEF UserLaunches, RunInv, WorldType

\* The run reads, routes, writes.
LEMMA RunAdvances ==
    ASSUME RunInv, RunReads \/ RunRoutes \/ RunWrites, UNCHANGED <<art, rep>>
    PROVE  RunInv' /\ Stays
<1>1. /\ UNCHANGED <<closure, edits, session, launch, art, rep>>
      /\ run.phase \in {"queued", "building"} /\ Built /\ ~Same
  BY NotTheSame DEF RunReads, RunRoutes, RunWrites, Built
<1>2. /\ run' \in Runs /\ run'.exec = run.exec /\ run'.marks = run.marks
      /\ run'.needs = run.needs
      /\ run'.phase \in {"building", "routed", "written"}
      /\ run'.phase = "written" => RunWrites
      /\ run'.in \in Closures /\ run'.in.set = run.in.set
      /\ run'.in.files = IF run.phase = "queued" THEN closure.files ELSE run.in.files
  <2>1. CASE RunReads
    <3>1. PICK in \in Closures : in = run.in
      BY <1>1 DEF RunInv, Tracked
    <3>2. run' = [run EXCEPT !.phase = "building", !.in = [in EXCEPT !.files = closure.files]]
      BY <2>1, <3>1 DEF RunReads
    <3>3. [in EXCEPT !.files = closure.files] \in Closures
      BY DEF RunInv, WorldType, Closures
    <3>4. PICK new \in Closures : new = [in EXCEPT !.files = closure.files]
      BY <3>3
    <3>5. new.set = in.set /\ new.files = closure.files
      BY <3>4 DEF Closures
    <3>6. run' = [run EXCEPT !.phase = "building", !.in = new]
      BY <3>2, <3>4
    <3>7. /\ run' \in Runs /\ run'.exec = run.exec /\ run'.marks = run.marks
          /\ run'.needs = run.needs /\ run'.phase = "building" /\ run'.in = new
      BY <3>6 DEF RunInv, WorldType, Runs, Phases
    <3> QED
      BY <2>1, <3>1, <3>5, <3>7 DEF RunReads
  <2>2. CASE RunRoutes
    BY <1>1, <2>2 DEF RunRoutes, RunInv, WorldType, Tracked, Runs, Phases
  <2>3. CASE RunWrites
    BY <1>1, <2>3 DEF RunWrites, RunInv, WorldType, Tracked, Runs, Phases
  <2> QED
    BY <2>1, <2>2, <2>3
<1>3. /\ ~RunWrites => bit' = bit
      /\ RunWrites => bit' = [exec |-> run.exec, in |-> run.in] /\ run'.phase = "written"
                      /\ run'.in = run.in
  BY DEF RunReads, RunRoutes, RunWrites, RunInv, WorldType, Runs
<1>4. bit' \in Bits \cup {None}
  BY <1>3 DEF RunInv, WorldType, Bits, Runs
<1>5. WorldType'
  BY <1>1, <1>2, <1>4 DEF RunInv, WorldType
<1>6. Tracked'
  BY <1>1, <1>2 DEF RunInv, WorldType, Tracked, Built
<1>7. BitIsOfRun'
  <2>1. CASE RunWrites
    BY <2>1, <1>2, <1>3, RunAssumption DEF BitIsOfRun, RunInv, WorldType, Runs
  <2>2. CASE ~RunWrites
    BY <2>2, <1>1, <1>2, <1>3 DEF BitIsOfRun, RunInv
  <2> QED
    BY <2>1, <2>2
<1>8. ~Same' /\ ArtIsOfRun'
  BY <1>1, <1>2 DEF RunInv, ArtIsOfRun, Same
<1> QED
  BY <1>5, <1>6, <1>7, <1>8 DEF RunInv, Stays

\* The run directory is emptied.
LEMMA ClearKeeps ==
    ASSUME RunInv, run' \in Runs, run'.exec = run.exec, run'.marks = 0, bit' = None,
           Built' => /\ Built /\ run'.phase = run.phase /\ run'.in = run.in
                     /\ run'.needs = run.needs,
           UNCHANGED <<closure, edits, session, launch, art, rep>>
    PROVE  RunInv' /\ Stays
<1>1. WorldType'
  BY DEF RunInv, WorldType
<1>2. Tracked'
  BY DEF RunInv, Tracked, Built
<1>3. BitIsOfRun'
  BY DEF BitIsOfRun
<1>4. ArtIsOfRun' /\ ~Same'
  BY RunAssumption DEF RunInv, WorldType, ArtifactManifests, ArtIsOfRun, Same
<1> QED
  BY <1>1, <1>2, <1>3, <1>4 DEF RunInv, Stays

\* clean_run_outputs.
LEMMA CleanKeeps ==
    ASSUME RunInv, CleanRunOutputs, UNCHANGED <<art, rep>>
    PROVE  RunInv' /\ Stays
<1>1. /\ run' \in Runs /\ run'.exec = run.exec /\ run'.marks = 0 /\ run'.phase = run.phase
      /\ run'.in = run.in /\ run'.needs = run.needs
  BY RunAssumption DEF CleanRunOutputs, RunInv, WorldType, Runs
<1> QED
  BY <1>1, ClearKeeps DEF CleanRunOutputs, Built

\* reset_runs.
LEMMA ResetKeeps ==
    ASSUME RunInv, ResetRun, UNCHANGED <<art, rep>>
    PROVE  RunInv' /\ Stays
<1>1. PICK r : r = Dropped("not_started")
  OBVIOUS
<1>2. r \in Runs /\ r.phase = "not_started" /\ r.exec = run.exec
  BY <1>1, DroppedIs DEF RunInv, WorldType, Phases
<1>3. run' = [r EXCEPT !.marks = 0]
  BY <1>1 DEF ResetRun
<1>4. run' \in Runs /\ run'.exec = run.exec /\ run'.marks = 0 /\ run'.phase = "not_started"
  BY <1>2, <1>3, RunAssumption DEF Runs
<1> QED
  BY <1>4, ClearKeeps DEF ResetRun, Built

\* Something else overwrites the bitstream.
LEMMA OverwriteKeeps ==
    ASSUME RunInv, NEW e \in {0, run.exec}, OverwriteBit(e), UNCHANGED <<art, rep>>
    PROVE  RunInv' /\ Stays
<1>1. UNCHANGED <<closure, edits, session, run, launch, art, rep>>
      /\ bit' = [exec |-> e, in |-> None] /\ bit # None
  BY DEF OverwriteBit
<1>2. run.exec \in 0..MaxExecs
  BY DEF RunInv, WorldType, Runs
<1>3. e \in 0..MaxExecs /\ e <= run.exec
  BY <1>2, RunAssumption
<1>4. bit' \in Bits /\ bit'.exec = e /\ bit'.in = None
  BY <1>1, <1>3 DEF Bits
<1>5. WorldType'
  BY <1>1, <1>4 DEF RunInv, WorldType
<1>6. BitIsOfRun'
  BY <1>1, <1>3, <1>4 DEF RunInv, BitIsOfRun
<1> QED
  BY <1>1, <1>5, <1>6 DEF RunInv, Tracked, Built, ArtIsOfRun, Stays, Same

\* The session starts, stops or is cancelled.
LEMMA SessionKeeps ==
    ASSUME RunInv, StopSession \/ CancelActiveOperation \/ StartSession, UNCHANGED <<art, rep>>
    PROVE  RunInv' /\ Stays
<1>1. session' \in [gen : 1..MaxGen, live : BOOLEAN] /\ launch' \in Launches \cup {None}
  <2>1. session.gen \in 1..MaxGen /\ launch \in Launches \cup {None}
    BY DEF RunInv, WorldType
  <2>2. CASE StartSession
    <3>1. session.gen + 1 \in 1..MaxGen
      BY <2>1, <2>2, RunAssumption DEF StartSession, SessionLeft
    <3> QED
      BY <2>1, <2>2, <3>1 DEF StartSession
  <2>3. CASE session' = [session EXCEPT !.live = FALSE] /\ launch' \in {launch, None}
    BY <2>1, <2>3 DEF RunInv, WorldType
  <2> QED
    BY <2>2, <2>3 DEF StopSession, CancelActiveOperation
<1>2. UNCHANGED <<closure, edits, bit, art, rep>>
  BY DEF StopSession, CancelActiveOperation, StartSession
<1>3. run' = run \/ (Busy /\ run' = Dropped("failed"))
  BY DEF StopSession, CancelActiveOperation, StartSession, Interrupted
<1> QED
  BY <1>1, <1>2, <1>3, RunRests, DropKeeps

\* What Vivado, the user and a cancellation do.
LEMMA WorldKeeps ==
    ASSUME RunInv, World \/ CleanRunOutputs, UNCHANGED <<art, rep>>
    PROVE  RunInv' /\ Stays
<1>1. CASE RunFails
  BY <1>1, DropKeeps DEF RunFails, RunInv, WorldType
<1> QED
  BY <1>1, ResetKeeps, EditFilesKeeps, EditSettingsKeeps, RunAdvances, UserLaunchesKeeps,
     OverwriteKeeps, SessionKeeps, CleanKeeps DEF World

(***************************************************************************)
(* The steps of a tool                                                     *)
(***************************************************************************)

\* What is left of a tool's steps is in order as well.
LEMMA RestIsLaid ==
    ASSUME NEW tool, NEW p \in Seq(Names), NEW q \in Seq(Names), NEW n \in Nat,
           Len(q) = Len(p) - n, \A i \in 1..Len(q) : q[i] = p[i + n],
           InOrder(p), Belongs(tool, p)
    PROVE  InOrder(q) /\ Belongs(tool, q)
<1>1. Len(p) \in Nat /\ Len(q) \in Nat
  OBVIOUS
<1>2. \A i \in 1..Len(q) : i + n \in 1..Len(p) /\ (i < Len(q) => q[i + 1] = p[(i + n) + 1])
                           /\ Len(q) - i = Len(p) - (i + n)
  BY <1>1
<1>3. InOrder(q)
  <2>1. \A i \in 1..Len(q) : i < Len(q) => <<q[i], q[i + 1]>> \in Follows
    <3> TAKE i \in 1..Len(q)
    <3> HAVE i < Len(q)
    <3>1. q[i] = p[i + n] /\ i + n \in 1..Len(p) /\ q[i + 1] = p[(i + n) + 1]
      BY <1>2
    <3>2. Len(q) - i = Len(p) - (i + n)
      BY <1>2
    <3>3. i + n < Len(p)
      BY <1>1, <3>1, <3>2
    <3>4. <<p[i + n], p[(i + n) + 1]>> \in Follows
      BY <3>1, <3>3 DEF InOrder
    <3> QED
      BY <3>1, <3>4
  <2>2. \A i \in 1..Len(q) : q[i] = "load" => i + 2 <= Len(q) /\ q[i + 2] = "current_run"
    <3> TAKE i \in 1..Len(q)
    <3> HAVE q[i] = "load"
    <3>1. (i + n) + 2 <= Len(p) /\ p[(i + n) + 2] = "current_run"
      BY <1>2 DEF InOrder
    <3> QED
      BY <1>1, <3>1
  <2> QED
    BY <2>1, <2>2 DEF InOrder
<1>4. Belongs(tool, q)
  <2>1. Bundling(p) => Bundling(q)
    BY <1>1, <1>2 DEF Bundling
  <2>2. tool = "bundle" =>
           /\ \A i \in 1..Len(q) :
                  q[i] \in (EvidenceNames \cup AuditNames) \ {"markers", "export"}
           /\ Bundling(q)
    BY <1>2, <2>1 DEF Belongs
  <2>3. \A i \in 1..Len(q) : i = Len(q) <=> i + n = Len(p)
    BY <1>1
  <2>4. tool = "audit" =>
           /\ \A i \in 1..Len(q) :
                  q[i] \in (EvidenceNames \cup AuditNames)
                           \ {"markers", "export", "bundle", "reuse"}
           /\ \A i \in 1..Len(q) : q[i] = "evaluate" <=> i = Len(q)
    BY <1>2, <2>3 DEF Belongs
  <2>5. tool \in {"artifacts", "manifest", "reports"} =>
           /\ \A i \in 1..Len(q) : q[i] \in EvidenceNames
           /\ \A i \in 1..Len(q) : q[i] \in {"export", "validate", "write"} => i = Len(q)
    BY <1>2, <2>3 DEF Belongs
  <2>6. /\ tool \in {"implementation", "bitstream"} => \A i \in 1..Len(q) : q[i] \in LaunchNames
        /\ tool = "progress" => \A i \in 1..Len(q) : q[i] \in ProgressNames
    BY <1>2 DEF Belongs
  <2> QED
    BY <2>2, <2>4, <2>5, <2>6 DEF Belongs
<1> QED
  BY <1>3, <1>4

\* What is left after one step.
LEMMA TailIs ==
    ASSUME NEW p \in Seq(Names), p # << >>
    PROVE  /\ Tail(p) \in Seq(Names) /\ Len(Tail(p)) = Len(p) - 1 /\ Head(p) = p[1]
           /\ \A i \in 1..Len(Tail(p)) : Tail(p)[i] = p[i + 1]
  OBVIOUS

\* What is left after several steps.
LEMMA SubIs ==
    ASSUME NEW p \in Seq(Names), NEW n \in 0..Len(p)
    PROVE  LET q == SubSeq(p, n + 1, Len(p))
           IN  /\ q \in Seq(Names) /\ Len(q) = Len(p) - n
               /\ \A i \in 1..Len(q) : q[i] = p[i + n]
  OBVIOUS

\* The plans the short tools start with are theirs.
LEMMA PlansAreLaid ==
    /\ LET q == <<"preflight", "launch">>
       IN  /\ q \in Seq(Names) /\ InOrder(q)
           /\ Belongs("implementation", q) /\ Belongs("bitstream", q)
    /\ LET q == <<"status", "terminal">>
       IN  q \in Seq(Names) /\ InOrder(q) /\ Belongs("progress", q)
    /\ LET q == <<"evidence", "context", "markers", "export">>
       IN  q \in Seq(Names) /\ InOrder(q) /\ Belongs("artifacts", q)
    /\ ManifestSteps \in Seq(Names) /\ InOrder(ManifestSteps)
    /\ Belongs("manifest", ManifestSteps)
    /\ ReportSteps \in Seq(Names) /\ InOrder(ReportSteps) /\ Belongs("reports", ReportSteps)
<1> USE DEF InOrder, Follows
<1>1. LET q == <<"preflight", "launch">>
       IN  /\ q \in Seq(Names) /\ InOrder(q)
           /\ Belongs("implementation", q) /\ Belongs("bitstream", q)
  BY DEF Names, LaunchNames, Belongs
<1>2. LET q == <<"status", "terminal">>
       IN  q \in Seq(Names) /\ InOrder(q) /\ Belongs("progress", q)
  BY DEF Names, ProgressNames, Belongs
<1>3. LET q == <<"evidence", "context", "markers", "export">>
       IN  q \in Seq(Names) /\ InOrder(q) /\ Belongs("artifacts", q)
  BY DEF Names, EvidenceNames, Belongs
<1>4. /\ ManifestSteps \in Seq(Names) /\ InOrder(ManifestSteps)
      /\ Belongs("manifest", ManifestSteps)
  BY DEF Names, EvidenceNames, Belongs, ManifestSteps
<1>5. ReportSteps \in Seq(Names) /\ InOrder(ReportSteps) /\ Belongs("reports", ReportSteps)
  BY DEF Names, EvidenceNames, Belongs, ReportSteps
<1> QED
  BY <1>1, <1>2, <1>3, <1>4, <1>5

\* So is the plan of run_project_audit.
LEMMA AuditIsLaid ==
    LET q == AuditSteps
    IN  /\ q \in Seq(Names) /\ q # << >> /\ InOrder(q) /\ Belongs("audit", q)
        /\ Len(q) = 9 /\ q[1] = "configurations"
<1> DEFINE q == AuditSteps
<1>1. Len(q) = 9 /\ q \in Seq(Names)
  BY DEF AuditSteps, ManifestSteps, LoadSteps, Names, EvidenceNames, AuditNames
<1>2. /\ q[1] = "configurations" /\ q[2] = "identity" /\ q[3] = "context"
      /\ q[4] = "validate" /\ q[5] = "load" /\ q[6] = "identity"
      /\ q[7] = "current_run" /\ q[8] = "signoff" /\ q[9] = "evaluate"
  BY DEF AuditSteps, ManifestSteps, LoadSteps
<1> HIDE DEF q
<1>3. \A i \in 1..Len(q) : i \in {1, 2, 3, 4, 5, 6, 7, 8, 9}
  BY <1>1
<1>4. InOrder(q)
  BY <1>1, <1>2, <1>3 DEF InOrder, Follows
<1>5. Belongs("audit", q)
  BY <1>1, <1>2, <1>3 DEF Belongs, EvidenceNames, AuditNames
<1> QED
  BY <1>1, <1>2, <1>4, <1>5 DEF q

\* So is that of collect_diagnostic_bundle with an audit of its own.
LEMMA BundleIsLaid ==
    LET q == AuditSteps \o BundleSteps
    IN  /\ q \in Seq(Names) /\ q # << >> /\ InOrder(q) /\ Belongs("bundle", q)
        /\ Len(q) = 16 /\ q[1] = "configurations"
<1> DEFINE q == AuditSteps \o BundleSteps
<1>1. Len(q) = 16 /\ q \in Seq(Names)
  BY DEF AuditSteps, BundleSteps, ManifestSteps, LoadSteps, Names, EvidenceNames, AuditNames
<1>2. /\ q[1] = "configurations" /\ q[2] = "identity" /\ q[3] = "context"
      /\ q[4] = "validate" /\ q[5] = "load" /\ q[6] = "identity"
      /\ q[7] = "current_run" /\ q[8] = "signoff" /\ q[9] = "evaluate"
      /\ q[10] = "load" /\ q[11] = "identity" /\ q[12] = "current_run"
      /\ q[13] = "identity" /\ q[14] = "context" /\ q[15] = "validate"
      /\ q[16] = "bundle"
  BY DEF AuditSteps, BundleSteps, ManifestSteps, LoadSteps
<1> HIDE DEF q
<1>3. \A i \in 1..Len(q) : i \in {1, 2, 3, 4, 5, 6, 7, 8, 9, 10, 11, 12, 13, 14, 15, 16}
  BY <1>1
<1>4. InOrder(q)
  BY <1>1, <1>2, <1>3 DEF InOrder, Follows
<1>5. Belongs("bundle", q)
  <2>1. \A i \in 1..Len(q) : q[i] \in (EvidenceNames \cup AuditNames) \ {"markers", "export"}
    BY <1>1, <1>2, <1>3 DEF EvidenceNames, AuditNames
  <2>2. /\ BundleSteps[1] = "load" /\ BundleSteps[2] = "identity"
        /\ BundleSteps[3] = "current_run" /\ BundleSteps[4] = "identity"
        /\ BundleSteps[5] = "context" /\ BundleSteps[6] = "validate"
        /\ BundleSteps[7] = "bundle"
    BY DEF BundleSteps, LoadSteps, ManifestSteps
  <2>3. Bundling(q)
    BY <1>1, <1>2, <1>3, <2>2 DEF Bundling
  <2> QED
    BY <2>1, <2>3 DEF Belongs
<1> QED
  BY <1>1, <1>2, <1>4, <1>5 DEF q

\* So is that of collect_diagnostic_bundle with the audit of an earlier bundle.
LEMMA ReuseIsLaid ==
    LET q == <<"identity", "reuse">> \o BundleSteps
    IN  /\ q \in Seq(Names) /\ q # << >> /\ InOrder(q) /\ Belongs("bundle", q)
        /\ Len(q) = 9 /\ q[1] = "identity"
<1> DEFINE q == <<"identity", "reuse">> \o BundleSteps
<1>1. Len(q) = 9 /\ q \in Seq(Names)
  BY DEF BundleSteps, ManifestSteps, LoadSteps, Names, EvidenceNames, AuditNames
<1>2. /\ q[1] = "identity" /\ q[2] = "reuse" /\ q[3] = "load"
      /\ q[4] = "identity" /\ q[5] = "current_run" /\ q[6] = "identity"
      /\ q[7] = "context" /\ q[8] = "validate" /\ q[9] = "bundle"
  BY DEF BundleSteps, ManifestSteps, LoadSteps
<1> HIDE DEF q
<1>3. \A i \in 1..Len(q) : i \in {1, 2, 3, 4, 5, 6, 7, 8, 9}
  BY <1>1
<1>4. InOrder(q)
  BY <1>1, <1>2, <1>3 DEF InOrder, Follows
<1>5. Belongs("bundle", q)
  <2>1. \A i \in 1..Len(q) : q[i] \in (EvidenceNames \cup AuditNames) \ {"markers", "export"}
    BY <1>1, <1>2, <1>3 DEF EvidenceNames, AuditNames
  <2>2. /\ BundleSteps[1] = "load" /\ BundleSteps[2] = "identity"
        /\ BundleSteps[3] = "current_run" /\ BundleSteps[4] = "identity"
        /\ BundleSteps[5] = "context" /\ BundleSteps[6] = "validate"
        /\ BundleSteps[7] = "bundle"
    BY DEF BundleSteps, LoadSteps, ManifestSteps
  <2>3. Bundling(q)
    BY <1>1, <1>2, <1>3, <2>2 DEF Bundling
  <2> QED
    BY <2>1, <2>3 DEF Belongs
<1> QED
  BY <1>1, <1>2, <1>4, <1>5 DEF q

\* Concatenation, element by element.
LEMMA ConcatIs ==
    ASSUME NEW a \in Seq(Names), NEW b \in Seq(Names), NEW q, q = a \o b
    PROVE  /\ q \in Seq(Names) /\ Len(q) = Len(a) + Len(b)
           /\ \A i \in 1..Len(a) : q[i] = a[i]
           /\ \A i \in 1..Len(b) : q[Len(a) + i] = b[i]
  OBVIOUS

\* Signoff that has to load or to collect reports of its own.
LEMMA LoadingIsLaid ==
    ASSUME NEW tool \in {"audit", "bundle"}, NEW p \in Seq(Names), Len(p) > 1,
           p[1] = "signoff", InOrder(p), Belongs(tool, p)
    PROVE  LET q == LoadSteps \o <<"judge">> \o Tail(p)
           IN  /\ q \in Seq(Names) /\ q # << >> /\ q[1] = "load" /\ Len(q) = Len(p) + 3
               /\ InOrder(q) /\ Belongs(tool, q)
<1> DEFINE r == LoadSteps \o <<"judge">>
           q == r \o Tail(p)
<1>1. /\ r \in Seq(Names) /\ Len(r) = 4
      /\ r[1] = "load" /\ r[2] = "identity" /\ r[3] = "current_run" /\ r[4] = "judge"
  BY DEF LoadSteps, Names, EvidenceNames, AuditNames
<1> HIDE DEF r
<1>2. /\ Tail(p) \in Seq(Names) /\ Len(Tail(p)) = Len(p) - 1
      /\ \A i \in 1..Len(Tail(p)) : Tail(p)[i] = p[i + 1]
  BY TailIs
<1>3. /\ q \in Seq(Names) /\ Len(q) = Len(p) + 3
      /\ \A i \in 1..4 : q[i] = r[i]
      /\ \A i \in 1..Len(q) : i > 4 => q[i] = p[i - 3]
  <2>1. q \in Seq(Names) /\ Len(q) = Len(p) + 3 /\ \A i \in 1..4 : q[i] = r[i]
    <3> DEFINE t == Tail(p)
    <3>1. r \in Seq(Names) /\ t \in Seq(Names) /\ Len(t) = Len(p) - 1 /\ q = r \o t
      BY <1>1, <1>2
    <3>2. Len(p) \in Nat
      OBVIOUS
    <3> HIDE DEF t, q
    <3>3. q \in Seq(Names) /\ Len(q) = Len(r) + Len(t)
      BY <3>1, ConcatIs, ZenonT(60)
    <3>4. \A i \in 1..Len(r) : q[i] = r[i]
      BY <3>1, ConcatIs
    <3> QED
      BY <1>1, <3>1, <3>2, <3>3, <3>4
  <2>2. ASSUME NEW i \in 1..Len(q), i > 4 PROVE q[i] = p[i - 3]
    <3>1. i - 4 \in 1..Len(Tail(p)) /\ (i - 4) + 1 = i - 3 /\ Len(r) + (i - 4) = i
      BY <1>1, <1>2, <2>1, <2>2
    <3>2. q[i] = Tail(p)[i - 4]
      <4> DEFINE t == Tail(p)
      <4>1. r \in Seq(Names) /\ t \in Seq(Names) /\ i - 4 \in 1..Len(t) /\ q = r \o t
        BY <1>1, <1>2, <3>1
      <4> HIDE DEF t, q
      <4>2. q[Len(r) + (i - 4)] = t[i - 4]
        BY <4>1, ConcatIs
      <4> QED
        BY <3>1, <4>2 DEF t
    <3> QED
      BY <1>2, <3>1, <3>2
  <2> QED
    BY <2>1, <2>2
<1> HIDE DEF q
<1>4. p[2] = "evaluate"
  <2>1. <<p[1], p[2]>> \in Follows
    BY DEF InOrder
  <2> QED
    BY <2>1 DEF Follows
<1>5. /\ q[1] = "load" /\ q[2] = "identity" /\ q[3] = "current_run" /\ q[4] = "judge"
      /\ q[5] = "evaluate"
  BY <1>1, <1>3, <1>4
<1>6. InOrder(q)
  <2>1. ASSUME NEW i \in 1..Len(q), i < Len(q) PROVE <<q[i], q[i + 1]>> \in Follows
    <3>1. CASE i \in {1, 2, 3, 4}
      BY <1>5, <3>1 DEF Follows
    <3>2. CASE i > 4
      <4>1. q[i] = p[i - 3] /\ q[i + 1] = p[(i - 3) + 1] /\ i - 3 \in 1..Len(p) /\ i - 3 < Len(p)
        BY <1>3, <2>1, <3>2
      <4> QED
        BY <4>1 DEF InOrder
    <3> QED
      BY <3>1, <3>2
  <2>2. ASSUME NEW i \in 1..Len(q), q[i] = "load"
        PROVE  i + 2 <= Len(q) /\ q[i + 2] = "current_run"
    <3>1. CASE i \in {1, 2, 3, 4}
      BY <1>3, <1>5, <2>2, <3>1
    <3>2. CASE i > 4
      <4>1. q[i] = p[i - 3] /\ i - 3 \in 1..Len(p)
        BY <1>3, <2>2, <3>2
      <4>2. (i - 3) + 2 <= Len(p) /\ p[(i - 3) + 2] = "current_run"
        BY <2>2, <4>1 DEF InOrder
      <4>3. q[i + 2] = p[(i - 3) + 2]
        BY <1>3, <3>2, <4>2
      <4> QED
        BY <1>3, <4>2, <4>3
    <3> QED
      BY <3>1, <3>2
  <2> QED
    BY <2>1, <2>2 DEF InOrder
<1>7. \A i \in 1..Len(q) : \/ i \in {1, 2, 3, 4}
                           \/ i > 4 /\ i - 3 \in 1..Len(p) /\ q[i] = p[i - 3]
                                    /\ Len(q) - i = Len(p) - (i - 3)
  BY <1>3
<1>8. CASE tool = "audit"
  <2>1. \A i \in 1..Len(q) :
            q[i] \in (EvidenceNames \cup AuditNames) \ {"markers", "export", "bundle", "reuse"}
    BY <1>5, <1>7, <1>8, ZenonT(60) DEF Belongs, EvidenceNames, AuditNames
  <2>2. \A i \in 1..Len(q) : q[i] = "evaluate" <=> i = Len(q)
    <3>1. \A i \in 1..Len(q) : i > 4 => (i = Len(q) <=> i - 3 = Len(p))
      BY <1>3
    <3> QED
      BY <1>3, <1>5, <1>7, <1>8, <3>1 DEF Belongs
  <2> QED
    BY <1>3, <1>5, <1>6, <1>8, <2>1, <2>2 DEF Belongs, q, r
<1>9. CASE tool = "bundle"
  <2>1. Bundling(p)
    BY <1>9 DEF Belongs
  <2>2. Len(p) = 9
    <3>1. 2 \in 1..Len(p) /\ Len(p) \in Nat
      OBVIOUS
    <3>2. Len(p) - 2 = 7
      BY <1>4, <2>1, <3>1 DEF Bundling
    <3> QED
      BY <3>1, <3>2
  <2>3. \A i \in 1..Len(p) : p[i] # "reuse"
    BY <1>4, <2>1, <2>2 DEF Bundling
  <2>4. Bundling(q)
    BY <1>3, <1>5, <1>7, <2>1, <2>2, <2>3 DEF Bundling
  <2>5. \A i \in 1..Len(q) : q[i] \in (EvidenceNames \cup AuditNames) \ {"markers", "export"}
    BY <1>5, <1>7, <1>9 DEF Belongs, EvidenceNames, AuditNames
  <2> QED
    BY <1>3, <1>5, <1>6, <1>9, <2>4, <2>5 DEF Belongs, q, r
<1> QED
  BY <1>8, <1>9

\* And so is a plan into which signoff has put a bundle of reports.
LEMMA ReportingIsLaid ==
    ASSUME NEW tool \in {"audit", "bundle"}, NEW p \in Seq(Names), Len(p) > 1,
           p[1] = "judge", InOrder(p), Belongs(tool, p)
    PROVE  LET q == ReportSteps \o Tail(p)
           IN  /\ q \in Seq(Names) /\ q # << >> /\ q[1] = "evidence" /\ Len(q) = Len(p) + 2
               /\ InOrder(q) /\ Belongs(tool, q)
<1> DEFINE r == ReportSteps
           q == r \o Tail(p)
<1>1. /\ r \in Seq(Names) /\ Len(r) = 3
      /\ r[1] = "evidence" /\ r[2] = "generate" /\ r[3] = "write"
  BY DEF ReportSteps, Names, EvidenceNames
<1> HIDE DEF r
<1>2. /\ Tail(p) \in Seq(Names) /\ Len(Tail(p)) = Len(p) - 1
      /\ \A i \in 1..Len(Tail(p)) : Tail(p)[i] = p[i + 1]
  BY TailIs
<1>3. /\ q \in Seq(Names) /\ Len(q) = Len(p) + 2
      /\ \A i \in 1..3 : q[i] = r[i]
      /\ \A i \in 1..Len(q) : i > 3 => q[i] = p[i - 2]
  <2>1. q \in Seq(Names) /\ Len(q) = Len(p) + 2 /\ \A i \in 1..3 : q[i] = r[i]
    <3> DEFINE t == Tail(p)
    <3>1. r \in Seq(Names) /\ t \in Seq(Names) /\ Len(t) = Len(p) - 1 /\ q = r \o t
      BY <1>1, <1>2
    <3>2. Len(p) \in Nat
      OBVIOUS
    <3> HIDE DEF t, q
    <3>3. q \in Seq(Names) /\ Len(q) = Len(r) + Len(t)
      BY <3>1, ConcatIs, ZenonT(60)
    <3>4. \A i \in 1..Len(r) : q[i] = r[i]
      BY <3>1, ConcatIs
    <3> QED
      BY <1>1, <3>1, <3>2, <3>3, <3>4
  <2>2. ASSUME NEW i \in 1..Len(q), i > 3 PROVE q[i] = p[i - 2]
    <3>1. i - 3 \in 1..Len(Tail(p)) /\ (i - 3) + 1 = i - 2 /\ Len(r) + (i - 3) = i
      BY <1>1, <1>2, <2>1, <2>2
    <3>2. q[i] = Tail(p)[i - 3]
      <4> DEFINE t == Tail(p)
      <4>1. r \in Seq(Names) /\ t \in Seq(Names) /\ i - 3 \in 1..Len(t) /\ q = r \o t
        BY <1>1, <1>2, <3>1
      <4> HIDE DEF t, q
      <4>2. q[Len(r) + (i - 3)] = t[i - 3]
        BY <4>1, ConcatIs
      <4> QED
        BY <3>1, <4>2 DEF t
    <3> QED
      BY <1>2, <3>1, <3>2
  <2> QED
    BY <2>1, <2>2
<1> HIDE DEF q
<1>4. p[2] = "evaluate"
  <2>1. <<p[1], p[2]>> \in Follows
    BY DEF InOrder
  <2> QED
    BY <2>1 DEF Follows
<1>5. /\ q[1] = "evidence" /\ q[2] = "generate" /\ q[3] = "write" /\ q[4] = "evaluate"
  BY <1>1, <1>3, <1>4
<1>6. InOrder(q)
  <2>1. ASSUME NEW i \in 1..Len(q), i < Len(q) PROVE <<q[i], q[i + 1]>> \in Follows
    <3>1. CASE i \in {1, 2, 3}
      BY <1>5, <3>1 DEF Follows
    <3>2. CASE i > 3
      <4>1. q[i] = p[i - 2] /\ q[i + 1] = p[(i - 2) + 1] /\ i - 2 \in 1..Len(p) /\ i - 2 < Len(p)
        BY <1>3, <2>1, <3>2
      <4> QED
        BY <4>1 DEF InOrder
    <3> QED
      BY <3>1, <3>2
  <2>2. ASSUME NEW i \in 1..Len(q), q[i] = "load"
        PROVE  i + 2 <= Len(q) /\ q[i + 2] = "current_run"
    <3>1. i > 3
      BY <1>5, <2>2
    <3>2. q[i] = p[i - 2] /\ i - 2 \in 1..Len(p)
      BY <1>3, <2>2, <3>1
    <3>3. (i - 2) + 2 <= Len(p) /\ p[(i - 2) + 2] = "current_run"
      BY <2>2, <3>2 DEF InOrder
    <3>4. q[i + 2] = p[(i - 2) + 2]
      BY <1>3, <3>1, <3>3
    <3> QED
      BY <1>3, <3>3, <3>4
  <2> QED
    BY <2>1, <2>2 DEF InOrder
<1>7. \A i \in 1..Len(q) : \/ i \in {1, 2, 3}
                           \/ i > 3 /\ i - 2 \in 1..Len(p) /\ q[i] = p[i - 2]
                                    /\ Len(q) - i = Len(p) - (i - 2)
  BY <1>3
<1>8. CASE tool = "audit"
  <2>1. \A i \in 1..Len(q) :
            q[i] \in (EvidenceNames \cup AuditNames) \ {"markers", "export", "bundle", "reuse"}
    BY <1>5, <1>7, <1>8 DEF Belongs, EvidenceNames, AuditNames
  <2>2. \A i \in 1..Len(q) : q[i] = "evaluate" <=> i = Len(q)
    <3>1. \A i \in 1..Len(q) : i > 3 => (i = Len(q) <=> i - 2 = Len(p))
      BY <1>3
    <3> QED
      BY <1>3, <1>5, <1>7, <1>8, <3>1 DEF Belongs
  <2> QED
    BY <1>3, <1>5, <1>6, <1>8, <2>1, <2>2 DEF Belongs, q, r
<1>9. CASE tool = "bundle"
  <2>1. Bundling(p)
    BY <1>9 DEF Belongs
  <2>2. Len(p) = 9
    <3>1. 2 \in 1..Len(p) /\ Len(p) \in Nat
      OBVIOUS
    <3>2. Len(p) - 2 = 7
      BY <1>4, <2>1, <3>1 DEF Bundling
    <3> QED
      BY <3>1, <3>2
  <2>3. \A i \in 1..Len(p) : p[i] # "reuse"
    BY <1>4, <2>1, <2>2 DEF Bundling
  <2>4. Bundling(q)
    BY <1>3, <1>5, <1>7, <2>1, <2>2, <2>3 DEF Bundling
  <2>5. \A i \in 1..Len(q) : q[i] \in (EvidenceNames \cup AuditNames) \ {"markers", "export"}
    BY <1>5, <1>7, <1>9 DEF Belongs, EvidenceNames, AuditNames
  <2> QED
    BY <1>3, <1>5, <1>6, <1>9, <2>4, <2>5 DEF Belongs, q, r
<1> QED
  BY <1>8, <1>9

\* The last of an audit and of a bundle.
LEMMA LastIs ==
    ASSUME NEW p \in Seq(Names), p # << >>, NEW tool \in {"audit", "bundle"}, Belongs(tool, p)
    PROVE  p[Len(p)] = IF tool = "audit" THEN "evaluate" ELSE "bundle"
<1>1. Len(p) \in 1..Len(p) /\ Len(p) - Len(p) = 0
  OBVIOUS
<1>2. BundleSteps[7] = "bundle"
  BY DEF BundleSteps, LoadSteps, ManifestSteps
<1>3. CASE tool = "audit"
  BY <1>1, <1>3 DEF Belongs
<1>4. CASE tool = "bundle"
  <2>1. Bundling(p)
    BY <1>4 DEF Belongs
  <2>2. p[Len(p)] = BundleSteps[7 - (Len(p) - Len(p))]
    BY <1>1, <2>1 DEF Bundling
  <2> QED
    BY <1>1, <1>2, <1>4, <2>2
<1> QED
  BY <1>3, <1>4

\* A bundle whose audit is there: how much is left says what is next.
Backwards == <<"bundle", "validate", "context", "identity", "current_run", "identity",
               "load", "reuse", "identity">>
\* The first step tells how far a bundle is.
LEMMA Position ==
    ASSUME NEW p \in Seq(Names), p # << >>, InOrder(p), Bundling(p),
           \A i \in 1..Len(p) : p[i] # "evaluate"
    PROVE  Len(p) \in 1..9 /\ p[1] = Backwards[Len(p)]
<1>1. /\ BundleSteps[1] = "load" /\ BundleSteps[2] = "identity" /\ BundleSteps[3] = "current_run"
      /\ BundleSteps[4] = "identity" /\ BundleSteps[5] = "context" /\ BundleSteps[6] = "validate"
      /\ BundleSteps[7] = "bundle"
  BY DEF BundleSteps, LoadSteps, ManifestSteps
<1>2. PICK n \in Nat : n = Len(p)
  OBVIOUS
<1>3. n # 0
  BY <1>2
<1>4. n > 7 => n - 7 <= 2 /\ p[n - 7] = "reuse"
  <2> HAVE n > 7
  <2>1. n - 7 \in 1..Len(p) /\ Len(p) - (n - 7) = 7
    BY <1>2
  <2>2. p[n - 7] = "reuse"
    BY <2>1 DEF Bundling
  <2> QED
    BY <2>1, <2>2 DEF Bundling
<1>5. n <= 9
  BY <1>4
<1>6. n = 9 => p[1] = "identity"
  <2> HAVE n = 9
  <2>1. n > 7 /\ n - 7 = 2
    OBVIOUS
  <2>5. 1 \in 1..Len(p) /\ 1 < Len(p)
    <3>1. 1 \in 1..n /\ 1 < n
      OBVIOUS
    <3> QED
      BY <1>2, <3>1
  <2>2. p[n - 7] = "reuse"
    BY <1>4, <2>1
  <2>3. <<p[1], p[1 + 1]>> \in Follows
    BY <2>5 DEF InOrder
  <2>4. <<p[1], "reuse">> \in Follows
    BY <2>1, <2>2, <2>3
  <2> QED
    BY <2>4 DEF Follows
<1>7. n <= 7 => p[1] = BundleSteps[8 - n]
  <2> HAVE n <= 7
  <2>1. 1 \in 1..Len(p) /\ Len(p) - 1 < 7 /\ 7 - (Len(p) - 1) = 8 - n
    BY <1>2, <1>3
  <2> QED
    BY <2>1 DEF Bundling
<1>8. n \in {1, 2, 3, 4, 5, 6, 7, 8, 9}
  BY <1>3, <1>5
<1>9. n = 8 => p[1] = "reuse"
  BY <1>4
<1>10. /\ Backwards[1] = "bundle" /\ Backwards[2] = "validate" /\ Backwards[3] = "context"
       /\ Backwards[4] = "identity" /\ Backwards[5] = "current_run"
       /\ Backwards[6] = "identity" /\ Backwards[7] = "load" /\ Backwards[8] = "reuse"
       /\ Backwards[9] = "identity"
  BY DEF Backwards
<1>11. p[1] = Backwards[n]
  BY <1>1, <1>6, <1>7, <1>8, <1>9, <1>10
<1>12. n \in 1..9
  BY <1>8
<1> QED
  BY <1>2, <1>11, <1>12

\* The end of the stage a tool is in.
LEMMA StageEndIs ==
    ASSUME call.todo \in Seq(Names)
    PROVE  /\ StageEnd \in 0..Len(call.todo)
           /\ StageEnd # 0 =>
                  /\ call.todo[StageEnd] \in StageEnds
                  /\ \A j \in 1..Len(call.todo) : j < StageEnd => call.todo[j] \notin StageEnds
<1> DEFINE I == {i \in 1..Len(call.todo) : call.todo[i] \in StageEnds}
<1>1. I \subseteq Nat /\ I \subseteq 1..Len(call.todo)
  OBVIOUS
<1>2. StageEnd = IF I # {} THEN Min(I) ELSE 0
  BY DEF StageEnd, SelectInSeq
<1>3. CASE I = {}
  BY <1>2, <1>3
<1>4. CASE I # {}
  <2> HIDE DEF I
  <2>1. PICK i \in I : \A j \in I : ~ <<j, i>> \in OpToRel(<, Nat)
    BY <1>1, <1>4, NatLessThanWellFounded, WFMin
  <2>2. \A j \in I : ~(j < i)
    <3> TAKE j \in I
    <3>1. ~ <<j, i>> \in OpToRel(<, Nat)
      BY <2>1
    <3> QED
      BY <1>1, <3>1, SMT DEF OpToRel
  <2>3. \A j \in I : i <= j
    BY <1>1, <2>2
  <2>4. Min(I) \in I /\ \A j \in I : Min(I) <= j
    BY <2>3 DEF Min
  <2>5. StageEnd \in I /\ \A j \in I : StageEnd <= j
    BY <1>2, <1>4, <2>4
  <2>6. StageEnd \in 1..Len(call.todo) /\ call.todo[StageEnd] \in StageEnds
    BY <2>5 DEF I
  <2>7. ASSUME NEW j \in 1..Len(call.todo), j < StageEnd PROVE call.todo[j] \notin StageEnds
    BY <2>5, <2>6, <2>7 DEF I
  <2> QED
    BY <2>6, <2>7
<1> QED
  BY <1>3, <1>4

(***************************************************************************)
(* What a step does to the tool that runs                                  *)
(***************************************************************************)

\* The tool ends, or goes on with its next step.
Ends == call' = Idle /\ got' = Nothing
Goes(id, seen, found) ==
    /\ call' \in Handlers /\ call' # Idle /\ call'.tool = call.tool
    /\ call'.id = id /\ call'.seen = seen /\ got' = found
    /\ Len(call.todo) > 1 /\ call'.todo = Tail(call.todo)

\* What no tool and no finding are.
LEMMA IdleIs ==
    /\ Idle \in Handlers /\ Nothing \in Locals /\ Idle.todo = << >> /\ Idle.tool = "none"
    /\ Idle.id = None /\ Idle.seen = None
    /\ Nothing.art = None /\ Nothing.rep = None /\ Nothing.marks = None /\ Nothing.load = None
  BY DEF Idle, Nothing, Handlers, Locals

\* What a tool that runs has to do.
LEMMA Working ==
    ASSUME Laid, call # Idle
    PROVE  /\ call.todo \in Seq(Names) /\ call.todo # << >> /\ Len(call.todo) \in Nat \ {0}
           /\ Now = call.todo[1] /\ Now \in Names /\ call.tool \in ToolNames
           /\ InOrder(call.todo) /\ Belongs(call.tool, call.todo)
<1>1. /\ call.todo \in Seq(Names) /\ call.todo # << >> /\ call.tool \in ToolNames
      /\ InOrder(call.todo) /\ Belongs(call.tool, call.todo)
  BY DEF Laid, Handlers
<1>2. Len(call.todo) \in Nat \ {0} /\ Head(call.todo) = call.todo[1] /\ call.todo[1] \in Names
  BY <1>1
<1> QED
  BY <1>1, <1>2 DEF Now

\* A step ends the tool or goes on.
LEMMA StepGoes ==
    ASSUME Laid, call # Idle, NEW new \in Handlers, new.tool = call.tool, new.todo = call.todo,
           NEW found, Step(new, found)
    PROVE  Ends \/ Goes(new.id, new.seen, found)
<1>1. CASE Len(call.todo) = 1
  BY <1>1 DEF Step, Advance, Ends
<1>2. CASE Len(call.todo) # 1
  <2>1. call' = [new EXCEPT !.todo = Tail(call.todo)]
    BY <1>2 DEF Step, Advance
  <2>2. PICK k \in Nat : k = Len(call.todo) /\ k > 1
    <3>1. Len(call.todo) \in Nat \ {0}
      BY Working
    <3>2. PICK k \in Nat : k = Len(call.todo)
      BY <3>1
    <3>3. k # 0 /\ k # 1
      BY <1>2, <3>1, <3>2
    <3>4. k > 1
      BY <3>3
    <3> QED
      BY <3>2, <3>4
  <2>3. PICK t \in Seq(Names) : t = Tail(call.todo) /\ Len(t) = k - 1
    BY <2>2, Working, TailIs
  <2>7. t # << >>
    BY <2>2, <2>3
  <2>4. /\ call' \in Handlers /\ call'.tool = call.tool /\ call'.id = new.id
        /\ call'.seen = new.seen /\ call'.todo = t
    BY <2>1, <2>3 DEF Handlers
  <2>5. call' # Idle
    BY <2>4, <2>7, IdleIs
  <2>6. got' = found
    BY <2>5 DEF Step
  <2> QED
    BY <2>2, <2>3, <2>4, <2>5, <2>6 DEF Goes
<1> QED
  BY <1>1, <1>2

\* A tool that has ended leaves nothing to do.
LEMMA EndIsLaid ==
    ASSUME Ends
    PROVE  /\ Laid' /\ Now' = "idle" /\ ~InBundle'
           /\ got'.art = None /\ got'.rep = None /\ got'.marks = None
  BY IdleIs DEF Ends, Laid, Now, InBundle

\* The rest of a tool, from a later step on.
LEMMA RestOfTool ==
    ASSUME Laid, call # Idle, NEW n \in Nat, n >= 1, n < Len(call.todo),
           call' \in Handlers, call' # Idle, call'.tool = call.tool, got' \in Locals,
           Len(call'.todo) = Len(call.todo) - n,
           \A i \in 1..Len(call'.todo) : call'.todo[i] = call.todo[i + n]
    PROVE  /\ Laid' /\ Left' = Left - n
           /\ Now' = call.todo[n + 1] /\ <<call.todo[n], Now'>> \in Follows
           /\ InAudit' => InAudit
           /\ (InAudit /\ \A i \in 1..n : call.todo[i] # "evaluate") => InAudit'
<1>1. /\ call.todo \in Seq(Names) /\ call.todo # << >> /\ Len(call.todo) \in Nat \ {0}
      /\ Now = call.todo[1] /\ call.tool \in ToolNames
      /\ InOrder(call.todo) /\ Belongs(call.tool, call.todo)
  BY Working
<1>2. call'.todo \in Seq(Names)
  BY DEF Handlers
<1>3. PICK q \in Seq(Names) : q = call'.todo
  BY <1>2
<1>4. /\ Len(q) = Len(call.todo) - n /\ Len(q) \in Nat /\ Len(q) >= 1
      /\ \A i \in 1..Len(q) : q[i] = call.todo[i + n]
  <2>1. Len(q) = Len(call.todo) - n /\ \A i \in 1..Len(q) : q[i] = call.todo[i + n]
    BY <1>3
  <2>2. Len(q) \in Nat /\ Len(call.todo) \in Nat
    BY <1>1
  <2> QED
    BY <2>1, <2>2
<1>5. InOrder(q) /\ Belongs(call.tool, q)
  BY <1>1, <1>4, RestIsLaid
<1>6. q # << >> /\ Head(q) = q[1] /\ q[1] = call.todo[n + 1]
  <2>1. 1 \in 1..Len(q) /\ 1 + n = n + 1
    BY <1>4
  <2> QED
    BY <1>4, <2>1
<1>7. Laid'
  BY <1>1, <1>3, <1>5, <1>6 DEF Laid
<1>8. Now' = call.todo[n + 1]
  BY <1>3, <1>6 DEF Now
<1>9. <<call.todo[n], call.todo[n + 1]>> \in Follows
  BY <1>1 DEF InOrder
<1>10. InAudit' <=> \E i \in 1..Len(q) : q[i] = "evaluate"
  BY <1>3 DEF InAudit, Contains
<1>11. InAudit <=> \E i \in 1..Len(call.todo) : call.todo[i] = "evaluate"
  BY DEF InAudit, Contains
<1>12. InAudit' => InAudit
  <2> HAVE InAudit'
  <2>1. PICK i \in 1..Len(q) : q[i] = "evaluate"
    BY <1>10
  <2>2. i + n \in 1..Len(call.todo) /\ call.todo[i + n] = "evaluate"
    BY <1>1, <1>4, <2>1
  <2> QED
    BY <1>11, <2>2
<1>13. (InAudit /\ \A i \in 1..n : call.todo[i] # "evaluate") => InAudit'
  <2> SUFFICES ASSUME InAudit, \A i \in 1..n : call.todo[i] # "evaluate" PROVE InAudit'
    OBVIOUS
  <2>1. PICK i \in 1..Len(call.todo) : call.todo[i] = "evaluate"
    BY <1>11
  <2>2. i > n
    BY <1>1, <2>1
  <2>3. i - n \in 1..Len(q) /\ (i - n) + n = i
    BY <1>1, <1>4, <2>2
  <2>4. q[i - n] = call.todo[i]
    BY <1>4, <2>3
  <2> QED
    BY <1>10, <2>1, <2>3, <2>4
<1>14. Left' = Left - n
  BY <1>3, <1>4 DEF Left
<1> QED
  BY <1>7, <1>8, <1>9, <1>12, <1>13, <1>14

\* A tool that goes on keeps to its plan.
LEMMA GoesOn ==
    ASSUME Laid, call # Idle, NEW id, NEW seen, NEW found \in Locals, Goes(id, seen, found)
    PROVE  /\ Laid' /\ Left > 1 /\ Left' = Left - 1 /\ <<Now, Now'>> \in Follows
           /\ InAudit' => InAudit
           /\ InAudit /\ Now # "evaluate" => InAudit'
<1>1. /\ call.todo \in Seq(Names) /\ call.todo # << >> /\ Len(call.todo) \in Nat
      /\ Now = call.todo[1]
  BY Working
<1>2. /\ Len(call'.todo) = Len(call.todo) - 1
      /\ \A i \in 1..Len(call'.todo) : call'.todo[i] = call.todo[i + 1]
  BY <1>1, TailIs DEF Goes
<1>3. Len(call.todo) > 1
  BY DEF Goes
<1>4. /\ Laid' /\ Left' = Left - 1
      /\ Now' = call.todo[1 + 1] /\ <<call.todo[1], Now'>> \in Follows
      /\ InAudit' => InAudit
      /\ (InAudit /\ \A i \in 1..1 : call.todo[i] # "evaluate") => InAudit'
  BY <1>1, <1>2, <1>3, RestOfTool DEF Goes
<1> QED
  BY <1>1, <1>3, <1>4 DEF Left


\* The tool leaves out the rest of a stage.
Skips ==
    /\ Laid' /\ call' # Idle /\ call'.tool = call.tool /\ call.tool \in {"audit", "bundle"}
    /\ got'.art = got.art /\ got'.rep = got.rep /\ got'.marks = None
    /\ Now' \in {"identity", "load", "bundle", "signoff", "judge", "evaluate"}
    /\ InAudit' <=> InAudit

\* What is left after a stage.
LEMMA AfterStageIs ==
    ASSUME Laid, call # Idle, NEW n \in Nat, n >= 1, n < Len(call.todo), AfterStage(n)
    PROVE  /\ call' # Idle /\ call'.tool = call.tool
           /\ got'.art = got.art /\ got'.rep = got.rep /\ got'.marks = None
           /\ Laid' /\ Left' = Left - n
           /\ Now' = call.todo[n + 1] /\ <<call.todo[n], Now'>> \in Follows
           /\ InAudit' => InAudit
           /\ (InAudit /\ \A i \in 1..n : call.todo[i] # "evaluate") => InAudit'
<1>1. call.todo \in Seq(Names) /\ Len(call.todo) \in Nat
  BY Working
<1>2. PICK q \in Seq(Names) : /\ q = SubSeq(call.todo, n + 1, Len(call.todo))
                              /\ Len(q) = Len(call.todo) - n
                              /\ \A i \in 1..Len(q) : q[i] = call.todo[i + n]
  <2>1. n \in 0..Len(call.todo)
    BY <1>1
  <2> QED
    BY <1>1, <2>1, SubIs
<1>3. call' = [call EXCEPT !.todo = q, !.id = None, !.seen = None]
  BY <1>2 DEF AfterStage
<1>4. call' \in Handlers /\ call'.tool = call.tool /\ call'.todo = q
  BY <1>3 DEF Laid, Handlers
<1>5. call' # Idle
  <2>1. PICK m \in Nat : m = Len(call.todo)
    BY <1>1
  <2>2. m - n # 0 /\ Len(q) = m - n
    BY <1>2, <2>1
  <2>3. q # << >>
    BY <2>2
  <2> QED
    BY <1>4, <2>3, IdleIs
<1>6. got' \in Locals /\ got'.art = got.art /\ got'.rep = got.rep /\ got'.marks = None
  BY DEF AfterStage, Laid, Locals
<1>7. /\ Len(call'.todo) = Len(call.todo) - n
      /\ \A i \in 1..Len(call'.todo) : call'.todo[i] = call.todo[i + n]
  BY <1>2, <1>4
<1> QED
  BY <1>4, <1>5, <1>6, <1>7, RestOfTool

\* In an audit there is always the end of a stage ahead.
LEMMA StageEndInAudit ==
    ASSUME Laid, call # Idle, Now \notin {"signoff", "judge", "evaluate"}, InAudit, StageEnd # 0
    PROVE  StageEnd < Len(call.todo) /\ \A i \in 1..StageEnd : call.todo[i] # "evaluate"
<1>1. /\ call.todo \in Seq(Names) /\ Len(call.todo) \in Nat /\ Now = call.todo[1]
      /\ InOrder(call.todo)
  BY Working
<1>2. PICK e \in 1..Len(call.todo) : call.todo[e] = "evaluate"
  BY DEF InAudit, Contains
<1>3. PICK n \in 1..Len(call.todo) :
          /\ n = StageEnd /\ call.todo[n] \in StageEnds
          /\ \A j \in 1..Len(call.todo) : j < n => call.todo[j] \notin StageEnds
  BY <1>1, StageEndIs
<1>4. ASSUME NEW i \in 1..Len(call.todo), i <= n, call.todo[i] = "evaluate"
      PROVE  FALSE
  <2>1. i # n /\ i # 1
    BY <1>1, <1>3, <1>4 DEF StageEnds
  <2>2. i - 1 \in 1..Len(call.todo) /\ i - 1 < Len(call.todo) /\ (i - 1) + 1 = i /\ i - 1 < n
    BY <1>1, <1>3, <1>4, <2>1
  <2>3. <<call.todo[i - 1], "evaluate">> \in Follows
    BY <1>1, <1>4, <2>2 DEF InOrder
  <2>4. call.todo[i - 1] \in {"signoff", "judge"}
    BY <1>3, <2>2, <2>3 DEF Follows, StageEnds
  <2>5. i - 1 # 1
    BY <1>1, <2>4
  <2>6. i - 2 \in 1..Len(call.todo) /\ i - 2 < Len(call.todo) /\ (i - 2) + 1 = i - 1 /\ i - 2 < n
    BY <2>2, <2>5
  <2>7. <<call.todo[i - 2], call.todo[i - 1]>> \in Follows
    BY <1>1, <2>6 DEF InOrder
  <2> QED
    BY <1>3, <2>4, <2>6, <2>7 DEF Follows, StageEnds
<1>5. \A i \in 1..StageEnd : call.todo[i] # "evaluate"
  BY <1>1, <1>3, <1>4
<1>6. n < e
  BY <1>2, <1>3, <1>5
<1> QED
  BY <1>1, <1>3, <1>5, <1>6

\* Where a bundle with its audit is.
LEMMA BundlePosition ==
    ASSUME Laid, InBundle
    PROVE  Left \in 1..9 /\ Now = Backwards[Left]
<1>1. /\ call # Idle /\ call.todo \in Seq(Names) /\ call.todo # << >> /\ Now = call.todo[1]
      /\ InOrder(call.todo) /\ Belongs(call.tool, call.todo) /\ call.tool = "bundle"
  BY Working DEF InBundle
<1>2. Bundling(call.todo)
  BY <1>1 DEF Belongs
<1>3. \A i \in 1..Len(call.todo) : call.todo[i] # "evaluate"
  BY DEF InBundle, InAudit, Contains
<1> QED
  BY <1>1, <1>2, <1>3, Position DEF Left

\* The steps of a bundle, counted from its end.
LEMMA BackwardsIs ==
    /\ Backwards[1] = "bundle" /\ Backwards[2] = "validate" /\ Backwards[3] = "context"
    /\ Backwards[4] = "identity" /\ Backwards[5] = "current_run"
    /\ Backwards[6] = "identity" /\ Backwards[7] = "load" /\ Backwards[8] = "reuse"
    /\ Backwards[9] = "identity"
  BY DEF Backwards

\* What is left of a bundle, counted from its end.
LEMMA LeftOfBundle ==
    ASSUME Laid, InBundle, NEW i \in 1..Left
    PROVE  (Left - i) + 1 \in 1..9 /\ call.todo[i] = Backwards[(Left - i) + 1]
<1>1. /\ call # Idle /\ call.todo \in Seq(Names) /\ call.todo # << >> /\ Now = call.todo[1]
      /\ InOrder(call.todo) /\ Belongs(call.tool, call.todo) /\ call.tool = "bundle"
      /\ Len(call.todo) \in Nat
  BY Working DEF InBundle
<1>2. Bundling(call.todo)
  BY <1>1 DEF Belongs
<1>3. Left \in 1..9 /\ Now = Backwards[Left]
  BY BundlePosition
<1>4. call.todo[i] # "evaluate" /\ i \in 1..Len(call.todo)
  BY DEF InBundle, InAudit, Contains, Left
<1>5. /\ BundleSteps[1] = "load" /\ BundleSteps[2] = "identity" /\ BundleSteps[3] = "current_run"
      /\ BundleSteps[4] = "identity" /\ BundleSteps[5] = "context" /\ BundleSteps[6] = "validate"
      /\ BundleSteps[7] = "bundle"
  BY DEF BundleSteps, LoadSteps, ManifestSteps
<1>6. PICK k \in 0..8 : k = Left - i
  BY <1>3
<1>7. k < 7 => call.todo[i] = BundleSteps[7 - k]
  BY <1>2, <1>4, <1>6 DEF Bundling, Left
<1>8. k = 7 => call.todo[i] = "reuse"
  BY <1>2, <1>4, <1>6 DEF Bundling, Left
<1>9. k = 8 => i = 1 /\ Left = 9
  BY <1>3, <1>6
<1>10. call.todo[i] = Backwards[k + 1]
  <2>1. k \in {0, 1, 2, 3, 4, 5, 6, 7, 8}
    BY <1>6
  <2>2. CASE k < 7
    BY <1>5, <1>7, <2>1, <2>2, BackwardsIs
  <2>3. CASE k = 7
    BY <1>8, <2>3, BackwardsIs
  <2>4. CASE k = 8
    <3>1. i = 1 /\ Left = 9 /\ k + 1 = 9
      BY <1>9, <2>4
    <3>2. call.todo[1] = Backwards[9]
      BY <1>1, <1>3, <3>1
    <3> QED
      BY <3>1, <3>2
  <2> QED
    BY <2>1, <2>2, <2>3, <2>4
<1> QED
  BY <1>6, <1>10

\* A refusal ends the tool or leaves out the rest of a tolerated stage.
LEMMA RefuseDoes ==
    ASSUME Laid, call # Idle, Now \notin {"signoff", "judge", "evaluate"}, Refuse
    PROVE  Ends \/ (Skips /\ (~InAudit => Left \in 2..4 /\ Left' = 1))
<1>1. CASE ~Tolerated
  BY <1>1 DEF Refuse, GiveUp, Ends
<1>2. CASE Tolerated
  <2>1. /\ call.todo \in Seq(Names) /\ Len(call.todo) \in Nat /\ Now = call.todo[1]
        /\ InOrder(call.todo) /\ Belongs(call.tool, call.todo) /\ call.tool \in ToolNames
        /\ AfterStage(StageEnd) /\ StageEnd # 0
    BY <1>2, Working DEF Refuse, Tolerated
  <2>2. PICK n \in 1..Len(call.todo) :
            /\ n = StageEnd /\ call.todo[n] \in StageEnds
            /\ \A j \in 1..Len(call.todo) : j < n => call.todo[j] \notin StageEnds
    BY <2>1, StageEndIs
  <2>3. /\ n < Len(call.todo) /\ call.tool \in {"audit", "bundle"}
        /\ InAudit => \A i \in 1..n : call.todo[i] # "evaluate"
        /\ ~InAudit => Left \in 2..4 /\ Left - n = 1
    <3>1. CASE InAudit
      <4>1. n < Len(call.todo) /\ \A i \in 1..n : call.todo[i] # "evaluate"
        BY <2>1, <2>2, <3>1, StageEndInAudit
      <4>2. PICK e \in 1..Len(call.todo) : call.todo[e] = "evaluate"
        BY <3>1 DEF InAudit, Contains
      <4>3. call.tool \in {"audit", "bundle"}
        BY <2>1, <4>2 DEF Belongs, LaunchNames, ProgressNames, EvidenceNames, ToolNames
      <4> QED
        BY <3>1, <4>1, <4>3
    <3>2. CASE ~InAudit
      <4>1. InBundle /\ call.todo[n] = "validate"
        BY <1>2, <2>2, <3>2 DEF Tolerated, InBundle
      <4>2. Left \in 1..9 /\ Left = Len(call.todo)
        BY <4>1, BundlePosition DEF Left
      <4>3. PICK k \in 1..9 : k = (Left - n) + 1 /\ Backwards[k] = "validate"
        BY <2>2, <4>1, <4>2, LeftOfBundle
      <4>4. k = 2
        BY <4>3, BackwardsIs
      <4>5. Left - n = 1
        BY <4>2, <4>3, <4>4
      <4>6. Left < 5
        <5> SUFFICES ASSUME Left >= 5 PROVE FALSE
          BY <4>2
        <5>1. Left - 4 \in 1..Left /\ Left - 4 < n /\ (Left - (Left - 4)) + 1 = 5
          BY <4>2, <4>5
        <5>2. call.todo[Left - 4] = "current_run"
          BY <4>1, <5>1, LeftOfBundle, BackwardsIs
        <5> QED
          BY <2>2, <4>2, <5>1, <5>2 DEF StageEnds
      <4>7. PICK m \in 1..9 : m = Left /\ m - n = 1 /\ m < 5
        BY <4>2, <4>5, <4>6
      <4>8. n < m /\ m \in 2..4
        BY <2>2, <4>7
      <4>9. n < Len(call.todo) /\ Left \in 2..4
        BY <4>2, <4>7, <4>8
      <4> QED
        BY <3>2, <4>1, <4>5, <4>9 DEF InBundle
    <3> QED
      BY <3>1, <3>2
  <2>4. /\ call' # Idle /\ call'.tool = call.tool
        /\ got'.art = got.art /\ got'.rep = got.rep /\ got'.marks = None
        /\ Laid' /\ Left' = Left - n
        /\ Now' = call.todo[n + 1] /\ <<call.todo[n], Now'>> \in Follows
        /\ InAudit' => InAudit
        /\ (InAudit /\ \A i \in 1..n : call.todo[i] # "evaluate") => InAudit'
    BY <2>1, <2>2, <2>3, AfterStageIs
  <2>5. Now' \in {"identity", "load", "bundle", "signoff", "judge", "evaluate"}
    BY <2>2, <2>4 DEF StageEnds, Follows
  <2> QED
    BY <2>3, <2>4, <2>5 DEF Skips
<1> QED
  BY <1>1, <1>2

\* Without a report manifest the stage that would load it is left out.
LEMMA NoManifestDoes ==
    ASSUME Laid, call # Idle, Now = "load", AfterStage(Len(LoadSteps))
    PROVE  Skips /\ (~InAudit => Left = 7 /\ Left' = 4)
<1>1. /\ call.todo \in Seq(Names) /\ Len(call.todo) \in Nat \ {0} /\ Now = call.todo[1]
      /\ InOrder(call.todo) /\ Belongs(call.tool, call.todo) /\ call.tool \in ToolNames
      /\ call.todo # << >>
  BY Working
<1>2. Len(LoadSteps) = 3
  BY DEF LoadSteps
<1>3. Len(call.todo) >= 3 /\ call.todo[3] = "current_run"
  BY <1>1 DEF InOrder
<1>4. call.tool \in {"audit", "bundle"}
  BY <1>1 DEF Belongs, LaunchNames, ProgressNames, EvidenceNames, ToolNames
<1>5. Len(call.todo) # 3
  BY <1>1, <1>3, <1>4, LastIs
<1>6. <<call.todo[1], call.todo[1 + 1]>> \in Follows
  BY <1>1, <1>3 DEF InOrder
<1>7. call.todo[2] = "identity"
  BY <1>1, <1>6 DEF Follows
<1>8. \A i \in 1..3 : call.todo[i] # "evaluate"
  <2>1. \A i \in 1..3 : i \in {1, 2, 3}
    OBVIOUS
  <2> QED
    BY <1>1, <1>3, <1>7, <2>1
<1>9. /\ call' # Idle /\ call'.tool = call.tool
      /\ got'.art = got.art /\ got'.rep = got.rep /\ got'.marks = None
      /\ Laid' /\ Left' = Left - 3
      /\ Now' = call.todo[3 + 1] /\ <<call.todo[3], Now'>> \in Follows
      /\ InAudit' => InAudit
      /\ (InAudit /\ \A i \in 1..3 : call.todo[i] # "evaluate") => InAudit'
  <2>1. 3 < Len(call.todo)
    <3>1. PICK m \in Nat : m = Len(call.todo) /\ m >= 3
      BY <1>1, <1>3
    <3>2. m # 3
      BY <1>5, <3>1
    <3>3. m >= 3
      BY <3>1
    <3>4. 3 < m
      BY <3>2, <3>3
    <3> QED
      BY <3>1, <3>4
  <2>2. AfterStage(3)
    BY <1>2
  <2> QED
    BY <2>1, <2>2, AfterStageIs
<1>10. Now' \in {"identity", "load", "bundle", "signoff", "judge", "evaluate"}
  BY <1>3, <1>9 DEF Follows
<1>11. ~InAudit => Left = 7 /\ Left' = 4
  <2> HAVE ~InAudit
  <2>1. InBundle
    <3>1. CASE call.tool = "audit"
      <4>1. Len(call.todo) \in 1..Len(call.todo) /\ call.todo[Len(call.todo)] = "evaluate"
        BY <1>1, <3>1, LastIs
      <4> QED
        BY <4>1 DEF InAudit, Contains
    <3>2. CASE call.tool = "bundle"
      BY <3>2 DEF InBundle
    <3> QED
      BY <1>4, <3>1, <3>2
  <2>2. Left \in 1..9 /\ Backwards[Left] = "load"
    BY <2>1, BundlePosition
  <2>3. Left = 7
    BY <2>2, BackwardsIs
  <2> QED
    BY <1>9, <2>3
<1> QED
  BY <1>4, <1>8, <1>9, <1>10, <1>11 DEF Skips

(***************************************************************************)
(* What keeps the invariant                                                *)
(***************************************************************************)

\* The types of the local variables of the handoff.
LocalType ==
    /\ conf \in Configurations
    /\ verdict \in Audits \cup {None} /\ bundle \in Audits \cup {None}

\* The invariant.
IInv == RunInv /\ Laid /\ Identities /\ Findings /\ LocalType /\ Verdicts

\* The step a bundle is at, by what is left of it.
LEMMA WhereInBundle ==
    ASSUME Laid, InBundle
    PROVE  /\ Left \in 1..9 /\ call # Idle /\ call.tool = "bundle"
           /\ Now = "reuse" <=> Left = 8
           /\ Now = "load" <=> Left = 7
           /\ Now = "current_run" <=> Left = 5
           /\ Now = "context" <=> Left = 3
           /\ Now = "validate" <=> Left = 2
           /\ Now = "bundle" <=> Left = 1
           /\ Now \in {"identity", "reuse", "load", "current_run", "context", "validate",
                       "bundle"}
<1>1. Left \in 1..9 /\ Now = Backwards[Left]
  BY BundlePosition
<1>2. PICK k \in 1..9 : k = Left
  BY <1>1
<1>3. k \in {1, 2, 3, 4, 5, 6, 7, 8, 9}
  BY <1>2
<1> QED
  BY <1>1, <1>2, <1>3, BackwardsIs DEF InBundle

\* The end of a tool.
LEMMA EndKeeps ==
    ASSUME Ends, RunInv', LocalType', verdict' # None => FreshAudit(verdict'),
           bundle' # None => FreshAudit(bundle') /\ bundle'.fresh
    PROVE  IInv'
<1>1. Laid' /\ Now' = "idle" /\ ~InBundle' /\ call' = Idle /\ got' = Nothing
      /\ got'.art = None /\ got'.rep = None /\ got'.marks = None
  BY EndIsLaid DEF Ends
<1>2. Identities'
  BY <1>1 DEF Identities
<1>3. Findings'
  BY <1>1 DEF Findings
<1>4. Verdicts'
  BY <1>1 DEF Verdicts, FreshAudit, OneBuild
<1> QED
  BY <1>1, <1>2, <1>3, <1>4 DEF IInv

\* The rest of a stage is left out.
LEMMA SkipKeeps ==
    ASSUME IInv, call # Idle, Skips, RunInv', UNCHANGED <<run, session, art, handoffVars>>,
           ~InAudit => /\ Left \in 2..7 /\ Left' \in 1..4
                       /\ verdict.fresh => got.rep = verdict.rep
    PROVE  IInv'
<1>1. /\ Laid' /\ call' # Idle /\ call'.tool = call.tool /\ call.tool \in {"audit", "bundle"}
      /\ got'.art = got.art /\ got'.rep = got.rep /\ got'.marks = None
      /\ Now' \in {"identity", "load", "bundle", "signoff", "judge", "evaluate"}
      /\ InAudit' <=> InAudit
      /\ conf' = conf /\ verdict' = verdict /\ bundle' = bundle
  BY DEF Skips, handoffVars
<1>2. Identities'
  BY <1>1 DEF IInv, Identities, Confirmed, Same
<1>3. InBundle' => InBundle /\ Left > 1 /\ Left < 8 /\ Left' \notin {5, 6}
                   /\ (verdict.fresh => got.rep = verdict.rep)
  BY <1>1 DEF InBundle
<1>4. Findings'
  BY <1>1, <1>3 DEF IInv, Findings
<1>5. Verdicts'
  <2>1. ~InAudit' => ~(Left' > 7)
    BY <1>1
  <2> QED
    BY <1>1, <1>3, <2>1 DEF IInv, Verdicts, FreshAudit, OneBuild, InBundle
<1>6. LocalType'
  BY <1>1 DEF IInv, LocalType
<1> QED
  BY <1>1, <1>2, <1>4, <1>5, <1>6 DEF IInv

\* The tool goes on with its next step.
LEMMA GoesKeeps ==
    ASSUME IInv, call # Idle, NEW id, NEW seen, NEW found \in Locals, Goes(id, seen, found),
           RunInv', LocalType', UNCHANGED <<run, session, art>>,
           call.tool \notin {"implementation", "bitstream", "progress"},
           Now' \in {"context", "current_run", "generate", "reuse"} => Captured(id),
           Now' \in {"validate", "markers", "export"} => Confirmed(id),
           Now' = "write" => id \in Closures /\ (seen # None => Confirmed(id)),
           found.rep # None => Confirmed(found.rep.id) /\ found.rep.gen = session.gen,
           found.art # None => found.art = art /\ found.art.gen = session.gen
                               /\ found.art.bit.in \in {found.art.id, None},
           found.marks # None => found.marks > 0,
           call.tool \notin {"audit", "bundle"} => found.art = None /\ found.rep = None,
           InBundle' => /\ Left' > 1 => found.art = None
                        /\ found.art # None /\ found.rep # None => found.art.id = found.rep.id,
           Verdicts'
    PROVE  IInv'
<1>1. Laid' /\ <<Now, Now'>> \in Follows
  BY GoesOn DEF IInv
<1>2. Now' # "launch"
  <2>1. Now # "preflight"
    BY Working DEF IInv, Belongs, LaunchNames, ProgressNames, EvidenceNames, AuditNames,
                   ToolNames
  <2> QED
    BY <1>1, <2>1 DEF Follows
<1>3. Identities'
  <2>1. call'.id = id /\ call'.seen = seen /\ got' = found
    BY DEF Goes
  <2> QED
    BY <1>2, <2>1 DEF Identities, Captured, Confirmed, Same
<1>4. Findings'
  <2>1. call'.tool = call.tool /\ call' # Idle /\ got' = found
    BY DEF Goes
  <2> QED
    BY <2>1 DEF Findings
<1> QED
  BY <1>1, <1>3, <1>4 DEF IInv

\* A step that finds no manifest leaves the verdicts.
LEMMA VerdictsRest ==
    ASSUME IInv, call # Idle, NEW id, NEW seen, NEW found \in Locals, Goes(id, seen, found),
           UNCHANGED <<art, verdict, bundle>>, Now \notin {"evaluate", "reuse"},
           InBundle /\ verdict.fresh =>
               /\ Now = "load" => found.load = verdict.rep
               /\ Now = "identity" => found.load = got.load
               /\ Now = "current_run" => found.rep = got.load
               /\ Now # "current_run" => found.rep = got.rep
    PROVE  Verdicts' /\ (InBundle' => InBundle) /\ (InBundle => Left > 1 /\ Left' = Left - 1)
<1>1. /\ call'.tool = call.tool /\ call' # Idle /\ got' = found
      /\ Left > 1 /\ Left' = Left - 1 /\ (InAudit <=> InAudit')
  BY GoesOn DEF IInv, Goes
<1>2. InBundle' => InBundle
  BY <1>1 DEF InBundle
<1>3. ASSUME InBundle', Left' < 8
      PROVE  /\ verdict # None
             /\ verdict.fresh /\ Left' \in {5, 6} => found.load = verdict.rep
             /\ verdict.fresh /\ Left' < 5 => found.rep = verdict.rep
  <2>1. InBundle
    BY <1>2, <1>3
  <2>2. /\ Left \in 1..9
        /\ Now = "reuse" <=> Left = 8
        /\ Now = "load" <=> Left = 7
        /\ Now = "current_run" <=> Left = 5
        /\ Now = "context" <=> Left = 3
        /\ Now = "validate" <=> Left = 2
        /\ Now = "bundle" <=> Left = 1
        /\ Now \in {"identity", "reuse", "load", "current_run", "context", "validate",
                    "bundle"}
    BY <2>1, WhereInBundle DEF IInv
  <2>3. PICK k \in 1..9 : k = Left
    BY <2>2
  <2>4. k \in {1, 2, 3, 4, 5, 6, 7, 8, 9}
    BY <2>3
  <2>5. k \in {2, 3, 4, 5, 6, 7} /\ Left' = k - 1
    BY <1>1, <1>3, <2>2, <2>3, <2>4
  <2>6. /\ verdict # None
        /\ verdict.fresh /\ k \in {5, 6} => got.load = verdict.rep
        /\ verdict.fresh /\ k < 5 => got.rep = verdict.rep
    BY <2>1, <2>3, <2>5 DEF IInv, Verdicts
  <2>7. /\ Left' \in {5, 6} <=> k \in {6, 7}
        /\ Left' < 5 <=> k \in {2, 3, 4, 5}
    BY <2>5
  <2>8. verdict.fresh /\ k = 7 => found.load = verdict.rep
    BY <2>1, <2>2, <2>3
  <2>9. verdict.fresh /\ k = 6 => found.load = verdict.rep
    BY <2>1, <2>2, <2>3, <2>6
  <2>10. verdict.fresh /\ k = 5 => found.rep = verdict.rep
    BY <2>1, <2>2, <2>3, <2>6
  <2>11. verdict.fresh /\ k \in {2, 3, 4} => found.rep = verdict.rep
    BY <2>1, <2>2, <2>3, <2>6
  <2> QED
    BY <2>5, <2>6, <2>7, <2>8, <2>9, <2>10, <2>11
<1>4. Verdicts'
  <2>1. /\ verdict' # None => FreshAudit(verdict')
        /\ bundle' # None => FreshAudit(bundle') /\ bundle'.fresh
        /\ call' # Idle /\ call'.tool = "bundle" /\ verdict' # None /\ verdict'.fresh
             => verdict'.art = art'
    BY <1>1 DEF IInv, Verdicts
  <2>2. verdict' = verdict
    OBVIOUS
  <2>3. InBundle' /\ Left' > 7 => bundle' # None
    <3>1. PICK n \in Nat : n = Left
      BY Working DEF IInv, Left
    <3>2. n - 1 > 7 => n > 7
      OBVIOUS
    <3> QED
      BY <1>1, <1>2, <3>1, <3>2 DEF IInv, Verdicts
  <2> QED
    BY <1>1, <1>3, <2>1, <2>2, <2>3 DEF Verdicts, FreshAudit, OneBuild
<1> QED
  BY <1>1, <1>2, <1>4

\* A step that finds no manifest.
LEMMA PassesOn ==
    ASSUME IInv, call # Idle, NEW id, NEW seen, NEW found \in Locals, Goes(id, seen, found),
           UNCHANGED <<run, session, art, verdict, bundle>>, RunInv', LocalType',
           Now \notin {"evaluate", "reuse", "current_run"},
           call.tool \notin {"implementation", "bitstream", "progress"},
           Now' \in {"context", "current_run", "generate", "reuse"} => Captured(id),
           Now' \in {"validate", "markers", "export"} => Confirmed(id),
           Now' = "write" => id \in Closures /\ (seen # None => Confirmed(id)),
           found.art = got.art, found.rep = got.rep, found.marks # None => found.marks > 0,
           InBundle /\ verdict.fresh /\ Now = "load" => found.load = verdict.rep,
           Now # "load" => found.load = got.load
    PROVE  IInv'
<1>1. Verdicts' /\ (InBundle' => InBundle) /\ (InBundle => Left > 1 /\ Left' = Left - 1)
  BY VerdictsRest
<1>2. found.rep # None => Confirmed(found.rep.id) /\ found.rep.gen = session.gen
  BY DEF IInv, Identities
<1>3. found.art # None => found.art = art /\ found.art.gen = session.gen
                          /\ found.art.bit.in \in {found.art.id, None}
  BY DEF IInv, Identities
<1>4. call.tool \notin {"audit", "bundle"} => found.art = None /\ found.rep = None
  BY DEF IInv, Findings
<1>5. InBundle' => found.art = None
  BY <1>1 DEF IInv, Findings
<1> QED
  BY <1>1, <1>2, <1>3, <1>4, <1>5, GoesKeeps

(***************************************************************************)
(* The world and the tools that launch and poll                            *)
(***************************************************************************)

\* The tool that runs is where it was, whatever the world does.
LEMMA WorldStepKeeps ==
    ASSUME IInv, World \/ CleanRunOutputs, Outside, UNCHANGED <<art, rep, got>>
    PROVE  IInv'
<1>1. RunInv' /\ Stays
  BY WorldKeeps DEF IInv
<1>2. call' = call /\ got' = got /\ art' = art
  BY DEF World, CleanRunOutputs, ResetRun, EditFiles, EditSettings, RunReads, RunRoutes,
         RunWrites, RunFails, UserLaunches, OverwriteBit, StopSession, CancelActiveOperation,
         StartSession
<1>3. session'.gen = session.gen \/ got = Nothing
  <2>1. CASE StartSession
    BY <2>1 DEF StartSession, IInv, Findings
  <2>2. CASE StopSession \/ CancelActiveOperation
    <3>1. session' = [session EXCEPT !.live = FALSE]
      BY <2>2 DEF StopSession, CancelActiveOperation
    <3> QED
      BY <3>1 DEF IInv, RunInv, WorldType
  <2>3. CASE UNCHANGED session
    BY <2>3
  <2> QED
    BY <2>1, <2>2, <2>3 DEF World, CleanRunOutputs, ResetRun, EditFiles, EditSettings, RunReads,
         RunRoutes, RunWrites, RunFails, UserLaunches, OverwriteBit
<1>4. /\ conf' \in {conf, "other"} /\ verdict' \in {verdict, None} /\ bundle' = bundle
      /\ call # Idle => verdict' = verdict
  BY DEF Outside
<1>5. Laid' /\ Findings' /\ LocalType' /\ Verdicts'
  <2>1. Laid'
    BY <1>2 DEF IInv, Laid
  <2>2. Now' = Now /\ InBundle' = InBundle /\ Left' = Left
    BY <1>2 DEF Now, InBundle, InAudit, Contains, Left
  <2>3. Findings'
    BY <1>2, <2>2 DEF IInv, Findings
  <2>4. Verdicts'
    <3>1. CASE call = Idle
      <4>1. ~InBundle
        BY <3>1 DEF InBundle
      <4> QED
        BY <1>2, <1>4, <2>2, <3>1, <4>1 DEF IInv, Verdicts, FreshAudit, OneBuild
    <3>2. CASE call # Idle
      BY <1>2, <1>4, <2>2, <3>2 DEF IInv, Verdicts, FreshAudit, OneBuild
    <3> QED
      BY <3>1, <3>2
  <2>5. LocalType'
    BY <1>4 DEF IInv, LocalType, Configurations
  <2> QED
    BY <2>1, <2>3, <2>4, <2>5
<1>6. Identities'
  <2>1. PICK id, rid : id = call.id /\ rid = got.rep.id
    OBVIOUS
  <2>2. /\ Captured(id) => (id \in Closures /\ (Same' /\ ~run'.needs => run'.in = id))
        /\ Confirmed(id) => (id \in Closures /\ (Same' => run'.in = id))
        /\ Confirmed(rid) => (rid \in Closures /\ (Same' => run'.in = rid))
    BY <1>1, StaysTrue DEF IInv
  <2>3. Now' = Now /\ call'.id = id /\ call'.seen = call.seen
    BY <1>2, <2>1 DEF Now
  <2>4. Now = "launch" => id \in Closures
    BY <2>1 DEF IInv, Identities
  <2>5. /\ Now \in {"context", "current_run", "generate", "reuse"} => Captured(id)
        /\ Now \in {"validate", "markers", "export"} => Confirmed(id)
        /\ Now = "write" => id \in Closures /\ (call.seen # None => Confirmed(id))
        /\ got.rep # None => Confirmed(rid) /\ got.rep.gen = session.gen
        /\ got.art # None => got.art = art /\ got.art.gen = session.gen
                             /\ got.art.bit.in \in {got.art.id, None}
    BY <2>1 DEF IInv, Identities
  <2>6. /\ got'.rep # None => got.rep # None /\ got'.rep.id = rid /\ got'.rep.gen = session'.gen
        /\ got'.art # None => got'.art = art' /\ got'.art.gen = session'.gen
                              /\ got'.art.bit.in \in {got'.art.id, None}
    BY <1>2, <1>3, <2>1, <2>5, IdleIs
  <2> QED
    BY <2>2, <2>3, <2>4, <2>5, <2>6 DEF Identities, Captured, Confirmed
<1> QED
  BY <1>1, <1>5, <1>6 DEF IInv

\* These tools look at no manifest.
LEMMA RunToolHas ==
    ASSUME IInv, Now \in LaunchNames \cup ProgressNames
    PROVE  /\ call # Idle /\ got = Nothing
           /\ call.tool \in {"implementation", "bitstream", "progress"}
           /\ Now = "launch" => call.tool \in {"implementation", "bitstream"}
<1>1. call # Idle
  BY DEF Now, LaunchNames, ProgressNames
<1>2. /\ call.todo \in Seq(Names) /\ call.todo # << >> /\ Now = call.todo[1]
      /\ call.tool \in ToolNames /\ Belongs(call.tool, call.todo)
  BY <1>1, Working DEF IInv
<1>3. Now \in LaunchNames => call.tool \in {"implementation", "bitstream"}
  BY <1>2 DEF Belongs, LaunchNames, ProgressNames, EvidenceNames, AuditNames, ToolNames
<1>4. Now \in ProgressNames => call.tool = "progress"
  BY <1>2 DEF Belongs, LaunchNames, ProgressNames, EvidenceNames, AuditNames, ToolNames
<1>5. got = Nothing
  BY <1>1, <1>3, <1>4 DEF IInv, Findings
<1> QED
  BY <1>1, <1>3, <1>4, <1>5 DEF LaunchNames

\* A tool that launches or polls goes on to its second step.
LEMMA RunToolGoesOn ==
    ASSUME IInv, Now \in LaunchNames \cup ProgressNames, RunInv',
           NEW new \in Handlers, new.tool = call.tool, new.todo = call.todo, Advance(new),
           Now = "preflight" => new.id \in Closures,
           UNCHANGED <<session, art, got, handoffVars>>
    PROVE  IInv'
<1>1. /\ call # Idle /\ got = Nothing
      /\ call.tool \in {"implementation", "bitstream", "progress"}
  BY RunToolHas
<1>2. got' = Nothing /\ UNCHANGED <<conf, verdict, bundle>>
  BY <1>1 DEF handoffVars
<1>3. LocalType' /\ (verdict' # None => FreshAudit(verdict'))
      /\ (bundle' # None => FreshAudit(bundle') /\ bundle'.fresh)
  BY <1>2 DEF IInv, LocalType, Verdicts
<1>4. Step(new, Nothing)
  BY <1>2 DEF Step
<1>5. Ends \/ Goes(new.id, new.seen, Nothing)
  BY <1>1, <1>4, StepGoes DEF IInv
<1>6. CASE Ends
  BY <1>3, <1>6, EndKeeps
<1>7. CASE Goes(new.id, new.seen, Nothing)
  <2>1. Laid' /\ <<Now, Now'>> \in Follows
    BY <1>1, <1>7, GoesOn, IdleIs DEF IInv
  <2>2. Now' \in {"launch", "terminal"} /\ (Now' = "launch" => Now = "preflight")
    BY <2>1 DEF Follows, LaunchNames, ProgressNames
  <2>3. call' # Idle /\ call'.tool = call.tool /\ call'.id = new.id
    BY <1>7 DEF Goes
  <2>4. Identities'
    BY <1>2, <2>2, <2>3, IdleIs DEF Identities
  <2>5. Findings'
    BY <1>1, <1>2, <2>3, IdleIs DEF Findings, InBundle
  <2>6. Verdicts'
    BY <1>1, <1>3, <2>3 DEF Verdicts, InBundle, FreshAudit, OneBuild
  <2> QED
    BY <1>3, <2>1, <2>4, <2>5, <2>6 DEF IInv
<1> QED
  BY <1>5, <1>6, <1>7

\* The design identity is the closure.
LEMMA IdentityIs ==
    ASSUME closure \in Closures
    PROVE  DesignIdentity = closure
  BY DEF DesignIdentity, ListedInputs, Closures

\* run_implementation and generate_bitstream, get_run_progress.
LEMMA LaunchIsMade ==
    ASSUME IInv, LaunchRun, UNCHANGED <<art, rep, got, handoffVars>>
    PROVE  RunInv'
<1>1. /\ run \in Runs /\ run.exec \in 0..MaxExecs /\ closure \in Closures /\ call.id \in Closures
      /\ call.tool \in {"implementation", "bitstream"} /\ session.gen \in 1..MaxGen
  BY RunToolHas DEF IInv, RunInv, WorldType, Runs, LaunchRun, At, LaunchNames, Identities
<1>2. run.exec + 1 \in 0..MaxExecs
  BY <1>1, RunAssumption DEF LaunchRun, Launchable, ExecLeft
<1>3. launch' \in Launches \cup {None}
  BY <1>1 DEF LaunchRun, Launches, IInv, RunInv, WorldType
<1>4. CASE run.phase = "routed"
  <2>1. /\ run' \in Runs /\ run'.exec = run.exec + 1 /\ run'.marks = run.exec + 1
        /\ run'.phase = "building" /\ run'.in = run.in /\ run'.needs = run.needs
    BY <1>1, <1>2, <1>4 DEF LaunchRun, Runs, Phases
  <2>2. run.in \in Closures /\ (~run.needs => run.in.set = closure.set
                                              /\ run.in.files = closure.files)
    BY <1>4 DEF IInv, RunInv, Tracked, Built
  <2> QED
    BY <1>3, <1>4, <2>1, <2>2, ExecutionKeeps DEF IInv, LaunchRun
<1>5. CASE run.phase # "routed"
  <2>1. /\ run' \in Runs /\ run'.exec = run.exec + 1 /\ run'.marks = run.exec + 1
        /\ run'.phase = "queued" /\ run'.in = closure
    BY <1>1, <1>2, <1>5 DEF LaunchRun, Runs, Phases
  <2> QED
    BY <1>1, <1>3, <2>1, ExecutionKeeps DEF IInv, LaunchRun, Launchable
<1> QED
  BY <1>4, <1>5

\* The steps of the tools that launch and poll.
LEMMA RunStepKeeps ==
    ASSUME IInv, RunSteps, UNCHANGED <<art, rep, got, handoffVars>>
    PROVE  IInv'
<1>1. Now \in LaunchNames \cup ProgressNames
  BY DEF RunSteps, Preflight, LaunchRun, LaunchRefused, ReadStatus, CaptureTerminal, At,
         LaunchNames, ProgressNames
<1>2. call \in Handlers /\ got = Nothing /\ call # Idle
  BY <1>1, RunToolHas DEF IInv, Laid
<1>3. LocalType' /\ (verdict' # None => FreshAudit(verdict'))
      /\ (bundle' # None => FreshAudit(bundle') /\ bundle'.fresh)
  BY DEF IInv, LocalType, Verdicts, handoffVars
<1>4. RunInv' /\ session' = session
  <2>1. CASE LaunchRun
    BY <2>1, LaunchIsMade DEF LaunchRun
  <2>2. ASSUME UNCHANGED <<closure, edits, session, run, bit>>, launch' \in Launches \cup {None}
        PROVE  RunInv' /\ session' = session
    BY <2>2, RunRests DEF IInv, RunInv, WorldType
  <2>3. CASE ReadStatus \/ Preflight \/ LaunchRefused
    <3>1. launch' \in {launch, None} /\ UNCHANGED <<closure, edits, session, run, bit>>
      BY <2>3 DEF ReadStatus, Preflight, LaunchRefused
    <3> QED
      BY <2>2, <3>1 DEF IInv, RunInv, WorldType
  <2>4. CASE CaptureTerminal
    <3>1. launch \in Launches \cup {None} /\ closure \in Closures
      BY DEF IInv, RunInv, WorldType
    <3>2. launch' \in Launches \cup {None}
      BY <2>4, <3>1, IdentityIs DEF CaptureTerminal, Launches
    <3> QED
      BY <2>2, <2>4, <3>2 DEF CaptureTerminal
  <2> QED
    BY <2>1, <2>3, <2>4 DEF RunSteps
<1>5. CASE Finish
  <2>1. Ends
    BY <1>2, <1>5 DEF Ends, Finish
  <2> QED
    BY <1>3, <1>4, <2>1, EndKeeps
<1>6. CASE Preflight
  <2>1. PICK new : new = [call EXCEPT !.id = closure]
    OBVIOUS
  <2>2. closure \in Closures
    BY DEF IInv, RunInv, WorldType
  <2>3. /\ new \in Handlers /\ new.tool = call.tool /\ new.todo = call.todo
        /\ new.id \in Closures
    BY <1>2, <2>1, <2>2 DEF Handlers
  <2>4. Advance(new)
    BY <1>6, <2>1, <2>2, IdentityIs DEF Preflight
  <2> QED
    BY <1>1, <1>4, <2>3, <2>4, RunToolGoesOn
<1>7. CASE ReadStatus /\ Advance(call)
  <2>1. PICK new : new = call
    OBVIOUS
  <2>2. Now = "status"
    BY <1>7 DEF ReadStatus, At
  <2>3. Advance(new)
    BY <1>7, <2>1
  <2> QED
    BY <1>1, <1>2, <1>4, <2>1, <2>2, <2>3, RunToolGoesOn
<1> QED
  BY <1>5, <1>6, <1>7 DEF RunSteps, LaunchRun, LaunchRefused, ReadStatus, CaptureTerminal

(***************************************************************************)
(* Tools begin                                                             *)
(***************************************************************************)

\* A tool starts with a plan that is its own.
LEMMA BeginKeeps ==
    ASSUME IInv, NEW tool \in ToolNames, NEW steps \in Seq(Names), NEW expect \in BOOLEAN,
           steps # << >>, InOrder(steps), Belongs(tool, steps), StartTool(tool, steps, expect),
           steps[1] \in {"preflight", "status", "evidence", "identity", "configurations"},
           UNCHANGED <<art, rep, got>>, conf' \in {conf, "other"},
           verdict' \in {verdict, None}, bundle' \in {bundle, None},
           tool = "bundle" => /\ verdict' = None /\ Len(steps) > 8
                              /\ bundle' # None \/ \E i \in 1..Len(steps) : steps[i] = "evaluate"
    PROVE  IInv'
<1>1. /\ call = Idle /\ UNCHANGED <<closure, edits, session, run, bit, launch>>
      /\ call' = [Idle EXCEPT !.tool = tool, !.todo = steps, !.expect = expect]
  BY DEF StartTool
<1>2. RunInv'
  BY <1>1, RunRests DEF IInv, RunInv, WorldType
<1>3. /\ call' \in Handlers /\ call'.tool = tool /\ call'.todo = steps /\ call' # Idle
      /\ call'.id = None /\ call'.seen = None
  BY <1>1, IdleIs DEF Idle, Handlers
<1>4. Now' = steps[1] /\ Left' = Len(steps)
  <2>1. Head(steps) = steps[1]
    OBVIOUS
  <2> QED
    BY <1>3, <2>1 DEF Now, Left
<1>5. got' = Nothing
  BY <1>1 DEF IInv, Findings
<1>6. Laid'
  BY <1>3 DEF IInv, Laid
<1>7. Identities'
  BY <1>4, <1>5, IdleIs DEF Identities
<1>8. Findings'
  BY <1>5, IdleIs DEF Findings
<1>9. LocalType'
  BY DEF IInv, LocalType, Configurations
<1>10. Verdicts'
  <2>1. /\ verdict' # None => FreshAudit(verdict')
        /\ bundle' # None => FreshAudit(bundle') /\ bundle'.fresh
    BY DEF IInv, Verdicts
  <2>2. call'.tool = "bundle" => verdict' = None
    BY <1>3
  <2>3. ~(InBundle' /\ Left' < 8)
    <3>1. PICK n \in Nat : n = Len(steps)
      OBVIOUS
    <3>2. InBundle' => n > 8
      BY <1>3, <3>1 DEF InBundle
    <3>3. n > 8 => ~(n < 8)
      OBVIOUS
    <3> QED
      BY <1>4, <3>1, <3>2, <3>3
  <2>4. InBundle' => bundle' # None
    BY <1>3 DEF InBundle, InAudit, Contains
  <2> QED
    BY <2>1, <2>2, <2>3, <2>4 DEF Verdicts, FreshAudit, OneBuild
<1> QED
  BY <1>2, <1>6, <1>7, <1>8, <1>9, <1>10 DEF IInv

\* The tools of runs start (runs.py).
LEMMA RunToolsKeep ==
    ASSUME IInv, RunTools, Outside, UNCHANGED <<art, rep, got>>
    PROVE  IInv'
<1>1. conf' \in {conf, "other"} /\ verdict' \in {verdict, None} /\ bundle' = bundle
  BY DEF Outside
<1>2. CASE RunImplementation \/ GenerateBitstream
  <2>1. PICK q \in Seq(Names) : /\ q = <<"preflight", "launch">> /\ q # << >>
                                /\ q[1] = "preflight" /\ InOrder(q)
                                /\ Belongs("implementation", q) /\ Belongs("bitstream", q)
    BY PlansAreLaid
  <2>2. PICK tool \in {"implementation", "bitstream"} : StartTool(tool, q, FALSE)
    BY <1>2, <2>1 DEF RunImplementation, GenerateBitstream
  <2> QED
    BY <1>1, <2>1, <2>2, BeginKeeps DEF ToolNames
<1>3. ASSUME NEW e \in BOOLEAN, GetRunProgress(e)
      PROVE  IInv'
  <2>1. PICK q \in Seq(Names) : /\ q = <<"status", "terminal">> /\ q # << >>
                                /\ q[1] = "status" /\ InOrder(q) /\ Belongs("progress", q)
    BY PlansAreLaid
  <2>2. StartTool("progress", q, e)
    BY <1>3, <2>1 DEF GetRunProgress
  <2> QED
    BY <1>1, <2>1, <2>2, BeginKeeps DEF ToolNames
<1>4. CASE CleanRunOutputs
  BY <1>4, WorldStepKeeps
<1> QED
  BY <1>2, <1>3, <1>4 DEF RunTools

\* The tools of evidence start (tools.py).
LEMMA EvidenceToolsKeep ==
    ASSUME IInv, EvidenceTools, Outside
    PROVE  IInv'
<1>1. conf' \in {conf, "other"} /\ verdict' \in {verdict, None} /\ bundle' = bundle
  BY DEF Outside
<1>2. CASE CollectBuildArtifacts
  <2>1. PICK q \in Seq(Names) : /\ q = <<"evidence", "context", "markers", "export">>
                                /\ q # << >> /\ q[1] = "evidence" /\ InOrder(q)
                                /\ Belongs("artifacts", q)
    BY PlansAreLaid
  <2>2. StartTool("artifacts", q, TRUE) /\ UNCHANGED <<art, rep, got>>
    BY <1>2, <2>1 DEF CollectBuildArtifacts
  <2> QED
    BY <1>1, <2>1, <2>2, BeginKeeps DEF ToolNames
<1>3. CASE GetArtifactManifest
  <2>1. PICK q \in Seq(Names) : /\ q = ManifestSteps /\ q # << >> /\ q[1] = "identity"
                                /\ InOrder(q) /\ Belongs("manifest", q)
    <3>1. ManifestSteps # << >> /\ ManifestSteps[1] = "identity"
      BY DEF ManifestSteps
    <3> QED
      BY <3>1, PlansAreLaid
  <2>2. StartTool("manifest", q, TRUE) /\ UNCHANGED <<art, rep, got>>
    BY <1>3, <2>1 DEF GetArtifactManifest
  <2> QED
    BY <1>1, <2>1, <2>2, BeginKeeps DEF ToolNames
<1>4. CASE CollectReportBundle
  <2>1. PICK q \in Seq(Names) : /\ q = ReportSteps /\ q # << >> /\ q[1] = "evidence"
                                /\ InOrder(q) /\ Belongs("reports", q)
    <3>1. ReportSteps # << >> /\ ReportSteps[1] = "evidence"
      BY DEF ReportSteps
    <3> QED
      BY <3>1, PlansAreLaid
  <2>2. StartTool("reports", q, TRUE) /\ UNCHANGED <<art, rep, got>>
    BY <1>4, <2>1 DEF CollectReportBundle
  <2> QED
    BY <1>1, <2>1, <2>2, BeginKeeps DEF ToolNames
<1> QED
  BY <1>2, <1>3, <1>4 DEF EvidenceTools

\* The tools of the handoff start (tools.py).
LEMMA HandoffToolsKeep ==
    ASSUME IInv, HandoffTools
    PROVE  IInv'
<1>1. CASE RunProjectAudit
  <2>1. PICK q \in Seq(Names) : /\ q = AuditSteps /\ q # << >> /\ q[1] = "configurations"
                                /\ InOrder(q) /\ Belongs("audit", q)
    BY AuditIsLaid
  <2>2. StartTool("audit", q, TRUE) /\ UNCHANGED <<art, rep, got>>
        /\ conf' \in {conf, "other"} /\ verdict' \in {verdict, None} /\ bundle' = bundle
    BY <1>1, <2>1 DEF RunProjectAudit, Outside
  <2> QED
    BY <2>1, <2>2, BeginKeeps DEF ToolNames
<1>2. CASE CollectDiagnosticBundle
  <2>1. PICK q \in Seq(Names) : /\ q = AuditSteps \o BundleSteps /\ q # << >>
                                /\ q[1] = "configurations" /\ InOrder(q)
                                /\ Belongs("bundle", q) /\ Len(q) > 8
                                /\ \E i \in 1..Len(q) : q[i] = "evaluate"
    <3>1. 16 > 8 /\ 9 \in 1..16
      OBVIOUS
    <3>2. (AuditSteps \o BundleSteps)[9] = "evaluate"
      BY DEF AuditSteps, BundleSteps, ManifestSteps, LoadSteps
    <3> QED
      BY <3>1, <3>2, BundleIsLaid
  <2>2. StartTool("bundle", q, TRUE) /\ UNCHANGED <<art, rep, got>>
        /\ conf' = "other" /\ verdict' = None /\ bundle' = None
    BY <1>2, <2>1 DEF CollectDiagnosticBundle
  <2> QED
    BY <2>1, <2>2, BeginKeeps DEF ToolNames
<1>3. CASE ReuseDiagnosticBundle
  <2>1. PICK q \in Seq(Names) : /\ q = <<"identity", "reuse">> \o BundleSteps /\ q # << >>
                                /\ q[1] = "identity" /\ InOrder(q)
                                /\ Belongs("bundle", q) /\ Len(q) > 8
    <3>1. 9 > 8
      OBVIOUS
    <3> QED
      BY <3>1, ReuseIsLaid
  <2>2. StartTool("bundle", q, TRUE) /\ UNCHANGED <<art, rep, got>>
        /\ conf' = "other" /\ verdict' = None /\ bundle' = bundle /\ bundle # None
    BY <1>3, <2>1 DEF ReuseDiagnosticBundle, StartTool, Outside
  <2> QED
    BY <2>1, <2>2, BeginKeeps DEF ToolNames
<1> QED
  BY <1>1, <1>2, <1>3 DEF HandoffTools

(***************************************************************************)
(* Steps that fail                                                         *)
(***************************************************************************)

\* A step of a tool that leaves the world alone.
LEMMA WorldIsStill ==
    ASSUME IInv, unchangedWorld, UNCHANGED <<art, rep>>
    PROVE  RunInv' /\ UNCHANGED <<run, session, art>>
  BY RunRests DEF unchangedWorld, IInv, RunInv, WorldType

\* A step that leaves the handoff alone.
LEMMA RestIsKept ==
    ASSUME IInv, UNCHANGED handoffVars
    PROVE  /\ UNCHANGED <<conf, verdict, bundle>> /\ LocalType'
           /\ verdict' # None => FreshAudit(verdict')
           /\ bundle' # None => FreshAudit(bundle') /\ bundle'.fresh
  BY DEF handoffVars, IInv, LocalType, Verdicts

\* An audit has its evaluation ahead as long as it runs.
LEMMA AuditIsAhead ==
    ASSUME Laid, call # Idle, call.tool = "audit"
    PROVE  InAudit
<1>1. call.todo \in Seq(Names) /\ call.todo # << >> /\ Belongs("audit", call.todo)
  BY Working
<1>2. Len(call.todo) \in 1..Len(call.todo) /\ call.todo[Len(call.todo)] = "evaluate"
  BY <1>1, LastIs
<1> QED
  BY <1>2 DEF InAudit, Contains

\* A refusal, of the tool or of a tolerated stage.
LEMMA RefuseKeeps ==
    ASSUME IInv, call # Idle, Now \notin {"signoff", "judge", "evaluate"}, Refuse,
           UNCHANGED handoffVars
    PROVE  IInv'
<1>1. RunInv' /\ UNCHANGED <<run, session, art>>
  BY WorldIsStill DEF Refuse
<1>2. /\ LocalType' /\ (verdict' # None => FreshAudit(verdict'))
      /\ bundle' # None => FreshAudit(bundle') /\ bundle'.fresh
  BY RestIsKept
<1>3. CASE Ends
  BY <1>1, <1>2, <1>3, EndKeeps
<1>4. CASE Skips /\ (~InAudit => Left \in 2..4 /\ Left' = 1)
  <2>1. ASSUME ~InAudit
        PROVE  /\ Left \in 2..7 /\ Left' \in 1..4
               /\ verdict.fresh => got.rep = verdict.rep
    <3>1. Left \in 2..4 /\ Left' = 1
      BY <1>4, <2>1
    <3>2. InBundle
      BY <1>4, <2>1, AuditIsAhead DEF IInv, InBundle, Skips
    <3>3. Left < 8 /\ Left < 5 /\ Left \in 2..7 /\ Left' \in 1..4
      BY <3>1
    <3> QED
      BY <3>2, <3>3 DEF IInv, Verdicts
  <2> QED
    BY <1>1, <1>4, <2>1, SkipKeeps
<1> QED
  BY <1>3, <1>4, RefuseDoes DEF IInv

\* A Tcl command fails, or a validation refuses.
LEMMA FailureKeeps ==
    ASSUME IInv, TclFails \/ EvidenceMissing \/ RunNotReady \/ ManifestRejected
                   \/ ReportsRejected \/ ReuseRefused,
           UNCHANGED handoffVars
    PROVE  IInv'
<1>1. Refuse /\ Now \notin {"idle", "signoff", "judge", "evaluate"}
  BY DEF TclFails, TclSteps, EvidenceMissing, RunNotReady, ManifestRejected, ReportsRejected,
         ReuseRefused, At
<1>2. call # Idle
  BY <1>1 DEF Now
<1> QED
  BY <1>1, <1>2, RefuseKeeps

\* A Tcl command times out.
LEMMA TimeoutKeeps ==
    ASSUME IInv, TclTimesOut, UNCHANGED handoffVars
    PROVE  IInv'
<1>1. Ends /\ RunInv'
  BY WorldIsStill DEF TclTimesOut, GiveUp, Ends
<1> QED
  BY <1>1, RestIsKept, EndKeeps

(***************************************************************************)
(* Evidence                                                                *)
(***************************************************************************)

\* Which tools are at a step of evidence.
LEMMA EvidenceHas ==
    ASSUME IInv, Now \in EvidenceNames \cup AuditNames
    PROVE  /\ call # Idle /\ call \in Handlers /\ got \in Locals
           /\ call.tool \notin {"implementation", "bitstream", "progress"}
           /\ Now = "export" => call.tool \notin {"audit", "bundle"}
           /\ Now \in {"export", "validate", "write"} /\ call.tool \notin {"audit", "bundle"}
                => Left = 1
           /\ Now \in AuditNames => call.tool \in {"audit", "bundle"}
<1>1. call # Idle
  BY DEF Now, EvidenceNames, AuditNames
<1>2. /\ call.todo \in Seq(Names) /\ call.todo # << >> /\ Now = call.todo[1]
      /\ Len(call.todo) \in Nat \ {0} /\ call.tool \in ToolNames
      /\ Belongs(call.tool, call.todo)
  BY <1>1, Working DEF IInv
<1>3. 1 \in 1..Len(call.todo)
  BY <1>2
<1>4. call.tool \notin {"implementation", "bitstream", "progress"}
  BY <1>2, <1>3 DEF Belongs, LaunchNames, ProgressNames, EvidenceNames, AuditNames
<1>5. Now = "export" => call.tool \notin {"audit", "bundle"}
  BY <1>2, <1>3 DEF Belongs
<1>6. ASSUME call.tool \notin {"audit", "bundle"}, Now \in {"export", "validate", "write"}
      PROVE  Left = 1
  <2>1. call.tool \in {"artifacts", "manifest", "reports"}
    BY <1>2, <1>4, <1>6 DEF ToolNames
  <2> QED
    BY <1>2, <1>3, <1>6, <2>1 DEF Belongs, Left
<1>7. Now \in AuditNames => call.tool \in {"audit", "bundle"}
  BY <1>2, <1>3, <1>4 DEF Belongs, ToolNames, EvidenceNames, AuditNames
<1> QED
  BY <1>1, <1>4, <1>5, <1>6, <1>7 DEF IInv, Laid

\* A step that finds no manifest, in any tool that looks at evidence.
LEMMA PassStepKeeps ==
    ASSUME IInv, Now \in (EvidenceNames \cup AuditNames) \ {"evaluate", "reuse", "current_run"},
           NEW new \in Handlers, new.tool = call.tool, new.todo = call.todo,
           NEW found \in Locals, Step(new, found), RunInv', LocalType',
           UNCHANGED <<run, session, art, verdict, bundle>>,
           Now \in {"evidence", "identity"} => Captured(new.id),
           Now \in {"context", "markers"} => Confirmed(new.id),
           Now = "generate" => new.id \in Closures /\ (new.seen # None => Confirmed(new.id)),
           found.art = got.art, found.rep = got.rep, found.marks # None => found.marks > 0,
           InBundle /\ verdict.fresh /\ Now = "load" => found.load = verdict.rep,
           Now # "load" => found.load = got.load
    PROVE  IInv'
<1>1. call # Idle /\ call.tool \notin {"implementation", "bitstream", "progress"}
  BY EvidenceHas
<1>2. Ends \/ Goes(new.id, new.seen, found)
  BY <1>1, StepGoes DEF IInv
<1>3. CASE Ends
  <2>1. /\ verdict' # None => FreshAudit(verdict')
        /\ bundle' # None => FreshAudit(bundle') /\ bundle'.fresh
    BY DEF IInv, Verdicts
  <2> QED
    BY <1>3, <2>1, EndKeeps
<1>4. CASE Goes(new.id, new.seen, found)
  <2>1. <<Now, Now'>> \in Follows
    BY <1>1, <1>4, GoesOn DEF IInv
  <2>2. /\ Now' \in {"context", "current_run", "generate", "reuse"}
             => Now \in {"evidence", "identity"}
        /\ Now' \in {"validate", "markers", "export"} => Now \in {"context", "markers"}
        /\ Now' = "write" => Now = "generate"
    BY <2>1 DEF Follows
  <2> QED
    BY <1>1, <1>4, <2>2, PassesOn
<1> QED
  BY <1>2, <1>3, <1>4

\* The identity of the design is that of a clean run.
LEMMA NowCaptured ==
    ASSUME IInv
    PROVE  closure \in Closures /\ DesignIdentity = closure /\ Captured(closure)
<1>1. closure \in Closures
  BY DEF IInv, RunInv, WorldType
<1>2. ASSUME Same, ~run.needs
      PROVE  run.in = closure
  <2>1. run.phase = "written"
    BY <1>2, NotTheSame DEF IInv
  <2>2. run.in \in Closures /\ run.in.set = closure.set /\ run.in.files = closure.files
    BY <1>2, <2>1 DEF IInv, RunInv, Tracked, Built
  <2> QED
    BY <1>1, <2>2 DEF Closures
<1> QED
  BY <1>1, <1>2, IdentityIs DEF Captured

\* The identity is captured, for a collection or for a validation.
LEMMA CaptureKeeps ==
    ASSUME IInv, CaptureEvidence \/ CaptureIdentity, UNCHANGED handoffVars
    PROVE  IInv'
<1>1. /\ Now \in {"evidence", "identity"} /\ unchangedWorld /\ UNCHANGED <<art, rep>>
      /\ Step([call EXCEPT !.id = DesignIdentity], got)
  BY DEF CaptureEvidence, CaptureIdentity, At
<1>2. RunInv' /\ UNCHANGED <<run, session, art>> /\ LocalType' /\ UNCHANGED <<verdict, bundle>>
  BY <1>1, WorldIsStill, RestIsKept
<1>3. call \in Handlers /\ got \in Locals
  BY <1>1, EvidenceHas DEF EvidenceNames
<1>4. PICK new : new = [call EXCEPT !.id = closure]
  OBVIOUS
<1>5. /\ new \in Handlers /\ new.tool = call.tool /\ new.todo = call.todo
      /\ Captured(new.id) /\ Step(new, got)
  BY <1>1, <1>3, <1>4, NowCaptured DEF Handlers
<1>6. PICK found \in Locals : found = got
  BY <1>3
<1>7. Step(new, found) /\ (found.marks # None => found.marks > 0)
  BY <1>5, <1>6 DEF IInv, Findings
<1> QED
  BY <1>1, <1>2, <1>5, <1>6, <1>7, PassStepKeeps DEF EvidenceNames

\* The run that a manifest is about is not dirty, as the context shows.
LEMMA ContextKeeps ==
    ASSUME IInv, ReadContext, UNCHANGED handoffVars
    PROVE  IInv'
<1>1. /\ Now = "context" /\ unchangedWorld /\ UNCHANGED <<art, rep>>
      /\ Step(call, got) /\ ~run.needs
  BY DEF ReadContext, At, RunReady
<1>2. RunInv' /\ UNCHANGED <<run, session, art>> /\ LocalType' /\ UNCHANGED <<verdict, bundle>>
  BY <1>1, WorldIsStill, RestIsKept
<1>3. call \in Handlers /\ got \in Locals
  BY <1>1, EvidenceHas DEF EvidenceNames
<1>4. PICK new \in Handlers : new = call
  BY <1>3
<1>5. PICK found \in Locals : found = got
  BY <1>3
<1>6. Step(new, found)
  BY <1>1, <1>4, <1>5
<1>7. Confirmed(new.id) /\ (found.marks # None => found.marks > 0)
  BY <1>1, <1>4, <1>5 DEF IInv, Identities, Findings, Captured, Confirmed
<1> QED
  BY <1>1, <1>2, <1>4, <1>5, <1>6, <1>7, PassStepKeeps DEF EvidenceNames

\* The markers of the run are read.
LEMMA MarkersKeep ==
    ASSUME IInv, ReadMarkers, UNCHANGED handoffVars
    PROVE  IInv'
<1>1. /\ Now = "markers" /\ unchangedWorld /\ UNCHANGED <<art, rep>>
      /\ Step(call, [got EXCEPT !.marks = IF MarkersComplete THEN run.marks ELSE None])
  BY DEF ReadMarkers, At
<1>2. RunInv' /\ UNCHANGED <<run, session, art>> /\ LocalType' /\ UNCHANGED <<verdict, bundle>>
  BY <1>1, WorldIsStill, RestIsKept
<1>3. call \in Handlers /\ got \in Locals
  BY <1>1, EvidenceHas DEF EvidenceNames
<1>4. PICK new \in Handlers : new = call
  BY <1>3
<1>5. PICK m : m = IF MarkersComplete THEN run.marks ELSE None
  OBVIOUS
<1>6. m \in 0..MaxExecs \cup {None} /\ (m # None => m > 0)
  BY <1>5 DEF MarkersComplete, IInv, RunInv, WorldType, Runs
<1>7. PICK found : found = [got EXCEPT !.marks = m]
  OBVIOUS
<1>8. /\ found \in Locals /\ found.marks = m /\ found.art = got.art /\ found.rep = got.rep
      /\ found.load = got.load
  BY <1>3, <1>6, <1>7 DEF Locals
<1>9. Step(new, found)
  BY <1>1, <1>4, <1>5, <1>7
<1>10. Confirmed(new.id)
  BY <1>1, <1>4 DEF IInv, Identities
<1> QED
  BY <1>1, <1>2, <1>4, <1>6, <1>8, <1>9, <1>10, PassStepKeeps DEF EvidenceNames

\* The reports are generated; the log is kept if the run is complete.
LEMMA GenerateKeeps ==
    ASSUME IInv, GenerateReports, UNCHANGED handoffVars
    PROVE  IInv'
<1>1. /\ Now = "generate" /\ unchangedWorld /\ UNCHANGED <<art, rep>>
      /\ Step([call EXCEPT !.seen = IF RunComplete(run) THEN Log ELSE None], got)
  BY DEF GenerateReports, At
<1>2. RunInv' /\ UNCHANGED <<run, session, art>> /\ LocalType' /\ UNCHANGED <<verdict, bundle>>
  BY <1>1, WorldIsStill, RestIsKept
<1>3. call \in Handlers /\ got \in Locals
  BY <1>1, EvidenceHas DEF EvidenceNames
<1>4. PICK seen : seen = IF RunComplete(run) THEN Log ELSE None
  OBVIOUS
<1>5. seen \in Logs \cup {None} /\ (seen # None => ~run.needs)
  BY <1>4 DEF RunComplete, Log, Logs, IInv, RunInv, WorldType, Runs
<1>6. PICK new : new = [call EXCEPT !.seen = seen]
  OBVIOUS
<1>7. /\ new \in Handlers /\ new.tool = call.tool /\ new.todo = call.todo
      /\ new.id = call.id /\ new.seen = seen
  BY <1>3, <1>5, <1>6 DEF Handlers
<1>8. PICK found \in Locals : found = got
  BY <1>3
<1>9. Step(new, found)
  BY <1>1, <1>4, <1>6, <1>8
<1>10. Captured(call.id)
  BY <1>1 DEF IInv, Identities
<1>11. new.id \in Closures /\ (new.seen # None => Confirmed(new.id))
  BY <1>5, <1>7, <1>10 DEF Captured, Confirmed
<1>12. found.marks # None => found.marks > 0
  BY <1>8 DEF IInv, Findings
<1> QED
  BY <1>1, <1>2, <1>7, <1>8, <1>9, <1>11, <1>12, PassStepKeeps DEF EvidenceNames

\* After its last step the tool ends.
LEMMA LastStepEnds ==
    ASSUME IInv, call # Idle, Left = 1, NEW new, NEW found, Step(new, found)
    PROVE  Ends
  BY DEF Step, Advance, Ends, Left

\* The bits that are exported belong to the markers, and so to the run as it is.
LEMMA ExportKeeps ==
    ASSUME IInv, ExportArtifacts, UNCHANGED handoffVars
    PROVE  IInv'
<1>1. /\ Now = "export" /\ unchangedWorld /\ rep' = rep /\ Step(call, got)
      /\ art' = IF WithinExecution(bit, got.marks)
                THEN [id |-> call.id, gen |-> session.gen, marks |-> got.marks, bit |-> bit]
                ELSE None
  BY DEF ExportArtifacts, At
<1>2. call # Idle /\ Left = 1 /\ got \in Locals
  BY <1>1, EvidenceHas DEF EvidenceNames
<1>3. Ends
  BY <1>1, <1>2, LastStepEnds
<1>4. call.id \in Closures /\ session.gen \in 1..MaxGen
  BY <1>1 DEF IInv, Identities, Confirmed, RunInv, WorldType
<1>5. ASSUME WithinExecution(bit, got.marks)
      PROVE  /\ art' \in ArtifactManifests /\ art'.marks > 0 /\ art'.bit.exec = art'.marks
             /\ art'.marks <= run.exec /\ (art'.marks = run.marks => run.phase = "written")
  <2>1. PICK m : m = got.marks
    OBVIOUS
  <2>2. m \in 0..MaxExecs /\ m > 0 /\ bit \in Bits /\ bit.exec = m
    BY <1>2, <1>5, <2>1 DEF WithinExecution, IInv, Findings, Locals, RunInv, WorldType
  <2>3. bit # None /\ m # 0
    BY <1>5, <2>2 DEF WithinExecution
  <2>4. m <= run.exec /\ (m = run.exec => run.phase = "written")
    BY <2>2, <2>3 DEF IInv, RunInv, BitIsOfRun
  <2>5. m = run.marks => m = run.exec
    BY <2>3 DEF IInv, RunInv, Tracked
  <2>6. art' = [id |-> call.id, gen |-> session.gen, marks |-> m, bit |-> bit]
    BY <1>1, <1>5, <2>1
  <2>7. art' \in ArtifactManifests /\ art'.marks = m /\ art'.bit = bit
    BY <1>4, <2>2, <2>6 DEF ArtifactManifests
  <2> QED
    BY <2>2, <2>4, <2>5, <2>7
<1>6. UNCHANGED <<closure, edits, session, run, bit, launch, rep>>
  BY <1>1 DEF unchangedWorld
<1>7. art' \in ArtifactManifests \cup {None} /\ ArtIsOfRun'
  BY <1>1, <1>5, <1>6 DEF ArtIsOfRun
<1>8. RunInv'
  BY <1>6, <1>7 DEF IInv, RunInv, WorldType, Tracked, Built, BitIsOfRun
<1> QED
  BY <1>3, <1>8, RestIsKept, EndKeeps

\* A manifest that holds is of the run as it is, whose identity was confirmed.
LEMMA ManifestIsOfRun ==
    ASSUME IInv, Now = "validate", ManifestHolds
    PROVE  /\ art # None /\ Same /\ art.gen = session.gen /\ art.bit.in \in {art.id, None}
           /\ run.in = art.id
<1>1. /\ art # None /\ art.marks = run.marks /\ art.gen = session.gen /\ art.id = call.id
      /\ art.bit = bit /\ bit # None /\ bit.exec = run.marks /\ run.marks > 0
  BY DEF ManifestHolds, MarkersComplete, WithinExecution
<1>2. Same /\ Confirmed(call.id)
  BY <1>1 DEF Same, IInv, Identities
<1>3. run.marks \in 0..MaxExecs
  BY DEF IInv, RunInv, WorldType, Runs
<1>4. run.marks # 0 /\ run.marks = run.exec
  BY <1>1, <1>3 DEF IInv, RunInv, Tracked
<1>5. bit.in \in {run.in, None}
  BY <1>1, <1>4 DEF IInv, RunInv, BitIsOfRun
<1> QED
  BY <1>1, <1>2, <1>5 DEF Confirmed

\* An artifact manifest is accepted.
LEMMA ValidateKeeps ==
    ASSUME IInv, ValidateManifest, UNCHANGED handoffVars
    PROVE  IInv'
<1>1. /\ Now = "validate" /\ ManifestHolds /\ unchangedWorld /\ UNCHANGED <<art, rep>>
      /\ Step([call EXCEPT !.id = None], [got EXCEPT !.art = art])
  BY DEF ValidateManifest, At
<1>2. RunInv' /\ UNCHANGED <<run, session, art>> /\ LocalType' /\ UNCHANGED <<verdict, bundle>>
  BY <1>1, WorldIsStill, RestIsKept
<1>3. /\ call \in Handlers /\ got \in Locals /\ call # Idle
      /\ call.tool \notin {"implementation", "bitstream", "progress"}
      /\ call.tool \notin {"audit", "bundle"} => Left = 1
  BY <1>1, EvidenceHas DEF EvidenceNames
<1>4. PICK new : new = [call EXCEPT !.id = None]
  OBVIOUS
<1>5. /\ new \in Handlers /\ new.tool = call.tool /\ new.todo = call.todo /\ new.id = None
      /\ new.seen = call.seen
  BY <1>3, <1>4 DEF Handlers
<1>6. PICK found : found = [got EXCEPT !.art = art]
  OBVIOUS
<1>7. /\ found \in Locals /\ found.art = art /\ found.rep = got.rep /\ found.marks = got.marks
      /\ found.load = got.load
  BY <1>3, <1>6 DEF Locals, IInv, RunInv, WorldType
<1>8. Step(new, found)
  BY <1>1, <1>4, <1>6
<1>9. Ends \/ Goes(None, new.seen, found)
  BY <1>3, <1>5, <1>8, StepGoes DEF IInv
<1>10. CASE Ends
  BY <1>2, <1>10, RestIsKept, EndKeeps
<1>11. CASE Goes(None, new.seen, found)
  <2>1. <<Now, Now'>> \in Follows /\ Left > 1
    BY <1>3, <1>7, <1>11, GoesOn DEF IInv
  <2>2. Now' \in {"load", "bundle"}
    BY <1>1, <2>1 DEF Follows
  <2>3. call.tool \in {"audit", "bundle"}
    BY <1>3, <2>1
  <2>4. Verdicts' /\ (InBundle' => InBundle) /\ (InBundle => Left' = Left - 1)
    BY <1>1, <1>2, <1>3, <1>7, <1>11, VerdictsRest
  <2>5. InBundle' => ~(Left' > 1)
    BY <1>1, <2>4, WhereInBundle DEF IInv
  <2>6. /\ art.gen = session.gen /\ art.bit.in \in {art.id, None} /\ Same
        /\ run.in = art.id
    BY <1>1, ManifestIsOfRun
  <2>7. got.rep # None => Confirmed(got.rep.id) /\ got.rep.gen = session.gen
    BY DEF IInv, Identities
  <2>8. got.rep # None => got.rep.id = art.id
    BY <2>6, <2>7 DEF Confirmed
  <2>9. found.marks # None => found.marks > 0
    BY <1>7 DEF IInv, Findings
  <2> QED
    BY <1>2, <1>3, <1>7, <1>11, <2>2, <2>3, <2>4, <2>5, <2>6, <2>7, <2>8, <2>9, GoesKeeps
<1> QED
  BY <1>9, <1>10, <1>11

\* Reports are written for the identity of the run that was opened for them.
LEMMA WriteKeeps ==
    ASSUME IInv, WriteReportManifest, UNCHANGED handoffVars
    PROVE  IInv'
<1>1. /\ Now = "write" /\ unchangedWorld /\ art' = art
      /\ rep' = IF LogUnmoved THEN [id |-> call.id, gen |-> session.gen] ELSE None
      /\ Step([call EXCEPT !.id = None, !.seen = None], [got EXCEPT !.rep = rep'])
  BY DEF WriteReportManifest, At
<1>2. UNCHANGED <<closure, edits, session, run, bit, launch, art>>
  BY <1>1 DEF unchangedWorld
<1>3. /\ call \in Handlers /\ got \in Locals /\ call # Idle
      /\ call.tool \notin {"implementation", "bitstream", "progress"}
      /\ call.tool \notin {"audit", "bundle"} => Left = 1
  BY <1>1, EvidenceHas DEF EvidenceNames
<1>4. call.id \in Closures /\ (call.seen # None => Confirmed(call.id))
  BY <1>1 DEF IInv, Identities
<1>5. PICK r : r = rep'
  OBVIOUS
<1>6. r \in ReportManifests \cup {None} /\ (r # None => Confirmed(r.id) /\ r.gen = session.gen)
  <2>1. CASE LogUnmoved
    <3>1. Log \in Logs
      BY DEF Log, Logs, IInv, RunInv, WorldType, Runs
    <3>2. call.seen # None
      BY <2>1, <3>1, HandoffAssumption DEF LogUnmoved
    <3>3. r = [id |-> call.id, gen |-> session.gen] /\ session.gen \in 1..MaxGen
      BY <1>1, <1>5, <2>1 DEF IInv, RunInv, WorldType
    <3> QED
      BY <1>4, <3>2, <3>3 DEF ReportManifests
  <2>2. CASE ~LogUnmoved
    BY <1>1, <1>5, <2>2
  <2> QED
    BY <2>1, <2>2
<1>7. RunInv'
  BY <1>2, <1>5, <1>6 DEF IInv, RunInv, WorldType, Tracked, Built, BitIsOfRun, ArtIsOfRun
<1>8. LocalType' /\ UNCHANGED <<verdict, bundle>>
  BY RestIsKept
<1>9. PICK new : new = [call EXCEPT !.id = None, !.seen = None]
  OBVIOUS
<1>10. /\ new \in Handlers /\ new.tool = call.tool /\ new.todo = call.todo /\ new.id = None
       /\ new.seen = None
  BY <1>3, <1>9 DEF Handlers
<1>11. PICK found : found = [got EXCEPT !.rep = r]
  OBVIOUS
<1>12. /\ found \in Locals /\ found.art = got.art /\ found.rep = r /\ found.marks = got.marks
  BY <1>3, <1>6, <1>11 DEF Locals
<1>13. Step(new, found)
  BY <1>1, <1>5, <1>9, <1>11
<1>14. Ends \/ Goes(None, None, found)
  BY <1>3, <1>10, <1>13, StepGoes DEF IInv
<1>15. CASE Ends
  BY <1>7, <1>15, RestIsKept, EndKeeps
<1>16. CASE Goes(None, None, found)
  <2>1. <<Now, Now'>> \in Follows /\ Left > 1
    BY <1>3, <1>12, <1>16, GoesOn DEF IInv
  <2>2. Now' = "evaluate"
    BY <1>1, <2>1 DEF Follows
  <2>3. call.tool \in {"audit", "bundle"}
    BY <1>3, <2>1
  <2>4. ~InBundle
    BY <1>1, WhereInBundle DEF IInv
  <2>5. Verdicts' /\ ~InBundle'
    BY <1>1, <1>2, <1>3, <1>8, <1>12, <1>16, <2>4, VerdictsRest
  <2>6. found.art # None => found.art = art /\ found.art.gen = session.gen
                            /\ found.art.bit.in \in {found.art.id, None}
    BY <1>12 DEF IInv, Identities
  <2>7. found.marks # None => found.marks > 0
    BY <1>12 DEF IInv, Findings
  <2> QED
    BY <1>2, <1>3, <1>6, <1>7, <1>8, <1>12, <1>16, <2>2, <2>3, <2>5, <2>6, <2>7, GoesKeeps
<1> QED
  BY <1>14, <1>15, <1>16

\* Reports are accepted for the identity that was captured, of a clean run.
LEMMA AcceptKeeps ==
    ASSUME IInv, AcceptReports, UNCHANGED handoffVars
    PROVE  IInv'
<1>1. /\ Now = "current_run" /\ ReportHolds /\ unchangedWorld /\ UNCHANGED <<art, rep>>
      /\ Step([call EXCEPT !.id = None], [got EXCEPT !.rep = got.load, !.load = None])
  BY DEF AcceptReports, At
<1>2. RunInv' /\ UNCHANGED <<run, session, art>> /\ LocalType' /\ UNCHANGED <<verdict, bundle>>
  BY <1>1, WorldIsStill, RestIsKept
<1>3. /\ call \in Handlers /\ got \in Locals /\ call # Idle /\ call.tool \in {"audit", "bundle"}
  BY <1>1, EvidenceHas DEF AuditNames
<1>4. PICK new : new = [call EXCEPT !.id = None]
  OBVIOUS
<1>5. /\ new \in Handlers /\ new.tool = call.tool /\ new.todo = call.todo /\ new.id = None
  BY <1>3, <1>4 DEF Handlers
<1>6. PICK found : found = [got EXCEPT !.rep = got.load, !.load = None]
  OBVIOUS
<1>7. /\ found \in Locals /\ found.art = got.art /\ found.rep = got.load
      /\ found.marks = got.marks
  BY <1>3, <1>6 DEF Locals
<1>8. Step(new, found)
  BY <1>1, <1>4, <1>6
<1>9. Ends \/ Goes(None, new.seen, found)
  BY <1>3, <1>5, <1>8, StepGoes DEF IInv
<1>10. CASE Ends
  BY <1>2, <1>10, RestIsKept, EndKeeps
<1>11. CASE Goes(None, new.seen, found)
  <2>1. <<Now, Now'>> \in Follows
    BY <1>3, <1>7, <1>11, GoesOn DEF IInv
  <2>2. Now' \in {"signoff", "judge", "identity"}
    BY <1>1, <2>1 DEF Follows
  <2>3. Confirmed(found.rep.id) /\ found.rep.gen = session.gen
    <3>1. Captured(call.id)
      BY <1>1 DEF IInv, Identities
    <3>2. got.load.id = call.id /\ got.load.gen = session.gen /\ ~run.needs
      BY <1>1 DEF ReportHolds, SameDesign, CurrentRun, RunComplete
    <3> QED
      BY <1>7, <3>1, <3>2 DEF Captured, Confirmed
  <2>4. Verdicts' /\ (InBundle' => InBundle) /\ (InBundle => Left > 1)
    BY <1>1, <1>2, <1>3, <1>7, <1>11, VerdictsRest
  <2>5. InBundle' => found.art = None
    BY <1>7, <2>4 DEF IInv, Findings
  <2>6. found.art # None => found.art = art /\ found.art.gen = session.gen
                            /\ found.art.bit.in \in {found.art.id, None}
    BY <1>7 DEF IInv, Identities
  <2>7. found.marks # None => found.marks > 0
    BY <1>7 DEF IInv, Findings
  <2> QED
    BY <1>2, <1>3, <1>7, <1>11, <2>2, <2>3, <2>4, <2>5, <2>6, <2>7, GoesKeeps
<1> QED
  BY <1>9, <1>10, <1>11

\* Every step of the tools of evidence (tools.py, artifacts.py, prehardware.py).
LEMMA EvidenceStepKeeps ==
    ASSUME IInv, EvidenceSteps, UNCHANGED handoffVars
    PROVE  IInv'
  BY FailureKeeps, TimeoutKeeps, CaptureKeeps, ContextKeeps, MarkersKeep, ExportKeeps,
     ValidateKeeps, GenerateKeeps, WriteKeeps, AcceptKeeps DEF EvidenceSteps

(***************************************************************************)
(* Audit and bundle                                                        *)
(***************************************************************************)

\* The audit collects the configuration of the run.
LEMMA ConfigurationKeeps ==
    ASSUME IInv, CollectConfigurations
    PROVE  IInv'
<1>1. /\ Now = "configurations" /\ unchangedWorld /\ UNCHANGED <<art, rep, verdict, bundle>>
      /\ Step(call, got)
      /\ conf' \in {"other"} \cup (IF session.live THEN {Configuration} ELSE {})
  BY DEF CollectConfigurations, At
<1>2. RunInv' /\ UNCHANGED <<run, session, art>>
  BY <1>1, WorldIsStill
<1>3. Configuration \in Configurations
  BY Zenon DEF Configuration, Configurations
<1>4. LocalType'
  <2>1. conf' = "other" \/ conf' = Configuration
    BY <1>1
  <2>2. conf' \in Configurations
    BY <1>3, <2>1 DEF Configurations
  <2> QED
    BY <1>1, <2>2 DEF IInv, LocalType
<1>5. call \in Handlers /\ got \in Locals
  BY <1>1, EvidenceHas DEF AuditNames
<1>6. PICK new \in Handlers : new = call
  BY <1>5
<1>7. PICK found \in Locals : found = got
  BY <1>5
<1>8. Step(new, found) /\ (found.marks # None => found.marks > 0)
  BY <1>1, <1>6, <1>7 DEF IInv, Findings
<1> QED
  BY <1>1, <1>2, <1>4, <1>6, <1>7, <1>8, PassStepKeeps DEF EvidenceNames, AuditNames

\* Signoff and what follows it come before the audit is evaluated.
LEMMA SignoffIsInAudit ==
    ASSUME IInv, Now \in {"signoff", "judge"}
    PROVE  /\ call # Idle /\ call \in Handlers /\ got \in Locals
           /\ call.tool \in {"audit", "bundle"} /\ InAudit
           /\ call.todo \in Seq(Names) /\ Len(call.todo) > 1 /\ call.todo[1] = Now
           /\ InOrder(call.todo) /\ Belongs(call.tool, call.todo)
           /\ call.tool = "bundle" => Len(call.todo) >= 8
<1>1. /\ call # Idle /\ call \in Handlers /\ got \in Locals /\ call.tool \in {"audit", "bundle"}
  BY EvidenceHas DEF AuditNames
<1>2. /\ call.todo \in Seq(Names) /\ call.todo # << >> /\ call.todo[1] = Now
      /\ Len(call.todo) \in Nat \ {0}
      /\ InOrder(call.todo) /\ Belongs(call.tool, call.todo)
  BY <1>1, Working DEF IInv
<1>3. InAudit
  BY <1>1, AuditIsAhead, WhereInBundle DEF IInv, InBundle
<1>4. call.todo[Len(call.todo)] \in {"evaluate", "bundle"}
  BY <1>1, <1>2, LastIs
<1>5. PICK n \in Nat : n = Len(call.todo)
  BY <1>2
<1>6. n # 0 /\ n # 1
  BY <1>2, <1>4, <1>5
<1>7. n > 1
  BY <1>6
<1>8. ASSUME call.tool = "bundle"
      PROVE  Len(call.todo) >= 8
  <2>1. PICK i \in 1..Len(call.todo) : call.todo[i] = "evaluate"
    BY <1>3 DEF InAudit, Contains
  <2>2. Len(call.todo) - i = 7
    BY <1>2, <1>8, <2>1 DEF Belongs, Bundling
  <2>3. i \in 1..n /\ n - i = 7
    BY <1>5, <2>1, <2>2
  <2>4. n >= 8
    BY <2>3
  <2> QED
    BY <1>5, <2>4
<1> QED
  BY <1>1, <1>2, <1>3, <1>5, <1>7, <1>8

\* The tool goes on with a longer way.
LEMMA SpliceKeeps ==
    ASSUME IInv, call # Idle, call \in Handlers, call.tool \in {"audit", "bundle"},
           NEW q \in Seq(Names), q # << >>, InOrder(q), Belongs(call.tool, q),
           q[1] \in {"load", "evidence"},
           call.tool = "bundle" => Len(q) > 9,
           call' = [call EXCEPT !.todo = q], UNCHANGED <<art, rep, got, handoffVars>>,
           unchangedWorld
    PROVE  IInv'
<1>1. RunInv' /\ UNCHANGED <<run, session, art>>
  BY WorldIsStill
<1>2. /\ LocalType' /\ UNCHANGED <<conf, verdict, bundle>>
  BY RestIsKept
<1>3. /\ call' \in Handlers /\ call'.tool = call.tool /\ call'.todo = q /\ call'.id = call.id
      /\ call'.seen = call.seen /\ got' = got
  BY DEF Handlers
<1>4. call' # Idle
  BY <1>3, IdleIs
<1>5. Now' = q[1]
  <2>1. Head(q) = q[1]
    OBVIOUS
  <2> QED
    BY <1>3, <1>4, <2>1 DEF Now
<1>6. ~InBundle'
  <2> SUFFICES ASSUME InBundle' PROVE FALSE
    OBVIOUS
  <2>1. Bundling(q) /\ \A i \in 1..Len(q) : q[i] # "evaluate"
    BY <1>3 DEF InBundle, InAudit, Contains, Belongs
  <2>2. Len(q) \in 1..9
    BY <2>1, Position
  <2>3. PICK n \in Nat : n = Len(q)
    OBVIOUS
  <2>4. Len(q) > 9
    BY <1>3 DEF InBundle
  <2>5. n > 9 /\ n \in 1..9
    BY <2>2, <2>3, <2>4
  <2> QED
    BY <2>5
<1>7. Laid'
  BY <1>3 DEF IInv, Laid
<1>8. Identities'
  BY <1>1, <1>3, <1>5 DEF IInv, Identities, Confirmed, Same
<1>9. Findings'
  BY <1>3, <1>4, <1>6 DEF IInv, Findings
<1>10. Verdicts'
  BY <1>1, <1>2, <1>3, <1>6 DEF IInv, Verdicts, FreshAudit, OneBuild
<1> QED
  BY <1>1, <1>2, <1>7, <1>8, <1>9, <1>10 DEF IInv

\* Signoff takes the reports there are, loads some or collects its own.
LEMMA SignOffKeeps ==
    ASSUME IInv, SignOff \/ Judge
    PROVE  IInv'
<1>1. /\ Now \in {"signoff", "judge"} /\ unchangedWorld /\ UNCHANGED <<art, rep, handoffVars>>
  BY DEF SignOff, Judge, At
<1>2. /\ call # Idle /\ call \in Handlers /\ got \in Locals
      /\ call.tool \in {"audit", "bundle"} /\ InAudit
      /\ call.todo \in Seq(Names) /\ Len(call.todo) > 1 /\ call.todo[1] = Now
      /\ InOrder(call.todo) /\ Belongs(call.tool, call.todo)
      /\ call.tool = "bundle" => Len(call.todo) >= 8
  BY <1>1, SignoffIsInAudit
<1>3. CASE Step(call, got)
  <2>1. RunInv' /\ UNCHANGED <<run, session, art>> /\ LocalType' /\ UNCHANGED <<verdict, bundle>>
    BY <1>1, WorldIsStill, RestIsKept
  <2>2. PICK new \in Handlers : new = call
    BY <1>2
  <2>3. PICK found \in Locals : found = got
    BY <1>2
  <2>4. Step(new, found) /\ (found.marks # None => found.marks > 0)
    BY <1>3, <2>2, <2>3 DEF IInv, Findings
  <2>5. ~InBundle
    BY <1>2 DEF InBundle
  <2> QED
    BY <1>1, <2>1, <2>2, <2>3, <2>4, <2>5, PassStepKeeps DEF EvidenceNames, AuditNames
<1>4. PICK p \in Seq(Names), n \in Nat : p = call.todo /\ n = Len(p) /\ n > 1
  BY <1>2
<1>5. CASE Now = "signoff" /\ ~Step(call, got)
  <2>1. PICK q \in Seq(Names) :
            /\ q = LoadSteps \o <<"judge">> \o Tail(p)
            /\ q # << >> /\ q[1] = "load" /\ Len(q) = n + 3
            /\ InOrder(q) /\ Belongs(call.tool, q)
    BY <1>2, <1>4, <1>5, LoadingIsLaid
  <2>2. call' = [call EXCEPT !.todo = q] /\ got' = got
    BY <1>4, <1>5, <2>1 DEF SignOff, Judge, At
  <2>3. call.tool = "bundle" => Len(q) > 9
    <3>1. call.tool = "bundle" => n >= 8
      BY <1>2, <1>4
    <3>2. n >= 8 => n + 3 > 9
      OBVIOUS
    <3> QED
      BY <2>1, <3>1, <3>2
  <2> QED
    BY <1>1, <1>2, <2>1, <2>2, <2>3, SpliceKeeps
<1>6. CASE Now = "judge" /\ ~Step(call, got)
  <2>1. PICK q \in Seq(Names) :
            /\ q = ReportSteps \o Tail(p)
            /\ q # << >> /\ q[1] = "evidence" /\ Len(q) = n + 2
            /\ InOrder(q) /\ Belongs(call.tool, q)
    BY <1>2, <1>4, <1>6, ReportingIsLaid
  <2>2. call' = [call EXCEPT !.todo = q] /\ got' = got
    BY <1>4, <1>6, <2>1 DEF SignOff, Judge, At
  <2>3. call.tool = "bundle" => Len(q) > 9
    <3>1. call.tool = "bundle" => n >= 8
      BY <1>2, <1>4
    <3>2. n >= 8 => n + 2 > 9
      OBVIOUS
    <3> QED
      BY <2>1, <3>1, <3>2
  <2> QED
    BY <1>1, <1>2, <2>1, <2>2, <2>3, SpliceKeeps
<1> QED
  BY <1>1, <1>3, <1>5, <1>6

\* What is fresh was compared: both manifests were accepted, for one identity.
LEMMA AuditIs ==
    ASSUME NEW a \in ArtifactManifests \cup {None}, NEW r \in ReportManifests \cup {None}, NEW c,
           NEW v, v = Audit(a, r, c)
    PROVE  /\ v \in Audits /\ v # None
           /\ v.fresh => a # None /\ r # None /\ a.id = r.id /\ v.art = a /\ v.rep = r
<1>1. (c = "complete") \in BOOLEAN
  OBVIOUS
<1>2. PICK b \in BOOLEAN : b = (c = "complete")
  BY <1>1
<1>3. CASE EvidenceFresh(a, r, c)
  <2>1. v = [fresh |-> TRUE, art |-> a, rep |-> r, complete |-> b]
    BY <1>2, <1>3 DEF Audit
  <2>2. a # None /\ r # None /\ a.id = r.id
    BY <1>3 DEF EvidenceFresh
  <2>3. v.fresh = TRUE /\ v.art = a /\ v.rep = r
    BY <2>1
  <2>4. v \in Audits
    BY <2>1 DEF Audits
  <2>5. v # None
    BY <2>4, HandoffAssumption
  <2> QED
    BY <2>2, <2>3, <2>4, <2>5
<1>4. CASE ~EvidenceFresh(a, r, c)
  <2>1. v = [fresh |-> FALSE, art |-> None, rep |-> r, complete |-> FALSE]
    BY <1>4 DEF Audit
  <2>2. v.fresh = FALSE
    BY <2>1
  <2>3. v \in Audits
    BY <2>1 DEF Audits
  <2>4. v # None
    BY <2>3, HandoffAssumption
  <2> QED
    BY <2>2, <2>3, <2>4
<1> QED
  BY <1>3, <1>4

\* A bundle that is at load has its seven steps left.
LEMMA LoadsNext ==
    ASSUME Laid', InBundle', Now' = "load"
    PROVE  Left' = 7
<1>1. /\ call' # Idle /\ call'.todo \in Seq(Names) /\ call'.todo # << >>
      /\ InOrder(call'.todo) /\ Belongs("bundle", call'.todo)
  BY DEF Laid, Handlers, InBundle
<1>2. PICK q \in Seq(Names) : q = call'.todo
  BY <1>1
<1>3. Bundling(q) /\ (\A i \in 1..Len(q) : q[i] # "evaluate") /\ InOrder(q) /\ q # << >>
  BY <1>1, <1>2 DEF InBundle, InAudit, Contains, Belongs
<1>4. Len(q) \in 1..9 /\ q[1] = Backwards[Len(q)]
  BY <1>3, Position
<1>5. q[1] = "load"
  <2>1. Head(q) = q[1]
    BY <1>3
  <2> QED
    BY <1>1, <1>2, <2>1 DEF Now
<1>6. PICK k \in 1..9 : k = Len(q)
  BY <1>4
<1>7. k = 7
  <2>1. k \in {1, 2, 3, 4, 5, 6, 7, 8, 9}
    OBVIOUS
  <2>2. Backwards[k] = "load"
    BY <1>4, <1>5, <1>6
  <2> QED
    BY <2>1, <2>2, BackwardsIs
<1> QED
  BY <1>2, <1>6, <1>7 DEF Left

\* The audit is evaluated.
LEMMA EvaluateKeeps ==
    ASSUME IInv, EvaluateAudit
    PROVE  IInv'
<1>1. /\ Now = "evaluate" /\ unchangedWorld /\ UNCHANGED <<art, rep, bundle>>
      /\ verdict' = Audit(got.art, got.rep, conf) /\ conf' = "other"
      /\ Step(call, [got EXCEPT !.art = None, !.rep = None])
  BY DEF EvaluateAudit, At
<1>2. RunInv' /\ UNCHANGED <<run, session, art>>
  BY <1>1, WorldIsStill
<1>3. /\ call \in Handlers /\ got \in Locals /\ call # Idle /\ call.tool \in {"audit", "bundle"}
  BY <1>1, EvidenceHas DEF AuditNames
<1>4. PICK a, r, v : a = got.art /\ r = got.rep /\ v = verdict'
  OBVIOUS
<1>5. a \in ArtifactManifests \cup {None} /\ r \in ReportManifests \cup {None}
  BY <1>3, <1>4 DEF Locals
<1>6. /\ v \in Audits /\ v # None
      /\ v.fresh => a # None /\ r # None /\ a.id = r.id /\ v.art = a /\ v.rep = r
  BY <1>1, <1>4, <1>5, AuditIs
<1>7. /\ a # None => a = art /\ a.gen = session.gen /\ a.bit.in \in {a.id, None}
      /\ r # None => r.gen = session.gen
  BY <1>4 DEF IInv, Identities
<1>8. FreshAudit(v) /\ (v.fresh => v.art = art)
  BY <1>6, <1>7 DEF FreshAudit, OneBuild
<1>9. LocalType'
  BY <1>1, <1>4, <1>6 DEF IInv, LocalType, Configurations
<1>10. bundle' # None => FreshAudit(bundle') /\ bundle'.fresh
  BY <1>1 DEF IInv, Verdicts
<1>11. PICK new \in Handlers : new = call
  BY <1>3
<1>12. PICK found : found = [got EXCEPT !.art = None, !.rep = None]
  OBVIOUS
<1>13. found \in Locals /\ found.art = None /\ found.rep = None /\ found.marks = got.marks
  BY <1>3, <1>12 DEF Locals
<1>14. Step(new, found)
  BY <1>1, <1>11, <1>12
<1>15. Ends \/ Goes(new.id, new.seen, found)
  BY <1>3, <1>11, <1>14, StepGoes DEF IInv
<1>16. CASE Ends
  BY <1>2, <1>4, <1>8, <1>9, <1>10, <1>16, EndKeeps
<1>17. CASE Goes(new.id, new.seen, found)
  <2>1. <<Now, Now'>> \in Follows /\ Laid'
    BY <1>3, <1>13, <1>17, GoesOn DEF IInv
  <2>2. Now' = "load"
    BY <1>1, <2>1 DEF Follows
  <2>3. InBundle' => Left' = 7
    BY <2>1, <2>2, LoadsNext
  <2>4. Verdicts'
    <3>1. verdict' = v /\ verdict'.art = v.art
      BY <1>4
    <3>2. InBundle' => ~(Left' > 7) /\ ~(Left' < 5) /\ Left' \notin {5, 6}
      BY <2>3
    <3> QED
      BY <1>2, <1>6, <1>8, <1>10, <3>1, <3>2 DEF Verdicts, FreshAudit, OneBuild
  <2>5. found.marks # None => found.marks > 0
    BY <1>13 DEF IInv, Findings
  <2> QED
    BY <1>2, <1>3, <1>9, <1>13, <1>17, <2>2, <2>4, <2>5, GoesKeeps
<1> QED
  BY <1>15, <1>16, <1>17

\* Who is at load: an audit, or a bundle whose audit is there.
LEMMA AheadOfLoad ==
    ASSUME IInv, Now = "load"
    PROVE  /\ call # Idle /\ call \in Handlers /\ got \in Locals
           /\ ~InAudit => InBundle /\ Left = 7 /\ verdict # None /\ verdict \in Audits
                          /\ FreshAudit(verdict)
<1>1. /\ call # Idle /\ call \in Handlers /\ got \in Locals /\ call.tool \in {"audit", "bundle"}
  BY EvidenceHas DEF AuditNames
<1>2. ~InAudit => InBundle
  BY <1>1, AuditIsAhead DEF IInv, InBundle
<1>3. InBundle => Left = 7
  BY WhereInBundle DEF IInv
<1>4. 7 < 8
  OBVIOUS
<1> QED
  BY <1>1, <1>2, <1>3, <1>4 DEF IInv, Verdicts, LocalType

\* The report manifest that is loaded is the one the fresh audit of the bundle names.
LEMMA LoadKeeps ==
    ASSUME IInv, LoadReports \/ NoReports
    PROVE  IInv'
<1>1. /\ Now = "load" /\ unchangedWorld /\ UNCHANGED <<art, rep, handoffVars>>
      /\ \/ Step(call, [got EXCEPT !.load = Candidate])
         \/ Candidate = None /\ AfterStage(Len(LoadSteps))
  BY DEF LoadReports, NoReports, LoadManifest, NoManifest, At
<1>2. RunInv' /\ UNCHANGED <<run, session, art>> /\ LocalType' /\ UNCHANGED <<verdict, bundle>>
  BY <1>1, WorldIsStill, RestIsKept
<1>3. /\ call # Idle /\ call \in Handlers /\ got \in Locals
      /\ ~InAudit => InBundle /\ Left = 7 /\ verdict # None /\ verdict \in Audits
                     /\ FreshAudit(verdict)
  BY <1>1, AheadOfLoad
<1>4. PICK m : m = Candidate
  OBVIOUS
<1>5. /\ m \in ReportManifests \cup {None}
      /\ InBundle /\ verdict.fresh => m = verdict.rep /\ m # None
  <2>1. CASE InAudit
    BY <1>4, <2>1 DEF Candidate, InBundle, IInv, RunInv, WorldType
  <2>2. CASE ~InAudit
    <3>1. verdict \in Audits /\ FreshAudit(verdict)
      BY <1>3, <2>2
    <3>2. verdict.rep \in ReportManifests \cup {None}
      BY <3>1 DEF Audits
    <3>3. verdict.fresh => verdict.rep # None
      BY <3>1 DEF FreshAudit
    <3> QED
      BY <1>4, <2>2, <3>2, <3>3 DEF Candidate, IInv, RunInv, WorldType
  <2> QED
    BY <2>1, <2>2
<1>6. CASE Step(call, [got EXCEPT !.load = Candidate])
  <2>1. PICK found : found = [got EXCEPT !.load = m]
    OBVIOUS
  <2>2. /\ found \in Locals /\ found.art = got.art /\ found.rep = got.rep /\ found.load = m
        /\ found.marks = got.marks
    BY <1>3, <1>5, <2>1 DEF Locals
  <2>3. PICK new \in Handlers : new = call
    BY <1>3
  <2>4. Step(new, found)
    BY <1>4, <1>6, <2>1, <2>3
  <2>5. found.marks # None => found.marks > 0
    BY <2>2 DEF IInv, Findings
  <2> QED
    BY <1>1, <1>2, <1>5, <2>2, <2>3, <2>4, <2>5, PassStepKeeps DEF AuditNames
<1>7. CASE Candidate = None /\ AfterStage(Len(LoadSteps))
  <2>1. Skips /\ (~InAudit => Left = 7 /\ Left' = 4)
    BY <1>1, <1>3, <1>7, NoManifestDoes DEF IInv
  <2>2. ~InAudit => /\ Left \in 2..7 /\ Left' \in 1..4
                    /\ verdict.fresh => got.rep = verdict.rep
    BY <1>3, <1>4, <1>5, <1>7, <2>1
  <2> QED
    BY <1>1, <1>2, <1>3, <2>1, <2>2, SkipKeeps
<1> QED
  BY <1>1, <1>6, <1>7

\* A bundle that is looking at an earlier audit has eight steps left.
LEMMA AtReuse ==
    ASSUME IInv, Now = "reuse"
    PROVE  InBundle /\ Left = 8
<1>1. /\ call # Idle /\ call.tool \in {"audit", "bundle"}
  BY EvidenceHas DEF AuditNames
<1>2. /\ call.todo \in Seq(Names) /\ call.todo # << >> /\ call.todo[1] = Now
      /\ Len(call.todo) \in Nat \ {0} /\ Belongs(call.tool, call.todo)
  BY <1>1, Working DEF IInv
<1>3. 1 \in 1..Len(call.todo)
  BY <1>2
<1>4. call.tool = "bundle"
  BY <1>1, <1>2, <1>3 DEF Belongs
<1>5. Bundling(call.todo)
  BY <1>2, <1>4 DEF Belongs
<1>6. Len(call.todo) - 1 = 7
  BY <1>2, <1>3, <1>5 DEF Bundling
<1>7. ~InAudit
  <2> SUFFICES ASSUME InAudit PROVE FALSE
    OBVIOUS
  <2>1. PICK i \in 1..Len(call.todo) : call.todo[i] = "evaluate"
    BY DEF InAudit, Contains
  <2>2. Len(call.todo) - i = 7
    BY <1>5, <2>1 DEF Bundling
  <2>3. PICK n \in Nat : n = Len(call.todo)
    BY <1>2
  <2>4. n - 1 = 7 /\ n - i = 7
    BY <1>6, <2>2, <2>3
  <2>5. i \in Nat
    BY <2>1, <2>3
  <2>6. i = 1
    BY <2>4, <2>5
  <2> QED
    BY <1>2, <2>1, <2>6
<1> QED
  BY <1>1, <1>4, <1>7, WhereInBundle DEF IInv, InBundle

\* A bundle about to be written has one step left and its audit at hand.
LEMMA AtBundle ==
    ASSUME IInv, Now = "bundle"
    PROVE  InBundle /\ Left = 1
<1>1. /\ call # Idle /\ call.tool \in {"audit", "bundle"}
  BY EvidenceHas DEF AuditNames
<1>2. /\ call.todo \in Seq(Names) /\ call.todo # << >> /\ call.todo[1] = Now
      /\ Len(call.todo) \in Nat \ {0} /\ InOrder(call.todo) /\ Belongs(call.tool, call.todo)
  BY <1>1, Working DEF IInv
<1>3. 1 \in 1..Len(call.todo)
  BY <1>2
<1>4. call.tool = "bundle"
  BY <1>1, <1>2, <1>3 DEF Belongs
<1>5. ~(1 < Len(call.todo))
  <2> SUFFICES ASSUME 1 < Len(call.todo) PROVE FALSE
    OBVIOUS
  <2>1. <<call.todo[1], call.todo[1 + 1]>> \in Follows
    BY <1>2, <1>3 DEF InOrder
  <2> QED
    BY <1>2, <2>1 DEF Follows
<1>6. PICK n \in Nat : n = Len(call.todo)
  BY <1>2
<1>7. n = 1
  <2>1. n # 0 /\ ~(1 < n)
    BY <1>2, <1>5, <1>6
  <2> QED
    BY <2>1
<1>8. ~InAudit
  <2> SUFFICES ASSUME InAudit PROVE FALSE
    OBVIOUS
  <2>1. PICK i \in 1..n : call.todo[i] = "evaluate"
    BY <1>6 DEF InAudit, Contains
  <2>2. i = 1
    BY <1>7, <2>1
  <2> QED
    BY <1>2, <2>1, <2>2
<1> QED
  BY <1>1, <1>4, <1>6, <1>7, <1>8 DEF InBundle, Left

\* An audit is used again when it is that of the artifacts on disk.
LEMMA ReuseKeeps ==
    ASSUME IInv, ReuseAudit
    PROVE  IInv'
<1>1. /\ Now = "reuse" /\ unchangedWorld /\ UNCHANGED <<art, rep, conf>>
      /\ verdict' = bundle /\ bundle' = None /\ bundle.art = art
      /\ Step([call EXCEPT !.id = None], got)
  BY DEF ReuseAudit, Reusable, At
<1>2. RunInv' /\ UNCHANGED <<run, session, art>>
  BY <1>1, WorldIsStill
<1>3. /\ call \in Handlers /\ got \in Locals /\ call # Idle /\ call.tool \in {"audit", "bundle"}
  BY <1>1, EvidenceHas DEF AuditNames
<1>4. InBundle /\ Left = 8
  BY <1>1, AtReuse
<1>5. Left > 7 /\ Left > 1
  BY <1>4
<1>6. bundle # None /\ FreshAudit(bundle) /\ got.art = None
  BY <1>4, <1>5 DEF IInv, Verdicts, Findings
<1>7. LocalType'
  BY <1>1 DEF IInv, LocalType
<1>8. PICK new : new = [call EXCEPT !.id = None]
  OBVIOUS
<1>9. new \in Handlers /\ new.tool = call.tool /\ new.todo = call.todo /\ new.seen = call.seen
  BY <1>3, <1>8 DEF Handlers
<1>10. PICK found \in Locals : found = got
  BY <1>3
<1>11. Step(new, found)
  BY <1>1, <1>8, <1>10
<1>12. Ends \/ Goes(new.id, new.seen, found)
  BY <1>3, <1>9, <1>11, StepGoes DEF IInv
<1>13. verdict' # None => FreshAudit(verdict')
  BY <1>1, <1>6 DEF FreshAudit, OneBuild
<1>14. CASE Ends
  BY <1>1, <1>2, <1>7, <1>13, <1>14, EndKeeps
<1>15. CASE Goes(new.id, new.seen, found)
  <2>1. <<Now, Now'>> \in Follows /\ Laid'
    BY <1>3, <1>15, GoesOn DEF IInv
  <2>2. Now' = "load"
    BY <1>1, <2>1 DEF Follows
  <2>3. InBundle' => Left' = 7
    BY <2>1, <2>2, LoadsNext
  <2>4. Verdicts'
    <3>1. InBundle' => ~(Left' > 7) /\ ~(Left' < 5) /\ Left' \notin {5, 6}
      BY <2>3
    <3>2. verdict' # None /\ FreshAudit(verdict)' /\ verdict'.art = art' /\ bundle' = None
      BY <1>1, <1>6 DEF FreshAudit, OneBuild
    <3> QED
      BY <3>1, <3>2 DEF Verdicts
  <2>5. found.marks # None => found.marks > 0
    BY <1>10 DEF IInv, Findings
  <2>6. found.art = None
    BY <1>6, <1>10
  <2>7. found.rep # None => Confirmed(found.rep.id) /\ found.rep.gen = session.gen
    BY <1>10 DEF IInv, Identities
  <2> QED
    BY <1>2, <1>3, <1>7, <1>15, <2>2, <2>4, <2>5, <2>6, <2>7, GoesKeeps
<1> QED
  BY <1>12, <1>14, <1>15

\* The bundle keeps its audit, if that is fresh.
LEMMA WriteBundleKeeps ==
    ASSUME IInv, WriteBundle
    PROVE  IInv'
<1>1. /\ Now = "bundle" /\ unchangedWorld /\ UNCHANGED <<art, rep, conf>>
      /\ bundle' = (IF verdict.fresh THEN verdict ELSE None) /\ verdict' = None
      /\ Step(call, got)
  BY DEF WriteBundle, At
<1>2. RunInv'
  BY <1>1, WorldIsStill
<1>3. InBundle /\ Left = 1 /\ call # Idle
  BY <1>1, AtBundle DEF InBundle
<1>4. Left < 8
  BY <1>3
<1>5. verdict # None /\ FreshAudit(verdict) /\ verdict \in Audits
  BY <1>3, <1>4 DEF IInv, Verdicts, LocalType
<1>6. Ends
  BY <1>1, <1>3, LastStepEnds
<1>7. LocalType'
  BY <1>1, <1>5 DEF IInv, LocalType
<1>8. bundle' # None => FreshAudit(bundle') /\ bundle'.fresh
  BY <1>1, <1>5 DEF FreshAudit, OneBuild
<1> QED
  BY <1>1, <1>2, <1>6, <1>7, <1>8, EndKeeps

\* Every step of the tools of the handoff (tools.py, audit.py).
LEMMA HandoffStepKeeps ==
    ASSUME IInv, HandoffSteps
    PROVE  IInv'
<1>1. CASE ReuseRefused
  BY <1>1, FailureKeeps DEF ReuseRefused
<1> QED
  BY <1>1, ConfigurationKeeps, SignOffKeeps, EvaluateKeeps, LoadKeeps, ReuseKeeps,
     WriteBundleKeeps DEF HandoffSteps

(***************************************************************************)
(* The invariant, and what follows from it                                 *)
(***************************************************************************)

\* The service starts with nothing built, nothing recorded and no tool.
LEMMA InvInit == Init => IInv
<1> SUFFICES ASSUME Init PROVE IInv
  OBVIOUS
<1>1. /\ closure = [files |-> 0, set |-> 1] /\ edits = 0
      /\ session = [gen |-> 1, live |-> TRUE]
      /\ run = [phase |-> "not_started", goal |-> "route", exec |-> 0,
                marks |-> 0, in |-> None, needs |-> FALSE]
      /\ bit = None /\ launch = None /\ call = Idle
      /\ art = None /\ rep = None /\ got = Nothing
      /\ conf = "other" /\ verdict = None /\ bundle = None
  BY DEF Init, RunInit, EvidenceInit
<1>2. /\ call \in Handlers /\ got \in Locals /\ Now = "idle" /\ ~InBundle
      /\ got.art = None /\ got.rep = None /\ got.marks = None
  BY <1>1, IdleIs DEF Now, InBundle
<1>3. RunInv
  <2>1. closure \in Closures /\ edits \in 0..MaxEdits
    BY <1>1, RunAssumption DEF Closures, Settings
  <2>2. session \in [gen : 1..MaxGen, live : BOOLEAN]
    BY <1>1, RunAssumption
  <2>3. run \in Runs
    BY <1>1, RunAssumption DEF Runs, Phases
  <2>4. WorldType
    BY <1>1, <2>1, <2>2, <2>3 DEF WorldType
  <2>5. Tracked /\ BitIsOfRun /\ ArtIsOfRun
    BY <1>1 DEF Tracked, BitIsOfRun, ArtIsOfRun, Built
  <2> QED
    BY <2>4, <2>5 DEF RunInv
<1>4. Laid
  BY <1>1, <1>2 DEF Laid
<1>5. Identities
  BY <1>2 DEF Identities
<1>6. Findings
  BY <1>1, <1>2 DEF Findings
<1>7. LocalType
  BY <1>1 DEF LocalType, Configurations
<1>8. Verdicts
  BY <1>1, <1>2 DEF Verdicts
<1> QED
  BY <1>3, <1>4, <1>5, <1>6, <1>7, <1>8 DEF IInv

\* Every step keeps the invariant.
LEMMA InvStep == IInv /\ [Next]_vars => IInv'
<1> SUFFICES ASSUME IInv, [Next]_vars PROVE IInv'
  OBVIOUS
<1>1. CASE \/ (RunTools \/ World) /\ Outside /\ UNCHANGED <<art, rep, got>>
           \/ RunSteps /\ UNCHANGED <<art, rep, got, handoffVars>>
  BY <1>1, RunToolsKeep, RunStepKeeps, WorldStepKeeps
<1>2. CASE \/ EvidenceTools /\ Outside
           \/ EvidenceSteps /\ UNCHANGED handoffVars
  BY <1>2, EvidenceToolsKeep, EvidenceStepKeeps
<1>3. CASE HandoffTools
  BY <1>3, HandoffToolsKeep
<1>4. CASE HandoffSteps
  BY <1>4, HandoffStepKeeps
<1>5. CASE UNCHANGED vars
  <2>1. /\ UNCHANGED <<closure, edits, session, run, bit, launch, call, art, rep, got>>
        /\ UNCHANGED <<conf, verdict, bundle>>
    BY <1>5 DEF vars, evidenceVars, runVars
  <2>2. RunInv'
    BY <2>1 DEF IInv, RunInv, WorldType, Tracked, BitIsOfRun, ArtIsOfRun, Built
  <2>3. Laid' /\ LocalType'
    BY <2>1 DEF IInv, Laid, LocalType
  <2>4. /\ Now' = Now /\ (InBundle' <=> InBundle) /\ Left' = Left
    BY <2>1 DEF Now, InBundle, InAudit, Contains, Left
  <2>5. Identities'
    BY <2>1, <2>4 DEF IInv, Identities, Captured, Confirmed, Same
  <2>6. Findings'
    BY <2>1, <2>4 DEF IInv, Findings
  <2>7. Verdicts'
    BY <2>1, <2>4 DEF IInv, Verdicts, FreshAudit, OneBuild
  <2> QED
    BY <2>2, <2>3, <2>5, <2>6, <2>7 DEF IInv
<1> QED
  BY <1>1, <1>2, <1>3, <1>4, <1>5 DEF Next

\* The manifests, what they are about and the steps of the tools that read them belong
\* together, however the tools, Vivado and the user follow one another (RunLaunch,
\* RunEvidence and Handoff: tools.py, runs.py, artifacts.py, audit.py).
THEOREM HandoffInvariant == Spec => []IInv
<1>1. Init => IInv
  BY InvInit
<1>2. IInv /\ [Next]_vars => IInv'
  BY InvStep
<1> QED
  BY <1>1, <1>2, PTL DEF Spec

\* Every variable of the run, of the evidence and of the handoff has its type, and a tool
\* has steps left exactly when one runs (VivadoToolService, tools.py).
THEOREM HandoffTyped == Spec => []TypeOK
<1>1. IInv => TypeOK
  <2> SUFFICES ASSUME IInv PROVE TypeOK
    OBVIOUS
  <2>1. WorldType /\ LocalType /\ call \in Handlers /\ got \in Locals
    BY DEF IInv, RunInv, Laid
  <2>2. call.id \in Closures \cup {None} /\ call.seen \in Logs \cup {None}
    BY <2>1 DEF Handlers
  <2>3. call = Idle <=> call.todo = << >>
    BY IdleIs DEF IInv, Laid
  <2>4. RunTypeOK
    BY <2>1, <2>2, <2>3 DEF RunTypeOK, WorldType
  <2>5. EvidenceTypeOK
    BY <2>1 DEF EvidenceTypeOK, WorldType, Locals
  <2> QED
    BY <2>1, <2>4, <2>5 DEF TypeOK, LocalType
<1> QED
  BY <1>1, HandoffInvariant, PTL

\* An artifact manifest that validation accepted exports bits that its execution built
\* from the closure it names, or a file put over them whose time fits that execution,
\* and never those of another build (validate_artifact_manifest, artifacts.py).
THEOREM AcceptedArtifactsAreTrueHolds == Spec => []AcceptedArtifactsAreTrue
<1>1. IInv => AcceptedArtifactsAreTrue
  BY DEF IInv, AcceptedArtifactsAreTrue, Identities, RunInv, ArtIsOfRun
<1> QED
  BY <1>1, HandoffInvariant, PTL

\* The manifests of a FRESH audit were written in one session for one closure, and its
\* bitstream was built from no other (run_project_audit, audit.py).
THEOREM FreshAuditIsOneBuildHolds == Spec => []FreshAuditIsOneBuild
<1>1. IInv => FreshAuditIsOneBuild
  BY DEF IInv, Verdicts, FreshAudit, FreshAuditIsOneBuild
<1> QED
  BY <1>1, HandoffInvariant, PTL

\* A diagnostic bundle is written with manifests of one build, those its fresh audit was
\* made of (collect_diagnostic_bundle, tools.py).
THEOREM BundleMatchesAuditHolds == Spec => []BundleMatchesAudit
<1>1. IInv => BundleMatchesAudit
  <2> SUFFICES ASSUME IInv, At("bundle") PROVE BundleMatchesAudit
    BY DEF BundleMatchesAudit
  <2>1. InBundle /\ Left = 1
    BY AtBundle DEF At
  <2>2. Left < 8 /\ Left < 5
    BY <2>1
  <2>3. verdict # None /\ FreshAudit(verdict) /\ (verdict.fresh => got.rep = verdict.rep)
    BY <2>1, <2>2 DEF IInv, Verdicts
  <2>4. verdict.fresh => verdict.art = art
    BY <2>1, <2>3 DEF IInv, Verdicts, InBundle
  <2>5. /\ got.art # None => got.art = art /\ got.art.gen = session.gen
                             /\ got.art.bit.in \in {got.art.id, None}
        /\ got.rep # None => got.rep.gen = session.gen
    BY DEF IInv, Identities
  <2>6. got.art # None /\ got.rep # None => got.art.id = got.rep.id
    BY <2>1 DEF IInv, Findings
  <2> QED
    BY <2>3, <2>4, <2>5, <2>6 DEF BundleMatchesAudit, OneBuild
<1> QED
  BY <1>1, HandoffInvariant, PTL
=============================================================================
