---------------------------- MODULE RunEvidence ----------------------------
(***************************************************************************)
(* Evidence about a run: collect_build_artifacts, get_artifact_manifest    *)
(* and collect_report_bundle, and the validations every later tool repeats *)
(* before it trusts what they wrote (tools.py, artifacts.py,               *)
(* prehardware.py).                                                        *)
(*                                                                         *)
(* A manifest is what it records: the identity of the design (id), the     *)
(* session (gen) and, of the artifacts, the step markers and the exported  *)
(* bitstream with its modification time.  bit.exec is the execution that   *)
(* time fits; bit.in, the closure the bits were really built from, no code *)
(* can see.  None stands for a manifest that is absent, BLOCK or not       *)
(* FRESH, all of which every reader refuses alike.                         *)
(***************************************************************************)
EXTENDS RunLaunch, SequencesExt

VARIABLES
    art,   \* vmcp_artifacts/<run>/manifest.json
    rep,   \* the latest vmcp_reports/<run>/invocations/*/report_manifest.json
    got    \* local variables of the handler that runs

ArtifactManifests == [id : Closures, gen : 1..MaxGen, marks : 0..MaxExecs, bit : Bits]
ReportManifests   == [id : Closures, gen : 1..MaxGen]

Nothing == [marks |-> None, art |-> None, load |-> None, rep |-> None]
evidenceVars == <<runVars, art, rep, got>>
unchangedWorld == UNCHANGED <<closure, edits, session, run, bit, launch>>

EvidenceTypeOK ==
    /\ art \in ArtifactManifests \cup {None}
    /\ rep \in ReportManifests \cup {None}
    /\ got.marks \in 0..MaxExecs \cup {None}
    /\ got.art \in ArtifactManifests \cup {None}
    /\ {got.load, got.rep} \subseteq ReportManifests \cup {None}

EvidenceInit == art = None /\ rep = None /\ got = Nothing

-----------------------------------------------------------------------------
(* A tool that fails ends.  A stage inside a larger tool may fail and the   *)
(* tool go on: any stage of the audit, and the artifact manifest in the     *)
(* bundle.                                                                  *)

StageEnds == {"export", "write", "validate", "current_run"}
StageEnd  == SelectInSeq(call.todo, LAMBDA s : s \in StageEnds)
InAudit   == Contains(call.todo, "evaluate")
Tolerated == /\ StageEnd # 0
             /\ InAudit \/ (call.tool = "bundle" /\ call.todo[StageEnd] = "validate")
AfterStage(n) == /\ call' = [call EXCEPT !.todo = SubSeq(@, n + 1, Len(@)), !.id = None,
                                          !.seen = None]
                 /\ got' = [got EXCEPT !.load = None, !.marks = None]
GiveUp == call' = Idle /\ got' = Nothing
Refuse ==
    /\ IF Tolerated THEN AfterStage(StageEnd) ELSE GiveUp
    /\ UNCHANGED <<art, rep>> /\ unchangedWorld

\* Continue with the next step, or end the tool.
Step(new, found) ==
    /\ Advance(new)
    /\ got' = IF call' = Idle THEN Nothing ELSE found

\* Any Tcl command may fail, at once when Vivado is gone, or time out: a
\* TimeoutError is tolerated in the signoff of an audit alone.
TclSteps == {"preflight", "launch", "status", "terminal", "evidence", "identity",
             "context", "generate", "current_run"}
TclFails == Now \in TclSteps /\ Refuse
TclTimesOut ==
    /\ Now \in TclSteps \cup {"configurations", "reuse"}
    /\ InAudit => Contains(call.todo, "signoff")
    /\ GiveUp
    /\ UNCHANGED <<art, rep>> /\ unchangedWorld

-----------------------------------------------------------------------------
(* _evidence_design_execution_identity *)

\* For a collection: the record of the bitstream launch must be terminal, and
\* the identity now the one at launch and at completion.
RecordIsTerminal ==
    /\ launch # None
    /\ launch.op = "bitstream" /\ launch.term # None
    /\ launch.id = DesignIdentity /\ launch.term = DesignIdentity
CaptureEvidence ==
    /\ At("evidence") /\ session.live /\ RecordIsTerminal
    /\ Step([call EXCEPT !.id = DesignIdentity], got)
    /\ UNCHANGED <<art, rep>> /\ unchangedWorld
EvidenceMissing == At("evidence") /\ session.live /\ ~RecordIsTerminal /\ Refuse

\* For a validation: the identity as it is now.
CaptureIdentity ==
    /\ At("identity") /\ session.live
    /\ Step([call EXCEPT !.id = DesignIdentity], got)
    /\ UNCHANGED <<art, rep>> /\ unchangedWorld

-----------------------------------------------------------------------------
(* collect_build_artifacts *)

CollectBuildArtifacts ==
    /\ StartTool("artifacts", <<"evidence", "context", "markers", "export">>, TRUE)
    /\ UNCHANGED <<art, rep, got>>

\* artifact_run_blockers on what the artifact context command reports.
RunReady(seen) == seen.phase = "written" /\ ~seen.needs
ReadContext ==
    /\ At("context") /\ session.live /\ RunReady(run)
    /\ Step(call, got)
    /\ UNCHANGED <<art, rep>> /\ unchangedWorld
RunNotReady == At("context") /\ session.live /\ ~RunReady(run) /\ Refuse

\* _run_execution_identity: the markers of the last execution, all ended.
MarkersComplete == run.marks > 0 /\ ~Busy /\ run.phase # "failed"
ReadMarkers ==
    /\ At("markers")
    /\ Step(call, [got EXCEPT !.marks = IF MarkersComplete THEN run.marks ELSE None])
    /\ UNCHANGED <<art, rep>> /\ unchangedWorld

\* Copy the bitstream, compare its time with the markers, from the first of them to
\* two seconds after the last (_artifact_timing_blockers), write the manifest, READY
\* or BLOCK, over the previous one.  Nothing else tells whose bits they are.
WithinExecution_NotCompared(b, marks) == b # None /\ marks # None
WithinExecution(b, marks) == b # None /\ marks # None /\ b.exec = marks
ExportArtifacts ==
    /\ At("export")
    /\ art' = IF WithinExecution(bit, got.marks)
              THEN [id |-> call.id, gen |-> session.gen, marks |-> got.marks, bit |-> bit]
              ELSE None
    /\ Step(call, got)
    /\ UNCHANGED rep /\ unchangedWorld

-----------------------------------------------------------------------------
(* get_artifact_manifest *)

ManifestSteps == <<"identity", "context", "validate">>
GetArtifactManifest ==
    /\ StartTool("manifest", ManifestSteps, TRUE)
    /\ UNCHANGED <<art, rep, got>>

\* validate_artifact_manifest: the manifest against the context and identity
\* read before, and the markers and files of the run directory read now.
ManifestHolds ==
    /\ art # None
    /\ MarkersComplete /\ art.marks = run.marks
    /\ art.gen = session.gen
    /\ art.id = call.id
    /\ art.bit = bit
    /\ WithinExecution(bit, run.marks)
ValidateManifest ==
    /\ At("validate") /\ ManifestHolds
    /\ Step([call EXCEPT !.id = None], [got EXCEPT !.art = art])
    /\ UNCHANGED <<art, rep>> /\ unchangedWorld
ManifestRejected == At("validate") /\ ~ManifestHolds /\ Refuse

-----------------------------------------------------------------------------
(* collect_report_bundle *)

ReportSteps == <<"evidence", "generate", "write">>
CollectReportBundle ==
    /\ StartTool("reports", ReportSteps, TRUE)
    /\ UNCHANGED <<art, rep, got>>

\* One command reads the run's state, opens it, writes the reports and scans
\* runme.log; the files are hashed afterwards and the log must not have moved.
RunComplete(seen) == seen.phase \in {"routed", "written"} /\ ~seen.needs
Log == [phase |-> run.phase, marks |-> run.marks]
GenerateReports ==
    /\ At("generate") /\ session.live
    /\ Step([call EXCEPT !.seen = IF RunComplete(run) THEN Log ELSE None], got)
    /\ UNCHANGED <<art, rep>> /\ unchangedWorld

LogUnmoved == call.seen = Log
WriteReportManifest ==
    /\ At("write")
    /\ rep' = IF LogUnmoved THEN [id |-> call.id, gen |-> session.gen] ELSE None
    /\ Step([call EXCEPT !.id = None, !.seen = None], [got EXCEPT !.rep = rep'])
    /\ UNCHANGED art /\ unchangedWorld

-----------------------------------------------------------------------------
(* _load_existing_report_manifest, a stage of the audit and of the bundle *)

LoadSteps == <<"load", "identity", "current_run">>
LoadManifest(candidate) ==
    /\ At("load") /\ candidate # None
    /\ Step(call, [got EXCEPT !.load = candidate])
    /\ UNCHANGED <<art, rep>> /\ unchangedWorld
NoManifest(candidate) ==
    /\ At("load") /\ candidate = None
    /\ AfterStage(Len(LoadSteps))
    /\ UNCHANGED <<art, rep>> /\ unchangedWorld

\* The manifest is that of the design as it is, and of this session's run.
SameDesign(m)  == m.id = call.id
CurrentRun(m)  == RunComplete(run) /\ m.gen = session.gen
ReportHolds_AnySession == SameDesign(got.load) /\ RunComplete(run)
ReportHolds == SameDesign(got.load) /\ CurrentRun(got.load)
AcceptReports ==
    /\ At("current_run") /\ session.live /\ ReportHolds
    /\ Step([call EXCEPT !.id = None], [got EXCEPT !.rep = got.load, !.load = None])
    /\ UNCHANGED <<art, rep>> /\ unchangedWorld
ReportsRejected == At("current_run") /\ session.live /\ ~ReportHolds /\ Refuse

EvidenceTools == CollectBuildArtifacts \/ GetArtifactManifest \/ CollectReportBundle
EvidenceSteps ==
    \/ TclFails \/ TclTimesOut
    \/ CaptureEvidence \/ EvidenceMissing \/ CaptureIdentity
    \/ ReadContext \/ RunNotReady
    \/ ReadMarkers \/ ExportArtifacts
    \/ ValidateManifest \/ ManifestRejected
    \/ GenerateReports \/ WriteReportManifest
    \/ AcceptReports \/ ReportsRejected
=============================================================================
