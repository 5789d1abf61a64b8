------------------------------ MODULE Handoff ------------------------------
(***************************************************************************)
(* The handoff built on the evidence: run_project_audit, with the signoff  *)
(* it runs, and collect_diagnostic_bundle (tools.py, audit.py).            *)
(*                                                                         *)
(* Of an audit the model keeps what makes its evidence fresh, not what it  *)
(* concludes of the design: findings and waivers change its status only.   *)
(***************************************************************************)
EXTENDS RunEvidence

VARIABLES
    conf,     \* local: what the audit saw of the run configuration
    verdict,  \* local: the audit a bundle is made with
    bundle    \* audit_result.json of the last bundle, if it is FRESH

vars == <<evidenceVars, conf, verdict, bundle>>
handoffVars == <<conf, verdict, bundle>>

Configurations == {"stale", "complete", "other"}
Audits   == [fresh : BOOLEAN, art : ArtifactManifests \cup {None},
             rep : ReportManifests \cup {None}, complete : BOOLEAN]

ASSUME HandoffAssumption == None \notin Closures \cup Logs \cup Audits

TypeOK ==
    /\ RunTypeOK /\ EvidenceTypeOK
    /\ conf \in Configurations
    /\ verdict \in Audits \cup {None}
    /\ bundle \in Audits \cup {None}

Init ==
    /\ RunInit /\ EvidenceInit
    /\ conf = "other" /\ verdict = None /\ bundle = None

\* What a step outside the handoff leaves of it: the local variables of the tool that
\* runs, but those of a tool that has answered are gone.
Outside ==
    /\ bundle' = bundle
    /\ IF call = Idle THEN conf' = "other" /\ verdict' = None
       ELSE UNCHANGED <<conf, verdict>>

-----------------------------------------------------------------------------
(* run_project_audit *)

AuditSteps == <<"configurations">> \o ManifestSteps \o LoadSteps \o <<"signoff", "evaluate">>
RunProjectAudit ==
    /\ StartTool("audit", AuditSteps, TRUE)
    /\ Outside
    /\ UNCHANGED <<art, rep, got>>

\* _collect_run_configuration_audit: unavailable is only a warning.
Configuration == CASE run.needs        -> "stale"
                   [] RunComplete(run) -> "complete"
                   [] OTHER            -> "other"
CollectConfigurations ==
    /\ At("configurations")
    /\ conf' \in {"other"} \cup (IF session.live THEN {Configuration} ELSE {})
    /\ Step(call, got)
    /\ UNCHANGED <<art, rep, verdict, bundle>> /\ unchangedWorld

\* Signoff judges the reports the audit accepted, or else tries to load them
\* itself, or else collects a bundle of its own, which the audit then uses as
\* it is.
SignOff ==
    /\ At("signoff")
    /\ IF got.rep # None
       THEN Step(call, got)
       ELSE call' = [call EXCEPT !.todo = LoadSteps \o <<"judge">> \o Tail(@)] /\ UNCHANGED got
    /\ UNCHANGED <<art, rep, handoffVars>> /\ unchangedWorld

Judge ==
    /\ At("judge")
    /\ IF got.rep # None
       THEN Step(call, got)
       ELSE call' = [call EXCEPT !.todo = ReportSteps \o Tail(@)] /\ UNCHANGED got
    /\ UNCHANGED <<art, rep, handoffVars>> /\ unchangedWorld

\* _audit_evidence_freshness
EvidenceFresh(a, r, c) ==
    /\ c # "stale"
    /\ a # None /\ r # None
    /\ a.id = r.id

\* Of an audit that is not fresh only its report manifest is used again.
Audit(a, r, c) == IF EvidenceFresh(a, r, c)
                  THEN [fresh |-> TRUE, art |-> a, rep |-> r, complete |-> c = "complete"]
                  ELSE [fresh |-> FALSE, art |-> None, rep |-> r, complete |-> FALSE]
EvaluateAudit ==
    /\ At("evaluate")
    /\ verdict' = Audit(got.art, got.rep, conf)
    /\ conf' = "other"
    /\ Step(call, [got EXCEPT !.art = None, !.rep = None])
    /\ UNCHANGED <<art, rep, bundle>> /\ unchangedWorld

-----------------------------------------------------------------------------
(* collect_diagnostic_bundle, with an audit of its own or with that of an  *)
(* earlier bundle.                                                         *)

\* A new bundle forgets the one before: a client that goes back to that one
\* does what it could do after run_project_audit.
BundleSteps == LoadSteps \o ManifestSteps \o <<"bundle">>
CollectDiagnosticBundle ==
    /\ StartTool("bundle", AuditSteps \o BundleSteps, TRUE)
    /\ conf' = "other" /\ verdict' = None /\ bundle' = None
    /\ UNCHANGED <<art, rep, got>>
ReuseDiagnosticBundle ==
    /\ bundle # None
    /\ StartTool("bundle", <<"identity", "reuse">> \o BundleSteps, TRUE)
    /\ Outside
    /\ UNCHANGED <<art, rep, got>>

\* _load_reusable_audit_from_diagnostic_manifest, after a second command read
\* the current run: the audit's manifests must be the ones on disk.
Reusable(a) ==
    /\ a.fresh /\ a.complete
    /\ RunComplete(run)
    /\ a.art = art /\ art.id = call.id /\ art.bit = bit
    /\ a.rep.id = call.id
ReuseAudit ==
    /\ At("reuse") /\ session.live /\ Reusable(bundle)
    /\ verdict' = bundle /\ bundle' = None
    /\ Step([call EXCEPT !.id = None], got)
    /\ UNCHANGED <<art, rep, conf>> /\ unchangedWorld

\* It is refused as well when it is too old.
ReuseRefused == At("reuse") /\ Refuse /\ UNCHANGED handoffVars

\* The report manifest is the one the audit names, or else the latest.
Candidate_Latest == rep
Candidate == IF InAudit \/ verdict.rep = None THEN rep ELSE verdict.rep
LoadReports == LoadManifest(Candidate) /\ UNCHANGED handoffVars
NoReports   == NoManifest(Candidate) /\ UNCHANGED handoffVars

WriteBundle ==
    /\ At("bundle")
    /\ bundle' = IF verdict.fresh THEN verdict ELSE None
    /\ verdict' = None
    /\ Step(call, got)
    /\ UNCHANGED <<art, rep, conf>> /\ unchangedWorld

-----------------------------------------------------------------------------
HandoffTools == RunProjectAudit \/ CollectDiagnosticBundle \/ ReuseDiagnosticBundle
HandoffSteps == \/ CollectConfigurations \/ SignOff \/ Judge \/ EvaluateAudit
                \/ LoadReports \/ NoReports \/ ReuseAudit \/ ReuseRefused \/ WriteBundle

Next ==
    \/ (RunTools \/ World) /\ Outside /\ UNCHANGED <<art, rep, got>>
    \/ RunSteps /\ UNCHANGED <<art, rep, got, handoffVars>>
    \/ EvidenceTools /\ Outside
    \/ EvidenceSteps /\ UNCHANGED handoffVars
    \/ HandoffTools
    \/ HandoffSteps

Spec == Init /\ [][Next]_vars

-----------------------------------------------------------------------------
(* An artifact manifest that validation accepts exports bits that the      *)
(* recorded execution built from the very closure the manifest names,      *)
(* whatever the user did between the steps of its collection and since:    *)
(* never those of another execution of the run.  The exception: a file     *)
(* somebody put over the bitstream, whose time fits the recorded execution *)
(* (validate_artifact_manifest and _artifact_timing_blockers,              *)
(* artifacts.py).                                                          *)
AcceptedArtifactsAreTrue ==
    got.art # None => /\ got.art.bit.in \in {got.art.id, None}
                      /\ got.art.bit.exec = got.art.marks

(* A FRESH audit never mixes two builds: its manifests were written in one *)
(* session for one closure, and the bits it names were built from no other *)
(* (run_project_audit, evaluate_project_audit).                            *)
OneBuild(a, r) == a.gen = r.gen /\ a.id = r.id /\ a.bit.in \in {r.id, None}
FreshAuditIsOneBuild ==
    verdict # None /\ verdict.fresh =>
        verdict.art # None /\ verdict.rep # None /\ OneBuild(verdict.art, verdict.rep)

(* The manifests a diagnostic bundle is written with describe one build,   *)
(* and when its audit is fresh, of its own or reused, they are those the   *)
(* audit was made of (collect_diagnostic_bundle).                          *)
BundleMatchesAudit ==
    At("bundle") =>
        /\ verdict.fresh =>
               got.rep = verdict.rep /\ got.art \in {None, verdict.art}
        /\ got.art # None /\ got.rep # None => OneBuild(got.art, got.rep)
=============================================================================
