---------------------------- MODULE PolicyShadow ----------------------------
(***************************************************************************)
(* The two judges of a tool call: the checks VivadoToolService.call makes  *)
(* before a handler, which decide, and the policy pipeline that runs       *)
(* beside them in shadow mode and is to replace them.  Both are functions  *)
(* of the call and of what call() observed; the registry's metadata is     *)
(* computed from its lists of names, over one tool of each kind.           *)
(***************************************************************************)
EXTENDS Naturals, SequencesExt

(***************************************************************************)
(* registry.py: the lists of names, and the metadata derived from them     *)
(***************************************************************************)

Immediate == {"create_project", "configure_simulation", "repair_project_setup",
              "remove_project_files", "create_ip"}
Execution == {"run_behavioral_simulation", "run_project_audit", "reset_runs"}
Composite == {"create_ip", "open_block_design"}
TclPolicy == {"run_tcl"}
DryRun    == {"clean_runtime_cache", "reset_runs"}
HwSafe    == {"detect_hardware_environment"}
HwOff     == {"open_hardware_manager"}
HwDestroy == {"program_hw_device"}
Normal    == {"session_status", "detect_vivado_environment", "stop_session",
              "get_artifact_manifest", "get_project_state", "open_project",
              "close_project", "open_block_design"}
Tools == Immediate \cup Execution \cup TclPolicy \cup DryRun \cup HwSafe \cup HwOff
         \cup HwDestroy \cup Normal

LocalControl == {"session_status"}
ReadOnly     == {"session_status", "run_tcl", "get_project_state", "get_artifact_manifest",
                 "detect_hardware_environment"}
Destructive  == DryRun \cup HwDestroy \cup {"remove_project_files"}
SessionFree  == {"session_status", "detect_vivado_environment", "detect_hardware_environment",
                 "stop_session", "clean_runtime_cache", "get_artifact_manifest", "run_tcl"}
ProjectFree  == {"session_status", "detect_vivado_environment", "stop_session",
                 "clean_runtime_cache", "run_tcl", "create_project", "open_project"}
                \cup HwSafe \cup HwOff \cup HwDestroy
CoreOnly     == {"create_ip", "remove_project_files", "reset_runs", "run_tcl",
                 "get_artifact_manifest", "open_block_design"} \* advanced, not core
TakesVivadoPath == {"detect_vivado_environment", "detect_hardware_environment",
                    "run_project_audit"}

\* _risk_for_tool
Risk(t) == CASE t \in Normal              -> "normal"
             [] t \in TclPolicy           -> "tcl_policy_dry_run"
             [] t \in HwSafe \cup HwOff   -> "hardware"
             [] t \in HwDestroy           -> "hardware_destructive"
             [] t \in DryRun              -> "destructive_dry_run"
             [] t \in Immediate           -> "project_mutation_immediate"
             [] t \in Execution \ DryRun  -> "project_execution"

HardwareTier(t) == t \in HwSafe \cup HwOff \cup HwDestroy

Profiles(t) == IF HardwareTier(t) THEN {"all"}
               ELSE {"advanced", "all"} \cup (IF t \in CoreOnly THEN {} ELSE {"core"})

RequiredSession(t) == IF t = "clean_runtime_cache" THEN "session_stopped_for_mutation"
                      ELSE IF t \in SessionFree THEN "none" ELSE "managed_session"

RequiredProject(t) ==
    IF t = "get_artifact_manifest" THEN "project_or_manifest"
    ELSE IF t \in ProjectFree THEN "none"
    ELSE IF Risk(t) \in {"project_mutation_immediate", "project_execution",
                         "destructive_dry_run"} THEN "managed_project_open"
    ELSE "project_open"

NamesProject(t) == RequiredProject(t) \in {"project_open", "managed_project_open"}
Mutation(t)     == t \notin ReadOnly

(***************************************************************************)
(* The calls, and what call() sees of the service                          *)
(***************************************************************************)

\* path: the vivado_path argument and whether it is the trusted executable,
\* for the facade; again: the same, when the pipeline asks a moment later.
\* small: the call can be frozen into a policy context.
PathAnswers == {"absent", "trusted", "mismatch"}
Calls == [tool : Tools \cup {"unregistered"}, valid : BOOLEAN, path : PathAnswers,
          again : PathAnswers, profile : {"core", "advanced", "all"}, enforced : BOOLEAN,
          dryRun : BOOLEAN, small : BOOLEAN]
Possible(c) == c.path = "absent" <=> c.again = "absent"

\* managed: the session is a GuiTcpVivadoSession; scope: the mutation scope;
\* verified: the active capability can be verified.
Observed == [managed : BOOLEAN, scope : {"unbound", "indeterminate",
             "mcp_created_project", "existing_project_read_only"}, verified : BOOLEAN]

AsksPath(c) == c.tool \in TakesVivadoPath /\ c.path # "absent"
GuardedAction(c) == c.tool \in (Immediate \cup Execution \cup Composite) \ {"create_project"}
RepairDryRun(c)  == c.tool = "repair_project_setup" /\ c.dryRun

\* The branch of call() that looks at the session at all.
Looks(c, o) == GuardedAction(c) /\ ~RepairDryRun(c) /\ o.managed

CapabilityFails(c, o) == Looks(c, o) /\ o.scope = "mcp_created_project" /\ ~o.verified

(***************************************************************************)
(* The legacy decision                                                     *)
(***************************************************************************)

Allowed == [allowed |-> TRUE, reason |-> "none", stage |-> "none"]
Refused(reason, stage) == [allowed |-> FALSE, reason |-> reason, stage |-> stage]

\* call() asks these in this order, and the first that applies refuses: of
\* every call, and then of guarded ones.
FacadeChecks(c) == <<
    <<c.tool = "unregistered", "UNKNOWN_TOOL", "policy_pipeline">>,
    <<~c.valid, "INVALID_TOOL_ARGUMENTS", "argument_schema">>,
    <<c.enforced /\ c.profile \notin Profiles(c.tool),
      "TOOL_NOT_AVAILABLE_IN_PROFILE", "capability_profile_authorization">>,
    <<AsksPath(c) /\ c.path = "mismatch", "VIVADO_PATH", "executable_session_identity">> >>
GateChecks(c, o) == <<
    <<CapabilityFails(c, o), "PROJECT_CAPABILITY_INVALID", "project_capability_generation">>,
    <<Looks(c, o) /\ o.scope # "mcp_created_project",
      "EXISTING_PROJECT_MUTATION_REQUIRES_WORKING_COPY", "mutation_destructive_intent">>,
    <<Looks(c, o) /\ c.tool \in Composite,
      "EXECUTABLE_COMPOSITE_INPUT_UNSUPPORTED", "execution_input_closure">> >>

FirstRefusal(checks) ==
    LET i == SelectInSeq(checks, LAMBDA k : k[1])
    IN  IF i = 0 THEN Allowed ELSE Refused(checks[i][2], checks[i][3])

Legacy(c, o) == FirstRefusal(FacadeChecks(c) \o GateChecks(c, o))

(***************************************************************************)
(* The shadow decision                                                     *)
(***************************************************************************)

\* The PolicyShadowFacts of the call: what was not reached keeps its default.
FailsFirst(c) == c.tool = "unregistered" \/ ~c.valid
                 \/ (c.enforced /\ c.profile \notin Profiles(c.tool))
                 \/ (AsksPath(c) /\ c.path = "mismatch")
Facts(c, o) ==
    [guarded      |-> ~FailsFirst(c) /\ GuardedAction(c),
     repairDryRun |-> ~FailsFirst(c) /\ RepairDryRun(c),
     managed      |-> ~FailsFirst(c) /\ Looks(c, o),
     scope        |-> IF ~FailsFirst(c) /\ CapabilityFails(c, o) THEN "indeterminate"
                      ELSE o.scope,
     failed       |-> ~FailsFirst(c) /\ CapabilityFails(c, o)]

\* policy_stage_requirements, for the stages that can refuse.
StageRequired_NoExecution(t, s) ==
    CASE s = "executable_session_identity" -> TRUE
      [] s \in {"argument_schema", "capability_profile_authorization"} -> TRUE
      [] s = "project_capability_generation" -> RequiredProject(t) # "none"
      [] s = "mutation_destructive_intent" -> Mutation(t)
      [] s = "execution_input_closure" -> Risk(t) = "project_execution"
StageRequired(t, s) ==
    CASE s = "executable_session_identity" ->
            \/ RequiredSession(t) # "none" \/ NamesProject(t)
            \/ Mutation(t) \/ t \in Destructive \/ HardwareTier(t)
            \/ Risk(t) \in {"project_execution", "tcl_policy_dry_run"}
            \/ t \in Composite
            \/ t \in {"detect_vivado_environment", "detect_hardware_environment",
                      "stop_session", "run_tcl"}
      [] s \in {"argument_schema", "capability_profile_authorization"} -> TRUE
      [] s = "project_capability_generation" ->
            \/ RequiredProject(t) # "none"
            \/ Risk(t) = "project_execution" \/ t \in Composite
      [] s = "mutation_destructive_intent" ->
            \/ Mutation(t) \/ t \in Destructive
            \/ Risk(t) \in {"destructive_dry_run", "hardware_destructive",
                            "project_execution", "project_mutation_immediate"}
      [] s = "execution_input_closure" ->
            t \in Composite \/ Risk(t) = "project_execution"

\* Stages that only repeat that the legacy authority is retained are left out.
StageOrder == <<"executable_session_identity", "argument_schema",
                "capability_profile_authorization", "project_capability_generation",
                "mutation_destructive_intent", "execution_input_closure">>

\* What a required stage refuses for.
StageRefuses(s, c, f) ==
    LET acts == f.managed /\ f.guarded /\ ~f.repairDryRun
    IN  CASE s = "executable_session_identity" -> AsksPath(c) /\ c.again = "mismatch"
          [] s = "argument_schema" -> ~c.valid
          [] s = "capability_profile_authorization" ->
                c.enforced /\ c.profile \notin Profiles(c.tool)
          [] s = "project_capability_generation" -> f.failed
          [] s = "mutation_destructive_intent" -> acts /\ f.scope # "mcp_created_project"
          [] s = "execution_input_closure" -> acts /\ c.tool \in Composite

StageReason(s) ==
    CASE s = "executable_session_identity" -> "VIVADO_PATH"
      [] s = "argument_schema" -> "INVALID_TOOL_ARGUMENTS"
      [] s = "capability_profile_authorization" -> "TOOL_NOT_AVAILABLE_IN_PROFILE"
      [] s = "project_capability_generation" -> "PROJECT_CAPABILITY_INVALID"
      [] s = "mutation_destructive_intent" -> "EXISTING_PROJECT_MUTATION_REQUIRES_WORKING_COPY"
      [] s = "execution_input_closure" -> "EXECUTABLE_COMPOSITE_INPUT_UNSUPPORTED"

\* PolicyPipeline.evaluate: the stages in order, the first refusal decides.
Pipeline(c, f) ==
    FirstRefusal([i \in DOMAIN StageOrder |->
        LET s == StageOrder[i]
        IN  <<StageRequired(c.tool, s) /\ StageRefuses(s, c, f), StageReason(s), s>>])

\* A call the registry does not know, or that cannot be frozen, is refused.
Shadow(c, o) ==
    IF c.tool = "unregistered" THEN Refused("UNKNOWN_TOOL", "policy_pipeline")
    ELSE IF ~c.small THEN Refused("POLICY_SHADOW_EVALUATION_FAILED", "policy_pipeline")
    ELSE Pipeline(c, Facts(c, o))

(***************************************************************************)
(* The comparison                                                          *)
(***************************************************************************)

\* The pipeline asks for the executable first and the facade fourth, so it may
\* name another reason for a call that both refuse.
PathShadowsReason(c) == AsksPath(c) /\ c.again = "mismatch"

Agree(c, o) ==
    LET legacy == Legacy(c, o)
        shadow == Shadow(c, o)
    IN  /\ ~legacy.allowed => ~shadow.allowed \/ c.path # c.again
        /\ c.small /\ c.path = c.again => shadow.allowed = legacy.allowed
        /\ c.small /\ ~PathShadowsReason(c) /\ c.path = c.again => shadow = legacy

\* Observations on which the two disagree for some call.
Disputed == {d \in Calls \X Observed : Possible(d[1]) /\ ~Agree(d[1], d[2])}
Disagreements == {d[2] : d \in Disputed}
=============================================================================
