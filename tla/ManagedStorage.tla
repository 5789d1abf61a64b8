--------------------------- MODULE ManagedStorage ---------------------------
(***************************************************************************)
(* The four places where servers share files without a common lock: the    *)
(* target of a managed write, the runtime directory, the trust directory   *)
(* and the directory of a bundle.  They have no state in common but the    *)
(* operating system, which does not change, and no step touches two of     *)
(* them: what the trust directory answers to a validation of a bundle is   *)
(* the nondeterministic choice AttestationIsTrue allows.  A behaviour is   *)
(* therefore one of a single place while the others rest: whatever         *)
(* interleaving of all four breaks a property of one place contains a      *)
(* behaviour of that place alone that breaks it.  The others rest in one   *)
(* of their initial states.                                                *)
(***************************************************************************)
EXTENDS ManagedFiles, RuntimeFiles, BundleFolder

VARIABLE place   \* the one that is in use

vars == <<fileVars, runtimeVars, trustVars, folderVars, place>>

Init ==
    /\ FilesInit /\ RuntimeInit /\ TrustInit /\ BundleInit
    /\ \/ place = "files" /\ root["marker"] = None /\ inPlace
       \/ place = "runtime" /\ inPlace
       \/ place = "trust" /\ root["marker"] = None /\ windows /\ inPlace
       \/ place = "bundle" /\ root["marker"] = None /\ windows

Next ==
    /\ UNCHANGED place
    /\ \/ place = "files" /\ FilesNext /\ UNCHANGED <<runtimeVars, trustVars, folderVars>>
       \/ place = "runtime" /\ RuntimeNext /\ UNCHANGED <<fileVars, trustVars, folderVars>>
       \/ place = "trust" /\ TrustNext /\ UNCHANGED <<fileVars, runtimeVars, folderVars>>
       \/ place = "bundle" /\ BundleNext /\ UNCHANGED <<fileVars, runtimeVars, trustVars>>

TypeOK == FilesTypeOK /\ RuntimeTypeOK /\ TrustTypeOK /\ BundleTypeOK

\* What a server says of a bundle is true: of its authenticity, and of its
\* health (agent_catalog.py:863, evidence_attestation.py:65).
VerdictIsTrue == AttestationIsTrue /\ HealthIsTrue

Spec == Init /\ [][Next]_vars
=============================================================================
