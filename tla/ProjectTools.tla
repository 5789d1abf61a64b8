---------------------------- MODULE ProjectTools ----------------------------
(***************************************************************************)
(* The gate of VivadoToolService, and the simulations it lets through.     *)
(* Each treats the session as a thing that may end and be started again at *)
(* any time, and neither reads what the other keeps: the gate knows no     *)
(* simset, the simulation tools no capability.  A behaviour is therefore   *)
(* one of either while the other rests in its initial state: whatever      *)
(* interleaving breaks a property of one contains a behaviour of that one  *)
(* alone that breaks it.                                                   *)
(***************************************************************************)
EXTENDS PolicyGate

CONSTANTS Simsets, MaxEdits, MaxSets, MaxRuns, MaxGui

ASSUME SimulationAssumption ==
    /\ None \notin Simsets
    /\ {MaxEdits, MaxSets, MaxRuns, MaxGui} \subseteq Nat

VARIABLES files, props, live, globals, logs, call, answer, spent, inUse

simulationVars == <<files, props, live, globals, logs, call, answer, spent>>

Sim == INSTANCE Simulation

ToolsInit ==
    /\ Init /\ Sim!Init
    /\ inUse \in {"gate", "simulation"}
    /\ inUse = "simulation" => \A p \in Paths : target = p \/ p \notin Existing

ToolsNext ==
    /\ UNCHANGED inUse
    /\ \/ inUse = "gate" /\ Next /\ UNCHANGED simulationVars
       \/ inUse = "simulation" /\ Sim!Next /\ UNCHANGED vars

ToolsSpec == ToolsInit /\ [][ToolsNext]_<<vars, simulationVars, inUse>>

\* The simulations' properties (Simulation.tla): XSIM runs attested files only,
\* an accepted run is the one attested, a later result is of the last launch.
OnlyTrustedFilesRun   == Sim!OnlyTrustedFilesRun
AcceptedRunIsAttested == Sim!AcceptedRunIsAttested
ResultIsOfLastLaunch  == Sim!ResultIsOfLastLaunch
=============================================================================
