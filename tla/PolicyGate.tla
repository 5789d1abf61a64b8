----------------------------- MODULE PolicyGate -----------------------------
(***************************************************************************)
(* The project gate with the policy pipeline that shadows it: what call()  *)
(* observes of the service in a state of ProjectGate, and whether the two  *)
(* judges of PolicyShadow agree there on every call.                       *)
(***************************************************************************)
EXTENDS ProjectGate, PolicyShadow

\* What the guarded branch of call() looks at (tools.py).
Seen == [managed  |-> sess # "none",
         scope    |-> scope,
         verified |-> active # None /\ Verified(active)]

(* In no state of the service, and for no call, does the shadow pipeline   *)
(* allow what the facade refuses or refuse what it allows, and the two     *)
(* name the same stage and reason, except where the executable check comes *)
(* in another order or its answer has changed in between                   *)
(* (evaluate_policy_shadow, policy_shadow.py; call, tools.py).             *)
ShadowAgrees == Seen \notin Disagreements
=============================================================================
