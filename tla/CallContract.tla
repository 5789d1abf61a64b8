---------------------------- MODULE CallContract ----------------------------
(***************************************************************************)
(* What the Tcl channel promises to whoever calls run_tcl.  A call is made *)
(* once, its command takes effect at most once, and it is answered once:   *)
(*   "done"     the command took effect, the answer is its own result;     *)
(*   "refused"  the command has not taken effect and never will;           *)
(*   "unknown"  the answer says nothing about the command, which may still *)
(*              take effect after the answer.                              *)
(***************************************************************************)
EXTENDS Naturals

CONSTANT Calls

VARIABLES verdict,   \* verdict[k]: how call k was answered
          effect     \* effect[k]: how often the command of call k ran

vars == <<verdict, effect>>

Verdicts == {"none", "open", "done", "refused", "unknown"}

TypeOK == /\ verdict \in [Calls -> Verdicts]
          /\ effect \in [Calls -> Nat]

Init == /\ verdict = [k \in Calls |-> "none"]
        /\ effect = [k \in Calls |-> 0]

Make(k) == /\ verdict[k] = "none"
           /\ verdict' = [verdict EXCEPT ![k] = "open"]
           /\ UNCHANGED effect

\* A call may be turned away as it is made.
TurnAway(k) == /\ verdict[k] = "none"
               /\ verdict' = [verdict EXCEPT ![k] = "refused"]
               /\ UNCHANGED effect

TakeEffect(k) == /\ verdict[k] \in {"open", "unknown"}
                 /\ effect[k] = 0
                 /\ effect' = [effect EXCEPT ![k] = 1]
                 /\ UNCHANGED verdict

Answer(k) == /\ verdict[k] = "open"
             /\ \/ /\ effect[k] = 1
                   /\ verdict' = [verdict EXCEPT ![k] = "done"]
                \/ /\ effect[k] = 0
                   /\ verdict' = [verdict EXCEPT ![k] = "refused"]
                \/ verdict' = [verdict EXCEPT ![k] = "unknown"]
             /\ UNCHANGED effect

Next == \E k \in Calls : Make(k) \/ TurnAway(k) \/ TakeEffect(k) \/ Answer(k)

Spec == Init /\ [][Next]_vars
=============================================================================
