-------------------------- MODULE MCWorkflowTrace --------------------------
(* Instances of WorkflowTrace for TLC. *)
EXTENDS WorkflowTrace, TLC

CONSTANTS s1, s2, p1, o1, o2

\* The success of the other operation stands for what resolves nothing; only its
\* summary may break a line.
MCDeeds == {<<o1, "failed", FALSE>>, <<o1, "ready", FALSE>>,
            <<o2, "ready", FALSE>>, <<o2, "ready", TRUE>>}
=============================================================================
