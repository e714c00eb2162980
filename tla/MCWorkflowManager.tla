-------------------------- MODULE MCWorkflowManager --------------------------
(* Two workflow graphs on four nodes.  In both, n1 is the root and n2 and   *)
(* n3 lead to n4.                                                          *)
EXTENDS WorkflowManager

CONSTANTS n1, n2, n3, n4

MCNode == {n1, n2, n3, n4}

(* The diamond: n2 is the success path, n3 the error handler. *)
DiamondSuccess == {<<n1, n2>>, <<n3, n4>>}
DiamondFailure == {<<n1, n3>>}
DiamondAlways == {<<n2, n4>>}

(* The fork: n3 runs always, n4 wants both n2 and n3 successful. *)
ForkSuccess == {<<n1, n2>>, <<n2, n4>>, <<n3, n4>>}
ForkAlways == {<<n1, n3>>}
=============================================================================
