--------------------------- MODULE MCJobLifecycle ---------------------------
(* JobLifecycle for TLC. *)
EXTENDS JobLifecycle, TLC

(* Cancel requests differ in nothing but their name. *)
CancelersSymmetry == Permutations(Cancelers)
=============================================================================
