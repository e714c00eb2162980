--------------------------- MODULE MCDispatchPool ---------------------------
(* DispatchPool for TLC. *)
EXTENDS DispatchPool
=============================================================================
