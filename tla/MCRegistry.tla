------------------------------ MODULE MCRegistry ------------------------------
(* Registry on small instances: the constants are given by the cfgs. *)
EXTENDS Registry

=============================================================================
