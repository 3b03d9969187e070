------------------------------- MODULE MCService -------------------------------
(* Service on small instances: the constants are given by the cfgs. *)
EXTENDS Service

=============================================================================
