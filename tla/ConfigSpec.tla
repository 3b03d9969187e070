------------------------------ MODULE ConfigSpec ------------------------------
(***************************************************************************)
(* What a configuration is (src/src/config.rs) and which ones the program  *)
(* accepts, stated over the whole configuration and in no order.            *)
(*                                                                          *)
(* A text is "" or stands for a non-empty one; a namespace is a sequence of *)
(* characters, as its length and characters matter.  Addresses, timeouts,   *)
(* the API key and telemetry are not validated and left out.                *)
(***************************************************************************)
EXTENDS Naturals, Sequences

CONSTANTS
  Unset,           \* the None of an Option
  Characters,      \* what namespaces are made of,
  SafeCharacters,  \* and what a PostgreSQL namespace may be made of
  IdentMax         \* the longest identifier of PostgreSQL: 63

ASSUME IdentAssumption == IdentMax \in Nat

ModelSpec == [dim : Nat, normalize : BOOLEAN, vdb_namespace : Seq(Characters)]

NamespacesOf(c) == {c.models[m].vdb_namespace : m \in DOMAIN c.models}
ModelDims(c, ns) ==
  {c.models[m].dim : m \in {n \in DOMAIN c.models : c.models[n].vdb_namespace = ns}}

\* What the rest of the program may assume of a configuration, in no order.
ValidConfig(c) ==
  /\ c.bearer_token # "" /\ c.url # "" /\ c.buffers_per_worker # 0 /\ c.max_retries # 0
  /\ \A name \in DOMAIN c.models :
       name # "" /\ c.models[name].dim # 0 /\ c.models[name].vdb_namespace # << >>
  /\ c.backend = "pgvector" =>
       /\ \A name \in DOMAIN c.models :
            /\ Len(c.models[name].vdb_namespace) <= IdentMax
            /\ \A i \in 1..Len(c.models[name].vdb_namespace) :
                 c.models[name].vdb_namespace[i] \in SafeCharacters
       /\ \A m, n \in DOMAIN c.models :
            c.models[m].vdb_namespace = c.models[n].vdb_namespace =>
              c.models[m].dim = c.models[n].dim
       /\ c.ef_search # 0 /\ c.max_connections # 0

=============================================================================
