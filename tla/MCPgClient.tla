------------------------------ MODULE MCPgClient ------------------------------
(* PgClient on small instances. *)
EXTENDS PgClient, TLC

MCJobs ==
  {[op |-> "upsert", filter |-> FALSE, threshold |-> FALSE],
   [op |-> "health", filter |-> FALSE, threshold |-> FALSE],
   [op |-> "search", filter |-> TRUE,  threshold |-> TRUE]}

\* Every shape of a search, beside an upsert.
MCSearches ==
  {[op |-> "search", filter |-> f, threshold |-> t] : f, t \in BOOLEAN}
  \union {[op |-> "upsert", filter |-> FALSE, threshold |-> FALSE]}

AnyCaller == Permutations(Callers)
=============================================================================
