------------------------------ MODULE MCRouter ------------------------------
(* Router on small instances. *)
EXTENDS Router, TLC

\* Two models with a namespace each, of one and two components: the buffers
\* are sized for the larger.
SmallRegistry ==
  [small |-> [dim |-> 1, normalize |-> TRUE,  vdb_namespace |-> "n1"],
   large |-> [dim |-> 2, normalize |-> FALSE, vdb_namespace |-> "n2"]]

\* A well-formed misaligned upsert to each model, and what can be wrong.
Upsert(m, d) ==
  [op |-> "upsert", model |-> m, dim |-> d, len |-> 4 * d, aligned |-> FALSE,
   norm |-> "scaled", point |-> "p", oversize |-> FALSE]

SmallUpsert == Upsert("small", 1)
LargeUpsert == Upsert("large", 2)
SmallSearch == [SmallUpsert EXCEPT !.op = "search", !.aligned = TRUE, !.norm = "zero"]

PipelineMessages ==
  { SmallUpsert, LargeUpsert, SmallSearch,
    [SmallUpsert EXCEPT !.oversize = TRUE],
    [SmallUpsert EXCEPT !.model = "none"],
    [SmallUpsert EXCEPT !.dim = 2],
    [SmallUpsert EXCEPT !.len = 6],
    [LargeUpsert EXCEPT !.norm = "nonfinite"] }

DatabaseMessages == { SmallUpsert, SmallSearch, [SmallUpsert EXCEPT !.point = "q"] }

LivenessMessages ==
  { SmallSearch, [SmallSearch EXCEPT !.len = 6], [SmallSearch EXCEPT !.oversize = TRUE] }

RequestSymmetry == Permutations(Requests)

=============================================================================
