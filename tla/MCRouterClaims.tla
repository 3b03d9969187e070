--------------------------- MODULE MCRouterClaims ---------------------------
(***************************************************************************)
(* What a comment of the repository says of the request path and the code   *)
(* does not do: a run of its own finds the claim violated.                  *)
(***************************************************************************)
EXTENDS MCRouter

\* grpc.rs:242-243: model_id = "unknown" if the lookup failed (the label stays
\* bounded).  upsert and search pass the client's model_id on.
UnknownModelsShareALabel ==
  \A l \in Labels :
    requests_total[l] > 0 /\ l.status = "unknown_model" => l.model = "unknown"

=============================================================================
