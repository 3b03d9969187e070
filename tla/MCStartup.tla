------------------------------- MODULE MCStartup -------------------------------
(* Startup with names of at most three characters and a suffix of one. *)
EXTENDS Startup, TLC

CONSTANTS both, pgOnly   \* a binary with both backends, one with pgvector alone

MCRouters  == {both, pgOnly}
MCCompiled == both :> {"qdrant", "pgvector"} @@ pgOnly :> {"pgvector"}

Model(ns, dim) == [dim |-> dim, normalize |-> TRUE, vdb_namespace |-> ns]
With(backend, models) ==
  [bearer_token |-> "token", url |-> "url", backend |-> backend, buffers_per_worker |-> 2,
   worker_threads |-> Unset, max_retries |-> 3, ef_search |-> Unset,
   max_connections |-> Unset, models |-> models]

\* One namespace of two models; another dimension for it, beside a namespace of
\* full length; a namespace called like another's index; a vector too large for
\* an index.
Shared      == With("pgvector", "m" :> Model(<<"a">>, 1) @@ "n" :> Model(<<"a">>, 1))
Changed     == With("pgvector", "m" :> Model(<<"a">>, 2) @@ "n" :> Model(<<"b", "c", "d">>, 1))
IndexNamed  == With("pgvector", "m" :> Model(<<"a">>, 1) @@ "n" :> Model(<<"a", "h">>, 1))
Unindexable == With("pgvector", "m" :> Model(<<"b">>, 3))
Elsewhere   == With("qdrant", "m" :> Model(<<"a">>, 3) @@ "n" :> Model(<<"a">>, 1))
NoThreads   == [Shared EXCEPT !.worker_threads = 0]

MCConfigs == {Shared, Changed, IndexNamed, Unindexable, Elsewhere, NoThreads}
MCSuffix == <<"h">>
=============================================================================
