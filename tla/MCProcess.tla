------------------------------- MODULE MCProcess -------------------------------
(* Process with configurations that meet every check of validate: names of at  *)
(* most three characters stand for PostgreSQL's of at most 63.                 *)
EXTENDS Process, TLC

Model(ns, dim) == [dim |-> dim, normalize |-> TRUE, vdb_namespace |-> ns]
File(models) ==
  "bearer_token" :> "token" @@ "url" :> "url" @@ "backend" :> "pgvector" @@ "models" :> models

Shared == File("m" :> Model(<<"a">>, 1) @@ "n" :> Model(<<"a">>, 1) @@ "o" :> Model(<<"b">>, 2))
Torn   == File("m" :> Model(<<"a">>, 1) @@ "n" :> Model(<<"a">>, 2) @@ "o" :> Model(<<"b">>, 2))

Faulty ==
  {Torn,
   File("m" :> Model(<<"a", ";">>, 1)),             \* an unsafe character
   File("m" :> Model(<<"a", "b", "a", "b">>, 1)),   \* too long a name
   File("m" :> Model(<<"a">>, 0)),
   File("m" :> Model(<< >>, 1)),
   File("" :> Model(<<"a">>, 1)),
   "url" :> "" @@ Shared,
   "bearer_token" :> "" @@ Shared,
   [o \in {"url"} |-> "url"],                       \* no admin section
   Unparsable}

Overrides ==
  {Empty, "max_retries" :> 0, "ef_search" :> 0, "max_connections" :> 0,
   "ef_search" :> 40 @@ "max_connections" :> 1,
   "worker_threads" :> 2,                           \* a pool section without buffers_per_worker
   "buffers_per_worker" :> 0 @@ "worker_threads" :> 2,
   "buffers_per_worker" :> 1 @@ "worker_threads" :> 0}

\* One field of a model: heals a file, tears one, leaves a new model unfinished.
OneField ==
  {[file |-> Torn,   env |-> "models" :> ("n" :> ("dim" :> 1))],
   [file |-> Shared, env |-> "models" :> ("n" :> ("dim" :> 2))],
   [file |-> Shared, env |-> "models" :> ("p" :> ("dim" :> 1))]}

MCLaunches ==
  {[file |-> f, env |-> Empty] : f \in Faulty}
  \union {[file |-> Shared, env |-> e] : e \in Overrides}
  \union {[file |-> f, env |-> "backend" :> "qdrant" @@ "ef_search" :> 0] : f \in {Shared, Torn}}
  \union OneField
=============================================================================
