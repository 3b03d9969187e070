-------------------------------- MODULE Startup --------------------------------
(***************************************************************************)
(* Routers starting over one PostgreSQL database (src/src/main.rs,         *)
(* start_service, and PgVectorClient::connect with ensure_schema): each     *)
(* builds its runtime for a configuration that was accepted (see Config),   *)
(* selects the backend compiled in, and for pgvector provisions a table and *)
(* an index per namespace, one statement at a time.  A router may die       *)
(* between any two statements and start again with another configuration;   *)
(* the relations stay.  Tables and indexes share one space of names.  The   *)
(* database is new, or an operator ran some of sql/pgvector_schema.sql.     *)
(***************************************************************************)
EXTENDS ConfigSpec

CONSTANTS
  Routers,        \* the processes
  Configs,        \* the configurations they may be started with
  Compiled,       \* Compiled[p]: the backends of p's binary, by Cargo features
  Suffix,         \* "_embedding_hnsw"
  IndexableDims   \* the dimensions an HNSW index supports

ASSUME StartupAssumption ==
  /\ \A c \in Configs : \A m \in DOMAIN c.models : c.models[m] \in ModelSpec
  /\ \A p \in Routers : Compiled[p] \subseteq {"qdrant", "pgvector"}
  /\ Suffix \in Seq(Characters)

VARIABLES
  stage,     \* how far main of each router is
  cfg,       \* its configuration
  todo,      \* dim_by_namespace: what it has still to provision
  table,     \* the namespace whose table it has ensured, before its index
  rels,      \* the relations of the database, by name
  deployed,  \* history: the configurations that began to provision, or by hand
  served     \* history: the configurations that were provisioned to the end

startupVars == <<stage, cfg, todo, table, rels, deployed, served>>

Stages == {"down", "loaded", "starting", "connecting", "tables", "serving"}

Empty == [x \in {} |-> x]
Put(f, k, v) == [x \in DOMAIN f \union {k} |-> IF x = k THEN v ELSE f[x]]

\* Mutant of IndexName: as the statement has it.
IndexNameUncut(ns) == ns \o Suffix

\* PostgreSQL cuts a longer name off.
IndexName(ns) ==
  LET name == ns \o Suffix
  IN SubSeq(name, 1, IF Len(name) < IdentMax THEN Len(name) ELSE IdentMax)

TableOf(dim) == [kind |-> "table", dim |-> dim]
IndexOn(ns)  == [kind |-> "index", on |-> ns]

\* What the template may have made for a configuration before any router: some
\* of its tables, and the indexes of some of these.
Templated(c, name, db) ==
  \/ name \in NamespacesOf(c) /\ \E d \in ModelDims(c, name) : db[name] = TableOf(d)
  \/ \E ns \in NamespacesOf(c) :
       /\ name = IndexName(ns) /\ db[name] = IndexOn(ns)
       /\ ns \in DOMAIN db /\ \E d \in IndexableDims : db[ns] = TableOf(d)

ByHand(c) ==
  LET names == NamespacesOf(c) \union {IndexName(ns) : ns \in NamespacesOf(c)}
      relations == {TableOf(c.models[m].dim) : m \in DOMAIN c.models}
                     \union {IndexOn(ns) : ns \in NamespacesOf(c)}
  IN {db \in UNION {[some -> relations] : some \in SUBSET names} :
        \A name \in DOMAIN db : Templated(c, name, db)}

StartupInit ==
  /\ stage = [p \in Routers |-> "down"]
  /\ cfg = [p \in Routers |-> Unset]
  /\ todo = [p \in Routers |-> Empty]
  /\ table = [p \in Routers |-> Unset]
  /\ \/ rels = Empty /\ deployed = {}
     \/ \E c \in Configs : /\ ValidConfig(c) /\ c.backend = "pgvector"
                           /\ rels \in ByHand(c) /\ deployed = {c}
  /\ served = {}

-----------------------------------------------------------------------------
(* main: the configuration, the runtime, the backend. *)

Goto(p, s) == stage' = [stage EXCEPT ![p] = s]

\* The process ends, by an error that reaches main, a panic or a signal.
Dies(p) ==
  /\ Goto(p, "down")
  /\ cfg' = [cfg EXCEPT ![p] = Unset]
  /\ todo' = [todo EXCEPT ![p] = Empty]
  /\ table' = [table EXCEPT ![p] = Unset]
  /\ UNCHANGED <<rels, deployed, served>>

\* What load rejects ends the process at once.
Start(p, c) ==
  /\ stage[p] = "down"
  /\ ValidConfig(c)
  /\ Goto(p, "loaded")
  /\ cfg' = [cfg EXCEPT ![p] = c]
  /\ UNCHANGED <<todo, table, rels, deployed, served>>

\* tokio's builder asserts that there is a worker thread: validate does not.
RuntimePanics(p) == stage[p] = "loaded" /\ cfg[p].worker_threads = 0 /\ Dies(p)

BuildRuntime(p) ==
  /\ stage[p] = "loaded" /\ cfg[p].worker_threads # 0
  /\ Goto(p, "starting")
  /\ UNCHANGED <<cfg, todo, table, rels, deployed, served>>

BackendMissing(p) == stage[p] = "starting" /\ cfg[p].backend \notin Compiled[p] /\ Dies(p)

SelectBackend(p) ==
  /\ stage[p] = "starting" /\ cfg[p].backend \in Compiled[p]
  /\ Goto(p, IF cfg[p].backend = "qdrant" THEN "serving" ELSE "connecting")
  /\ UNCHANGED <<cfg, todo, table, rels, deployed, served>>

-----------------------------------------------------------------------------
(* connect and ensure_schema, one statement of the database after another. *)

\* The pool opens its first connection and the extension is created; then the
\* namespaces are gathered, each with the dim of the first model to name it.
Connect(p) ==
  /\ stage[p] = "connecting"
  /\ Goto(p, "tables")
  /\ \E first \in [NamespacesOf(cfg[p]) -> DOMAIN cfg[p].models] :
       /\ \A ns \in DOMAIN first : cfg[p].models[first[ns]].vdb_namespace = ns
       /\ todo' = [todo EXCEPT ![p] =
                     [ns \in DOMAIN first |-> cfg[p].models[first[ns]].dim]]
  /\ deployed' = deployed \union {cfg[p]}
  /\ UNCHANGED <<cfg, table, rels, served>>

\* IF NOT EXISTS asks for the name, whatever relation has it.
Relation(name, definition) ==
  IF name \in DOMAIN rels THEN rels ELSE Put(rels, name, definition)

Ensuring(p) == stage[p] = "tables"

\* Mutant of CreateTable: every table gets one of the dimensions.
CreateTableOfAnyDim(p, ns) ==
  /\ Ensuring(p) /\ table[p] = Unset
  /\ ns \in DOMAIN todo[p]
  /\ table' = [table EXCEPT ![p] = ns]
  /\ \E other \in DOMAIN todo[p] : rels' = Relation(ns, TableOf(todo[p][other]))
  /\ UNCHANGED <<stage, cfg, todo, deployed, served>>

\* Mutant of CreateTable: a table that is there is taken to have its index.
CreateTableSkips(p, ns) ==
  /\ Ensuring(p) /\ table[p] = Unset
  /\ ns \in DOMAIN todo[p]
  /\ IF ns \in DOMAIN rels
       THEN /\ todo' = [todo EXCEPT ![p] = [x \in DOMAIN @ \ {ns} |-> @[x]]]
            /\ UNCHANGED table
       ELSE table' = [table EXCEPT ![p] = ns] /\ UNCHANGED todo
  /\ rels' = Relation(ns, TableOf(todo[p][ns]))
  /\ UNCHANGED <<stage, cfg, deployed, served>>

\* Mutant of CreateTable: it is dropped first, with its index.
CreateTableAnew(p, ns) ==
  /\ Ensuring(p) /\ table[p] = Unset
  /\ ns \in DOMAIN todo[p]
  /\ table' = [table EXCEPT ![p] = ns]
  /\ rels' = [name \in {n \in DOMAIN rels : rels[n] # IndexOn(ns)} \union {ns} |->
               IF name = ns THEN TableOf(todo[p][ns]) ELSE rels[name]]
  /\ UNCHANGED <<stage, cfg, todo, deployed, served>>

CreateTable(p, ns) ==
  /\ Ensuring(p) /\ table[p] = Unset
  /\ ns \in DOMAIN todo[p]
  /\ table' = [table EXCEPT ![p] = ns]
  /\ rels' = Relation(ns, TableOf(todo[p][ns]))
  /\ UNCHANGED <<stage, cfg, todo, deployed, served>>

IsTable(ns) == ns \in DOMAIN rels /\ rels[ns].kind = "table"

\* Mutant of IndexAccepted: its failure is taken for "exists already".
IndexAlwaysAccepted(ns) == TRUE

\* CREATE INDEX wants a table; then it skips a name that is taken, or builds.
IndexAccepted(ns) ==
  IsTable(ns) /\ (IndexName(ns) \in DOMAIN rels \/ rels[ns].dim \in IndexableDims)

CreateIndex(p) ==
  /\ Ensuring(p) /\ table[p] # Unset
  /\ IndexAccepted(table[p])
  /\ rels' = Relation(IndexName(table[p]), IndexOn(table[p]))
  /\ todo' = [todo EXCEPT ![p] = [ns \in DOMAIN @ \ {table[p]} |-> @[ns]]]
  /\ table' = [table EXCEPT ![p] = Unset]
  /\ UNCHANGED <<stage, cfg, deployed, served>>

CreateIndexFails(p) ==
  Ensuring(p) /\ table[p] # Unset /\ ~IndexAccepted(table[p]) /\ Dies(p)

\* Every statement succeeded; start_service_with_vdb cannot fail.
Provisioned(p) ==
  /\ Ensuring(p) /\ todo[p] = Empty
  /\ Goto(p, "serving")
  /\ served' = served \union {cfg[p]}
  /\ UNCHANGED <<cfg, todo, table, rels, deployed>>

\* The end at any other point: a connection or a statement fails, a signal
\* kills or shuts down.  The database keeps what it has.
Stop(p) == stage[p] # "down" /\ Dies(p)

StartupStep(p) ==
  \/ \E c \in Configs : Start(p, c)
  \/ RuntimePanics(p) \/ BuildRuntime(p) \/ BackendMissing(p) \/ SelectBackend(p)
  \/ Connect(p)
  \/ \E ns \in DOMAIN todo[p] : CreateTable(p, ns)
  \/ CreateIndex(p) \/ CreateIndexFails(p)
  \/ Provisioned(p)
  \/ Stop(p)

StartupNext == \E p \in Routers : StartupStep(p)

StartupSpec == StartupInit /\ [][StartupNext]_startupVars

-----------------------------------------------------------------------------
(* Properties. *)

Serving(p) == stage[p] = "serving" /\ cfg[p].backend = "pgvector"

StartupTypeOK ==
  /\ stage \in [Routers -> Stages]
  /\ \A name \in DOMAIN rels :
       Len(name) <= IdentMax /\ rels[name].kind \in {"table", "index"}
  /\ served \subseteq deployed

\* A router that serves finds a table, and not another relation of that name,
\* behind each of its namespaces.
ServedNamespacesAreTables ==
  \A p \in Routers : Serving(p) => \A ns \in NamespacesOf(cfg[p]) : IsTable(ns)

\* A served model whose dimension is not its table's column's, so that the
\* database refuses each of its upserts, is the work of a changed configuration:
\* another one gave the namespace that dimension, before or at the same time.
DimsFitUnlessReconfigured ==
  \A p \in Routers : Serving(p) =>
    \A m \in DOMAIN cfg[p].models :
      LET ns == cfg[p].models[m].vdb_namespace
      IN rels[ns].dim = cfg[p].models[m].dim
           \/ \E c \in deployed \ {cfg[p]} : rels[ns].dim \in ModelDims(c, ns)

\* GETTING_STARTED.md:27, "one table and HNSW index per model namespace": a
\* served namespace has its index, unless the index's name, cut to IdentMax, is
\* that of a namespace or of another namespace's index.
NameClash(ns) ==
  \E c \in deployed : \E other \in NamespacesOf(c) :
    IndexName(ns) = other \/ (other # ns /\ IndexName(ns) = IndexName(other))

IndexedUnlessNamesClash ==
  \A p \in Routers : Serving(p) =>
    \A ns \in NamespacesOf(cfg[p]) :
      NameClash(ns) \/ \E name \in DOMAIN rels : rels[name] = IndexOn(ns)

\* Booting again with a configuration that was served before changes nothing in
\* the database (pgvector_integration.rs: the second connect is a no-op).
SecondBootIsNoOp ==
  [][rels' # rels => \E p \in Routers : Ensuring(p) /\ cfg[p] \notin served]_startupVars

=============================================================================
