---------------------------- MODULE Startup_proofs ----------------------------
(***************************************************************************)
(* Proofs about routers that provision one database: for every number of   *)
(* routers, every set of configurations they are started with, and every   *)
(* length of identifiers, through deaths and restarts between statements.  *)
(***************************************************************************)
EXTENDS Startup, SequenceTheorems, TLAPS

\* A namespace is provisioned once its table is there and its index's name taken.
Done(ns) == IsTable(ns) /\ IndexName(ns) \in DOMAIN rels

\* Every relation was created for a namespace of a deployed configuration.
Genuine(name) ==
  \E c \in deployed :
    \/ name \in NamespacesOf(c) /\ \E d \in ModelDims(c, name) : rels[name] = TableOf(d)
    \/ \E ns \in NamespacesOf(c) : name = IndexName(ns) /\ rels[name] = IndexOn(ns)

\* A router at work has provisioned what is no longer in its list.
AtWork(p) ==
  /\ cfg[p] \in deployed
  /\ cfg[p].backend = "pgvector"
  /\ DOMAIN todo[p] \subseteq NamespacesOf(cfg[p])
  /\ \A ns \in DOMAIN todo[p] : todo[p][ns] \in ModelDims(cfg[p], ns)
  /\ table[p] # Unset => table[p] \in DOMAIN todo[p] /\ table[p] \in DOMAIN rels
  /\ \A ns \in NamespacesOf(cfg[p]) : ns \notin DOMAIN todo[p] => Done(ns)

StartupInv ==
  /\ stage \in [Routers -> Stages]
  /\ DOMAIN cfg = Routers /\ DOMAIN todo = Routers /\ DOMAIN table = Routers
  /\ \A p \in Routers :
       /\ stage[p] # "down" => cfg[p] \in Configs /\ ValidConfig(cfg[p])
       /\ stage[p] = "connecting" => cfg[p].backend = "pgvector" /\ table[p] = Unset
       /\ stage[p] \in {"down", "loaded", "starting"} => table[p] = Unset
       /\ stage[p] = "tables" => AtWork(p)
       /\ Serving(p) => cfg[p] \in served
  /\ served \subseteq deployed
  /\ deployed \subseteq Configs
  /\ \A c \in deployed : ValidConfig(c) /\ c.backend = "pgvector"
  /\ \A c \in served : \A ns \in NamespacesOf(c) : Done(ns)
  /\ \A name \in DOMAIN rels : Genuine(name)

-----------------------------------------------------------------------------
(* IF NOT EXISTS: what is there stays as it is, and nothing else is added. *)

LEMMA RelationGrows ==
  ASSUME NEW name, NEW definition, rels' = Relation(name, definition)
  PROVE  /\ DOMAIN rels' = DOMAIN rels \union {name}
         /\ \A n \in DOMAIN rels : rels'[n] = rels[n]
         /\ name \notin DOMAIN rels => rels'[name] = definition
         /\ name \in DOMAIN rels => rels' = rels
BY DEF Relation, Put

\* What was provisioned stays provisioned, what was genuine genuine.
LEMMA GrowthKeeps ==
  ASSUME DOMAIN rels \subseteq DOMAIN rels', \A n \in DOMAIN rels : rels'[n] = rels[n],
         deployed \subseteq deployed'
  PROVE  /\ \A ns : Done(ns) => Done(ns)'
         /\ \A name \in DOMAIN rels : Genuine(name) => Genuine(name)'
<1>1. ASSUME NEW ns, Done(ns) PROVE Done(ns)'
  BY <1>1 DEF Done, IsTable, IndexName
<1>2. ASSUME NEW name \in DOMAIN rels, Genuine(name) PROVE Genuine(name)'
  BY <1>2 DEF Genuine
<1> QED
  BY <1>1, <1>2

LEMMA StartupInvInit == StartupInit => StartupInv
<1> SUFFICES ASSUME StartupInit PROVE StartupInv
  OBVIOUS
<1>1. ASSUME NEW name \in DOMAIN rels PROVE Genuine(name)
  <2>1. PICK c \in deployed : rels \in ByHand(c)
    BY <1>1 DEF StartupInit, Empty
  <2>2. Templated(c, name, rels)
    BY <1>1, <2>1 DEF ByHand
  <2> QED
    BY <2>1, <2>2 DEF Templated, Genuine
<1> QED
  BY <1>1 DEF StartupInit, StartupInv, Stages, Empty, Serving

\* A death resets the router and leaves the database and the others alone.
LEMMA DeathKeeps ==
  ASSUME StartupInv, NEW p \in Routers, Dies(p)
  PROVE  StartupInv'
<1> USE DEF StartupInv, Dies, Goto
<1>1. stage' \in [Routers -> Stages]
  BY DEF Stages
<1>2. \A q \in Routers : AtWork(q) /\ q # p => AtWork(q)'
  BY DEF AtWork, Done, IsTable
<1>3. \A q \in Routers : Serving(q)' => q # p /\ Serving(q) /\ cfg'[q] = cfg[q]
  BY DEF Serving
<1>4. /\ \A c \in served' : \A ns \in NamespacesOf(c) : Done(ns)'
      /\ \A name \in DOMAIN rels' : Genuine(name)'
  BY DEF Done, IsTable, Genuine
<1>5. ASSUME NEW q \in Routers
      PROVE  /\ stage'[q] # "down" => cfg'[q] \in Configs /\ ValidConfig(cfg'[q])
             /\ stage'[q] = "connecting" => cfg'[q].backend = "pgvector" /\ table'[q] = Unset
             /\ stage'[q] \in {"down", "loaded", "starting"} => table'[q] = Unset
             /\ stage'[q] = "tables" => AtWork(q)'
             /\ Serving(q)' => cfg'[q] \in served'
  BY <1>2, <1>3
<1> QED
  BY <1>1, <1>4, <1>5

\* A step of p that only moves its stage keeps what concerns the database.
LEMMA MoveKeeps ==
  ASSUME StartupInv, UNCHANGED <<rels, deployed>>,
         served' \subseteq deployed,
         \A c \in served' : \A ns \in NamespacesOf(c) : Done(ns)
  PROVE  /\ served' \subseteq deployed' /\ deployed' \subseteq Configs
         /\ \A c \in deployed' : ValidConfig(c) /\ c.backend = "pgvector"
         /\ \A c \in served' : \A ns \in NamespacesOf(c) : Done(ns)'
         /\ \A name \in DOMAIN rels' : Genuine(name)'
BY DEF StartupInv, Done, IsTable, Genuine

LEMMA StartupInvStep == StartupInv /\ [StartupNext]_startupVars => StartupInv'
<1> SUFFICES ASSUME StartupInv, [StartupNext]_startupVars PROVE StartupInv'
  OBVIOUS
<1>1. ASSUME NEW p \in Routers, Dies(p) PROVE StartupInv'
  BY <1>1, DeathKeeps
<1>2. ASSUME NEW p \in Routers, NEW c \in Configs, Start(p, c) PROVE StartupInv'
  <2> USE <1>2 DEF Start, Goto
  <2>1. /\ served' \subseteq deployed' /\ deployed' \subseteq Configs
        /\ \A d \in deployed' : ValidConfig(d) /\ d.backend = "pgvector"
        /\ \A d \in served' : \A ns \in NamespacesOf(d) : Done(ns)'
        /\ \A name \in DOMAIN rels' : Genuine(name)'
    BY MoveKeeps DEF StartupInv
  <2>2. \A q \in Routers : q # p /\ AtWork(q) => AtWork(q)'
    BY DEF StartupInv, AtWork, Done, IsTable
  <2> QED
    BY <2>1, <2>2 DEF StartupInv, Stages, Serving
<1>3. ASSUME NEW p \in Routers, BuildRuntime(p) \/ SelectBackend(p) PROVE StartupInv'
  <2> USE <1>3 DEF BuildRuntime, SelectBackend, Goto
  <2>1. /\ served' \subseteq deployed' /\ deployed' \subseteq Configs
        /\ \A d \in deployed' : ValidConfig(d) /\ d.backend = "pgvector"
        /\ \A d \in served' : \A ns \in NamespacesOf(d) : Done(ns)'
        /\ \A name \in DOMAIN rels' : Genuine(name)'
    BY MoveKeeps DEF StartupInv
  <2>2. \A q \in Routers : q # p /\ AtWork(q) => AtWork(q)'
    BY DEF StartupInv, AtWork, Done, IsTable
  <2>3. stage'[p] = "connecting" => cfg[p].backend = "pgvector"
    BY StartupAssumption DEF StartupInv
  <2>4. stage'[p] = "serving" => cfg[p].backend = "qdrant"
    BY DEF StartupInv
  <2> QED
    BY <2>1, <2>2, <2>3, <2>4 DEF StartupInv, Stages, Serving
<1>4. ASSUME NEW p \in Routers, Connect(p) PROVE StartupInv'
  <2>1. PICK first \in [NamespacesOf(cfg[p]) -> DOMAIN cfg[p].models] :
          /\ \A ns \in DOMAIN first : cfg[p].models[first[ns]].vdb_namespace = ns
          /\ todo' = [todo EXCEPT ![p] =
                        [ns \in DOMAIN first |-> cfg[p].models[first[ns]].dim]]
    BY <1>4 DEF Connect
  <2>2. /\ stage[p] = "connecting" /\ stage' = [stage EXCEPT ![p] = "tables"]
        /\ deployed' = deployed \union {cfg[p]}
        /\ UNCHANGED <<cfg, table, rels, served>>
    BY <1>4 DEF Connect, Goto
  <2>3. AtWork(p)'
    <3>1. DOMAIN todo'[p] = NamespacesOf(cfg[p])
      BY <2>1 DEF StartupInv
    <3>2. \A ns \in DOMAIN todo'[p] : todo'[p][ns] \in ModelDims(cfg[p], ns)
      BY <2>1 DEF StartupInv, ModelDims
    <3> QED
      BY <2>2, <3>1, <3>2 DEF StartupInv, AtWork
  <2>4. \A q \in Routers : q # p /\ AtWork(q) => AtWork(q)'
    BY <2>1, <2>2 DEF StartupInv, AtWork, Done, IsTable
  <2>5. \A c \in deployed' : ValidConfig(c) /\ c.backend = "pgvector" /\ c \in Configs
    BY <2>2 DEF StartupInv
  <2>6. /\ \A c \in served' : \A ns \in NamespacesOf(c) : Done(ns)'
        /\ \A name \in DOMAIN rels' : Genuine(name)'
    BY <2>2, GrowthKeeps DEF StartupInv
  <2> QED
    BY <2>1, <2>2, <2>3, <2>4, <2>5, <2>6 DEF StartupInv, Stages, Serving
<1>5. ASSUME NEW p \in Routers, NEW ns \in DOMAIN todo[p], CreateTable(p, ns)
      PROVE  StartupInv'
  <2>1. /\ stage[p] = "tables" /\ AtWork(p)
        /\ table' = [table EXCEPT ![p] = ns]
        /\ rels' = Relation(ns, TableOf(todo[p][ns]))
        /\ UNCHANGED <<stage, cfg, todo, deployed, served>>
    BY <1>5 DEF CreateTable, Ensuring, StartupInv
  <2>2. /\ DOMAIN rels' = DOMAIN rels \union {ns}
        /\ \A n \in DOMAIN rels : rels'[n] = rels[n]
        /\ ns \notin DOMAIN rels => rels'[ns] = TableOf(todo[p][ns])
    BY <2>1, RelationGrows
  <2>3. /\ \A n : Done(n) => Done(n)'
        /\ \A name \in DOMAIN rels : Genuine(name) => Genuine(name)'
    BY <2>1, <2>2, GrowthKeeps
  <2>4. ns \notin DOMAIN rels => Genuine(ns)'
    BY <2>1, <2>2 DEF AtWork, Genuine
  <2>5. \A q \in Routers : q # p /\ AtWork(q) => AtWork(q)'
    BY <2>1, <2>2, <2>3 DEF StartupInv, AtWork
  <2>6. AtWork(p)'
    BY <2>1, <2>2, <2>3 DEF StartupInv, AtWork
  <2> QED
    BY <2>1, <2>2, <2>3, <2>4, <2>5, <2>6 DEF StartupInv, Serving
<1>6. ASSUME NEW p \in Routers, CreateIndex(p) PROVE StartupInv'
  <2>0. PICK ns : ns = table[p]
    OBVIOUS
  <2>1. /\ stage[p] = "tables" /\ AtWork(p)
        /\ ns \in DOMAIN todo[p] /\ IsTable(ns)
        /\ rels' = Relation(IndexName(ns), IndexOn(ns))
        /\ todo' = [todo EXCEPT ![p] = [n \in DOMAIN todo[p] \ {ns} |-> todo[p][n]]]
        /\ table' = [table EXCEPT ![p] = Unset]
        /\ UNCHANGED <<stage, cfg, deployed, served>>
    BY <1>6, <2>0 DEF CreateIndex, Ensuring, IndexAccepted, StartupInv, AtWork
  <2>2. /\ DOMAIN rels' = DOMAIN rels \union {IndexName(ns)}
        /\ \A n \in DOMAIN rels : rels'[n] = rels[n]
        /\ IndexName(ns) \notin DOMAIN rels => rels'[IndexName(ns)] = IndexOn(ns)
    BY <2>1, RelationGrows
  <2>3. /\ \A n : Done(n) => Done(n)'
        /\ \A name \in DOMAIN rels : Genuine(name) => Genuine(name)'
    BY <2>1, <2>2, GrowthKeeps
  <2>4. IndexName(ns) \notin DOMAIN rels => Genuine(IndexName(ns))'
    BY <2>1, <2>2 DEF AtWork, Genuine
  <2>5. \A q \in Routers : q # p /\ AtWork(q) => AtWork(q)'
    BY <2>1, <2>2, <2>3 DEF StartupInv, AtWork
  <2>6. Done(ns)'
    BY <2>1, <2>2 DEF Done, IsTable, IndexName
  <2>7. AtWork(p)'
    BY <2>1, <2>2, <2>3, <2>6 DEF StartupInv, AtWork
  <2> QED
    BY <2>1, <2>2, <2>3, <2>4, <2>5, <2>7 DEF StartupInv, Serving
<1>7. ASSUME NEW p \in Routers, Provisioned(p) PROVE StartupInv'
  <2>1. /\ stage[p] = "tables" /\ AtWork(p) /\ DOMAIN todo[p] = {}
        /\ stage' = [stage EXCEPT ![p] = "serving"]
        /\ served' = served \union {cfg[p]}
        /\ UNCHANGED <<cfg, todo, table, rels, deployed>>
    BY <1>7 DEF Provisioned, Ensuring, Goto, Empty, StartupInv
  <2>2. \A ns \in NamespacesOf(cfg[p]) : Done(ns)
    BY <2>1 DEF AtWork
  <2>3. /\ served' \subseteq deployed' /\ deployed' \subseteq Configs
        /\ \A c \in deployed' : ValidConfig(c) /\ c.backend = "pgvector"
        /\ \A c \in served' : \A ns \in NamespacesOf(c) : Done(ns)'
        /\ \A name \in DOMAIN rels' : Genuine(name)'
    <3>1. /\ served' \subseteq deployed
          /\ \A c \in served' : \A ns \in NamespacesOf(c) : Done(ns)
      BY <2>1, <2>2 DEF StartupInv, AtWork
    <3> QED
      BY <2>1, <3>1, MoveKeeps
  <2>4. \A q \in Routers : AtWork(q) => AtWork(q)'
    BY <2>1 DEF StartupInv, AtWork, Done, IsTable
  <2> QED
    BY <2>1, <2>3, <2>4 DEF StartupInv, Stages, Serving
<1>8. CASE UNCHANGED startupVars
  BY <1>8 DEF startupVars, StartupInv, AtWork, Done, IsTable, Genuine, Serving
<1> QED
  BY <1>1, <1>2, <1>3, <1>4, <1>5, <1>6, <1>7, <1>8
  DEF StartupNext, StartupStep, RuntimePanics, BackendMissing, CreateIndexFails, Stop


-----------------------------------------------------------------------------
(* Lengths: an index's name, cut, fits. *)

LEMMA IndexNameFits ==
  ASSUME NEW ns \in Seq(Characters)
  PROVE  Len(IndexName(ns)) <= IdentMax
<1> DEFINE name == ns \o Suffix
           last == IF Len(name) < IdentMax THEN Len(name) ELSE IdentMax
<1>1. name \in Seq(Characters) /\ Len(name) \in Nat
  BY StartupAssumption
<1>2. last \in 0..Len(name) /\ last <= IdentMax
  BY <1>1, IdentAssumption
<1>3. Len(SubSeq(name, 1, last)) = last
  BY <1>1, <1>2, SubSeqProperties
<1> QED
  BY <1>2, <1>3 DEF IndexName

LEMMA NamespaceType ==
  ASSUME NEW c \in Configs, NEW ns \in NamespacesOf(c)
  PROVE  ns \in Seq(Characters)
BY StartupAssumption DEF NamespacesOf, ModelSpec

LEMMA InvTypeOK == StartupInv => StartupTypeOK
<1> SUFFICES ASSUME StartupInv, NEW name \in DOMAIN rels
             PROVE  Len(name) <= IdentMax /\ rels[name].kind \in {"table", "index"}
  BY DEF StartupInv, StartupTypeOK
<1>1. PICK c \in deployed :
        \/ name \in NamespacesOf(c) /\ \E d \in ModelDims(c, name) : rels[name] = TableOf(d)
        \/ \E ns \in NamespacesOf(c) : name = IndexName(ns) /\ rels[name] = IndexOn(ns)
  BY DEF StartupInv, Genuine
<1>2. c \in Configs /\ ValidConfig(c) /\ c.backend = "pgvector"
  BY DEF StartupInv
<1>3. CASE name \in NamespacesOf(c) /\ \E d \in ModelDims(c, name) : rels[name] = TableOf(d)
  <2>1. PICK m \in DOMAIN c.models : name = c.models[m].vdb_namespace
    BY <1>3 DEF NamespacesOf
  <2>2. Len(c.models[m].vdb_namespace) <= IdentMax
    BY <1>2 DEF ValidConfig
  <2> QED
    BY <1>3, <2>1, <2>2 DEF TableOf
<1>4. CASE \E ns \in NamespacesOf(c) : name = IndexName(ns) /\ rels[name] = IndexOn(ns)
  <2>1. PICK ns \in NamespacesOf(c) : name = IndexName(ns) /\ rels[name] = IndexOn(ns)
    BY <1>4
  <2>2. ns \in Seq(Characters)
    BY <1>2, NamespaceType
  <2> QED
    BY <2>1, <2>2, IndexNameFits DEF IndexOn
<1> QED
  BY <1>1, <1>3, <1>4

-----------------------------------------------------------------------------
(* The theorems. *)

LEMMA InvServed == StartupInv => ServedNamespacesAreTables
BY DEF StartupInv, ServedNamespacesAreTables, Done

LEMMA InvDims == StartupInv => DimsFitUnlessReconfigured
<1> SUFFICES ASSUME StartupInv, NEW p \in Routers, Serving(p),
                    NEW m \in DOMAIN cfg[p].models,
                    NEW ns, ns = cfg[p].models[m].vdb_namespace
             PROVE  \/ rels[ns].dim = cfg[p].models[m].dim
                    \/ \E c \in deployed \ {cfg[p]} : rels[ns].dim \in ModelDims(c, ns)
  BY DEF DimsFitUnlessReconfigured
<1>1. IsTable(ns)
  BY DEF StartupInv, NamespacesOf, Done
<1>2. PICK c \in deployed : rels[ns].dim \in ModelDims(c, ns)
  BY <1>1 DEF StartupInv, Genuine, IsTable, IndexOn, TableOf
<1>3. CASE c = cfg[p]
  <2>1. PICK n \in DOMAIN cfg[p].models :
          cfg[p].models[n].vdb_namespace = ns /\ cfg[p].models[n].dim = rels[ns].dim
    BY <1>2, <1>3 DEF ModelDims
  <2>2. ValidConfig(cfg[p]) /\ cfg[p].backend = "pgvector"
    BY DEF StartupInv, Serving
  <2> QED
    BY <2>1, <2>2 DEF ValidConfig
<1> QED
  BY <1>2, <1>3

LEMMA InvIndexed == StartupInv => IndexedUnlessNamesClash
<1> SUFFICES ASSUME StartupInv, NEW p \in Routers, Serving(p), NEW ns \in NamespacesOf(cfg[p])
             PROVE  NameClash(ns) \/ \E name \in DOMAIN rels : rels[name] = IndexOn(ns)
  BY DEF IndexedUnlessNamesClash
<1>1. IndexName(ns) \in DOMAIN rels
  BY DEF StartupInv, Done
<1> QED
  BY <1>1 DEF StartupInv, Genuine, NameClash

LEMMA InvNoOp ==
  StartupInv /\ [StartupNext]_startupVars
    => [rels' # rels => \E p \in Routers : Ensuring(p) /\ cfg[p] \notin served]_startupVars
<1> SUFFICES ASSUME StartupInv, StartupNext, rels' # rels
             PROVE  \E p \in Routers : Ensuring(p) /\ cfg[p] \notin served
  BY DEF startupVars
<1>1. PICK p \in Routers : CreateIndex(p) \/ \E ns \in DOMAIN todo[p] : CreateTable(p, ns)
  BY DEF StartupNext, StartupStep, Start, RuntimePanics, BuildRuntime, BackendMissing,
         SelectBackend, Connect, CreateIndexFails, Provisioned, Stop, Dies
<1>2. Ensuring(p) /\ AtWork(p)
  BY <1>1 DEF CreateIndex, CreateTable, Ensuring, StartupInv
<1>3. CASE cfg[p] \in served
  <2>1. \A ns \in NamespacesOf(cfg[p]) : ns \in DOMAIN rels /\ IndexName(ns) \in DOMAIN rels
    BY <1>3 DEF StartupInv, Done, IsTable
  <2>2. rels' = rels
    BY <1>1, <1>2, <2>1 DEF CreateIndex, CreateTable, AtWork, Relation
  <2> QED
    BY <2>2
<1> QED
  BY <1>2, <1>3

LEMMA StartupInvHolds == StartupSpec => []StartupInv
BY StartupInvInit, StartupInvStep, PTL DEF StartupSpec

\* The names PostgreSQL sees are never too long, for any namespaces and suffix.
THEOREM StartupTypeCorrect == StartupSpec => []StartupTypeOK
BY StartupInvHolds, InvTypeOK, PTL

\* Through deaths, restarts and other routers: who serves has its tables.
THEOREM ServedAreTables == StartupSpec => []ServedNamespacesAreTables
BY StartupInvHolds, InvServed, PTL

\* A dimension that does not fit was deployed by another configuration.
THEOREM DimsFit == StartupSpec => []DimsFitUnlessReconfigured
BY StartupInvHolds, InvDims, PTL

\* A served namespace without an index has its index's name taken.
THEOREM IndexedOrClash == StartupSpec => []IndexedUnlessNamesClash
BY StartupInvHolds, InvIndexed, PTL

\* Provisioning is idempotent, in any order of the models and beside any others.
THEOREM SecondBoot == StartupSpec => SecondBootIsNoOp
BY StartupInvHolds, InvNoOp, PTL DEF StartupSpec, SecondBootIsNoOp

=============================================================================
