-------------------------------- MODULE Config --------------------------------
(***************************************************************************)
(* Loading a configuration (src/src/config.rs): the TOML file overlaid with *)
(* the VR_ environment variables, defaults for what neither gives, then     *)
(* validate, which goes through the models in the order a HashMap happens   *)
(* to iterate and returns at the first fault.                               *)
(***************************************************************************)
EXTENDS ConfigSpec

CONSTANTS
  Launches,    \* what a start may find: a file and an environment
  Unparsable   \* a file that is not TOML, or has a value of a wrong type

\* A layer gives some of the options their values, and some models some of
\* their fields: VR_MODELS__M__DIM is a layer with one field of one model.
Options == {"bearer_token", "url", "backend", "buffers_per_worker", "worker_threads",
            "max_retries", "ef_search", "max_connections", "models"}

Fields == [dim |-> Nat, normalize |-> BOOLEAN, vdb_namespace |-> Seq(Characters)]

IsLayer(layer) ==
  /\ DOMAIN layer \subseteq Options
  /\ "models" \in DOMAIN layer =>
       \A name \in DOMAIN layer["models"] :
         LET spec == layer["models"][name]
         IN DOMAIN spec \subseteq DOMAIN Fields
            /\ \A field \in DOMAIN spec : spec[field] \in Fields[field]

ASSUME LayerAssumption ==
  \A l \in Launches :
    IsLayer(l.env) /\ (l.file # Unparsable => IsLayer(l.file))

VARIABLES
  config,  \* the configuration being loaded
  phase,   \* how far its load is
  left,    \* the models the current loop of validate has still to visit
  dims     \* dim_by_namespace

configVars == <<config, phase, left, dims>>

Empty == [x \in {} |-> x]
Put(f, k, v) == [x \in DOMAIN f \union {k} |-> IF x = k THEN v ELSE f[x]]

-----------------------------------------------------------------------------
(* load and from_figment. *)

Given(layer, option, default) ==
  IF option \in DOMAIN layer THEN layer[option] ELSE default

Overlaid(f, g) == [k \in DOMAIN f \union DOMAIN g |-> Given(g, k, Given(f, k, Unset))]

\* What the environment sets hides what the file sets, option by option, and
\* within the table of models field by field: figment merges tables.
Merged(file, env) ==
  LET ModelsIn(layer) == Given(layer, "models", Empty)
      models == [name \in DOMAIN ModelsIn(file) \union DOMAIN ModelsIn(env) |->
                   Overlaid(Given(ModelsIn(file), name, Empty),
                            Given(ModelsIn(env), name, Empty))]
  IN [o \in DOMAIN Overlaid(file, env) |->
        IF o = "models" THEN models ELSE Overlaid(file, env)[o]]

\* The sections admin and vdb have no default, a pool section that is there at
\* all must say buffers_per_worker, and a model must have all its fields.
Complete(layer) ==
  /\ {"bearer_token", "url"} \subseteq DOMAIN layer
  /\ "worker_threads" \in DOMAIN layer => "buffers_per_worker" \in DOMAIN layer
  /\ LET models == Given(layer, "models", Empty)
     IN \A name \in DOMAIN models : DOMAIN models[name] = DOMAIN Fields

Extractable(file, env) == file # Unparsable /\ Complete(Merged(file, env))

Extracted(layer) ==
  [bearer_token       |-> layer["bearer_token"],
   url                |-> layer["url"],
   backend            |-> Given(layer, "backend", "qdrant"),
   buffers_per_worker |-> Given(layer, "buffers_per_worker", 2),
   worker_threads     |-> Given(layer, "worker_threads", Unset),
   max_retries        |-> Given(layer, "max_retries", 3),
   ef_search          |-> Given(layer, "ef_search", Unset),
   max_connections    |-> Given(layer, "max_connections", Unset),
   models             |-> Given(layer, "models", Empty)]

ConfigInit == config = Unset /\ phase = "unloaded" /\ left = {} /\ dims = Empty

Reject == phase' = "rejected" /\ UNCHANGED <<config, left, dims>>

\* extract fails.
LoadFails(file, env) ==
  /\ phase = "unloaded"
  /\ ~Extractable(file, env)
  /\ Reject

\* validate's checks before its loops.
ScalarFault(c) ==
  c.bearer_token = "" \/ c.url = "" \/ c.buffers_per_worker = 0 \/ c.max_retries = 0

Load(file, env) ==
  /\ phase = "unloaded"
  /\ Extractable(file, env)
  /\ config' = Extracted(Merged(file, env))
  /\ left' = DOMAIN config'.models
  /\ dims' = Empty
  /\ phase' = IF ScalarFault(config') THEN "rejected" ELSE "models"

-----------------------------------------------------------------------------
(* The loops of validate: any model that is left may be the map's next. *)

ModelFault(name, spec) == name = "" \/ spec.dim = 0 \/ spec.vdb_namespace = << >>

CheckModel(name) ==
  /\ phase = "models" /\ name \in left
  /\ IF ModelFault(name, config.models[name])
       THEN Reject
       ELSE left' = left \ {name} /\ UNCHANGED <<config, phase, dims>>

ModelsChecked ==
  /\ phase = "models" /\ left = {}
  /\ IF config.backend = "pgvector"
       THEN phase' = "namespaces" /\ left' = DOMAIN config.models
       ELSE phase' = "accepted" /\ UNCHANGED left
  /\ UNCHANGED <<config, dims>>

IsValidPgNamespace(ns) ==
  /\ ns # << >>
  /\ Len(ns) <= IdentMax
  /\ \A i \in 1..Len(ns) : ns[i] \in SafeCharacters

\* Mutant of NamespaceFault: only a dimension larger than the one seen before.
NamespaceFaultWhenLarger(spec) ==
  \/ ~IsValidPgNamespace(spec.vdb_namespace)
  \/ spec.vdb_namespace \in DOMAIN dims /\ dims[spec.vdb_namespace] < spec.dim

NamespaceFault(spec) ==
  \/ ~IsValidPgNamespace(spec.vdb_namespace)
  \/ spec.vdb_namespace \in DOMAIN dims /\ dims[spec.vdb_namespace] # spec.dim

CheckNamespace(name) ==
  /\ phase = "namespaces" /\ name \in left
  /\ LET spec == config.models[name]
     IN IF NamespaceFault(spec)
          THEN Reject
          ELSE /\ dims' = Put(dims, spec.vdb_namespace, spec.dim)
               /\ left' = left \ {name}
               /\ UNCHANGED <<config, phase>>

NamespacesChecked ==
  /\ phase = "namespaces" /\ left = {}
  /\ phase' = IF config.ef_search = 0 \/ config.max_connections = 0
                THEN "rejected" ELSE "accepted"
  /\ UNCHANGED <<config, left, dims>>

LoadBegins ==
  \E l \in Launches : Load(l.file, l.env) \/ LoadFails(l.file, l.env)

ValidateStep ==
  \/ \E name \in left : CheckModel(name) \/ CheckNamespace(name)
  \/ ModelsChecked \/ NamespacesChecked

ConfigNext == LoadBegins \/ ValidateStep

ConfigSpec == ConfigInit /\ [][ConfigNext]_configVars

-----------------------------------------------------------------------------
(* Properties. *)

\* The verdict depends on the configuration and not on the order in which the
\* map yields its models: validate accepts exactly the configurations that are
\* free of faults, whichever pair of models disagrees and whichever comes first.
VerdictFitsConfig ==
  /\ phase = "accepted" => ValidConfig(config)
  /\ phase = "rejected" => config = Unset \/ ~ValidConfig(config)

=============================================================================
