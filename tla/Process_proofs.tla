---------------------------- MODULE Process_proofs ----------------------------
(***************************************************************************)
(* Proofs about the life of the process, for every configuration and every  *)
(* set of clients: first about Config and Service alone (validate's loops   *)
(* against ValidConfig, for every file, environment and order of the models; *)
(* the shutdown), then that the whole process loads its configuration as     *)
(* Config does and is a Service, so that their theorems hold of it.          *)
(***************************************************************************)
EXTENDS Process, TLAPS

-----------------------------------------------------------------------------
(* Config, from the file to the verdict. *)

Checked  == DOMAIN config.models \ left
SpecOf(name) == config.models[name]

\* What the first loop has established of the models it has left behind.
Sound(name) == ~ModelFault(name, SpecOf(name))

\* And the second: the namespace is a name of PostgreSQL, and dim_by_namespace
\* holds its dimension.
Settled(name) ==
  /\ IsValidPgNamespace(SpecOf(name).vdb_namespace)
  /\ SpecOf(name).vdb_namespace \in DOMAIN dims
  /\ dims[SpecOf(name).vdb_namespace] = SpecOf(name).dim

LoadInv ==
  /\ phase \in {"unloaded", "models", "namespaces", "accepted", "rejected"}
  /\ phase = "unloaded" => config = Unset
  /\ phase \in {"models", "namespaces"} =>
       ~ScalarFault(config) /\ left \subseteq DOMAIN config.models
  /\ phase = "models" => dims = Empty /\ \A name \in Checked : Sound(name)
  /\ phase = "namespaces" =>
       /\ config.backend = "pgvector"
       /\ \A name \in DOMAIN config.models : Sound(name)
       /\ \A name \in Checked : Settled(name)
       /\ \A ns \in DOMAIN dims :
            \E name \in Checked :
              SpecOf(name).vdb_namespace = ns /\ SpecOf(name).dim = dims[ns]
  /\ VerdictFitsConfig

LEMMA LoadInvInit == ConfigInit => LoadInv
BY DEF ConfigInit, LoadInv, VerdictFitsConfig

LEMMA LoadInvStep == LoadInv /\ [ConfigNext]_configVars => LoadInv'
<1> SUFFICES ASSUME LoadInv, [ConfigNext]_configVars PROVE LoadInv'
  OBVIOUS
<1>1. ASSUME NEW l \in Launches, LoadFails(l.file, l.env) PROVE LoadInv'
  BY <1>1 DEF LoadFails, Reject, LoadInv, VerdictFitsConfig
<1>2. ASSUME NEW l \in Launches, Load(l.file, l.env) PROVE LoadInv'
  <2>1. phase' \in {"models", "rejected"} /\ left' = DOMAIN config'.models
    BY <1>2 DEF Load
  <2>2. dims' = Empty
    BY <1>2 DEF Load
  <2>3. phase' = "rejected" <=> ScalarFault(config')
    BY <1>2 DEF Load
  <2>4. ScalarFault(config') => ~ValidConfig(config')
    BY DEF ScalarFault, ValidConfig
  <2>5. Checked' = {}
    BY <2>1 DEF Checked
  <2> QED
    BY <2>1, <2>2, <2>3, <2>4, <2>5 DEF LoadInv, VerdictFitsConfig
<1>3. ASSUME NEW name \in left, CheckModel(name) PROVE LoadInv'
  <2>1. /\ phase = "models" /\ name \in DOMAIN config.models
        /\ config' = config /\ dims' = dims
    BY <1>3 DEF CheckModel, Reject, LoadInv
  <2>2. CASE ModelFault(name, config.models[name])
    <3>1. phase' = "rejected"
      BY <1>3, <2>2 DEF CheckModel, Reject
    <3>2. ~ValidConfig(config)
      BY <2>1, <2>2 DEF ModelFault, ValidConfig
    <3> QED
      BY <2>1, <3>1, <3>2 DEF LoadInv, VerdictFitsConfig
  <2>3. CASE Sound(name)
    <3>1. phase' = "models" /\ left' = left \ {name}
      BY <1>3, <2>1, <2>3 DEF CheckModel, Sound, SpecOf
    <3>2. \A n \in Checked' : Sound(n)
      BY <2>1, <2>3, <3>1 DEF LoadInv, Checked
    <3> QED
      BY <2>1, <3>1, <3>2 DEF LoadInv, VerdictFitsConfig, Sound, SpecOf
  <2> QED
    BY <2>2, <2>3 DEF Sound, SpecOf
<1>4. CASE ModelsChecked
  <2>1. /\ phase = "models" /\ left = {} /\ config' = config /\ dims' = dims
        /\ DOMAIN dims = {}
        /\ \A n \in DOMAIN config.models : Sound(n)
    BY <1>4 DEF ModelsChecked, LoadInv, Checked, Empty
  <2>2. CASE config.backend = "pgvector"
    <3>1. phase' = "namespaces" /\ left' = DOMAIN config.models
      BY <1>4, <2>2 DEF ModelsChecked
    <3> QED
      BY <2>1, <2>2, <3>1
      DEF LoadInv, VerdictFitsConfig, Checked, Sound, SpecOf
  <2>3. CASE config.backend # "pgvector"
    <3>1. phase' = "accepted"
      BY <1>4, <2>3 DEF ModelsChecked
    <3>2. ValidConfig(config)
      BY <2>1, <2>3 DEF LoadInv, ScalarFault, Sound, SpecOf, ModelFault, ValidConfig
    <3> QED
      BY <2>1, <3>1, <3>2 DEF LoadInv, VerdictFitsConfig
  <2> QED
    BY <2>2, <2>3
<1>5. ASSUME NEW name \in left, CheckNamespace(name) PROVE LoadInv'
  <2> DEFINE spec == SpecOf(name)
  <2>1. /\ phase = "namespaces" /\ name \in DOMAIN config.models
        /\ config' = config
    BY <1>5 DEF CheckNamespace, Reject, LoadInv
  <2>2. CASE NamespaceFault(spec)
    <3>1. phase' = "rejected"
      BY <1>5, <2>2 DEF CheckNamespace, Reject, SpecOf
    <3>2. ASSUME ~IsValidPgNamespace(spec.vdb_namespace) PROVE ~ValidConfig(config)
      BY <2>1, <3>2 DEF LoadInv, IsValidPgNamespace, SpecOf, ValidConfig
    <3>3. ASSUME spec.vdb_namespace \in DOMAIN dims, dims[spec.vdb_namespace] # spec.dim
          PROVE  ~ValidConfig(config)
      <4>1. PICK n \in Checked : /\ SpecOf(n).vdb_namespace = spec.vdb_namespace
                                 /\ SpecOf(n).dim = dims[spec.vdb_namespace]
        BY <2>1, <3>3 DEF LoadInv
      <4> QED
        BY <2>1, <3>3, <4>1 DEF LoadInv, Checked, SpecOf, ValidConfig
    <3>4. ~ValidConfig(config)
      BY <2>2, <3>2, <3>3 DEF NamespaceFault
    <3> QED
      BY <2>1, <3>1, <3>4 DEF LoadInv, VerdictFitsConfig
  <2>3. CASE ~NamespaceFault(spec)
    <3>1. /\ phase' = "namespaces" /\ left' = left \ {name}
          /\ dims' = Put(dims, spec.vdb_namespace, spec.dim)
      BY <1>5, <2>1, <2>3 DEF CheckNamespace, SpecOf
    <3>2. \A ns \in DOMAIN dims : dims'[ns] = dims[ns]
      BY <2>3, <3>1 DEF NamespaceFault, Put
    <3>3. /\ DOMAIN dims' = DOMAIN dims \union {spec.vdb_namespace}
          /\ dims'[spec.vdb_namespace] = spec.dim
      BY <3>1 DEF Put
    <3>4. Checked' = Checked \union {name}
      BY <2>1, <3>1 DEF Checked, LoadInv
    <3>5. \A n \in Checked' : Settled(n)'
      <4>1. Settled(name)'
        BY <2>1, <2>3, <3>3 DEF NamespaceFault, Settled, SpecOf
      <4>2. \A n \in Checked : Settled(n)'
        BY <2>1, <3>2, <3>3 DEF LoadInv, Settled, SpecOf
      <4> QED
        BY <3>4, <4>1, <4>2
    <3>6. \A ns \in DOMAIN dims' : \E n \in Checked' :
            SpecOf(n)'.vdb_namespace = ns /\ SpecOf(n)'.dim = dims'[ns]
      <4>1. \A ns \in DOMAIN dims : \E n \in Checked' :
              SpecOf(n)'.vdb_namespace = ns /\ SpecOf(n)'.dim = dims'[ns]
        BY <2>1, <3>2, <3>4 DEF LoadInv, SpecOf
      <4> QED
        BY <2>1, <3>3, <3>4, <4>1 DEF SpecOf
    <3>7. /\ ~ScalarFault(config') /\ left' \subseteq DOMAIN config'.models
          /\ config'.backend = "pgvector"
          /\ \A n \in DOMAIN config'.models : Sound(n)'
      BY <2>1, <3>1 DEF LoadInv, Sound, SpecOf
    <3> QED
      BY <3>1, <3>5, <3>6, <3>7 DEF LoadInv, VerdictFitsConfig
  <2> QED
    BY <2>2, <2>3
<1>6. CASE NamespacesChecked
  <2>1. /\ phase = "namespaces" /\ left = {} /\ config' = config
        /\ Checked = DOMAIN config.models
    BY <1>6 DEF NamespacesChecked, Checked
  <2>2. CASE config.ef_search = 0 \/ config.max_connections = 0
    <3>1. phase' = "rejected" /\ ~ValidConfig(config)
      BY <1>6, <2>1, <2>2 DEF NamespacesChecked, LoadInv, ValidConfig
    <3> QED
      BY <2>1, <3>1 DEF LoadInv, VerdictFitsConfig
  <2>3. CASE config.ef_search # 0 /\ config.max_connections # 0
    <3>1. phase' = "accepted"
      BY <1>6, <2>3 DEF NamespacesChecked
    <3>2. \A m, n \in DOMAIN config.models :
            SpecOf(m).vdb_namespace = SpecOf(n).vdb_namespace => SpecOf(m).dim = SpecOf(n).dim
      BY <2>1 DEF LoadInv, Settled
    <3>3. ValidConfig(config)
      BY <2>1, <2>3, <3>2
      DEF LoadInv, ScalarFault, Sound, ModelFault, Settled, IsValidPgNamespace, SpecOf, ValidConfig
    <3> QED
      BY <2>1, <3>1, <3>3 DEF LoadInv, VerdictFitsConfig
  <2> QED
    BY <2>2, <2>3
<1>7. CASE UNCHANGED configVars
  BY <1>7 DEF configVars, LoadInv, VerdictFitsConfig, Checked, Sound, Settled, SpecOf
<1> QED
  BY <1>1, <1>2, <1>3, <1>4, <1>5, <1>6, <1>7 DEF ConfigNext, LoadBegins, ValidateStep

\* Whatever the files, the environment, the models and the order in which the
\* map yields them: validate accepts the configurations without fault.
THEOREM VerdictIsRight == ConfigSpec => []VerdictFitsConfig
<1>1. LoadInv => VerdictFitsConfig
  BY DEF LoadInv
<1> QED
  BY <1>1, LoadInvInit, LoadInvStep, PTL DEF ConfigSpec

-----------------------------------------------------------------------------
(* Service, from the start of its tasks to the exit. *)

\* A server that is over, or has not begun, has no open connection; what drain
\* has joined is over; nobody is cut while the process lives.
ShutdownInv ==
  /\ ServiceStateOK
  /\ exit = "none" <=> main # "exited"
  /\ \A c \in Clients : client[c] \in {"connected", "waiting"} /\ Alive =>
       task[ServerOf(c)] \in {"serving", "stopping"}
  /\ \A c \in Clients : client[c] = "cut" => ~Alive
  /\ \A i \in 1..3 : i <= joined => task[JoinOrder[i]] = "ended"
  /\ CleanExitCutsNobody

LEMMA Orders ==
  /\ Len(JoinOrder) = 3 /\ Len(SpawnOrder) = 3
  /\ JoinOrder[1] = "grpc" /\ JoinOrder[2] = "http" /\ JoinOrder[3] = "gauge"
  /\ \A i \in 1..3 : JoinOrder[i] \in Tasks
BY DEF JoinOrder, SpawnOrder, Tasks, Servers

LEMMA ServerType == \A c \in Clients : ServerOf(c) \in Servers /\ ServerOf(c) \in Tasks
BY DEF ServerOf, Servers, Tasks

LEMMA ShutdownInit == ServiceInit => ShutdownInv
<1> SUFFICES ASSUME ServiceInit PROVE ShutdownInv
  OBVIOUS
<1> USE Orders DEF ServiceInit
<1>1. ServiceStateOK
  <2>1. joined \in 0..Len(JoinOrder)
    OBVIOUS
  <2>2. receivers \in SUBSET Tasks /\ mail \in SUBSET Tasks
    OBVIOUS
  <2>3. task \in [Tasks -> {"unborn", "spawned", "serving", "stopping", "ended", "dropped"}]
    OBVIOUS
  <2>4. client \in [Clients -> {"away", "connected", "waiting", "cut"}]
    OBVIOUS
  <2> QED
    BY <2>1, <2>2, <2>3, <2>4 DEF ServiceStateOK
<1>2. \A c \in Clients : client[c] = "away"
  OBVIOUS
<1>3. \A i \in 1..3 : ~(i <= joined)
  OBVIOUS
<1> QED
  BY <1>1, <1>2, <1>3 DEF ShutdownInv, CleanExitCutsNobody, Alive

LEMMA ShutdownStep == ShutdownInv /\ [ServiceNext]_serviceVars => ShutdownInv'
<1> SUFFICES ASSUME ShutdownInv, [ServiceNext]_serviceVars PROVE ShutdownInv'
  OBVIOUS
<1> USE Orders, ServerType DEF ShutdownInv, ServiceStateOK, Alive
<1>1. ASSUME NEW how \in {"error", "killed"}, Exit(how), Alive PROVE ShutdownInv'
  BY <1>1 DEF Exit, CleanExitCutsNobody
<1>2. CASE StartFails \/ InstallFails \/ DrainTimesOut
  BY <1>1, <1>2 DEF StartFails, InstallFails, DrainTimesOut
<1>3. CASE Signal
  <2>1. CASE main \in {"starting", "installing"}
    BY <1>1, <1>3, <2>1 DEF Signal
  <2>2. CASE main \notin {"starting", "installing"}
    BY <1>3, <2>2 DEF Signal, CleanExitCutsNobody
  <2> QED
    BY <2>1, <2>2
<1>4. ASSUME NEW k \in Tasks, Spawn(k) PROVE ShutdownInv'
  <2>1. task[k] = "unborn" /\ main = "starting" /\ exit = "none"
    BY <1>4 DEF Spawn
  <2> QED
    BY <1>4, <2>1 DEF Spawn, CleanExitCutsNobody
<1>5. CASE InstallHandlers \/ SendShutdown
  BY <1>5 DEF InstallHandlers, SendShutdown, CleanExitCutsNobody
<1>6. CASE Join
  BY <1>6 DEF Join, CleanExitCutsNobody
<1>7. CASE DrainEnds
  <2>1. \A k \in Tasks : task[k] = "ended"
    BY <1>7 DEF DrainEnds, Tasks, Servers
  <2>2. \A c \in Clients : client[c] = "away"
    BY <1>7, <2>1 DEF DrainEnds
  <2> QED
    BY <1>7, <2>1, <2>2 DEF DrainEnds, Exit, CleanExitCutsNobody
<1>8. ASSUME NEW k \in Tasks, TaskStep(k) \/ BindFails(k) PROVE ShutdownInv'
  BY <1>8 DEF TaskStep, Begin, BindFails, HearShutdown, ServerEnds, SetTask, Open,
              CleanExitCutsNobody
<1>9. ASSUME NEW c \in Clients,
             CloseIdle(c) \/ Connect(c) \/ Request(c) \/ Answer(c) \/ Leave(c)
      PROVE  ShutdownInv'
  BY <1>9 DEF CloseIdle, Connect, Request, Answer, Leave, SetClient, Open,
              CleanExitCutsNobody
<1>10. CASE Over \/ UNCHANGED serviceVars
  BY <1>10 DEF Over, serviceVars, CleanExitCutsNobody
<1> QED
  BY <1>1, <1>2, <1>3, <1>4, <1>5, <1>6, <1>7, <1>8, <1>9, <1>10 DEF ServiceNext, MainStep

\* A clean exit leaves no client without its answer and no task running.
THEOREM CleanExitIsClean == ServiceSpec => []CleanExitCutsNobody
<1>1. ShutdownInv => CleanExitCutsNobody
  BY DEF ShutdownInv
<1> QED
  BY <1>1, ShutdownInit, ShutdownStep, PTL DEF ServiceSpec

\* The state of the process keeps its type.
THEOREM ServiceTypeCorrect == ServiceSpec => []ServiceStateOK
<1>1. ShutdownInv => ServiceStateOK
  BY DEF ShutdownInv
<1> QED
  BY <1>1, ShutdownInit, ShutdownStep, PTL DEF ServiceSpec

-----------------------------------------------------------------------------
(* The drain: the broadcast reaches every task, and only a client that waits  *)
(* can hold it up.                                                            *)

\* Everyone subscribes before it is spawned, and the broadcast is only sent when
\* all are: it is in the mail of each task, the ones not yet polled included.
MailInv ==
  /\ Alive => \A k \in Tasks : /\ task[k] # "dropped"
                               /\ task[k] # "unborn" => k \in receivers
  /\ main \in {"installing", "waiting", "draining"} => \A k \in Tasks : task[k] # "unborn"
  /\ main = "draining" => \A k \in Tasks : k \in mail

LEMMA MailStep ==
  ShutdownInv /\ MailInv /\ [ServiceNext]_serviceVars => MailInv'
<1> SUFFICES ASSUME ShutdownInv, MailInv, [ServiceNext]_serviceVars PROVE MailInv'
  OBVIOUS
<1> USE DEF MailInv, Alive
<1>1. /\ exit = "none" <=> main # "exited"
      /\ task \in [Tasks -> {"unborn", "spawned", "serving", "stopping", "ended", "dropped"}]
  BY DEF ShutdownInv, ServiceStateOK
<1>2. ASSUME NEW how \in {"ok", "error", "killed"}, Exit(how) PROVE MailInv'
  BY <1>2 DEF Exit
<1>3. CASE StartFails \/ InstallFails \/ DrainTimesOut \/ DrainEnds
  BY <1>2, <1>3 DEF StartFails, InstallFails, DrainTimesOut, DrainEnds
<1>4. CASE Signal
  <2>1. CASE main \in {"starting", "installing"}
    BY <1>2, <1>4, <2>1 DEF Signal
  <2>2. CASE main \notin {"starting", "installing"}
    BY <1>4, <2>2 DEF Signal
  <2> QED
    BY <2>1, <2>2
<1>5. ASSUME NEW k \in Tasks, Spawn(k) PROVE MailInv'
  <2>1. /\ main = "starting" /\ main' \in {"starting", "installing"} /\ exit' = exit
        /\ receivers' = receivers \union {k} /\ task' = [task EXCEPT ![k] = "spawned"]
        /\ main' = "installing" => \A o \in Tasks \ {k} : task[o] # "unborn"
    BY <1>5 DEF Spawn
  <2>2. \A o \in Tasks : task'[o] = IF o = k THEN "spawned" ELSE task[o]
    BY <1>1, <2>1
  <2> QED
    BY <1>1, <2>1, <2>2
<1>6. CASE InstallHandlers
  BY <1>6 DEF InstallHandlers
<1>7. CASE SendShutdown
  BY <1>1, <1>7 DEF SendShutdown
<1>8. CASE Join
  BY <1>8 DEF Join
<1>9. ASSUME NEW k \in Tasks, TaskStep(k) \/ BindFails(k) PROVE MailInv'
  <2>1. PICK s \in {"serving", "stopping", "ended"} : SetTask(k, s)
    BY <1>9 DEF TaskStep, Begin, BindFails, HearShutdown, ServerEnds
  <2>2. task[k] # "unborn"
    BY <1>9 DEF TaskStep, Begin, BindFails, HearShutdown, ServerEnds
  <2>3. \A o \in Tasks : task'[o] = IF o = k THEN s ELSE task[o]
    BY <1>1, <2>1 DEF SetTask
  <2> QED
    BY <2>1, <2>2, <2>3 DEF SetTask
<1>10. ASSUME NEW c \in Clients,
              CloseIdle(c) \/ Connect(c) \/ Request(c) \/ Answer(c) \/ Leave(c)
       PROVE  MailInv'
  BY <1>10 DEF CloseIdle, Connect, Request, Answer, Leave, SetClient
<1>11. CASE Over \/ UNCHANGED serviceVars
  BY <1>11 DEF Over, serviceVars
<1> QED
  BY <1>3, <1>4, <1>5, <1>6, <1>7, <1>8, <1>9, <1>10, <1>11 DEF ServiceNext, MainStep

\* A step of the runtime that the drain waits for: main's, a task's, or the end
\* of a connection on which nothing is on its way.
DrainStepDue ==
  \/ joined = Len(JoinOrder)
  \/ joined < Len(JoinOrder) /\ task[JoinOrder[joined + 1]] = "ended"
  \/ \E k \in Tasks : \/ task[k] = "spawned"
                      \/ task[k] = "serving" /\ k \in mail
                      \/ task[k] = "stopping" /\ Open(k) = {}
  \/ \E c \in Clients : task[ServerOf(c)] = "stopping" /\ client[c] = "connected"

DrainWaitsForClientsOnly ==
  main = "draining" => DrainStepDue \/ \E c \in Clients : client[c] = "waiting"

LEMMA DrainDue == ShutdownInv /\ MailInv => DrainWaitsForClientsOnly
<1> SUFFICES ASSUME ShutdownInv, MailInv, main = "draining",
                    \A c \in Clients : client[c] # "waiting"
             PROVE  DrainStepDue
  BY DEF DrainWaitsForClientsOnly
<1> DEFINE k == JoinOrder[joined + 1]
<1>0. CASE joined = Len(JoinOrder)
  BY <1>0 DEF DrainStepDue
<1>1. ASSUME joined # Len(JoinOrder) PROVE k \in Tasks /\ joined < Len(JoinOrder)
  <2>1. joined \in 0..3
    BY Orders DEF ShutdownInv, ServiceStateOK
  <2>2. joined + 1 \in 1..3 /\ joined < Len(JoinOrder)
    BY <1>1, <2>1, Orders
  <2> QED
    BY <2>2, Orders
<1>2. ASSUME k \in Tasks
      PROVE  k \in mail /\ task[k] \in {"spawned", "serving", "stopping", "ended"}
  <2>1. /\ task \in [Tasks -> {"unborn", "spawned", "serving", "stopping", "ended", "dropped"}]
        /\ Alive
    BY DEF ShutdownInv, ServiceStateOK, Alive
  <2> QED
    BY <1>2, <2>1 DEF MailInv
<1>3. ASSUME task[k] = "stopping", Open(k) # {} PROVE DrainStepDue
  <2>1. PICK c \in Clients : ServerOf(c) = k /\ client[c] = "connected"
    BY <1>3 DEF Open
  <2> QED
    BY <1>3, <2>1 DEF DrainStepDue
<1> QED
  BY <1>0, <1>1, <1>2, <1>3 DEF DrainStepDue

\* A drain that its timeout cuts short had a client waiting for its answer, or a
\* task that was still to be polled: no task misses the broadcast, whenever it
\* was spawned, bound or first polled.
THEOREM DrainIsNotStuck == ServiceSpec => []DrainWaitsForClientsOnly
<1>1. ServiceInit => MailInv
  BY DEF ServiceInit, MailInv
<1>2. ServiceSpec => [](ShutdownInv /\ MailInv)
  BY <1>1, ShutdownInit, ShutdownStep, MailStep, PTL DEF ServiceSpec
<1> QED
  BY <1>2, DrainDue, PTL

-----------------------------------------------------------------------------
(* The configuration and the runtime before it. *)

\* Nothing of the service happens before the runtime is built.
NotYet == ~RuntimeBuilt => main \in {"starting", "exited"} /\ receivers = {}

LEMMA NotYetInit == ProcessInit => NotYet
BY DEF ProcessInit, ServiceInit, NotYet

\* Without a runtime only the exit of a signal or of a rejected configuration
\* touches the service, and a runtime, once built, stays.
LEMMA NotYetStep == NotYet /\ [ProcessNext]_processVars => NotYet'
<1> SUFFICES ASSUME NotYet, [ProcessNext]_processVars PROVE NotYet'
  OBVIOUS
<1>1. CASE LoadStep
  <2>1. main = "starting" /\ ConfigNext /\ main' = main /\ receivers' = receivers
    BY <1>1 DEF LoadStep, serviceVars
  <2>2. phase # "accepted"
    BY <2>1 DEF ConfigNext, LoadBegins, ValidateStep, Load, LoadFails, CheckModel,
                ModelsChecked, CheckNamespace, NamespacesChecked
  <2>3. receivers = {}
    BY <2>2 DEF NotYet, RuntimeBuilt
  <2> QED
    BY <2>1, <2>3 DEF NotYet
<1>2. CASE NeverRuns
  BY <1>2 DEF NeverRuns, Exit, NotYet, RuntimeBuilt, configVars
<1>3. CASE KilledEarly
  BY <1>3 DEF KilledEarly, Signal, Exit, Alive, NotYet, RuntimeBuilt, configVars
<1>4. CASE Running(ServiceNext)
  BY <1>4 DEF Running, NotYet, RuntimeBuilt, configVars
<1>5. CASE (Over /\ UNCHANGED configVars) \/ UNCHANGED processVars
  BY <1>5 DEF Over, serviceVars, processVars, NotYet, RuntimeBuilt, configVars
<1> QED
  BY <1>1, <1>2, <1>3, <1>4, <1>5 DEF ProcessNext

\* Every step of the process is one of the service's, or none of its.
LEMMA StepOfService ==
  NotYet /\ [ProcessNext]_processVars => [ServiceNext]_serviceVars
<1> SUFFICES ASSUME NotYet, [ProcessNext]_processVars PROVE [ServiceNext]_serviceVars
  OBVIOUS
<1>1. CASE LoadStep
  BY <1>1 DEF LoadStep
<1>2. CASE NeverRuns
  <2>1. StartFails
    BY <1>2 DEF NeverRuns, StartFails, NotYet, RuntimeBuilt
  <2> QED
    BY <2>1 DEF ServiceNext
<1>3. CASE KilledEarly
  BY <1>3 DEF KilledEarly, ServiceNext
<1>4. CASE Running(ServiceNext)
  BY <1>4 DEF Running
<1>5. CASE Over /\ UNCHANGED configVars
  BY <1>5 DEF ServiceNext
<1>6. CASE UNCHANGED processVars
  BY <1>6 DEF processVars
<1> QED
  BY <1>1, <1>2, <1>3, <1>4, <1>5, <1>6 DEF ProcessNext

\* And one of Config's, or none of its.
LEMMA StepOfConfig == [ProcessNext]_processVars => [ConfigNext]_configVars
BY DEF ProcessNext, processVars, LoadStep, NeverRuns, KilledEarly, Running

\* The process, with its configuration and its runtime, is a Service: what is
\* proved of Service holds of every start, successful or not.
THEOREM ProcessIsAService == ProcessSpec => ServiceSpec
<1>1. ProcessInit => ServiceInit
  BY DEF ProcessInit
<1> QED
  BY <1>1, NotYetInit, NotYetStep, StepOfService, PTL DEF ProcessSpec, ServiceSpec

\* Loading, validating and everything after: the verdict that decides whether the
\* process runs is the right one, and stays so.
THEOREM ProcessLoadsConfig == ProcessSpec => []VerdictFitsConfig
<1>1. ProcessInit => ConfigInit
  BY DEF ProcessInit
<1>2. LoadInv => VerdictFitsConfig
  BY DEF LoadInv
<1> QED
  BY <1>1, <1>2, LoadInvInit, LoadInvStep, StepOfConfig, PTL DEF ProcessSpec

\* A process that ends with status 0 has cut nobody off and left no task running.
THEOREM ProcessEndsCleanly == ProcessSpec => []CleanExitCutsNobody
BY ProcessIsAService, CleanExitIsClean, PTL

\* And its drain is held up by the clients it answers, by nothing else.
THEOREM ProcessDrains == ProcessSpec => []DrainWaitsForClientsOnly
BY ProcessIsAService, DrainIsNotStuck, PTL

\* It serves only under a configuration free of faults: no client ever reaches a
\* router whose models disagree about a namespace.
THEOREM ServesOnlyValid == ProcessSpec => [](main \notin {"starting", "exited"} => ValidConfig(config))
<1>1. NotYet /\ VerdictFitsConfig /\ main \notin {"starting", "exited"} => ValidConfig(config)
  BY DEF NotYet, RuntimeBuilt, VerdictFitsConfig
<1>2. ProcessSpec => []NotYet
  BY NotYetInit, NotYetStep, PTL DEF ProcessSpec
<1> QED
  BY <1>1, <1>2, ProcessLoadsConfig, PTL

=============================================================================
