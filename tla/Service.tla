-------------------------------- MODULE Service --------------------------------
(***************************************************************************)
(* The life of the process (src/src/service.rs, src/src/main.rs): main     *)
(* connects to the database, spawns the gauge, gRPC and HTTP tasks, each   *)
(* with a receiver of the shutdown broadcast, waits for a signal, sends    *)
(* the broadcast, and joins the tasks under a timeout.  A request is what  *)
(* a client waits for on its connection; Router models what happens to it. *)
(*                                                                         *)
(* The servers are tonic's and axum's (external): on shutdown they take no *)
(* new connection, close the idle ones, and end when every connection is   *)
(* closed; a request that was on its way is still answered.                *)
(***************************************************************************)
EXTENDS Naturals, Sequences

CONSTANTS
  GrpcClients,   \* the connections clients open to the gRPC port
  HttpClients    \* and to the HTTP port

Clients == GrpcClients \union HttpClients
Servers == {"grpc", "http"}
Tasks   == Servers \union {"gauge"}

ServerOf(c) == IF c \in GrpcClients THEN "grpc" ELSE "http"

ASSUME ServiceAssumption == GrpcClients \intersect HttpClients = {}

VARIABLES
  main,      \* where async_main is
  exit,      \* how the process ended
  signalled, \* a SIGTERM or SIGINT its handlers have caught
  task,      \* task[k]: the spawned task
  receivers, \* the tasks that hold a receiver of the broadcast
  mail,      \* the tasks whose receiver has the shutdown message
  joined,    \* how many tasks drain has joined
  client     \* client[c]: the client's connection

serviceVars == <<main, exit, signalled, task, receivers, mail, joined, client>>

SpawnOrder == <<"gauge", "grpc", "http">>
JoinOrder  == <<"grpc", "http", "gauge">>

ServiceInit ==
  /\ main = "starting"
  /\ exit = "none"
  /\ signalled = FALSE
  /\ task = [k \in Tasks |-> "unborn"]
  /\ receivers = {}
  /\ mail = {}
  /\ joined = 0
  /\ client = [c \in Clients |-> "away"]

Alive == exit = "none"

\* The end of the process: the runtime drops the tasks where they are, and the
\* clients that wait lose their answer.
Exit(how) ==
  /\ exit' = how
  /\ main' = "exited"
  /\ task' = [k \in Tasks |-> IF task[k] = "ended" THEN "ended" ELSE "dropped"]
  /\ client' = [c \in Clients |-> IF client[c] = "waiting" THEN "cut" ELSE client[c]]
  /\ UNCHANGED <<signalled, receivers, mail, joined>>

-----------------------------------------------------------------------------
(* async_main. *)

\* The recorder or the database client cannot be had: nothing was spawned.
StartFails ==
  /\ main = "starting" /\ receivers = {}
  /\ Exit("error")

\* Mutant of Spawn: the task is spawned without a receiver of the broadcast.
SpawnUnsubscribed(k) ==
  /\ main = "starting"
  /\ \E i \in 1..Len(SpawnOrder) :
       /\ k = SpawnOrder[i] /\ task[k] = "unborn"
       /\ \A j \in 1..(i - 1) : task[SpawnOrder[j]] # "unborn"
  /\ task' = [task EXCEPT ![k] = "spawned"]
  /\ main' = IF \A o \in Tasks \ {k} : task[o] # "unborn" THEN "installing" ELSE main
  /\ UNCHANGED <<exit, signalled, receivers, mail, joined, client>>

\* start_service_with_vdb subscribes before it spawns, one task after another.
Spawn(k) ==
  /\ main = "starting"
  /\ \E i \in 1..Len(SpawnOrder) :
       /\ k = SpawnOrder[i] /\ task[k] = "unborn"
       /\ \A j \in 1..(i - 1) : task[SpawnOrder[j]] # "unborn"
  /\ receivers' = receivers \union {k}
  /\ task' = [task EXCEPT ![k] = "spawned"]
  /\ main' = IF \A o \in Tasks \ {k} : task[o] # "unborn" THEN "installing" ELSE main
  /\ UNCHANGED <<exit, signalled, mail, joined, client>>

\* The servers run already when the signal handlers are installed.
InstallHandlers ==
  /\ main = "installing"
  /\ main' = "waiting"
  /\ UNCHANGED <<exit, signalled, task, receivers, mail, joined, client>>

\* expect panics: the tasks that were spawned go down with main.
InstallFails ==
  /\ main = "installing"
  /\ Exit("error")

SendShutdown ==
  /\ main = "waiting" /\ signalled
  /\ mail' = receivers
  /\ main' = "draining"
  /\ UNCHANGED <<exit, signalled, task, receivers, joined, client>>

\* Mutant of Join: only the gRPC task is waited for.
JoinGrpcOnly ==
  /\ main = "draining" /\ joined < Len(JoinOrder)
  /\ task["grpc"] = "ended"
  /\ joined' = Len(JoinOrder)
  /\ UNCHANGED <<main, exit, signalled, task, receivers, mail, client>>

\* Mutant of Join: a handle may be awaited again.
JoinPastTheEnd ==
  /\ main = "draining"
  /\ task["gauge"] = "ended"
  /\ joined' = joined + 1
  /\ joined <= Len(JoinOrder)
  /\ UNCHANGED <<main, exit, signalled, task, receivers, mail, client>>

\* drain awaits the handles one by one and ignores what the tasks returned.
Join ==
  /\ main = "draining" /\ joined < Len(JoinOrder)
  /\ task[JoinOrder[joined + 1]] = "ended"
  /\ joined' = joined + 1
  /\ UNCHANGED <<main, exit, signalled, task, receivers, mail, client>>

DrainEnds ==
  /\ main = "draining" /\ joined = Len(JoinOrder)
  /\ Exit("ok")

\* Mutant of DrainTimesOut: the timeout covers the gRPC task alone.
DrainTimesOutOnGrpc ==
  /\ main = "draining" /\ joined = 0
  /\ task["grpc"] # "ended"
  /\ Exit("error")

\* The timeout looks at its future first: it fires only on an unfinished task.
DrainTimesOut ==
  /\ main = "draining" /\ joined < Len(JoinOrder)
  /\ task[JoinOrder[joined + 1]] # "ended"
  /\ Exit("error")

\* Without a handler the signal kills; caught a second time it changes nothing.
Signal ==
  /\ Alive /\ ~signalled
  /\ IF main \in {"starting", "installing"}
       THEN Exit("killed")
       ELSE /\ signalled' = TRUE
            /\ UNCHANGED <<main, exit, task, receivers, mail, joined, client>>

-----------------------------------------------------------------------------
(* The three tasks. *)

SetTask(k, s) ==
  /\ Alive
  /\ task' = [task EXCEPT ![k] = s]
  /\ UNCHANGED <<main, exit, signalled, receivers, mail, joined>>

Open(k) == {c \in Clients : ServerOf(c) = k /\ client[c] \in {"connected", "waiting"}}

Begin(k) == task[k] = "spawned" /\ SetTask(k, "serving") /\ UNCHANGED client

\* The address is taken: the task is over, and nobody looks until drain.
BindFails(k) ==
  k \in Servers /\ task[k] = "spawned" /\ SetTask(k, "ended") /\ UNCHANGED client

\* The gauge loop breaks; a server starts its graceful shutdown.
HearShutdown(k) ==
  /\ task[k] = "serving" /\ k \in mail
  /\ SetTask(k, IF k \in Servers THEN "stopping" ELSE "ended")
  /\ UNCHANGED client

CloseIdle(c) ==
  /\ Alive /\ task[ServerOf(c)] = "stopping" /\ client[c] = "connected"
  /\ client' = [client EXCEPT ![c] = "away"]
  /\ UNCHANGED <<main, exit, signalled, task, receivers, mail, joined>>

ServerEnds(k) ==
  task[k] = "stopping" /\ Open(k) = {} /\ SetTask(k, "ended") /\ UNCHANGED client

-----------------------------------------------------------------------------
(* Clients. *)

SetClient(c, s) ==
  /\ Alive
  /\ client' = [client EXCEPT ![c] = s]
  /\ UNCHANGED <<main, exit, signalled, task, receivers, mail, joined>>

Connect(c) == client[c] = "away" /\ task[ServerOf(c)] = "serving" /\ SetClient(c, "connected")
Request(c) == client[c] = "connected" /\ SetClient(c, "waiting")
Answer(c)  == client[c] = "waiting" /\ SetClient(c, "connected")
Leave(c)   == c \in Open(ServerOf(c)) /\ SetClient(c, "away")

Over == ~Alive /\ UNCHANGED serviceVars

MainStep ==
  (\E k \in Tasks : Spawn(k)) \/ InstallHandlers \/ SendShutdown \/ Join \/ DrainEnds

TaskStep(k) == Begin(k) \/ HearShutdown(k) \/ ServerEnds(k)

ServiceNext ==
  \/ MainStep \/ StartFails \/ InstallFails \/ DrainTimesOut \/ Signal
  \/ \E k \in Tasks : TaskStep(k) \/ BindFails(k)
  \/ \E c \in Clients : CloseIdle(c) \/ Connect(c) \/ Request(c) \/ Answer(c) \/ Leave(c)
  \/ Over

ServiceSpec == ServiceInit /\ [][ServiceNext]_serviceVars

-----------------------------------------------------------------------------
(* Properties. *)

ServiceStateOK ==
  /\ main \in {"starting", "installing", "waiting", "draining", "exited"}
  /\ exit \in {"none", "ok", "error", "killed"}
  /\ signalled \in BOOLEAN
  /\ task \in [Tasks -> {"unborn", "spawned", "serving", "stopping", "ended", "dropped"}]
  /\ receivers \in SUBSET Tasks
  /\ mail \in SUBSET Tasks
  /\ joined \in 0..Len(JoinOrder)
  /\ client \in [Clients -> {"away", "connected", "waiting", "cut"}]

\* A clean exit has answered everyone: no request is cut by it, on either port,
\* and no task was still running (tests/integration.rs, graceful shutdown).
CleanExitCutsNobody ==
  exit = "ok" => /\ \A c \in Clients : client[c] \notin {"cut", "waiting", "connected"}
                 /\ \A k \in Tasks : task[k] = "ended"

\* The shutdown reaches every task, however late it is first polled: the drain
\* ends without its timeout unless a client is still waited for.
DrainNeedsNoTimeout ==
  main = "draining" ~> exit # "none" \/ \E c \in Clients : client[c] = "waiting"

\* Once caught, a signal ends the process, whatever the clients do: drain's
\* timeout covers all three tasks.
SignalEndsTheProcess ==
  WF_serviceVars(DrainTimesOut) => (signalled ~> exit # "none")

\* GETTING_STARTED.md:289-291: the binary handles SIGTERM and drains in-flight
\* requests.  It serves before it has installed the handler.
SigtermCutsNobody == exit = "killed" => \A c \in Clients : client[c] # "cut"

=============================================================================
