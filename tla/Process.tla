-------------------------------- MODULE Process --------------------------------
(***************************************************************************)
(* The whole life of the process (main in src/src/main.rs): load and       *)
(* validate the configuration, see Config, build the runtime, and then what *)
(* Service models.                                                          *)
(***************************************************************************)
EXTENDS Service, Config

processVars == <<serviceVars, configVars>>

ProcessInit == ServiceInit /\ ConfigInit

RuntimeBuilt == phase = "accepted" /\ config.worker_threads # 0

LoadStep == main = "starting" /\ ConfigNext /\ UNCHANGED serviceVars

\* A configuration that is rejected is main's error, one without a worker
\* thread a panic of tokio's builder, which validate did not prevent.
NeverRuns ==
  /\ main = "starting"
  /\ phase = "rejected" \/ (phase = "accepted" /\ ~RuntimeBuilt)
  /\ Exit("error")
  /\ UNCHANGED configVars

\* Nothing catches a signal yet.
KilledEarly == ~RuntimeBuilt /\ Signal /\ UNCHANGED configVars

\* async_main runs on the runtime.
Running(step) == RuntimeBuilt /\ step /\ UNCHANGED configVars

ProcessNext ==
  \/ LoadStep \/ NeverRuns \/ KilledEarly
  \/ Running(ServiceNext)
  \/ Over /\ UNCHANGED configVars

\* The runtime, once built, schedules main and the tasks; clients owe nothing,
\* and the drain's timeout may stay out.
ProcessSpec ==
  /\ ProcessInit /\ [][ProcessNext]_processVars
  /\ WF_processVars(Running(MainStep))
  /\ \A k \in Tasks : WF_processVars(Running(TaskStep(k)))
  /\ \A c \in Clients : WF_processVars(Running(CloseIdle(c)))

=============================================================================
