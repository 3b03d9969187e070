------------------------------- MODULE Registry -------------------------------
(***************************************************************************)
(* The model registry (src/src/registry.rs): an ArcSwap over an immutable  *)
(* map.  upsert and remove go through rcu: load the current map, build a   *)
(* changed copy outside of any lock, swap it in if the stored map is still *)
(* the one loaded, and start over from the stored map otherwise.  Readers  *)
(* load one Arc and are not modelled: they change nothing.                 *)
(*                                                                         *)
(* The swap compares addresses.  The loaded Arc is kept alive until then,  *)
(* so its address cannot be given to another map: "same address" is "no    *)
(* swap since the load", which latest[t] records.                          *)
(***************************************************************************)
CONSTANTS Threads, Ids, Specs, NoModel, NoUpdate, NoAnswer

ASSUME RegistryAssumption ==
  /\ NoModel \notin Specs
  /\ NoUpdate \notin [id : Ids, spec : Specs \union {NoModel}]
  /\ NoAnswer \notin BOOLEAN

VARIABLES
  models,   \* the map behind the stored Arc: id -> spec, or NoModel
  pc,       \* pc[t]: where t is inside rcu
  update,   \* update[t]: the update t is making
  cur,      \* cur[t]: the map t has loaded
  latest,   \* latest[t]: the stored Arc is still the one t has loaded
  new,      \* new[t]: the copy t has built
  existed,  \* existed[t]: remove's AtomicBool, written by each try
  answer    \* answer[t]: what t's last update returned

registryVars == <<models, pc, update, cur, latest, new, existed, answer>>

Updates == [id : Ids, spec : Specs \union {NoModel}]
Maps    == [Ids -> Specs \union {NoModel}]

Removes(u)    == u.spec = NoModel

\* Mutant of Changed: the map made into a copy of its new entry.
ChangedInPlaceOfAll(u, m) == [i \in {u.id} |-> u.spec]

Changed(u, m) == [m EXCEPT ![u.id] = u.spec]

RegistryInit ==
  /\ models \in Maps
  /\ pc = [t \in Threads |-> "idle"]
  /\ update = [t \in Threads |-> NoUpdate]
  /\ cur = [t \in Threads |-> models]
  /\ latest = [t \in Threads |-> FALSE]
  /\ new = [t \in Threads |-> models]
  /\ existed = [t \in Threads |-> FALSE]
  /\ answer = [t \in Threads |-> NoAnswer]

\* What both a call and a failed swap do: hold the stored map.
Hold(t) ==
  /\ pc' = [pc EXCEPT ![t] = "loaded"]
  /\ cur' = [cur EXCEPT ![t] = models]
  /\ latest' = [latest EXCEPT ![t] = TRUE]

Call(t, u) ==
  /\ pc[t] = "idle"
  /\ update' = [update EXCEPT ![t] = u]
  /\ existed' = [existed EXCEPT ![t] = FALSE]
  /\ Hold(t)
  /\ UNCHANGED <<models, new, answer>>

\* Mutant of Build: the flag is only ever raised.
BuildRaisesExisted(t) ==
  /\ pc[t] = "loaded"
  /\ new' = [new EXCEPT ![t] = Changed(update[t], cur[t])]
  /\ existed' = IF cur[t][update[t].id] # NoModel THEN [existed EXCEPT ![t] = TRUE] ELSE existed
  /\ pc' = [pc EXCEPT ![t] = "built"]
  /\ UNCHANGED <<models, update, cur, latest, answer>>

\* The closure given to rcu, run once a try.
Build(t) ==
  /\ pc[t] = "loaded"
  /\ new' = [new EXCEPT ![t] = Changed(update[t], cur[t])]
  /\ existed' = IF Removes(update[t])
                  THEN [existed EXCEPT ![t] = cur[t][update[t].id] # NoModel]
                  ELSE existed
  /\ pc' = [pc EXCEPT ![t] = "built"]
  /\ UNCHANGED <<models, update, cur, latest, answer>>

\* The swap, and the return: nobody else's loaded map is the stored one now.
SwapSucceeds(t) ==
  /\ pc[t] = "built" /\ latest[t]
  /\ models' = new[t]
  /\ latest' = [s \in Threads |-> FALSE]
  /\ answer' = [answer EXCEPT ![t] = IF Removes(update[t]) THEN existed[t] ELSE NoAnswer]
  /\ pc' = [pc EXCEPT ![t] = "idle"]
  /\ update' = [update EXCEPT ![t] = NoUpdate]
  /\ UNCHANGED <<cur, new, existed>>

\* Mutant of SwapFails: a swap that may fail although nobody was faster.
SwapFailsSpuriously(t) ==
  /\ pc[t] = "built"
  /\ Hold(t)
  /\ UNCHANGED <<models, update, new, existed, answer>>

\* Another update was faster: start over from the map it stored.
SwapFails(t) ==
  /\ pc[t] = "built" /\ ~latest[t]
  /\ Hold(t)
  /\ UNCHANGED <<models, update, new, existed, answer>>

Rcu(t) == Build(t) \/ SwapSucceeds(t) \/ SwapFails(t)

RegistryNext == \E t \in Threads : Rcu(t) \/ \E u \in Updates : Call(t, u)

RcuSpec == RegistryInit /\ [][RegistryNext]_registryVars

\* A thread inside rcu is scheduled; nobody has to call.
FairRcuSpec == RcuSpec /\ \A t \in Threads : WF_registryVars(Rcu(t))

-----------------------------------------------------------------------------
(* Properties. *)

RegistryTypeOK ==
  /\ models \in Maps
  /\ pc \in [Threads -> {"idle", "loaded", "built"}]
  /\ update \in [Threads -> Updates \union {NoUpdate}]
  /\ cur \in [Threads -> Maps]
  /\ latest \in [Threads -> BOOLEAN]
  /\ new \in [Threads -> Maps]
  /\ existed \in [Threads -> BOOLEAN]
  /\ answer \in [Threads -> BOOLEAN \union {NoAnswer}]

Atomic == INSTANCE RegistrySpec WITH pending <- update

\* However updates interleave and retry, none is lost and each remove answers
\* for the instant of its swap: two removes of one model do not both report it.
UpdatesAreAtomic == Atomic!AtomicSpec

Completes(t) == pc[t] = "built" /\ pc'[t] = "idle"

\* rcu is lock-free: while updates are in progress some update completes, even
\* if a particular one keeps losing its race.
SomeUpdateCompletes ==
  \/ []<>(\A t \in Threads : pc[t] = "idle")
  \/ []<><<\E t \in Threads : Completes(t)>>_registryVars

=============================================================================
