----------------------------- MODULE RegistrySpec -----------------------------
(***************************************************************************)
(* What the model registry promises the threads that update it: each       *)
(* upsert or remove takes effect at one instant between its call and its   *)
(* return, and remove answers whether the model existed at that instant.   *)
(***************************************************************************)
CONSTANTS
  Threads,   \* the updating threads
  Ids,       \* model ids
  Specs,     \* model specifications
  NoModel,   \* an id that is not registered
  NoUpdate,  \* a thread without an update in progress
  NoAnswer   \* what upsert returns

VARIABLES
  models,   \* models[id]: the registered spec, or NoModel
  pending,  \* pending[t]: the update t has called for
  answer    \* answer[t]: what t's last update returned

specVars == <<models, pending, answer>>

\* upsert(id, spec), and remove(id), written as the update to NoModel.
Updates == [id : Ids, spec : Specs \union {NoModel}]

Applied(u, m) == [m EXCEPT ![u.id] = u.spec]

AnswerOf(u, m) == IF u.spec = NoModel THEN m[u.id] # NoModel ELSE NoAnswer

SpecInit ==
  /\ models \in [Ids -> Specs \union {NoModel}]
  /\ pending = [t \in Threads |-> NoUpdate]
  /\ answer = [t \in Threads |-> NoAnswer]

Invoke(t, u) ==
  /\ pending[t] = NoUpdate
  /\ pending' = [pending EXCEPT ![t] = u]
  /\ UNCHANGED <<models, answer>>

\* The update takes effect and returns.
Complete(t) ==
  /\ pending[t] # NoUpdate
  /\ models' = Applied(pending[t], models)
  /\ answer' = [answer EXCEPT ![t] = AnswerOf(pending[t], models)]
  /\ pending' = [pending EXCEPT ![t] = NoUpdate]

SpecNext ==
  \E t \in Threads : Complete(t) \/ \E u \in Updates : Invoke(t, u)

AtomicSpec == SpecInit /\ [][SpecNext]_specVars

=============================================================================
