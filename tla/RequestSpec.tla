----------------------------- MODULE RequestSpec -----------------------------
(***************************************************************************)
(* What the request path promises (src/src/server/grpc.rs), without pool,   *)
(* permits, workers or calls.  A well-formed request takes effect in the    *)
(* database at most MaxRetries times, at any moment after it was made, even *)
(* when nobody waits for it any longer; ok means that it did so at least    *)
(* once; a malformed request is refused and has no effect.                  *)
(***************************************************************************)
EXTENDS Naturals

CONSTANTS Requests, Messages, Models, Points, MaxRetries, NoMessage, NoVector

VARIABLES
  asked,    \* asked[r]: what r asks for
  answer,   \* answer[r]: what its client was told
  effects,  \* effects[r]: how often it took effect
  store     \* store[k]: the vector under k

promiseVars == <<asked, answer, effects, store>>

\* What validate_and_prepare and the decoder accept.
WellFormed(m) ==
  /\ ~m.oversize
  /\ m.model \in DOMAIN Models
  /\ m.dim = Models[m.model].dim
  /\ m.len = 4 * m.dim
  /\ m.norm # "nonfinite"

Target(m) == <<Models[m.model].vdb_namespace, m.point>>

\* All bytes of the request and no other, normalised if its model says so.
Prepared(r, m) ==
  [bytes |-> [i \in 1..m.len |-> r],
   norm  |-> IF Models[m.model].normalize /\ m.norm = "scaled" THEN "unit" ELSE m.norm]

PromiseInit ==
  /\ asked = [r \in Requests |-> NoMessage]
  /\ answer = [r \in Requests |-> "none"]
  /\ effects = [r \in Requests |-> 0]
  /\ store = [k \in {Models[m].vdb_namespace : m \in DOMAIN Models} \X Points |-> NoVector]

Ask(r, m) ==
  /\ asked[r] = NoMessage
  /\ asked' = [asked EXCEPT ![r] = m]
  /\ UNCHANGED <<answer, effects, store>>

TakeEffect(r) ==
  /\ asked[r] # NoMessage /\ WellFormed(asked[r])
  /\ effects[r] < MaxRetries
  /\ effects' = [effects EXCEPT ![r] = @ + 1]
  /\ store' = IF asked[r].op = "upsert"
                THEN [store EXCEPT ![Target(asked[r])] = Prepared(r, asked[r])]
                ELSE store
  /\ UNCHANGED <<asked, answer>>

Tell(r, a) ==
  /\ asked[r] # NoMessage /\ answer[r] = "none"
  /\ answer' = [answer EXCEPT ![r] = a]
  /\ UNCHANGED <<asked, effects, store>>

Serve(r)  == Tell(r, "ok") /\ WellFormed(asked[r]) /\ effects[r] > 0
GiveUp(r) == Tell(r, "unavailable") /\ WellFormed(asked[r])
Refuse(r) == Tell(r, "refused") /\ ~WellFormed(asked[r])
Leave(r)  == Tell(r, "left")

PromiseNext ==
  \E r \in Requests :
    \/ \E m \in Messages : Ask(r, m)
    \/ TakeEffect(r)
    \/ Serve(r) \/ GiveUp(r) \/ Refuse(r) \/ Leave(r)

PromiseSpec == PromiseInit /\ [][PromiseNext]_promiseVars

=============================================================================
