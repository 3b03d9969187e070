------------------------------- MODULE VectorDb -------------------------------
(***************************************************************************)
(* The vector database as the router sees it (external: Qdrant, or          *)
(* PostgreSQL with pgvector).  A call that was sent is applied at any later *)
(* moment or lost, whether or not its caller still waits for the answer:    *)
(* the router bounds its own wait with a timeout, which takes nothing back. *)
(* An upsert replaces the point's value, a search only reads.               *)
(***************************************************************************)
CONSTANTS
  Calls,     \* the calls the router may send
  Keys,      \* a namespace and a point id
  NoVector   \* nothing stored under a key

VARIABLES
  store,   \* store[k]: the vector stored under k
  call     \* call[c]: what became of call c

dbVars == <<store, call>>

DbInit ==
  /\ store = [k \in Keys |-> NoVector]
  /\ call = [c \in Calls |-> "unsent"]

Transmit(c) ==
  /\ call[c] = "unsent"
  /\ call' = [call EXCEPT ![c] = "sent"]
  /\ UNCHANGED store

ApplyUpsert(c, k, v) ==
  /\ call[c] = "sent"
  /\ call' = [call EXCEPT ![c] = "applied"]
  /\ store' = [store EXCEPT ![k] = v]

ApplySearch(c) ==
  /\ call[c] = "sent"
  /\ call' = [call EXCEPT ![c] = "applied"]
  /\ UNCHANGED store

Lose(c) ==
  /\ call[c] = "sent"
  /\ call' = [call EXCEPT ![c] = "lost"]
  /\ UNCHANGED store

=============================================================================
