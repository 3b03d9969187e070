-------------------------------- MODULE Router --------------------------------
(***************************************************************************)
(* The request path of the gRPC service (src/src/server/grpc.rs with       *)
(* math.rs, pool.rs and the sizing done in service.rs): Upsert and Search  *)
(* share it.  A request waits for one of MaxConcurrent permits, then for   *)
(* its client's body; one poll of its task validates it on a worker thread *)
(* (registry lookup, buffer from the pool, alignment, norm, buffer back,   *)
(* normalisation) and sends the first call to the vector database; later   *)
(* polls are woken by the answer, by the per-call timeout or by the end of *)
(* a backoff sleep.                                                        *)
(* A client that goes away drops the request's future where it awaits.     *)
(*                                                                         *)
(* Abstracted: a payload is the bytes of its request and a class of norm;  *)
(* metadata, filters, scores, hits and durations are left out.  Requests   *)
(* are one-shot: a client's retry is another request.                      *)
(***************************************************************************)
EXTENDS Integers, Sequences, FiniteSets

CONSTANTS
  Requests,          \* the requests clients send
  Messages,          \* what a request may carry, see Message
  Models,            \* the registry: model id -> dim, normalize, vdb_namespace
  Points,            \* point ids
  Workers,           \* worker threads of the tokio runtime
  WorkerCount,       \* the worker count start_service sizes the pool with
  BuffersPerWorker,  \* pool.buffers_per_worker
  MaxConcurrent,     \* server.max_concurrent_requests
  MaxRetries,        \* vdb.max_retries: attempts, not repetitions
  CounterMod,        \* where an AtomicU64 wraps
  Zero,              \* the byte of a fresh buffer
  NoMessage,         \* a request that has not arrived
  NoVector           \* nothing stored, or no vector prepared

ModelIds   == {m.model : m \in Messages}
MessageLengths == {m.len : m \in Messages}
Namespaces == {Models[m].vdb_namespace : m \in DOMAIN Models}
Keys       == Namespaces \X Points
Calls      == Requests \X (1..MaxRetries)

Ops == {"upsert", "search"}

\* The squared norm's class: within the tolerance of 1, another positive
\* finite value, 0 (the zero vector, or one whose squares underflow), or not
\* finite (a NaN or Inf component, or an overflowing sum).
Norms == {"unit", "scaled", "zero", "nonfinite"}

\* What the client sent; oversize: larger than max_decoding_message_size.
Message ==
  [op : Ops, model : ModelIds, dim : Nat, len : Nat, aligned : BOOLEAN,
   norm : Norms, point : Points, oversize : BOOLEAN]

MaxOf(S) == CHOOSE x \in S : \A y \in S : y <= x

\* Mutant of MaxDim: the buffers sized for the smallest model.
MinDim ==
  CHOOSE d \in {Models[m].dim : m \in DOMAIN Models} :
    \A m \in DOMAIN Models : d <= Models[m].dim

\* start_service_with_vdb: the largest dimension (1536 without models) sizes
\* the buffers, its own idea of the worker count their number.  With
\* pool.worker_threads set the runtime has that many workers; without it
\* tokio decides alone (TOKIO_WORKER_THREADS, say), and the two may differ.
MaxDim ==
  IF DOMAIN Models = {} THEN 1536 ELSE MaxOf({Models[m].dim : m \in DOMAIN Models})

\* Mutant of PoolCapacityBytes: components taken for bytes.
CapacityInComponents == MaxDim

PoolCapacityBytes == MaxDim * 4
PoolSize == BuffersPerWorker * WorkerCount

ASSUME RouterAssumption ==
  /\ IsFiniteSet(Requests) /\ Zero \notin Requests
  /\ Messages \subseteq Message /\ NoMessage \notin Messages
  /\ DOMAIN Models # {} =>   \* the map is finite: one of its dims is the largest
       \E m \in DOMAIN Models : \A n \in DOMAIN Models : Models[n].dim <= Models[m].dim
  /\ \A m \in DOMAIN Models : Models[m].dim \in Nat \ {0} /\ Models[m].normalize \in BOOLEAN
  /\ Workers \in Nat \ {0}
  /\ BuffersPerWorker \in Nat \ {0} /\ WorkerCount \in Nat \ {0}
  /\ MaxConcurrent \in Nat
  /\ MaxRetries \in Nat \ {0}
  /\ CounterMod \in Nat \ {0}

VARIABLES
  pc,              \* pc[r]: where r's task is
  msg,             \* msg[r]: what r carries
  waiting,         \* requests waiting for a permit, first come first
  permits,         \* free permits of the concurrency limit
  result,          \* result[r]: the outcome so far, an Error variant or Ok
  vector,          \* vector[r]: the owned vector, its bytes and norm class
  attempt,         \* attempt[r]: calls sent for r
  inflight,        \* the client's in-flight counter
  requests_total,  \* the metric, by label
  normalizations,  \* normalizations_performed_total, by model
  queue, held, falling, exhausted,   \* the pool, see BufferPool
  store, call                        \* the database, see VectorDb

poolVars   == <<queue, held, falling, exhausted>>
dbVars     == <<store, call>>
metricVars == <<requests_total, normalizations>>
gateVars   == <<waiting, permits>>
vars == <<pc, msg, gateVars, result, vector, attempt, inflight, metricVars, poolVars, dbVars>>

Pool == INSTANCE BufferPool
          WITH Takers <- Requests, Size <- PoolSize,
               CapacityBytes <- PoolCapacityBytes,
               CopySizes <- MessageLengths
Db == INSTANCE VectorDb

-----------------------------------------------------------------------------
(* Outcomes. *)

Errors  == {"UnknownModel", "InvalidDim", "InvalidNumeric", "Vdb", "Validation"}
Results == Errors \union {"Pending", "Ok", "TooLarge"}

\* Mutant of StatusLabel: InvalidDim falls through to the default arm.
StatusLabelWithoutDim(e) ==
  CASE e = "Ok"             -> "ok"
    [] e = "UnknownModel"   -> "unknown_model"
    [] e = "InvalidNumeric" -> "invalid_numeric"
    [] e = "Vdb"            -> "vdb_error"
    [] OTHER                -> "internal_error"

\* status_label_from_error, and the label of a success.
StatusLabel(e) ==
  CASE e = "Ok"             -> "ok"
    [] e = "UnknownModel"   -> "unknown_model"
    [] e = "InvalidDim"     -> "invalid_dim"
    [] e = "InvalidNumeric" -> "invalid_numeric"
    [] e = "Vdb"            -> "vdb_error"
    [] OTHER                -> "internal_error"

\* status_from_error; a message over the size limit is tonic's own refusal.
GrpcStatus(e) ==
  CASE e = "Ok"           -> "ok"
    [] e = "UnknownModel" -> "not_found"
    [] e = "Vdb"          -> "unavailable"
    [] e = "TooLarge"     -> "out_of_range"
    [] OTHER              -> "invalid_argument"

Statuses == {"ok", "unknown_model", "invalid_dim", "invalid_numeric", "vdb_error",
             "internal_error"}
Labels == [model : ModelIds, op : Ops, status : Statuses]

LabelOf(r, e) == [model |-> msg[r].model, op |-> msg[r].op, status |-> StatusLabel(e)]

SpecOf(r) == Models[msg[r].model]
Key(r)    == <<SpecOf(r).vdb_namespace, msg[r].point>>
Raw(r)    == Pool!Payload(r, msg[r].len)

\* Where a task can be.  While it runs, it occupies a worker thread.
RunningAt  == {"take", "fallback", "align", "norm", "drop", "send"}
AwaitingAt == {"queued", "reading", "ready", "await", "sleeping"}
FinalAt    == {"done", "cancelled"}
Places     == {"idle"} \union RunningAt \union AwaitingAt \union FinalAt

\* Between admission and its end a request has a permit.
Admitted   == RunningAt \union (AwaitingAt \ {"queued"})

Running    == {r \in Requests : pc[r] \in RunningAt}
WorkerFree == Cardinality(Running) < Workers

Goto(r, place) == pc' = [pc EXCEPT ![r] = place]

\* The end of a handler: the metrics of a completed request, its answer, and
\* the permit back (the limit's guard is dropped with the response future).
Finish(r, e) ==
  /\ Goto(r, "done")
  /\ result' = [result EXCEPT ![r] = e]
  /\ requests_total' = [requests_total EXCEPT ![LabelOf(r, e)] = @ + 1]
  /\ permits' = permits + 1

-----------------------------------------------------------------------------
(* Arrival and admission. *)

Init ==
  /\ pc = [r \in Requests |-> "idle"]
  /\ msg = [r \in Requests |-> NoMessage]
  /\ waiting = << >>
  /\ permits = MaxConcurrent
  /\ result = [r \in Requests |-> "Pending"]
  /\ vector = [r \in Requests |-> NoVector]
  /\ attempt = [r \in Requests |-> 0]
  /\ inflight = 0
  /\ requests_total = [l \in Labels |-> 0]
  /\ normalizations = [m \in ModelIds |-> 0]
  /\ Pool!PoolInit
  /\ Db!DbInit

\* A request's headers reach the concurrency limit and it queues for a permit.
Arrive(r, m) ==
  /\ pc[r] = "idle"
  /\ Goto(r, "queued")
  /\ msg' = [msg EXCEPT ![r] = m]
  /\ waiting' = Append(waiting, r)
  /\ UNCHANGED <<permits, result, vector, attempt, inflight, metricVars, poolVars, dbVars>>

\* The semaphore is fair: a free permit goes to the longest waiting request.
Admit(r) ==
  /\ pc[r] = "queued"
  /\ waiting # << >> /\ r = Head(waiting)
  /\ permits > 0
  /\ permits' = permits - 1
  /\ waiting' = Tail(waiting)
  /\ Goto(r, "reading")
  /\ UNCHANGED <<msg, result, vector, attempt, inflight, metricVars, poolVars, dbVars>>

\* The admitted task awaits its client's body, without a timeout.  Here what the
\* next step reads has come: the message, or the length of one that is too long.
Deliver(r) ==
  /\ pc[r] = "reading"
  /\ Goto(r, "ready")
  /\ UNCHANGED <<msg, gateVars, result, vector, attempt, inflight, metricVars, poolVars, dbVars>>

\* The decoder refuses the message before the handler sees it: no metric.
RefuseOversize(r) ==
  /\ pc[r] = "ready" /\ msg[r].oversize
  /\ WorkerFree
  /\ Goto(r, "done")
  /\ result' = [result EXCEPT ![r] = "TooLarge"]
  /\ permits' = permits + 1
  /\ UNCHANGED <<msg, waiting, vector, attempt, inflight, metricVars, poolVars, dbVars>>

-----------------------------------------------------------------------------
(* validate_and_prepare: one poll, other workers run in between. *)

Registered(r) == msg[r].model \in DOMAIN Models

\* Mutant of LookupError: the dim field is not compared.
LookupErrorBarDim(r) == IF ~Registered(r) THEN "UnknownModel" ELSE "Pending"

\* What the lookup refuses: an unknown model, a dim field that is not its.
LookupError(r) ==
  IF ~Registered(r) THEN "UnknownModel"
  ELSE IF msg[r].dim # SpecOf(r).dim THEN "InvalidDim" ELSE "Pending"

BeginPoll(r) ==
  /\ pc[r] = "ready" /\ ~msg[r].oversize
  /\ WorkerFree

LookupRejects(r) ==
  /\ BeginPoll(r)
  /\ LookupError(r) # "Pending"
  /\ Finish(r, LookupError(r))
  /\ UNCHANGED <<msg, waiting, vector, attempt, inflight, normalizations, poolVars, dbVars>>

LookupFinds(r) ==
  /\ BeginPoll(r)
  /\ LookupError(r) = "Pending"
  /\ Goto(r, "take")
  /\ UNCHANGED <<msg, gateVars, result, vector, attempt, inflight, metricVars, poolVars, dbVars>>

TakeBuffer(r) ==
  /\ pc[r] = "take"
  /\ \/ Pool!TakePooled(r) /\ Goto(r, "align")
     \/ Pool!TakeMisses(r) /\ Goto(r, "fallback")
  /\ UNCHANGED <<msg, gateVars, result, vector, attempt, inflight, metricVars, dbVars>>

AllocateBuffer(r) ==
  /\ pc[r] = "fallback"
  /\ Pool!TakeFallback(r)
  /\ Goto(r, "align")
  /\ UNCHANGED <<msg, gateVars, result, vector, attempt, inflight, metricVars, dbVars>>

\* validate_and_align: the length check, then either the payload as it lies or
\* a copy into the scratch buffer, which can refuse a payload over its capacity.
LengthOK(r) == msg[r].len = SpecOf(r).dim * 4

AlignRejects(r) ==
  /\ pc[r] = "align" /\ ~LengthOK(r)
  /\ result' = [result EXCEPT ![r] = "InvalidDim"]
  /\ Goto(r, "drop")
  /\ UNCHANGED <<msg, gateVars, vector, attempt, inflight, metricVars, poolVars, dbVars>>

AlignZeroCopy(r) ==
  /\ pc[r] = "align" /\ LengthOK(r) /\ msg[r].aligned
  /\ Goto(r, "norm")
  /\ UNCHANGED <<msg, gateVars, result, vector, attempt, inflight, metricVars, poolVars, dbVars>>

ScratchFits(r) == Pool!CopyFits(held[r], Raw(r)) /\ Pool!Castable(Pool!CopyInto(held[r], Raw(r)))

AlignCopies(r) ==
  /\ pc[r] = "align" /\ LengthOK(r) /\ ~msg[r].aligned
  /\ IF ScratchFits(r)
       THEN Pool!Copy(r, Raw(r)) /\ Goto(r, "norm") /\ UNCHANGED result
       ELSE /\ result' = [result EXCEPT ![r] = "Validation"]
            /\ Goto(r, "drop")
            /\ UNCHANGED poolVars
  /\ UNCHANGED <<msg, gateVars, vector, attempt, inflight, metricVars, dbVars>>

\* The view the norm is computed over, and the owned vector is copied from.
View(r) == IF msg[r].aligned THEN Raw(r) ELSE Pool!Filled(held[r])

\* l2_norm_squared, then view.into_owned().
ComputeNorm(r) ==
  /\ pc[r] = "norm"
  /\ Goto(r, "drop")
  /\ IF msg[r].norm = "nonfinite"
       THEN result' = [result EXCEPT ![r] = "InvalidNumeric"] /\ UNCHANGED vector
       ELSE /\ vector' = [vector EXCEPT ![r] = [bytes |-> View(r), norm |-> msg[r].norm]]
            /\ UNCHANGED result
  /\ UNCHANGED <<msg, gateVars, attempt, inflight, metricVars, poolVars, dbVars>>

\* normalize_in_place divides unless the norm is near 1 or 0.
WillDivide(r) == SpecOf(r).normalize /\ msg[r].norm = "scaled"

\* The buffer goes back before anything is awaited, on the error paths too.
DropRejects(r) ==
  /\ pc[r] = "drop" /\ result[r] # "Pending"
  /\ Pool!Drop(r)
  /\ Finish(r, result[r])
  /\ UNCHANGED <<msg, waiting, vector, attempt, inflight, normalizations, dbVars>>

\* Mutant of DropPrepares: the buffer is kept while the database is awaited.
DropsLate(r) ==
  /\ pc[r] = "drop" /\ result[r] = "Pending"
  /\ Goto(r, "send")
  /\ UNCHANGED <<msg, gateVars, result, vector, attempt, inflight, metricVars, poolVars, dbVars>>

\* Mutant of DropPrepares: the buffer is freed instead of handed back.
DropForgets(r) ==
  /\ pc[r] = "drop" /\ result[r] = "Pending"
  /\ held' = [held EXCEPT ![r] = Pool!NoBuffer]
  /\ Goto(r, "send")
  /\ UNCHANGED <<msg, gateVars, result, vector, attempt, inflight, metricVars,
                 queue, falling, exhausted, dbVars>>

DropPrepares(r) ==
  /\ pc[r] = "drop" /\ result[r] = "Pending"
  /\ Pool!Drop(r)
  /\ Goto(r, "send")
  /\ IF WillDivide(r)
       THEN /\ vector' = [vector EXCEPT ![r].norm = "unit"]
            /\ normalizations' = [normalizations EXCEPT ![msg[r].model] = @ + 1]
       ELSE UNCHANGED <<vector, normalizations>>
  /\ UNCHANGED <<msg, gateVars, result, attempt, inflight, requests_total, dbVars>>

-----------------------------------------------------------------------------
(* call_vdb_with_retry, and the client's call under its timeout. *)

CurrentCall(r) == <<r, attempt[r]>>

\* The client counts the call and sends it.
SendCall(r) ==
  /\ pc[r] = "send"
  /\ attempt' = [attempt EXCEPT ![r] = @ + 1]
  /\ inflight' = inflight + 1
  /\ Db!Transmit(<<r, attempt[r] + 1>>)
  /\ Goto(r, "await")
  /\ UNCHANGED <<msg, gateVars, result, vector, metricVars, poolVars>>

\* A poll that finds the call ended: its guard leaves the counter.
EndCall(r) ==
  /\ pc[r] = "await"
  /\ WorkerFree
  /\ inflight' = inflight - 1
  /\ UNCHANGED <<msg, waiting, vector, attempt, normalizations, poolVars, dbVars>>

\* Mutant of CallOk: success before the database answered.
CallOkUnanswered(r) == EndCall(r) /\ Finish(r, "Ok")

CallOk(r) ==
  /\ EndCall(r)
  /\ call[CurrentCall(r)] = "applied"
  /\ Finish(r, "Ok")

\* Mutant of CallFails: the error is swallowed.
CallFailsSilently(r) == EndCall(r) /\ Finish(r, "Ok")

\* Any other error than the timeout (network, schema, auth) is not transient;
\* the database may or may not have applied the call.
CallFails(r) ==
  /\ EndCall(r)
  /\ Finish(r, "Vdb")

\* The timeout is the transient error: sleep and try again while attempts last.
TimeoutGivesUp(r) ==
  /\ EndCall(r)
  /\ attempt[r] >= MaxRetries
  /\ Finish(r, "Vdb")

\* Mutant of TimeoutRetries: each failed attempt is counted as a request.
TimeoutRetriesCounted(r) ==
  /\ EndCall(r)
  /\ attempt[r] < MaxRetries
  /\ Goto(r, "sleeping")
  /\ requests_total' = [requests_total EXCEPT ![LabelOf(r, "Vdb")] = @ + 1]
  /\ UNCHANGED <<permits, result>>

\* Mutant of TimeoutRetries: the attempt that timed out is not counted.
TimeoutRetriesForever(r) ==
  /\ pc[r] = "await"
  /\ WorkerFree
  /\ inflight' = inflight - 1
  /\ attempt' = [attempt EXCEPT ![r] = @ - 1]
  /\ Goto(r, "sleeping")
  /\ UNCHANGED <<msg, gateVars, result, vector, metricVars, poolVars, dbVars>>

TimeoutRetries(r) ==
  /\ EndCall(r)
  /\ attempt[r] < MaxRetries
  /\ Goto(r, "sleeping")
  /\ UNCHANGED <<permits, result, requests_total>>

\* The backoff ends; the task is polled and makes its next attempt.
WakeUp(r) ==
  /\ pc[r] = "sleeping"
  /\ WorkerFree
  /\ Goto(r, "send")
  /\ UNCHANGED <<msg, gateVars, result, vector, attempt, inflight, metricVars, poolVars, dbVars>>

\* Mutant of LeaveQueue: its place in the queue outlives the waiter.
StayQueued(r) == UNCHANGED waiting

\* A waiter dropped in the semaphore's queue is unlinked from it.
LeaveQueue(r) ==
  IF pc[r] = "queued"
    THEN \E i \in 1..Len(waiting) :
           /\ waiting[i] = r
           /\ waiting' = SubSeq(waiting, 1, i - 1) \o SubSeq(waiting, i + 1, Len(waiting))
    ELSE UNCHANGED waiting

\* What is left of a future dropped where it awaits.
Dropped(r) ==
  /\ pc[r] \in AwaitingAt
  /\ WorkerFree
  /\ Goto(r, "cancelled")
  /\ LeaveQueue(r)
  /\ UNCHANGED <<msg, result, vector, attempt, metricVars, poolVars, dbVars>>

\* Mutant of Cancel: the permit is given back by the handler's last line only.
CancelKeepsPermit(r) ==
  /\ Dropped(r)
  /\ inflight' = IF pc[r] = "await" THEN inflight - 1 ELSE inflight
  /\ UNCHANGED permits

\* Mutant of Cancel: the call is uncounted by the line after its await only.
CancelKeepsInflight(r) ==
  /\ Dropped(r)
  /\ permits' = IF pc[r] = "queued" THEN permits ELSE permits + 1
  /\ UNCHANGED inflight

\* The client disconnects (or its grpc-timeout expires): the future is dropped
\* where it awaits, and with it the permit and the in-flight guard.
Cancel(r) ==
  /\ Dropped(r)
  /\ permits' = IF pc[r] = "queued" THEN permits ELSE permits + 1
  /\ inflight' = IF pc[r] = "await" THEN inflight - 1 ELSE inflight

-----------------------------------------------------------------------------
(* The database's own steps. *)

DbApplies(r, k) ==
  /\ call[<<r, k>>] = "sent"
  /\ IF msg[r].op = "upsert"
       THEN Db!ApplyUpsert(<<r, k>>, Key(r), vector[r])
       ELSE Db!ApplySearch(<<r, k>>)
  /\ UNCHANGED <<pc, msg, gateVars, result, vector, attempt, inflight, metricVars, poolVars>>

DbLoses(r, k) ==
  /\ Db!Lose(<<r, k>>)
  /\ UNCHANGED <<pc, msg, gateVars, result, vector, attempt, inflight, metricVars, poolVars>>

\* Every request of the instance is over: nothing more to do.
Finished == (\A r \in Requests : pc[r] \in FinalAt) /\ UNCHANGED vars

\* What the server's scheduler does for r, its timers included.
ServerStep(r) ==
  \/ Admit(r)
  \/ RefuseOversize(r)
  \/ LookupRejects(r) \/ LookupFinds(r)
  \/ TakeBuffer(r) \/ AllocateBuffer(r)
  \/ AlignRejects(r) \/ AlignZeroCopy(r) \/ AlignCopies(r)
  \/ ComputeNorm(r)
  \/ DropRejects(r) \/ DropPrepares(r)
  \/ SendCall(r)
  \/ TimeoutGivesUp(r) \/ TimeoutRetries(r)
  \/ WakeUp(r)

\* What clients and the database do.
EnvironmentStep(r) ==
  \/ \E m \in Messages : Arrive(r, m)
  \/ Deliver(r)
  \/ CallOk(r)
  \/ CallFails(r)
  \/ Cancel(r)
  \/ \E k \in 1..MaxRetries : DbApplies(r, k) \/ DbLoses(r, k)

Next == (\E r \in Requests : ServerStep(r) \/ EnvironmentStep(r)) \/ Finished

Spec == Init /\ [][Next]_vars

\* Workers run every task that can run and timers fire.  The database never has
\* to answer, and a client never has to send the body of its request.
FairSpec == Spec /\ \A r \in Requests : WF_vars(ServerStep(r))

-----------------------------------------------------------------------------
(* Properties. *)

Vector == [bytes : Seq(Requests \union {Zero}), norm : Norms]

ServiceTypeOK ==
  /\ pc \in [Requests -> Places]
  /\ msg \in [Requests -> Messages \union {NoMessage}]
  /\ waiting \in Seq(Requests)
  /\ permits \in Nat
  /\ result \in [Requests -> Results]
  /\ vector \in [Requests -> Vector \union {NoVector}]
  /\ attempt \in [Requests -> 0..MaxRetries]
  /\ inflight \in Int
  /\ requests_total \in [Labels -> Nat]
  /\ normalizations \in [ModelIds -> Nat]

DbTypeOK ==
  /\ store \in [Keys -> Vector \union {NoVector}]
  /\ call \in [Calls -> {"unsent", "sent", "applied", "lost"}]

\* The types of the service's state, of the pool's and of the database's; no
\* more calls than the policy allows, no permit handed out that is not there.
TypeOK == ServiceTypeOK /\ Pool!PoolTypeOK /\ DbTypeOK

\* The reference the pipeline is held to: what a well-formed request is.
ValidMessage(m) ==
  /\ ~m.oversize
  /\ m.model \in DOMAIN Models
  /\ m.dim = Models[m.model].dim
  /\ m.len = 4 * m.dim
  /\ m.norm # "nonfinite"

\* The vector that belongs under the request's point: its own bytes, all of
\* them, of unit norm when its model normalises (or the zero vector).
GenuineVector(r, v) ==
  /\ v.bytes = Raw(r)
  /\ v.norm = IF SpecOf(r).normalize /\ msg[r].norm = "scaled" THEN "unit" ELSE msg[r].norm

Sent(r) == \E k \in 1..MaxRetries : call[<<r, k>>] # "unsent"

\* Whatever buffers the requests shared and however their steps interleaved,
\* the database holds under a key only the intact, prepared vector of a valid
\* upsert addressed to that key: never another request's bytes, a stale tail
\* or an unprepared vector.  A search compares with its own intact, prepared
\* vector, in every attempt.
StoreHoldsGenuineVectors ==
  /\ \A k \in Keys : store[k] # NoVector =>
       \E r \in Requests :
         /\ msg[r] # NoMessage /\ ValidMessage(msg[r]) /\ msg[r].op = "upsert"
         /\ Key(r) = k
         /\ GenuineVector(r, store[k])
  /\ \A r \in Requests :
       Sent(r) /\ msg[r].op = "search" => GenuineVector(r, vector[r])

\* A request reaches the database only if it is well-formed, and the answer
\* blames the right side: not_found and invalid_argument exactly for malformed
\* requests, ok and unavailable for well-formed ones.  (A well-formed request
\* that the pool could not hold would be an invalid_argument.)
AnswerFitsMessage ==
  \A r \in Requests :
    /\ Sent(r) => ValidMessage(msg[r])
    /\ pc[r] = "done" =>
         (GrpcStatus(result[r]) \in {"ok", "unavailable"} <=> ValidMessage(msg[r]))

\* A request that waits on the database holds no pool buffer, and a pool with
\* a buffer for each worker never has to allocate another: buffers are only
\* held inside one poll, so at most Workers at a time.
BuffersStayInsideOnePoll ==
  /\ \A r \in Pool!Holders : pc[r] \in {"align", "norm", "drop"}
  /\ Workers <= PoolSize => falling = {} /\ exhausted = 0

\* The limit's permits: each one is free or belongs to one request in progress,
\* on every way out of the handler, cancellation included.
PermitsAreConserved ==
  permits + Cardinality({r \in Requests : pc[r] \in Admitted}) = MaxConcurrent

\* The in-flight gauge counts the calls somebody waits for: no way out of a
\* call, cancellation included, leaves it off by one.
InflightIsExact == inflight = Cardinality({r \in Requests : pc[r] = "await"})

\* The status a completed request is counted under, from what it carried and
\* how its database phase ended.
ExpectedStatus(r) ==
  CASE msg[r].model \notin DOMAIN Models -> "unknown_model"
    [] msg[r].model \in DOMAIN Models
         /\ (msg[r].dim # SpecOf(r).dim \/ msg[r].len # 4 * SpecOf(r).dim) -> "invalid_dim"
    [] msg[r].model \in DOMAIN Models
         /\ msg[r].dim = SpecOf(r).dim /\ msg[r].len = 4 * SpecOf(r).dim
         /\ msg[r].norm = "nonfinite" -> "invalid_numeric"
    [] OTHER -> IF result[r] = "Ok" THEN "ok" ELSE "vdb_error"

\* Each completed request is counted exactly once, under the label its content
\* calls for, however many attempts it took; a cancelled or oversize one is not
\* counted at all, and internal_error never occurs.
RequestsAreCountedOnce ==
  \A l \in Labels :
    requests_total[l] =
      Cardinality({r \in Requests :
        /\ pc[r] = "done" /\ ~msg[r].oversize
        /\ msg[r].model = l.model /\ msg[r].op = l.op
        /\ ExpectedStatus(r) = l.status})

\* Retried calls may be applied twice, and late: with a single writer of a
\* point this is harmless, an acknowledged upsert stays stored for good.
SingleWriterIsDurable ==
  \A r \in Requests :
    /\ result[r] = "Ok" /\ msg[r].op = "upsert"
    /\ \A q \in Requests \ {r} : Sent(q) /\ msg[q].op = "upsert" => Key(q) # Key(r)
    => store[Key(r)] = vector[r]

\* The router drives the pool by its protocol only: it implements BufferPool.
PoolIsImplemented == Pool!PoolSpec

\* The refinement mapping to RequestSpec: what a client was told, and how often
\* its request took effect.
Told(r) ==
  CASE pc[r] = "cancelled" -> "left"
    [] pc[r] = "done" -> (CASE GrpcStatus(result[r]) = "ok" -> "ok"
                            [] GrpcStatus(result[r]) = "unavailable" -> "unavailable"
                            [] OTHER -> "refused")
    [] OTHER -> "none"

Promise ==
  INSTANCE RequestSpec
    WITH asked <- msg,
         answer <- [r \in Requests |-> Told(r)],
         effects <- [r \in Requests |->
                      Cardinality({k \in 1..MaxRetries : call[<<r, k>>] = "applied"})]

\* The pipeline with its shared buffers, its retries and its late calls keeps the
\* promise of RequestSpec: intact vectors, no effect of a malformed request, ok
\* only after an effect, no more effects than attempts.
PromiseIsKept == Promise!PromiseSpec

\* A request that can go on without its client or the database: it runs, it may
\* be polled with a message to read, a timeout or the end of its sleep, or the
\* next permit is its own.
Unblocked(r) ==
  \/ pc[r] \in RunningAt
  \/ pc[r] \in {"ready", "await", "sleeping"} /\ WorkerFree
  \/ pc[r] = "queued" /\ waiting # << >> /\ r = Head(waiting) /\ permits > 0

\* The server waits for nobody but its clients: when no request can go on, those
\* in progress await their client's body, or a permit while MaxConcurrent bodies
\* are awaited (of which there are none if it is 0).
OnlyClientsHoldUp ==
  (\A r \in Requests : ~Unblocked(r)) =>
    /\ \A r \in Requests : pc[r] \in {"idle", "queued", "reading"} \union FinalAt
    /\ (\E r \in Requests : pc[r] = "queued") =>
         Cardinality({r \in Requests : pc[r] = "reading"}) = MaxConcurrent

InProgress(r) == pc[r] \notin {"idle"} \union FinalAt

\* A request whose message has come is answered, unless its client leaves, while
\* other clients withhold theirs for as long as they like: attempts are bounded
\* and a silent database costs a timeout each.  (A request past reading does not
\* get back there: not to stay past it for ever is to be over.)
ReadRequestsEnd ==
  \A r \in Requests : []<>(InProgress(r) => pc[r] \in {"queued", "reading"})

\* No client withholds its body for ever.
BodiesArrive == \A r \in Requests : []<>(pc[r] # "reading")

\* And if every client delivers or leaves, every request that arrives is answered
\* unless its client leaves: the queue is fair and permits come back on every way
\* out.
EveryRequestEnds ==
  BodiesArrive => \A r \in Requests : []<>~InProgress(r)

=============================================================================
