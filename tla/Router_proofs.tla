---------------------------- MODULE Router_proofs ----------------------------
(***************************************************************************)
(* Proofs about the request path, for every set of requests, registry,      *)
(* number of workers and of permits, and retry policy: types and the pool;  *)
(* permits and gauge by counting; what each place of the handler implies of *)
(* the request there (Phase), and from it answers, metrics, the contents of *)
(* the database and the promise of RequestSpec; the queue, and that requests *)
(* only ever get nearer to their end.                                        *)
(***************************************************************************)
EXTENDS Router, TLAPS, QueueTheorems, SequenceTheorems, FiniteSetTheorems

\* The theorems about the pool, for the pool the router drives.
PoolProofs == INSTANCE BufferPool_proofs
                WITH Takers <- Requests, Size <- PoolSize,
                     CapacityBytes <- PoolCapacityBytes,
                     CopySizes <- MessageLengths

-----------------------------------------------------------------------------
(* The pool's assumptions hold of the router's sizing. *)

LEMMA MaxDimType ==
  /\ MaxDim \in Nat \ {0}
  /\ \A m \in DOMAIN Models : Models[m].dim <= MaxDim
<1>1. CASE DOMAIN Models = {}
  BY <1>1 DEF MaxDim
<1>2. CASE DOMAIN Models # {}
  <2> DEFINE D == {Models[m].dim : m \in DOMAIN Models}
  <2>1. \E x \in D : \A y \in D : y <= x
    BY <1>2, RouterAssumption
  <2>2. MaxOf(D) \in D /\ \A y \in D : y <= MaxOf(D)
    BY <2>1 DEF MaxOf
  <2>3. MaxDim = MaxOf(D)
    BY <1>2 DEF MaxDim
  <2> QED
    BY <2>2, <2>3, RouterAssumption
<1> QED
  BY <1>1, <1>2

LEMMA MessageType ==
  ASSUME NEW m \in Messages
  PROVE  /\ m.op \in Ops /\ m.model \in ModelIds /\ m.len \in Nat
         /\ m.norm \in Norms /\ m.aligned \in BOOLEAN
         /\ m.len \in MessageLengths
BY RouterAssumption DEF Message, ModelIds, MessageLengths

LEMMA PoolAssumptionHolds == PoolProofs!PoolAssumption
<1>1. PoolSize \in Nat
  BY RouterAssumption DEF PoolSize
<1>2. PoolCapacityBytes \in Nat \ {0} /\ PoolCapacityBytes % 4 = 0
  BY MaxDimType DEF PoolCapacityBytes
<1>3. MessageLengths \subseteq Nat
  BY MessageType DEF MessageLengths
<1> QED
  BY <1>1, <1>2, <1>3, RouterAssumption DEF IsFiniteSet, PoolProofs!IsFiniteSet

-----------------------------------------------------------------------------
(* Every step of the router is a step of the pool, or leaves it alone. *)

Arrived == \A r \in Requests : pc[r] # "idle" => msg[r] \in Messages

LEMMA PoolStep ==
  ASSUME ServiceTypeOK, Arrived, [Next]_vars
  PROVE  [Pool!PoolNext]_poolVars
<1>1. ASSUME NEW r \in Requests, TakeBuffer(r) \/ AllocateBuffer(r)
      PROVE  Pool!PoolNext
  BY <1>1 DEF TakeBuffer, AllocateBuffer, Pool!PoolNext
<1>2. ASSUME NEW r \in Requests, AlignCopies(r)
      PROVE  [Pool!PoolNext]_poolVars
  <2>1. msg[r].len \in MessageLengths
    BY <1>2, MessageType DEF AlignCopies, Arrived
  <2>2. CASE ScratchFits(r)
    BY <1>2, <2>1, <2>2 DEF AlignCopies, Raw, Pool!PoolNext
  <2>3. CASE ~ScratchFits(r)
    BY <1>2, <2>3 DEF AlignCopies
  <2> QED
    BY <2>2, <2>3
<1>3. ASSUME NEW r \in Requests, DropRejects(r) \/ DropPrepares(r)
      PROVE  Pool!PoolNext
  BY <1>3 DEF DropRejects, DropPrepares, Pool!PoolNext
<1>4. ASSUME NEW r \in Requests,
             \/ Admit(r) \/ RefuseOversize(r)
             \/ LookupRejects(r) \/ LookupFinds(r)
             \/ AlignRejects(r) \/ AlignZeroCopy(r)
             \/ ComputeNorm(r)
             \/ SendCall(r)
             \/ TimeoutGivesUp(r) \/ TimeoutRetries(r)
             \/ WakeUp(r)
      PROVE  UNCHANGED poolVars
  BY <1>4 DEF Admit, RefuseOversize, LookupRejects, LookupFinds, AlignRejects,
              AlignZeroCopy, ComputeNorm, SendCall, EndCall, TimeoutGivesUp,
              TimeoutRetries, WakeUp
<1>5. ASSUME NEW r \in Requests, EnvironmentStep(r)
      PROVE  UNCHANGED poolVars
  BY <1>5 DEF EnvironmentStep, Arrive, Deliver, CallOk, CallFails, EndCall, Cancel, Dropped,
              DbApplies, DbLoses
<1>6. CASE Finished \/ UNCHANGED vars
  BY <1>6 DEF Finished, vars
<1> QED
  BY <1>1, <1>2, <1>3, <1>4, <1>5, <1>6 DEF Next, ServerStep

\* The pool of the theorems is the pool of the router.
LEMMA SamePool ==
  /\ Pool!PoolInit <=> PoolProofs!PoolInit
  /\ Pool!PoolTypeOK <=> PoolProofs!PoolTypeOK
  /\ Pool!PoolNext <=> PoolProofs!PoolNext
  /\ PoolProofs!poolVars = poolVars
  /\ Pool!poolVars = poolVars
<1> USE DEF Pool!Buffer, PoolProofs!Buffer, Pool!Bytes, PoolProofs!Bytes,
            Pool!NoBuffer, PoolProofs!NoBuffer, Pool!NewBuffer, PoolProofs!NewBuffer,
            Pool!DivCeil4, PoolProofs!DivCeil4, Pool!Holders, PoolProofs!Holders
<1>1. Pool!PoolInit <=> PoolProofs!PoolInit
  BY DEF Pool!PoolInit, PoolProofs!PoolInit
<1>2. Pool!PoolTypeOK <=> PoolProofs!PoolTypeOK
  BY DEF Pool!PoolTypeOK, PoolProofs!PoolTypeOK
<1>3. ASSUME NEW t \in Requests
      PROVE  /\ Pool!TakePooled(t) <=> PoolProofs!TakePooled(t)
             /\ Pool!TakeMisses(t) <=> PoolProofs!TakeMisses(t)
             /\ Pool!TakeFallback(t) <=> PoolProofs!TakeFallback(t)
             /\ Pool!Drop(t) <=> PoolProofs!Drop(t)
  BY DEF Pool!TakePooled, PoolProofs!TakePooled, Pool!TakeMisses, PoolProofs!TakeMisses,
         Pool!TakeFallback, PoolProofs!TakeFallback, Pool!Idle, PoolProofs!Idle,
         Pool!Drop, PoolProofs!Drop, Pool!Returned, PoolProofs!Returned,
         Pool!Clear, PoolProofs!Clear, Pool!Capacity, PoolProofs!Capacity,
         Pool!QueueCapacity, PoolProofs!QueueCapacity
<1>4. ASSUME NEW t \in Requests, NEW n
      PROVE  Pool!Copy(t, Pool!Payload(t, n)) <=> PoolProofs!Copy(t, PoolProofs!Payload(t, n))
  BY DEF Pool!Copy, PoolProofs!Copy, Pool!Payload, PoolProofs!Payload,
         Pool!CopyFits, PoolProofs!CopyFits, Pool!CopyInto, PoolProofs!CopyInto,
         Pool!Capacity, PoolProofs!Capacity
<1>5. Pool!PoolNext <=> PoolProofs!PoolNext
  BY <1>3, <1>4 DEF Pool!PoolNext, PoolProofs!PoolNext
<1> QED
  BY <1>1, <1>2, <1>5 DEF Pool!poolVars, PoolProofs!poolVars, poolVars

LEMMA PoolTypeStep ==
  ASSUME ServiceTypeOK, Arrived, Pool!PoolTypeOK, [Next]_vars
  PROVE  Pool!PoolTypeOK'
<1>1. [PoolProofs!PoolNext]_(PoolProofs!poolVars)
  BY PoolStep, SamePool DEF PoolProofs!poolVars, poolVars
<1>2. PoolProofs!PoolTypeOK
  BY SamePool
<1>3. PoolProofs!PoolTypeOK'
  BY <1>1, <1>2, PoolProofs!TypeStep, PoolAssumptionHolds
<1>4. Pool!PoolTypeOK' <=> PoolProofs!PoolTypeOK'
  BY DEF Pool!Buffer, PoolProofs!Buffer, Pool!Bytes, PoolProofs!Bytes,
         Pool!NoBuffer, PoolProofs!NoBuffer, Pool!PoolTypeOK, PoolProofs!PoolTypeOK
<1> QED
  BY <1>3, <1>4

-----------------------------------------------------------------------------
(* The type invariant.  Inductive with what a place of the program implies: *)
(* a request that has arrived carries a message, one that reaches the       *)
(* database phase owns a vector, and the attempts are counted by the calls. *)

BeforeCalls == {"idle", "queued", "reading", "ready", "take", "fallback", "align", "norm", "drop"}

VectorsReady ==
  \A r \in Requests :
    \/ pc[r] = "drop" /\ result[r] = "Pending"
    \/ pc[r] \in {"send", "await", "sleeping"}
    \/ attempt[r] > 0
    => vector[r] \in Vector

AttemptsInRange ==
  \A r \in Requests :
    /\ pc[r] \in {"send", "sleeping"} => attempt[r] < MaxRetries
    /\ pc[r] \in BeforeCalls => attempt[r] = 0
    /\ \A k \in 1..MaxRetries : call[<<r, k>>] # "unsent" <=> k <= attempt[r]

TypeInv == TypeOK /\ Arrived /\ VectorsReady /\ AttemptsInRange

LEMMA TypeInvInit == Init => TypeInv
<1> SUFFICES ASSUME Init PROVE TypeInv
  OBVIOUS
<1>1. ServiceTypeOK
  BY RouterAssumption
  DEF Init, ServiceTypeOK, Places, Results
<1>2. Pool!PoolTypeOK
  BY SamePool, PoolProofs!TypeInit, PoolAssumptionHolds DEF Init
<1>3. DbTypeOK
  BY DEF Init, DbTypeOK, Db!DbInit
<1>4. Arrived /\ VectorsReady /\ AttemptsInRange
  BY RouterAssumption
  DEF Init, Db!DbInit, Arrived, VectorsReady, AttemptsInRange, BeforeCalls, Calls
<1> QED
  BY <1>1, <1>2, <1>3, <1>4 DEF TypeInv, TypeOK

LEMMA LabelType ==
  ASSUME Arrived, NEW r \in Requests, pc[r] # "idle", NEW e
  PROVE  LabelOf(r, e) \in Labels
<1>1. StatusLabel(e) \in Statuses
  BY DEF StatusLabel, Statuses
<1>2. msg[r].model \in ModelIds /\ msg[r].op \in Ops
  BY MessageType DEF Arrived
<1> QED
  BY <1>1, <1>2 DEF LabelOf, Labels

LEMMA FinishType ==
  ASSUME ServiceTypeOK, Arrived, NEW r \in Requests, pc[r] # "idle",
         NEW e \in Results, Finish(r, e)
  PROVE  /\ pc' \in [Requests -> Places]
         /\ result' \in [Requests -> Results]
         /\ requests_total' \in [Labels -> Nat]
         /\ permits' \in Nat
BY LabelType DEF ServiceTypeOK, Finish, Goto, Places, FinalAt

LEMMA RawType ==
  ASSUME NEW r \in Requests, msg[r] \in Messages
  PROVE  /\ Raw(r) \in Seq(Requests \union {Zero})
         /\ Len(Raw(r)) = msg[r].len
         /\ \A i \in 1..msg[r].len : Raw(r)[i] = r
<1>1. msg[r].len \in Nat
  BY MessageType
<1>2. Raw(r) = [i \in 1..msg[r].len |-> r]
  BY DEF Raw, Pool!Payload
<1>3. Raw(r) \in [1..msg[r].len -> Requests \union {Zero}]
  BY <1>2
<1>4. Raw(r) \in Seq(Requests \union {Zero})
  BY <1>1, <1>3
<1>5. DOMAIN Raw(r) = 1..msg[r].len
  BY <1>2
<1>6. Len(Raw(r)) = msg[r].len
  BY <1>1, <1>4, <1>5, LenProperties
<1> QED
  BY <1>2, <1>4, <1>6

LEMMA ViewType ==
  ASSUME Pool!PoolTypeOK, NEW r \in Requests, msg[r] \in Messages
  PROVE  View(r) \in Seq(Requests \union {Zero})
<1>1. CASE msg[r].aligned
  BY <1>1, RawType DEF View
<1>2. CASE ~msg[r].aligned
  <2> DEFINE b == held[r]
  <2>1. b.len \in Int /\ \A i \in 1..b.len : b.data[i] \in Requests \union {Zero}
    <3>1. CASE b \in Pool!Buffer
      <4>1. b.data \in [1..PoolCapacityBytes -> Requests \union {Zero}]
            /\ b.len \in 0..PoolCapacityBytes
        BY <3>1 DEF Pool!Buffer, Pool!Bytes
      <4>2. PoolCapacityBytes \in Nat
        BY MaxDimType DEF PoolCapacityBytes
      <4> QED
        BY <4>1, <4>2
    <3>2. CASE b = Pool!NoBuffer
      BY <3>2 DEF Pool!NoBuffer
    <3> QED
      BY <3>1, <3>2 DEF Pool!PoolTypeOK
  <2>2. SubSeq(b.data, 1, b.len) \in Seq(Requests \union {Zero})
    BY <2>1, SubSeqProperties
  <2> QED
    BY <1>2, <2>2 DEF View, Pool!Filled
<1> QED
  BY <1>1, <1>2

\* The part of the invariant the router's own steps have to preserve.
OwnInv == ServiceTypeOK /\ DbTypeOK /\ Arrived /\ VectorsReady /\ AttemptsInRange

LEMMA AdmissionStep ==
  ASSUME TypeInv, NEW r \in Requests,
         \/ \E m \in Messages : Arrive(r, m)
         \/ Admit(r) \/ Deliver(r)
         \/ RefuseOversize(r)
  PROVE  OwnInv'
<1> USE DEF TypeInv, TypeOK, ServiceTypeOK, DbTypeOK, Arrived, VectorsReady, AttemptsInRange,
            OwnInv, BeforeCalls, Goto, poolVars, dbVars, metricVars, gateVars
<1>1. ASSUME NEW m \in Messages, Arrive(r, m) PROVE OwnInv'
  <2>1. waiting' \in Seq(Requests)
    BY <1>1, AppendProperties DEF Arrive
  <2> QED
    BY <1>1, <2>1 DEF Arrive, Places, AwaitingAt
<1>2. CASE Admit(r)
  <2>1. waiting' \in Seq(Requests)
    BY <1>2, HeadTailProperties DEF Admit
  <2>2. r \in Requests /\ pc[r] = "queued"
    BY <1>2 DEF Admit
  <2> QED
    BY <1>2, <2>1 DEF Admit, Places, AwaitingAt
<1>3. CASE Deliver(r)
  BY <1>3 DEF Deliver, Places, AwaitingAt
<1>4. CASE RefuseOversize(r)
  BY <1>4 DEF RefuseOversize, Places, FinalAt, Results
<1> QED
  BY <1>1, <1>2, <1>3, <1>4

LEMMA PipelineStep ==
  ASSUME TypeInv, NEW r \in Requests,
         \/ LookupFinds(r) \/ TakeBuffer(r) \/ AllocateBuffer(r)
         \/ AlignRejects(r) \/ AlignZeroCopy(r) \/ AlignCopies(r)
         \/ ComputeNorm(r)
  PROVE  OwnInv'
<1> USE DEF TypeInv, TypeOK, ServiceTypeOK, DbTypeOK, Arrived, VectorsReady, AttemptsInRange,
            OwnInv, BeforeCalls, Goto, poolVars, dbVars, metricVars, gateVars,
            Places, RunningAt
<1>1. CASE LookupFinds(r) \/ TakeBuffer(r) \/ AllocateBuffer(r) \/ AlignZeroCopy(r)
  <2>1. PICK place \in {"take", "fallback", "align", "norm"} :
          pc' = [pc EXCEPT ![r] = place]
    BY <1>1 DEF LookupFinds, TakeBuffer, AllocateBuffer, AlignZeroCopy
  <2>2. pc[r] \in {"ready", "take", "fallback", "align"}
    BY <1>1 DEF LookupFinds, BeginPoll, TakeBuffer, AllocateBuffer, AlignZeroCopy
  <2>3. UNCHANGED <<msg, waiting, permits, result, vector, attempt, inflight,
                    requests_total, normalizations, store, call>>
    BY <1>1 DEF LookupFinds, TakeBuffer, AllocateBuffer, AlignZeroCopy
  <2>4. ServiceTypeOK' /\ DbTypeOK' /\ Arrived'
    BY <2>1, <2>2, <2>3
  <2>5. VectorsReady' /\ AttemptsInRange'
    BY <2>1, <2>2, <2>3
  <2> QED
    BY <2>4, <2>5
<1>2. CASE AlignRejects(r)
  BY <1>2 DEF AlignRejects, Results, Errors
<1>3. CASE AlignCopies(r)
  BY <1>3 DEF AlignCopies, Results, Errors
<1>4. CASE ComputeNorm(r)
  <2>1. CASE msg[r].norm = "nonfinite"
    BY <1>4, <2>1 DEF ComputeNorm, Results, Errors
  <2>2. CASE msg[r].norm # "nonfinite"
    <3>1. [bytes |-> View(r), norm |-> msg[r].norm] \in Vector
      BY <1>4, ViewType, MessageType DEF ComputeNorm, Vector
    <3> QED
      BY <1>4, <2>2, <3>1 DEF ComputeNorm
  <2> QED
    BY <2>1, <2>2
<1> QED
  BY <1>1, <1>2, <1>3, <1>4

LEMMA EndOfPollStep ==
  ASSUME TypeInv, NEW r \in Requests,
         LookupRejects(r) \/ DropRejects(r) \/ DropPrepares(r)
  PROVE  OwnInv'
<1> USE DEF TypeInv, TypeOK, ServiceTypeOK, DbTypeOK, Arrived, VectorsReady, AttemptsInRange,
            OwnInv, BeforeCalls, poolVars, dbVars, metricVars, gateVars
<1>1. CASE LookupRejects(r)
  <2>1. LookupError(r) \in Results
    BY DEF LookupError, Results, Errors
  <2> QED
    BY <1>1, <2>1, FinishType DEF LookupRejects, BeginPoll, Finish, Goto
<1>2. CASE DropRejects(r)
  BY <1>2, FinishType DEF DropRejects, Finish, Goto
<1>3. CASE DropPrepares(r)
  <2>1. vector[r] \in Vector /\ [vector[r] EXCEPT !.norm = "unit"] \in Vector
    BY <1>3 DEF DropPrepares, Vector, Norms
  <2>2. msg[r].model \in ModelIds
    BY <1>3, MessageType DEF DropPrepares
  <2>3. vector' \in [Requests -> Vector \union {NoVector}] /\ vector'[r] \in Vector
        /\ \A q \in Requests \ {r} : vector'[q] = vector[q]
    BY <1>3, <2>1 DEF DropPrepares
  <2>4. normalizations' \in [ModelIds -> Nat]
    <3>1. normalizations' = normalizations
          \/ normalizations' = [normalizations EXCEPT ![msg[r].model] = @ + 1]
      BY <1>3 DEF DropPrepares
    <3>2. normalizations \in [ModelIds -> Nat]
      OBVIOUS
    <3> HIDE DEF ServiceTypeOK, DbTypeOK, Arrived, VectorsReady, AttemptsInRange, TypeInv, TypeOK
    <3> QED
      BY <2>2, <3>1, <3>2
  <2>5. attempt[r] = 0 /\ 0 < MaxRetries
    BY <1>3, RouterAssumption DEF DropPrepares
  <2>6. /\ pc[r] = "drop" /\ pc' = [pc EXCEPT ![r] = "send"]
        /\ UNCHANGED <<msg, waiting, permits, result, attempt, inflight, requests_total,
                       store, call>>
    BY <1>3 DEF DropPrepares, Goto
  <2>7. ServiceTypeOK' /\ DbTypeOK' /\ Arrived'
    BY <2>3, <2>4, <2>6 DEF Places, RunningAt
  <2>8. VectorsReady'
    BY <2>3, <2>6
  <2>9. AttemptsInRange'
    BY <2>5, <2>6
  <2> QED
    BY <2>7, <2>8, <2>9
<1> QED
  BY <1>1, <1>2, <1>3

LEMMA CallStep ==
  ASSUME TypeInv, NEW r \in Requests,
         \/ SendCall(r)
         \/ CallOk(r) \/ CallFails(r) \/ TimeoutGivesUp(r)
         \/ TimeoutRetries(r) \/ WakeUp(r) \/ Cancel(r)
  PROVE  OwnInv'
<1> USE DEF TypeInv, TypeOK, ServiceTypeOK, DbTypeOK, Arrived, VectorsReady, AttemptsInRange,
            OwnInv, BeforeCalls, poolVars, dbVars, metricVars, gateVars
<1>1. CASE SendCall(r)
  <2>1. attempt[r] \in Nat /\ attempt[r] + 1 \in 1..MaxRetries
    BY <1>1, RouterAssumption DEF SendCall
  <2>2. <<r, attempt[r] + 1>> \in Calls
    BY <2>1 DEF Calls
  <2>3. call' = [call EXCEPT ![<<r, attempt[r] + 1>>] = "sent"] /\ store' = store
    BY <1>1 DEF SendCall, Db!Transmit
  <2>4. DbTypeOK'
    BY <2>2, <2>3
  <2>5. \A q \in Requests : \A k \in 1..MaxRetries :
          call'[<<q, k>>] # "unsent" <=> k <= attempt'[q]
    <3>1. \A q \in Requests : \A k \in 1..MaxRetries :
            call'[<<q, k>>] = IF q = r /\ k = attempt[r] + 1 THEN "sent" ELSE call[<<q, k>>]
      BY <2>2, <2>3 DEF Calls
    <3>2. attempt' = [attempt EXCEPT ![r] = attempt[r] + 1]
      BY <1>1 DEF SendCall
    <3>3. ASSUME NEW q \in Requests, NEW k \in 1..MaxRetries
          PROVE  call'[<<q, k>>] # "unsent" <=> k <= attempt'[q]
      <4>1. CASE q # r
        BY <3>1, <3>2, <4>1
      <4>2. CASE q = r
        <5>1. attempt'[r] = attempt[r] + 1
          BY <3>2
        <5>2. call[<<r, k>>] # "unsent" <=> k <= attempt[r]
          OBVIOUS
        <5>3. call'[<<r, k>>] = IF k = attempt[r] + 1 THEN "sent" ELSE call[<<r, k>>]
          BY <3>1
        <5>4. k \in Int /\ attempt[r] \in Int
          BY <2>1, RouterAssumption
        <5> HIDE DEF ServiceTypeOK, DbTypeOK, Arrived, VectorsReady, AttemptsInRange, TypeInv
        <5> QED
          BY <4>2, <5>1, <5>2, <5>3, <5>4
      <4> QED
        BY <4>1, <4>2
    <3> QED
      BY <3>3
  <2>6. /\ pc[r] = "send" /\ pc' = [pc EXCEPT ![r] = "await"]
        /\ attempt' = [attempt EXCEPT ![r] = attempt[r] + 1]
        /\ UNCHANGED <<msg, waiting, permits, result, vector, requests_total, normalizations>>
        /\ inflight' \in Int
    BY <1>1 DEF SendCall, Goto
  <2>7. ServiceTypeOK' /\ Arrived'
    BY <2>1, <2>6 DEF Places, AwaitingAt
  <2>8. VectorsReady'
    BY <2>6
  <2>9. AttemptsInRange'
    BY <2>5, <2>6
  <2> QED
    BY <2>4, <2>7, <2>8, <2>9
<1>2. CASE CallOk(r) \/ CallFails(r) \/ TimeoutGivesUp(r)
  <2>1. PICK e \in {"Ok", "Vdb"} : EndCall(r) /\ Finish(r, e)
    BY <1>2 DEF CallOk, CallFails, TimeoutGivesUp
  <2>2. e \in Results /\ pc[r] = "await"
    BY <2>1 DEF Results, Errors, EndCall
  <2>3. /\ pc' \in [Requests -> Places] /\ result' \in [Requests -> Results]
        /\ requests_total' \in [Labels -> Nat] /\ permits' \in Nat
    BY <2>1, <2>2, FinishType
  <2>4. /\ \A q \in Requests : pc'[q] = pc[q] \/ (q = r /\ pc'[q] = "done")
        /\ \A q \in Requests \ {r} : result'[q] = result[q]
    BY <2>1, <2>2 DEF Finish, Goto
  <2>5. UNCHANGED <<msg, waiting, vector, attempt, normalizations, store, call>>
        /\ inflight' \in Int
    BY <2>1 DEF EndCall
  <2>6. ServiceTypeOK' /\ DbTypeOK' /\ Arrived'
    BY <2>2, <2>3, <2>4, <2>5
  <2>7. VectorsReady' /\ AttemptsInRange'
    BY <2>2, <2>4, <2>5
  <2> QED
    BY <2>6, <2>7
<1>3. CASE TimeoutRetries(r)
  BY <1>3 DEF TimeoutRetries, EndCall, Goto, Places, AwaitingAt
<1>4. CASE WakeUp(r)
  BY <1>4 DEF WakeUp, Goto, Places, RunningAt
<1>5. CASE Cancel(r)
  <2>1. waiting' \in Seq(Requests)
    <3>1. CASE pc[r] = "queued"
      <4>1. PICK i \in 1..Len(waiting) :
              waiting' = SubSeq(waiting, 1, i - 1) \o SubSeq(waiting, i + 1, Len(waiting))
        BY <1>5, <3>1 DEF Cancel, Dropped, LeaveQueue
      <4>2. Len(waiting) \in Nat /\ \A j \in 1..Len(waiting) : waiting[j] \in Requests
        BY LenProperties, ElementOfSeq
      <4>3. SubSeq(waiting, 1, i - 1) \in Seq(Requests)
        BY <4>2, SubSeqProperties
      <4>4. SubSeq(waiting, i + 1, Len(waiting)) \in Seq(Requests)
        BY <4>2, SubSeqProperties
      <4> QED
        BY <4>1, <4>3, <4>4, ConcatProperties
    <3>2. CASE pc[r] # "queued"
      BY <1>5, <3>2 DEF Cancel, Dropped, LeaveQueue
    <3> QED
      BY <3>1, <3>2
  <2>2. permits' \in Nat /\ inflight' \in Int
    BY <1>5 DEF Cancel, Dropped
  <2>3. pc' \in [Requests -> Places]
    BY <1>5 DEF Cancel, Dropped, Goto, Places, FinalAt
  <2>4. /\ \A q \in Requests : pc'[q] = pc[q] \/ (q = r /\ pc'[q] = "cancelled")
        /\ pc[r] # "idle"
    BY <1>5 DEF Cancel, Dropped, Goto, AwaitingAt
  <2>5. UNCHANGED <<msg, result, vector, attempt, requests_total, normalizations, store, call>>
    BY <1>5 DEF Cancel, Dropped
  <2>6. ServiceTypeOK' /\ DbTypeOK' /\ Arrived'
    BY <2>1, <2>2, <2>3, <2>4, <2>5
  <2>7. VectorsReady' /\ AttemptsInRange'
    BY <2>4, <2>5
  <2> QED
    BY <2>6, <2>7
<1> QED
  BY <1>1, <1>2, <1>3, <1>4, <1>5

LEMMA DbStep ==
  ASSUME TypeInv, NEW r \in Requests, NEW k \in 1..MaxRetries,
         DbApplies(r, k) \/ DbLoses(r, k)
  PROVE  OwnInv'
<1> USE DEF TypeInv, TypeOK, ServiceTypeOK, DbTypeOK, Arrived, VectorsReady, AttemptsInRange,
            OwnInv, BeforeCalls, poolVars, dbVars, metricVars, gateVars
<1>1. <<r, k>> \in Calls /\ call[<<r, k>>] = "sent"
  BY DEF Calls, DbApplies, DbLoses, Db!Lose
<1>2. vector[r] \in Vector
  BY <1>1, RouterAssumption
<1>3. /\ call' \in [Calls -> {"unsent", "sent", "applied", "lost"}]
      /\ \A c \in Calls : call'[c] # "unsent" <=> call[c] # "unsent"
  BY <1>1 DEF DbApplies, DbLoses, Db!ApplyUpsert, Db!ApplySearch, Db!Lose
<1>4. store' \in [Keys -> Vector \union {NoVector}]
  BY <1>2 DEF DbApplies, DbLoses, Db!ApplyUpsert, Db!ApplySearch, Db!Lose
<1> QED
  BY <1>3, <1>4 DEF DbApplies, DbLoses, Calls

LEMMA TypeInvStep == TypeInv /\ [Next]_vars => TypeInv'
<1> SUFFICES ASSUME TypeInv, [Next]_vars PROVE TypeInv'
  OBVIOUS
<1>1. Pool!PoolTypeOK'
  BY PoolTypeStep DEF TypeInv, TypeOK
<1>2. ASSUME NEW r \in Requests, ServerStep(r) PROVE OwnInv'
  BY <1>2, AdmissionStep, PipelineStep, EndOfPollStep, CallStep DEF ServerStep
<1>3. ASSUME NEW r \in Requests, EnvironmentStep(r) PROVE OwnInv'
  BY <1>3, AdmissionStep, CallStep, DbStep DEF EnvironmentStep
<1>4. CASE Finished \/ UNCHANGED vars
  BY <1>1, <1>4
  DEF Finished, vars, OwnInv, TypeInv, TypeOK, ServiceTypeOK, DbTypeOK, Arrived,
      VectorsReady, AttemptsInRange, gateVars, metricVars, dbVars
<1> QED
  BY <1>1, <1>2, <1>3, <1>4 DEF Next, OwnInv, TypeInv, TypeOK

\* The state of service, pool and database keeps its type: in particular no
\* request makes more than MaxRetries calls, and every f32 view, owned vector
\* and stored vector is made of bytes somebody sent.
THEOREM RouterTypeCorrect == Spec => []TypeOK
<1>1. Init => TypeInv
  BY TypeInvInit
<1>2. TypeInv /\ [Next]_vars => TypeInv'
  BY TypeInvStep
<1>3. TypeInv => TypeOK
  BY DEF TypeInv
<1> QED
  BY <1>1, <1>2, <1>3, PTL DEF Spec

\* The router implements the pool: whatever its requests do, errors, retries
\* and cancellations included, the pool sees a run of BufferPool.
THEOREM RouterImplementsPool == Spec => PoolIsImplemented
<1>1. Init => Pool!PoolInit
  BY DEF Init
<1>2. TypeInv /\ [Next]_vars => [Pool!PoolNext]_(Pool!poolVars)
  BY PoolStep, SamePool DEF TypeInv, TypeOK, Pool!poolVars, poolVars
<1>3. Init => TypeInv
  BY TypeInvInit
<1>4. TypeInv /\ [Next]_vars => TypeInv'
  BY TypeInvStep
<1> QED
  BY <1>1, <1>2, <1>3, <1>4, PTL DEF Spec, PoolIsImplemented, Pool!PoolSpec

-----------------------------------------------------------------------------
(* Who moves: a step is one request's, and counts of places follow its pc.  *)

\* How many requests are at one of the places A.
CountAt(f, A) == Cardinality({q \in Requests : f[q] \in A})

\* A function changed at r only changes a count by what happens at r.
LEMMA CountChanges ==
  ASSUME NEW r \in Requests, NEW f, NEW g, NEW A,
         \A q \in Requests \ {r} : g[q] = f[q]
  PROVE  /\ CountAt(f, A) \in Nat
         /\ CountAt(g, A) =
              CountAt(f, A) + (IF g[r] \in A THEN 1 ELSE 0) - (IF f[r] \in A THEN 1 ELSE 0)
<1> DEFINE F == {q \in Requests : f[q] \in A}
           G == {q \in Requests : g[q] \in A}
           O == F \ {r}
<1>1. IsFiniteSet(F) /\ Cardinality(F) \in Nat
  BY RouterAssumption, FS_Subset, FS_CardinalityType
<1>2. IsFiniteSet(O) /\ r \notin O
      /\ Cardinality(O) = IF r \in F THEN Cardinality(F) - 1 ELSE Cardinality(F)
  BY <1>1, FS_RemoveElement
<1>3. CASE g[r] \in A
  <2>1. G = O \cup {r}
    BY <1>3
  <2>2. Cardinality(G) = Cardinality(O) + 1
    BY <2>1, <1>2, FS_AddElement
  <2> QED
    BY <1>1, <1>2, <1>3, <2>2 DEF CountAt
<1>4. CASE g[r] \notin A
  <2>1. G = O
    BY <1>4
  <2> QED
    BY <1>1, <1>2, <1>4, <2>1 DEF CountAt
<1> QED
  BY <1>3, <1>4

Awaiting == {"await"}

\* A step of r: its place changes, with it the permits and the gauge.
Moves(r) ==
  /\ \A q \in Requests \ {r} : pc'[q] = pc[q]
  /\ permits' = permits + (IF pc[r] \in Admitted THEN 1 ELSE 0)
                        - (IF pc'[r] \in Admitted THEN 1 ELSE 0)
  /\ inflight' = inflight + (IF pc'[r] = "await" THEN 1 ELSE 0)
                          - (IF pc[r] = "await" THEN 1 ELSE 0)

LEMMA StepMoves ==
  ASSUME TypeInv, NEW r \in Requests, ServerStep(r) \/ EnvironmentStep(r)
  PROVE  Moves(r)
<1> USE DEF Admitted, RunningAt, AwaitingAt, Moves, Goto, gateVars
<1>1. pc \in [Requests -> Places] /\ permits \in Nat /\ inflight \in Int
  BY DEF TypeInv, TypeOK, ServiceTypeOK
<1>2. CASE (\E m \in Messages : Arrive(r, m)) \/ Admit(r) \/ Deliver(r) \/ RefuseOversize(r)
  BY <1>1, <1>2 DEF Arrive, Admit, Deliver, RefuseOversize
<1>3. CASE LookupRejects(r) \/ LookupFinds(r) \/ TakeBuffer(r) \/ AllocateBuffer(r)
  BY <1>1, <1>3 DEF LookupRejects, LookupFinds, BeginPoll, TakeBuffer, AllocateBuffer, Finish
<1>4. CASE AlignRejects(r) \/ AlignZeroCopy(r) \/ AlignCopies(r) \/ ComputeNorm(r)
  BY <1>1, <1>4 DEF AlignRejects, AlignZeroCopy, AlignCopies, ComputeNorm
<1>5. CASE DropRejects(r) \/ DropPrepares(r) \/ SendCall(r)
  BY <1>1, <1>5 DEF DropRejects, DropPrepares, SendCall, Finish
<1>6. CASE CallOk(r) \/ CallFails(r) \/ TimeoutGivesUp(r) \/ TimeoutRetries(r) \/ WakeUp(r)
  BY <1>1, <1>6 DEF CallOk, CallFails, TimeoutGivesUp, TimeoutRetries, WakeUp, EndCall, Finish
<1>7. CASE Cancel(r)
  BY <1>1, <1>7 DEF Cancel, Dropped, AwaitingAt
<1>8. CASE \E k \in 1..MaxRetries : DbApplies(r, k) \/ DbLoses(r, k)
  BY <1>1, <1>8 DEF DbApplies, DbLoses
<1> QED
  BY <1>2, <1>3, <1>4, <1>5, <1>6, <1>7, <1>8 DEF ServerStep, EnvironmentStep

CountInv ==
  /\ permits + CountAt(pc, Admitted) = MaxConcurrent
  /\ inflight = CountAt(pc, Awaiting)

LEMMA CountStep == TypeInv /\ CountInv /\ [Next]_vars => CountInv'
<1> SUFFICES ASSUME TypeInv, CountInv, [Next]_vars PROVE CountInv'
  OBVIOUS
<1> USE DEF CountInv
<1>1. permits \in Nat /\ inflight \in Int
  BY DEF TypeInv, TypeOK, ServiceTypeOK
<1>2. ASSUME NEW r \in Requests, ServerStep(r) \/ EnvironmentStep(r) PROVE CountInv'
  <2>1. Moves(r)
    BY <1>2, StepMoves
  <2>2. \A q \in Requests \ {r} : pc'[q] = pc[q]
    BY <2>1 DEF Moves
  <2>3. /\ CountAt(pc, Admitted) \in Nat
        /\ CountAt(pc', Admitted) = CountAt(pc, Admitted)
              + (IF pc'[r] \in Admitted THEN 1 ELSE 0) - (IF pc[r] \in Admitted THEN 1 ELSE 0)
    BY <2>2, CountChanges
  <2>4. /\ CountAt(pc, Awaiting) \in Nat
        /\ CountAt(pc', Awaiting) = CountAt(pc, Awaiting)
              + (IF pc'[r] \in Awaiting THEN 1 ELSE 0) - (IF pc[r] \in Awaiting THEN 1 ELSE 0)
    BY <2>2, CountChanges
  <2>5. permits' + CountAt(pc', Admitted) = MaxConcurrent
    BY <1>1, <2>1, <2>3 DEF Moves
  <2>6. inflight' = CountAt(pc', Awaiting)
    BY <1>1, <2>1, <2>4 DEF Moves, Awaiting
  <2> QED
    BY <2>5, <2>6
<1>3. CASE Finished \/ UNCHANGED vars
  BY <1>3 DEF Finished, vars, gateVars
<1> QED
  BY <1>2, <1>3 DEF Next

LEMMA CountStart == Init => CountInv
<1> SUFFICES ASSUME Init PROVE CountInv
  OBVIOUS
<1>1. {r \in Requests : pc[r] \in Admitted} = {} /\ {r \in Requests : pc[r] \in Awaiting} = {}
  BY DEF Init, Admitted, Awaiting, RunningAt, AwaitingAt
<1>2. CountAt(pc, Admitted) = 0 /\ CountAt(pc, Awaiting) = 0
  BY <1>1, FS_EmptySet DEF CountAt
<1> QED
  BY <1>2, RouterAssumption DEF Init, CountInv

LEMMA CountsAreExact == CountInv => PermitsAreConserved /\ InflightIsExact
<1>1. {r \in Requests : pc[r] = "await"} = {r \in Requests : pc[r] \in Awaiting}
  BY DEF Awaiting
<1> QED
  BY <1>1 DEF CountInv, CountAt, Admitted, PermitsAreConserved, InflightIsExact

\* Every permit of the limit is free or belongs to one request in progress:
\* answer, error, timeout and cancellation all give it back, once.
THEOREM RouterPermits == Spec => []PermitsAreConserved
<1>1. Init => TypeInv /\ CountInv
  BY TypeInvInit, CountStart
<1>2. TypeInv /\ CountInv /\ [Next]_vars => (TypeInv /\ CountInv)'
  BY TypeInvStep, CountStep
<1>3. CountInv => PermitsAreConserved
  BY CountsAreExact
<1> QED
  BY <1>1, <1>2, <1>3, PTL DEF Spec

\* The in-flight gauge counts exactly the calls somebody awaits.
THEOREM RouterGauge == Spec => []InflightIsExact
<1>1. Init => TypeInv /\ CountInv
  BY TypeInvInit, CountStart
<1>2. TypeInv /\ CountInv /\ [Next]_vars => (TypeInv /\ CountInv)'
  BY TypeInvStep, CountStep
<1>3. CountInv => InflightIsExact
  BY CountsAreExact
<1> QED
  BY <1>1, <1>2, <1>3, PTL DEF Spec

-----------------------------------------------------------------------------
(* What a place of the handler implies of the request that is there. *)

Fits(r) == ~msg[r].oversize /\ Registered(r) /\ msg[r].dim = SpecOf(r).dim

\* What the outcome of the synchronous part says of the message.
Outcome(r) ==
  \/ result[r] = "Pending" /\ LengthOK(r) /\ msg[r].norm # "nonfinite"
  \/ result[r] = "InvalidDim" /\ ~LengthOK(r)
  \/ result[r] = "InvalidNumeric" /\ LengthOK(r) /\ msg[r].norm = "nonfinite"

\* What the answer says of the message.
Answered(r) ==
  \/ result[r] = "TooLarge" /\ msg[r].oversize
  \/ result[r] \in {"Ok", "Vdb"} /\ ValidMessage(msg[r])
  \/ result[r] = "UnknownModel" /\ ~msg[r].oversize /\ ~Registered(r)
  \/ result[r] = "InvalidDim" /\ ~msg[r].oversize /\ Registered(r)
       /\ (msg[r].dim # SpecOf(r).dim \/ ~LengthOK(r))
  \/ result[r] = "InvalidNumeric" /\ Fits(r) /\ LengthOK(r) /\ msg[r].norm = "nonfinite"

Holding == {"align", "norm", "drop"}

Phase(r) ==
  /\ pc[r] = "idle" <=> msg[r] = NoMessage
  /\ pc[r] \in RunningAt \union {"await", "sleeping"} => Fits(r)
  /\ pc[r] \in Holding <=> held[r] # Pool!NoBuffer
  /\ pc[r] = "norm" => LengthOK(r) /\ View(r) = Raw(r)
  /\ pc[r] = "drop" => Outcome(r)
  /\ pc[r] = "drop" /\ result[r] = "Pending" =>
       vector[r] = [bytes |-> Raw(r), norm |-> msg[r].norm]
  /\ pc[r] \notin {"drop", "done"} => result[r] = "Pending"
  /\ pc[r] \in {"send", "await", "sleeping"} \/ attempt[r] > 0 =>
       ValidMessage(msg[r]) /\ GenuineVector(r, vector[r])
  /\ pc[r] \in {"await", "sleeping"} => attempt[r] > 0
  /\ pc[r] = "done" => Answered(r)

PhaseInv == \A r \in Requests : Phase(r)

\* A step of r leaves what the other requests' phases are about alone.
LEMMA OthersRest ==
  ASSUME TypeInv, NEW r \in Requests, ServerStep(r) \/ EnvironmentStep(r),
         NEW q \in Requests \ {r}
  PROVE  /\ pc'[q] = pc[q] /\ msg'[q] = msg[q] /\ result'[q] = result[q]
         /\ vector'[q] = vector[q] /\ attempt'[q] = attempt[q] /\ held'[q] = held[q]
<1> USE DEF Goto, poolVars, gateVars
<1>1. /\ pc \in [Requests -> Places] /\ msg \in [Requests -> Messages \union {NoMessage}]
      /\ result \in [Requests -> Results] /\ vector \in [Requests -> Vector \union {NoVector}]
      /\ attempt \in [Requests -> 0..MaxRetries]
      /\ held \in [Requests -> Pool!Buffer \union {Pool!NoBuffer}]
  BY DEF TypeInv, TypeOK, ServiceTypeOK, Pool!PoolTypeOK
<1>2. CASE (\E m \in Messages : Arrive(r, m)) \/ Admit(r) \/ Deliver(r) \/ RefuseOversize(r)
  BY <1>1, <1>2 DEF Arrive, Admit, Deliver, RefuseOversize
<1>3. CASE LookupRejects(r) \/ LookupFinds(r) \/ TakeBuffer(r) \/ AllocateBuffer(r)
  BY <1>1, <1>3 DEF LookupRejects, LookupFinds, BeginPoll, TakeBuffer, AllocateBuffer, Finish,
                    Pool!TakePooled, Pool!TakeMisses, Pool!TakeFallback
<1>4. CASE AlignRejects(r) \/ AlignZeroCopy(r) \/ AlignCopies(r) \/ ComputeNorm(r)
  BY <1>1, <1>4 DEF AlignRejects, AlignZeroCopy, AlignCopies, ComputeNorm, Pool!Copy
<1>5. CASE DropRejects(r) \/ DropPrepares(r) \/ SendCall(r)
  BY <1>1, <1>5 DEF DropRejects, DropPrepares, SendCall, Finish, Pool!Drop
<1>6. CASE CallOk(r) \/ CallFails(r) \/ TimeoutGivesUp(r) \/ TimeoutRetries(r) \/ WakeUp(r)
  BY <1>1, <1>6 DEF CallOk, CallFails, TimeoutGivesUp, TimeoutRetries, WakeUp, EndCall, Finish
<1>7. CASE Cancel(r)
  BY <1>1, <1>7 DEF Cancel, Dropped
<1>8. CASE \E k \in 1..MaxRetries : DbApplies(r, k) \/ DbLoses(r, k)
  BY <1>1, <1>8 DEF DbApplies, DbLoses
<1> QED
  BY <1>2, <1>3, <1>4, <1>5, <1>6, <1>7, <1>8 DEF ServerStep, EnvironmentStep

LEMMA OthersPhase ==
  ASSUME TypeInv, NEW r \in Requests, ServerStep(r) \/ EnvironmentStep(r),
         NEW q \in Requests \ {r}, Phase(q)
  PROVE  Phase(q)'
BY OthersRest
DEF Phase, Fits, Outcome, Answered, Registered, SpecOf, LengthOK, View, Raw, GenuineVector

-----------------------------------------------------------------------------
(* The scratch buffer holds every payload that is copied into it. *)

LEMMA PoolBuffers ==
  /\ Pool!NewBuffer(PoolCapacityBytes) \in Pool!Buffer
  /\ \A b \in Pool!Buffer : b # Pool!NoBuffer /\ Pool!Capacity(b) = PoolCapacityBytes
<1> USE DEF Pool!Buffer, PoolProofs!Buffer, Pool!Bytes, PoolProofs!Bytes,
            Pool!NoBuffer, PoolProofs!NoBuffer, Pool!NewBuffer, PoolProofs!NewBuffer,
            Pool!DivCeil4, PoolProofs!DivCeil4, Pool!Capacity, PoolProofs!Capacity
<1>1. PoolProofs!NewBuffer(PoolCapacityBytes) \in PoolProofs!Buffer
  BY PoolProofs!NewBufferType, PoolAssumptionHolds
<1>2. \A b \in PoolProofs!Buffer : b # PoolProofs!NoBuffer
  BY PoolProofs!BufferIsNotNoBuffer, PoolAssumptionHolds
<1>3. \A b \in PoolProofs!Buffer : PoolProofs!Capacity(b) = PoolCapacityBytes
  BY PoolProofs!BufferCapacity, PoolAssumptionHolds
<1> QED
  BY <1>1, <1>2, <1>3

LEMMA ScratchCopy ==
  ASSUME Pool!PoolTypeOK, NEW r \in Requests, msg[r] \in Messages,
         Registered(r), LengthOK(r), held[r] # Pool!NoBuffer
  PROVE  /\ ScratchFits(r)
         /\ Pool!CopyInto(held[r], Raw(r)) # Pool!NoBuffer
         /\ Pool!Filled(Pool!CopyInto(held[r], Raw(r))) = Raw(r)
<1> DEFINE n == msg[r].len
           b == held[r]
           c == Pool!CopyInto(b, Raw(r))
<1>1. n \in Nat /\ n = SpecOf(r).dim * 4
  BY MessageType DEF LengthOK
<1>2. SpecOf(r).dim \in Nat \ {0} /\ SpecOf(r).dim <= MaxDim
  BY MaxDimType, RouterAssumption DEF SpecOf, Registered
<1>3. n <= PoolCapacityBytes /\ n % 4 = 0 /\ n > 0 /\ PoolCapacityBytes \in Nat
  BY <1>1, <1>2, MaxDimType DEF PoolCapacityBytes
<1>4. Len(Raw(r)) = n /\ \A i \in 1..n : Raw(r)[i] = r
  BY RawType
<1>5. b \in Pool!Buffer
  BY DEF Pool!PoolTypeOK
<1>6. Pool!Capacity(b) = PoolCapacityBytes
  BY <1>5, PoolBuffers
<1>7. c.data = [i \in 1..PoolCapacityBytes |-> IF i <= n THEN Raw(r)[i] ELSE b.data[i]]
      /\ c.len = n
  BY <1>4, <1>6 DEF Pool!CopyInto
<1>8. ScratchFits(r)
  BY <1>3, <1>4, <1>6, <1>7 DEF ScratchFits, Pool!CopyFits, Pool!Castable
<1>9. c # Pool!NoBuffer
  BY <1>3, <1>7 DEF Pool!NoBuffer
<1>10. SubSeq(c.data, 1, n) = Raw(r)
  <2>1. \A i \in 1..n : c.data[i] = r
    BY <1>3, <1>4, <1>7
  <2>2. /\ SubSeq(c.data, 1, n) \in Seq(Requests \union {Zero})
        /\ Len(SubSeq(c.data, 1, n)) = IF 1 <= n THEN n - 1 + 1 ELSE 0
        /\ \A i \in 1..(n - 1 + 1) : SubSeq(c.data, 1, n)[i] = c.data[1 + i - 1]
    <3>1. 1 \in Int /\ n \in Int /\ \A i \in 1..n : c.data[i] \in Requests \union {Zero}
      BY <1>1, <2>1
    <3> HIDE DEF c, n
    <3> QED
      BY <3>1, SubSeqProperties
  <2>4. Len(SubSeq(c.data, 1, n)) = n /\ \A i \in 1..n : SubSeq(c.data, 1, n)[i] = r
    <3> DEFINE t == SubSeq(c.data, 1, n)
    <3>1. 1 <= n /\ n - 1 + 1 = n /\ n \in Nat
      BY <1>1, <1>3
    <3>2. ASSUME NEW i \in 1..n PROVE t[i] = r
      <4>1. 1 + i - 1 = i
        BY <3>1
      <4>2. t[i] = c.data[1 + i - 1]
        BY <2>2, <3>1, Zenon
      <4> HIDE DEF t, c, n
      <4> QED
        BY <2>1, <4>1, <4>2, Zenon
    <3> HIDE DEF t, c, n
    <3> QED
      BY <2>2, <3>1, <3>2 DEF t
  <2>3. Raw(r) \in Seq(Requests \union {Zero})
    BY RawType
  <2>5. /\ Len(SubSeq(c.data, 1, n)) = Len(Raw(r))
        /\ \A i \in 1..Len(SubSeq(c.data, 1, n)) : SubSeq(c.data, 1, n)[i] = Raw(r)[i]
    <3> HIDE DEF c, n
    <3> QED
      BY <1>4, <2>4
  <2> HIDE DEF c, n
  <2> QED
    BY <2>2, <2>3, <2>5, SeqEqual
<1> QED
  BY <1>7, <1>8, <1>9, <1>10 DEF Pool!Filled

LEMMA FitsIsValid ==
  ASSUME NEW r \in Requests, msg[r] \in Messages, Fits(r)
  PROVE  LengthOK(r) /\ msg[r].norm # "nonfinite" <=> ValidMessage(msg[r])
BY MessageType, RouterAssumption DEF Fits, LengthOK, ValidMessage, Registered, SpecOf

-----------------------------------------------------------------------------
(* The phase of the request that steps. *)

LEMMA AdmissionPhase ==
  ASSUME TypeInv, NEW r \in Requests, Phase(r),
         \/ \E m \in Messages : Arrive(r, m)
         \/ Admit(r) \/ Deliver(r)
         \/ RefuseOversize(r) \/ LookupRejects(r) \/ LookupFinds(r)
  PROVE  Phase(r)'
<1> USE DEF Phase, Goto, RunningAt, Holding, gateVars, metricVars, poolVars
<1>1. /\ pc \in [Requests -> Places] /\ msg \in [Requests -> Messages \union {NoMessage}]
      /\ result \in [Requests -> Results]
      /\ attempt[r] \in Nat
      /\ pc[r] \in BeforeCalls => attempt[r] = 0
  BY RouterAssumption DEF TypeInv, TypeOK, ServiceTypeOK, AttemptsInRange
<1>2. ASSUME NEW m \in Messages, Arrive(r, m) PROVE Phase(r)'
  BY <1>1, <1>2, RouterAssumption DEF Arrive, BeforeCalls
<1>3. CASE Admit(r) \/ Deliver(r)
  BY <1>1, <1>3 DEF Admit, Deliver, BeforeCalls
<1>4. CASE RefuseOversize(r)
  BY <1>1, <1>4 DEF RefuseOversize, BeforeCalls, Answered
<1>5. CASE LookupRejects(r)
  BY <1>1, <1>5 DEF LookupRejects, BeginPoll, LookupError, Finish, BeforeCalls, Answered,
                    Registered, SpecOf
<1>6. CASE LookupFinds(r)
  BY <1>1, <1>6 DEF LookupFinds, BeginPoll, LookupError, BeforeCalls, Fits, Registered, SpecOf
<1> QED
  BY <1>2, <1>3, <1>4, <1>5, <1>6

LEMMA BufferPhase ==
  ASSUME TypeInv, NEW r \in Requests, Phase(r),
         \/ TakeBuffer(r) \/ AllocateBuffer(r)
         \/ AlignRejects(r) \/ AlignZeroCopy(r) \/ AlignCopies(r)
  PROVE  Phase(r)'
<1> USE DEF Phase, Goto, RunningAt, Holding, gateVars, metricVars, poolVars
<1>1. /\ pc \in [Requests -> Places] /\ result \in [Requests -> Results]
      /\ held \in [Requests -> Pool!Buffer \union {Pool!NoBuffer}]
      /\ Pool!PoolTypeOK /\ (pc[r] # "idle" => msg[r] \in Messages)
      /\ attempt[r] \in Nat
      /\ pc[r] \in BeforeCalls => attempt[r] = 0
  BY RouterAssumption
  DEF TypeInv, TypeOK, ServiceTypeOK, AttemptsInRange, Arrived, Pool!PoolTypeOK
<1>2. CASE TakeBuffer(r)
  <2>1. CASE Pool!TakePooled(r) /\ Goto(r, "align")
    <3>1. queue \in Seq(Pool!Buffer) /\ queue # << >>
      BY <1>1, <2>1 DEF Pool!PoolTypeOK, Pool!TakePooled
    <3>2. Head(queue) \in Pool!Buffer
      BY <3>1, HeadTailProperties
    <3>3. held'[r] # Pool!NoBuffer
      BY <1>1, <2>1, <3>2, PoolBuffers DEF Pool!TakePooled
    <3> QED
      BY <1>1, <1>2, <2>1, <3>3 DEF TakeBuffer, BeforeCalls, Fits, Registered, SpecOf
  <2>2. CASE Pool!TakeMisses(r) /\ Goto(r, "fallback")
    BY <1>1, <1>2, <2>2 DEF TakeBuffer, Pool!TakeMisses, BeforeCalls, Fits, Registered, SpecOf
  <2> QED
    BY <1>2, <2>1, <2>2 DEF TakeBuffer
<1>3. CASE AllocateBuffer(r)
  <2>1. held'[r] # Pool!NoBuffer
    BY <1>1, <1>3, PoolBuffers DEF AllocateBuffer, Pool!TakeFallback
  <2> QED
    BY <1>1, <1>3, <2>1 DEF AllocateBuffer, BeforeCalls, Fits, Registered, SpecOf
<1>4. CASE AlignRejects(r)
  BY <1>1, <1>4 DEF AlignRejects, BeforeCalls, Fits, Registered, SpecOf, Outcome, LengthOK
<1>5. CASE AlignZeroCopy(r)
  BY <1>1, <1>5 DEF AlignZeroCopy, BeforeCalls, Fits, Registered, SpecOf, LengthOK, View, Raw
<1>6. CASE AlignCopies(r)
  <2>1. msg[r] \in Messages /\ Fits(r) /\ LengthOK(r) /\ held[r] # Pool!NoBuffer
    BY <1>1, <1>6 DEF AlignCopies
  <2>2. /\ ScratchFits(r) /\ Pool!CopyInto(held[r], Raw(r)) # Pool!NoBuffer
        /\ Pool!Filled(Pool!CopyInto(held[r], Raw(r))) = Raw(r)
    BY <1>1, <2>1, ScratchCopy DEF Fits
  <2>3. held'[r] = Pool!CopyInto(held[r], Raw(r)) /\ pc' = [pc EXCEPT ![r] = "norm"]
        /\ UNCHANGED <<msg, result, vector, attempt>> /\ pc[r] = "align" /\ ~msg[r].aligned
    BY <1>1, <1>6, <2>2 DEF AlignCopies, Pool!Copy
  <2>4. View(r)' = Raw(r)' /\ LengthOK(r)' /\ Fits(r)'
    BY <2>1, <2>2, <2>3 DEF View, Raw, LengthOK, Fits, SpecOf, Registered
  <2> QED
    BY <1>1, <2>2, <2>3, <2>4 DEF BeforeCalls
<1> QED
  BY <1>2, <1>3, <1>4, <1>5, <1>6

LEMMA NormPhase ==
  ASSUME TypeInv, NEW r \in Requests, Phase(r),
         ComputeNorm(r) \/ DropRejects(r) \/ DropPrepares(r)
  PROVE  Phase(r)'
<1> USE DEF Phase, Goto, RunningAt, Holding, gateVars, metricVars, poolVars
<1>1. /\ pc \in [Requests -> Places] /\ result \in [Requests -> Results]
      /\ held \in [Requests -> Pool!Buffer \union {Pool!NoBuffer}]
      /\ vector \in [Requests -> Vector \union {NoVector}]
      /\ (pc[r] # "idle" => msg[r] \in Messages)
      /\ attempt[r] \in Nat
      /\ pc[r] \in BeforeCalls => attempt[r] = 0
  BY RouterAssumption
  DEF TypeInv, TypeOK, ServiceTypeOK, AttemptsInRange, Arrived, Pool!PoolTypeOK
<1>2. CASE ComputeNorm(r)
  <2>1. CASE msg[r].norm = "nonfinite"
    BY <1>1, <1>2, <2>1
    DEF ComputeNorm, BeforeCalls, Outcome, Fits, Registered, SpecOf, LengthOK
  <2>2. CASE msg[r].norm # "nonfinite"
    <3>1. vector'[r] = [bytes |-> Raw(r), norm |-> msg[r].norm]
          /\ pc[r] = "norm" /\ pc' = [pc EXCEPT ![r] = "drop"]
          /\ UNCHANGED <<msg, result, attempt, held>>
      BY <1>1, <1>2, <2>2 DEF ComputeNorm
    <3> QED
      BY <1>1, <2>2, <3>1 DEF BeforeCalls, Outcome, Fits, Registered, SpecOf, LengthOK, Raw
  <2> QED
    BY <2>1, <2>2
<1>3. CASE DropRejects(r)
  BY <1>1, <1>3
  DEF DropRejects, Pool!Drop, Finish, BeforeCalls, Outcome, Answered, Fits, Registered,
      SpecOf, LengthOK
<1>4. CASE DropPrepares(r)
  <2>1. msg[r] \in Messages /\ Fits(r) /\ result[r] = "Pending" /\ ValidMessage(msg[r])
        /\ vector[r] = [bytes |-> Raw(r), norm |-> msg[r].norm]
    BY <1>1, <1>4, FitsIsValid DEF DropPrepares, Outcome
  <2>2. held'[r] = Pool!NoBuffer /\ pc[r] = "drop" /\ pc' = [pc EXCEPT ![r] = "send"]
        /\ UNCHANGED <<msg, result, attempt>>
    BY <1>1, <1>4 DEF DropPrepares, Pool!Drop
  <2>3. vector'[r] = [bytes |-> Raw(r),
                      norm |-> IF WillDivide(r) THEN "unit" ELSE msg[r].norm]
    BY <1>1, <1>4, <2>1 DEF DropPrepares
  <2>4. GenuineVector(r, vector[r])'
    BY <2>2, <2>3 DEF GenuineVector, WillDivide, Raw, SpecOf
  <2> QED
    BY <1>1, <2>1, <2>2, <2>4 DEF BeforeCalls, Fits, Registered, SpecOf
<1> QED
  BY <1>2, <1>3, <1>4

LEMMA CallPhase ==
  ASSUME TypeInv, NEW r \in Requests, Phase(r),
         \/ SendCall(r) \/ CallOk(r) \/ CallFails(r) \/ TimeoutGivesUp(r)
         \/ TimeoutRetries(r) \/ WakeUp(r) \/ Cancel(r)
         \/ \E k \in 1..MaxRetries : DbApplies(r, k) \/ DbLoses(r, k)
  PROVE  Phase(r)'
<1> USE DEF Phase, Goto, RunningAt, Holding, gateVars, metricVars, poolVars, dbVars
<1>1. /\ pc \in [Requests -> Places] /\ result \in [Requests -> Results]
      /\ attempt \in [Requests -> 0..MaxRetries] /\ attempt[r] \in Nat
  BY RouterAssumption DEF TypeInv, TypeOK, ServiceTypeOK
<1> USE DEF Fits, Registered, SpecOf, GenuineVector, Raw
<1>2. CASE SendCall(r)
  BY <1>1, <1>2 DEF SendCall
<1>3. CASE CallOk(r) \/ CallFails(r) \/ TimeoutGivesUp(r)
  BY <1>1, <1>3 DEF CallOk, CallFails, TimeoutGivesUp, EndCall, Finish, Answered
<1>4. CASE TimeoutRetries(r) \/ WakeUp(r)
  BY <1>1, <1>4 DEF TimeoutRetries, EndCall, WakeUp
<1>5. CASE Cancel(r)
  BY <1>1, <1>5 DEF Cancel, Dropped, AwaitingAt
<1>6. CASE \E k \in 1..MaxRetries : DbApplies(r, k) \/ DbLoses(r, k)
  BY <1>1, <1>6 DEF DbApplies, DbLoses, View, LengthOK, Outcome, Answered
<1> QED
  BY <1>2, <1>3, <1>4, <1>5, <1>6

LEMMA PhaseStep == TypeInv /\ PhaseInv /\ [Next]_vars => PhaseInv'
<1> SUFFICES ASSUME TypeInv, PhaseInv, [Next]_vars PROVE PhaseInv'
  OBVIOUS
<1>1. ASSUME NEW r \in Requests, ServerStep(r) \/ EnvironmentStep(r) PROVE PhaseInv'
  <2>1. Phase(r)'
    BY <1>1, AdmissionPhase, BufferPhase, NormPhase, CallPhase
    DEF PhaseInv, ServerStep, EnvironmentStep
  <2>2. \A q \in Requests \ {r} : Phase(q)'
    BY <1>1, OthersPhase DEF PhaseInv
  <2> QED
    BY <2>1, <2>2 DEF PhaseInv
<1>2. CASE Finished \/ UNCHANGED vars
  BY <1>2
  DEF Finished, vars, poolVars, gateVars, PhaseInv, Phase, Fits, Outcome, Answered, Registered,
      SpecOf, LengthOK, View, Raw, GenuineVector
<1> QED
  BY <1>1, <1>2 DEF Next

LEMMA PhaseStart == Init => PhaseInv
BY DEF Init, PhaseInv, Phase, RunningAt, Holding, Pool!PoolInit

SafetyInv == TypeInv /\ PhaseInv

LEMMA SafetyStart == Init => SafetyInv
BY TypeInvInit, PhaseStart DEF SafetyInv

LEMMA SafetyStep == SafetyInv /\ [Next]_vars => SafetyInv'
BY TypeInvStep, PhaseStep DEF SafetyInv

LEMMA SentIsValid ==
  ASSUME SafetyInv, NEW r \in Requests, NEW k \in 1..MaxRetries, call[<<r, k>>] # "unsent"
  PROVE  /\ attempt[r] > 0 /\ msg[r] \in Messages /\ msg[r] # NoMessage
         /\ ValidMessage(msg[r]) /\ GenuineVector(r, vector[r])
         /\ Key(r) \in Keys
<1>1. attempt[r] > 0
  <2>1. attempt[r] \in 0..MaxRetries /\ k <= attempt[r]
    BY DEF SafetyInv, TypeInv, TypeOK, ServiceTypeOK, AttemptsInRange
  <2> QED
    BY <2>1, RouterAssumption
<1>2. pc[r] # "idle" /\ ValidMessage(msg[r]) /\ GenuineVector(r, vector[r])
  <2>1. Phase(r)
    BY DEF SafetyInv, PhaseInv
  <2>2. pc[r] # "idle"
    BY <1>1 DEF SafetyInv, TypeInv, AttemptsInRange, BeforeCalls
  <2> QED
    BY <1>1, <2>1, <2>2 DEF Phase
<1>3. msg[r] \in Messages /\ msg[r].point \in Points
  BY <1>2, RouterAssumption DEF SafetyInv, TypeInv, Arrived, Message
<1> QED
  BY <1>1, <1>2, <1>3, RouterAssumption DEF Key, Keys, Namespaces, SpecOf, ValidMessage

LEMMA AnswersFit == SafetyInv => AnswerFitsMessage
<1> SUFFICES ASSUME SafetyInv, NEW r \in Requests
    PROVE  /\ Sent(r) => ValidMessage(msg[r])
           /\ pc[r] = "done" =>
                (GrpcStatus(result[r]) \in {"ok", "unavailable"} <=> ValidMessage(msg[r]))
  BY DEF AnswerFitsMessage
<1>1. Sent(r) => ValidMessage(msg[r])
  BY SentIsValid DEF Sent
<1>2. ASSUME pc[r] = "done"
      PROVE  GrpcStatus(result[r]) \in {"ok", "unavailable"} <=> ValidMessage(msg[r])
  <2>1. Answered(r) /\ msg[r] \in Messages
    BY <1>2 DEF SafetyInv, PhaseInv, Phase, TypeInv, Arrived
  <2>2. msg[r].len \in Nat /\ msg[r].dim \in Nat
    BY <2>1, RouterAssumption DEF Message
  <2> QED
    BY <2>1, <2>2
    DEF Answered, GrpcStatus, ValidMessage, Fits, Registered, LengthOK, SpecOf
<1> QED
  BY <1>1, <1>2

\* not_found and invalid_argument are for malformed requests, ok and unavailable
\* for well-formed ones, and only these reach the database: in particular the
\* scratch buffers hold every payload of a registered model.
THEOREM RouterAnswers == Spec => []AnswerFitsMessage
BY SafetyStart, SafetyStep, AnswersFit, PTL DEF Spec

-----------------------------------------------------------------------------
(* The database: who wrote what is stored. *)

\* What a request that has made a call carries is settled.
LEMMA Settled ==
  ASSUME SafetyInv, [Next]_vars, NEW q \in Requests, attempt[q] > 0
  PROVE  msg'[q] = msg[q] /\ vector'[q] = vector[q] /\ attempt'[q] > 0
<1> USE DEF gateVars, metricVars, poolVars, dbVars
<1>1. attempt \in [Requests -> 0..MaxRetries] /\ attempt[q] \in Nat /\ pc[q] \notin BeforeCalls
  BY RouterAssumption DEF SafetyInv, TypeInv, TypeOK, ServiceTypeOK, AttemptsInRange
<1>2. ASSUME NEW r \in Requests, ServerStep(r) \/ EnvironmentStep(r), r # q
      PROVE  msg'[q] = msg[q] /\ vector'[q] = vector[q] /\ attempt'[q] = attempt[q]
  BY <1>2, OthersRest DEF SafetyInv
<1>3. ASSUME ServerStep(q) \/ EnvironmentStep(q)
      PROVE  msg'[q] = msg[q] /\ vector'[q] = vector[q] /\ attempt'[q] > 0
  <2>1. CASE SendCall(q)
    BY <1>1, <2>1 DEF SendCall
  <2>2. CASE ServerStep(q) /\ ~SendCall(q)
    BY <1>1, <2>2
    DEF ServerStep, BeforeCalls, Admit, RefuseOversize, LookupRejects, LookupFinds, BeginPoll,
        TakeBuffer, AllocateBuffer, AlignRejects, AlignZeroCopy, AlignCopies, ComputeNorm,
        DropRejects, DropPrepares, EndCall, TimeoutGivesUp, TimeoutRetries, WakeUp
  <2>3. CASE EnvironmentStep(q)
    BY <1>1, <2>3
    DEF EnvironmentStep, BeforeCalls, Arrive, Deliver, CallOk, CallFails, EndCall, Cancel, Dropped,
        DbApplies, DbLoses
  <2> QED
    BY <1>3, <2>1, <2>2, <2>3
<1>4. CASE Finished \/ UNCHANGED vars
  BY <1>4 DEF Finished, vars
<1> QED
  BY <1>1, <1>2, <1>3, <1>4 DEF Next

\* Only the database applies a call or writes.
LEMMA StoreRests ==
  ASSUME SafetyInv, [Next]_vars,
         ~\E r \in Requests : \E k \in 1..MaxRetries : DbApplies(r, k)
  PROVE  /\ store' = store
         /\ \A c \in Calls : call'[c] = "applied" <=> call[c] = "applied"
<1> USE DEF gateVars, metricVars, poolVars, dbVars
<1>1. call \in [Calls -> {"unsent", "sent", "applied", "lost"}]
  BY DEF SafetyInv, TypeInv, TypeOK, DbTypeOK
<1>2. ASSUME NEW r \in Requests, ServerStep(r), ~SendCall(r) PROVE UNCHANGED dbVars
  BY <1>2
  DEF ServerStep, Admit, RefuseOversize, LookupRejects, LookupFinds, BeginPoll,
      TakeBuffer, AllocateBuffer, AlignRejects, AlignZeroCopy, AlignCopies, ComputeNorm,
      DropRejects, DropPrepares, EndCall, TimeoutGivesUp, TimeoutRetries, WakeUp
<1>3. ASSUME NEW r \in Requests, SendCall(r)
      PROVE  /\ store' = store
             /\ \A c \in Calls : call'[c] = "applied" <=> call[c] = "applied"
  BY <1>1, <1>3 DEF SendCall, Db!Transmit
<1>4. ASSUME NEW r \in Requests, EnvironmentStep(r)
      PROVE  /\ store' = store
             /\ \A c \in Calls : call'[c] = "applied" <=> call[c] = "applied"
  <2>1. CASE \E k \in 1..MaxRetries : DbLoses(r, k)
    BY <1>1, <2>1 DEF DbLoses, Db!Lose
  <2>2. CASE ~\E k \in 1..MaxRetries : DbLoses(r, k)
    BY <1>4, <2>2
    DEF EnvironmentStep, Arrive, Deliver, CallOk, CallFails, EndCall, Cancel, Dropped
  <2> QED
    BY <2>1, <2>2
<1>5. CASE Finished \/ UNCHANGED vars
  BY <1>5 DEF Finished, vars
<1> QED
  BY <1>2, <1>3, <1>4, <1>5 DEF Next

Applied(q)   == \E k \in 1..MaxRetries : call[<<q, k>>] = "applied"
Wrote(q, k)  == Applied(q) /\ msg[q].op = "upsert" /\ Key(q) = k

\* What is stored is the vector of a request that wrote there.
StoreInv ==
  \A k \in Keys :
    store[k] # NoVector \/ (\E q \in Requests : Wrote(q, k)) =>
      \E q \in Requests : Wrote(q, k) /\ store[k] = vector[q]

LEMMA StoreStep == SafetyInv /\ StoreInv /\ [Next]_vars => StoreInv'
<1> SUFFICES ASSUME SafetyInv, StoreInv, [Next]_vars PROVE StoreInv'
  OBVIOUS
<1>1. ASSUME NEW q \in Requests, Applied(q)
      PROVE  msg'[q] = msg[q] /\ vector'[q] = vector[q] /\ Key(q)' = Key(q)
  BY <1>1, SentIsValid, Settled DEF Applied, Key, SpecOf
<1>2. CASE ~\E r \in Requests : \E k \in 1..MaxRetries : DbApplies(r, k)
  <2>1. store' = store /\ \A q \in Requests : Applied(q)' <=> Applied(q)
    BY <1>2, StoreRests DEF Applied, Calls
  <2>2. \A q \in Requests : \A k : Wrote(q, k)' <=> Wrote(q, k)
    BY <1>1, <2>1 DEF Wrote
  <2>3. \A q \in Requests : \A k : Wrote(q, k) => vector'[q] = vector[q]
    BY <1>1 DEF Wrote
  <2> QED
    BY <2>1, <2>2, <2>3 DEF StoreInv
<1>3. ASSUME NEW r \in Requests, NEW j \in 1..MaxRetries, DbApplies(r, j)
      PROVE  StoreInv'
  <2>1. call[<<r, j>>] = "sent" /\ <<r, j>> \in Calls
    BY <1>3 DEF DbApplies, Calls
  <2>2. call' = [call EXCEPT ![<<r, j>>] = "applied"] /\ UNCHANGED <<msg, vector>>
    BY <1>3 DEF DbApplies, Db!ApplyUpsert, Db!ApplySearch
  <2>3. call \in [Calls -> {"unsent", "sent", "applied", "lost"}]
        /\ store \in [Keys -> Vector \union {NoVector}]
    BY DEF SafetyInv, TypeInv, TypeOK, DbTypeOK
  <2>4. \A q \in Requests : Applied(q)' <=> Applied(q) \/ q = r
    BY <2>1, <2>2, <2>3 DEF Applied, Calls
  <2>5. \A q \in Requests : Key(q)' = Key(q)
    BY <2>2 DEF Key, SpecOf
  <2>6. CASE msg[r].op # "upsert"
    <3>1. store' = store
      BY <1>3, <2>6 DEF DbApplies, Db!ApplySearch
    <3>2. \A q \in Requests : \A k : Wrote(q, k)' <=> Wrote(q, k)
      BY <2>2, <2>4, <2>5, <2>6 DEF Wrote
    <3> QED
      BY <2>2, <3>1, <3>2 DEF StoreInv
  <2>7. CASE msg[r].op = "upsert"
    <3>1. Key(r) \in Keys
      BY <2>1, SentIsValid
    <3>2. store' = [store EXCEPT ![Key(r)] = vector[r]]
      BY <1>3, <2>7 DEF DbApplies, Db!ApplyUpsert
    <3>3. \A q \in Requests : \A k :
            Wrote(q, k)' <=> Wrote(q, k) \/ (q = r /\ k = Key(r))
      BY <2>2, <2>4, <2>5, <2>7 DEF Wrote
    <3>4. ASSUME NEW k \in Keys, k # Key(r),
                 store'[k] # NoVector \/ \E q \in Requests : Wrote(q, k)'
          PROVE  \E q \in Requests : Wrote(q, k)' /\ store'[k] = vector'[q]
      <4>1. store'[k] = store[k] /\ \A q \in Requests : Wrote(q, k)' <=> Wrote(q, k)
        BY <2>3, <3>2, <3>3, <3>4
      <4> QED
        BY <2>2, <3>4, <4>1 DEF StoreInv
    <3>5. ASSUME NEW k \in Keys, k = Key(r)
          PROVE  Wrote(r, k)' /\ store'[k] = vector'[r]
      BY <2>2, <2>3, <3>2, <3>3, <3>5
    <3>6. \A k \in Keys :
            store'[k] # NoVector \/ (\E q \in Requests : Wrote(q, k)') =>
              \E q \in Requests : Wrote(q, k)' /\ store'[k] = vector'[q]
      BY <3>4, <3>5
    <3> QED
      BY <3>6 DEF StoreInv
  <2> QED
    BY <2>6, <2>7
<1> QED
  BY <1>2, <1>3

LEMMA StoreStart == Init => StoreInv
BY DEF Init, Db!DbInit, StoreInv, Wrote, Applied, Calls, Keys

\* An ok answer is about the last call made, and that was applied.
OkInv ==
  \A r \in Requests :
    result[r] = "Ok" => attempt[r] > 0 /\ call[CurrentCall(r)] = "applied"

\* A request that is over keeps its outcome.
LEMMA FinalStays ==
  ASSUME SafetyInv, [Next]_vars, NEW q \in Requests, pc[q] \in FinalAt
  PROVE  pc'[q] = pc[q] /\ result'[q] = result[q] /\ attempt'[q] = attempt[q]
<1> USE DEF gateVars, metricVars, poolVars, dbVars
<1>1. ASSUME NEW r \in Requests, ServerStep(r) \/ EnvironmentStep(r), r # q
      PROVE  pc'[q] = pc[q] /\ result'[q] = result[q] /\ attempt'[q] = attempt[q]
  BY <1>1, OthersRest DEF SafetyInv
<1>2. ~ServerStep(q)
  BY DEF ServerStep, Admit, RefuseOversize, LookupRejects, LookupFinds, BeginPoll,
         TakeBuffer, AllocateBuffer, AlignRejects, AlignZeroCopy, AlignCopies, ComputeNorm,
         DropRejects, DropPrepares, SendCall, EndCall, TimeoutGivesUp, TimeoutRetries, WakeUp,
         FinalAt
<1>3. ASSUME EnvironmentStep(q)
      PROVE  pc' = pc /\ result' = result /\ attempt' = attempt
  BY <1>3
  DEF EnvironmentStep, Arrive, Deliver, CallOk, CallFails, EndCall, Cancel, Dropped, AwaitingAt,
      DbApplies, DbLoses, FinalAt
<1>4. CASE Finished \/ UNCHANGED vars
  BY <1>4 DEF Finished, vars
<1> QED
  BY <1>1, <1>2, <1>3, <1>4 DEF Next

LEMMA AppliedStays ==
  ASSUME SafetyInv, [Next]_vars, NEW c \in Calls, call[c] = "applied"
  PROVE  call'[c] = "applied"
<1>1. CASE ~\E r \in Requests : \E k \in 1..MaxRetries : DbApplies(r, k)
  BY <1>1, StoreRests
<1>2. ASSUME NEW r \in Requests, NEW k \in 1..MaxRetries, DbApplies(r, k)
      PROVE  call'[c] = "applied"
  <2>1. call \in [Calls -> {"unsent", "sent", "applied", "lost"}]
    BY DEF SafetyInv, TypeInv, TypeOK, DbTypeOK
  <2> QED
    BY <1>2, <2>1 DEF DbApplies, Db!ApplyUpsert, Db!ApplySearch
<1> QED
  BY <1>1, <1>2

\* Ok is the answer of one action only.
LEMMA OkIsNew ==
  ASSUME SafetyInv, [Next]_vars, NEW q \in Requests, result'[q] = "Ok"
  PROVE  result[q] = "Ok" \/ CallOk(q)
<1> USE DEF gateVars, metricVars, poolVars, dbVars
<1>1. result \in [Requests -> Results] /\ Phase(q)
  BY DEF SafetyInv, TypeInv, TypeOK, ServiceTypeOK, PhaseInv
<1>2. ASSUME NEW r \in Requests, ServerStep(r) \/ EnvironmentStep(r), r # q
      PROVE  result'[q] = result[q]
  BY <1>2, OthersRest DEF SafetyInv
<1>3. ASSUME ServerStep(q) PROVE result[q] = "Ok"
  <2>1. CASE \/ Admit(q) \/ RefuseOversize(q) \/ LookupRejects(q) \/ LookupFinds(q)
    BY <1>1, <2>1 DEF Admit, RefuseOversize, LookupRejects, LookupFinds, LookupError, Finish
  <2>2. CASE \/ TakeBuffer(q) \/ AllocateBuffer(q) \/ AlignRejects(q) \/ AlignZeroCopy(q)
             \/ AlignCopies(q) \/ ComputeNorm(q)
    BY <1>1, <2>2
    DEF TakeBuffer, AllocateBuffer, AlignRejects, AlignZeroCopy, AlignCopies, ComputeNorm
  <2>3. CASE DropRejects(q) \/ DropPrepares(q)
    BY <1>1, <2>3 DEF DropRejects, DropPrepares, Finish
  <2>4. CASE SendCall(q) \/ TimeoutGivesUp(q) \/ TimeoutRetries(q) \/ WakeUp(q)
    BY <1>1, <2>4 DEF SendCall, TimeoutGivesUp, TimeoutRetries, WakeUp, EndCall, Finish
  <2> QED
    BY <1>3, <2>1, <2>2, <2>3, <2>4 DEF ServerStep
<1>4. ASSUME EnvironmentStep(q), ~CallOk(q) PROVE result[q] = "Ok"
  BY <1>1, <1>4
  DEF EnvironmentStep, Arrive, Deliver, CallFails, EndCall, Finish, Cancel, Dropped, DbApplies, DbLoses
<1>5. CASE Finished \/ UNCHANGED vars
  BY <1>5 DEF Finished, vars
<1> QED
  BY <1>2, <1>3, <1>4, <1>5 DEF Next

LEMMA OkIsApplied ==
  ASSUME SafetyInv, OkInv, NEW r \in Requests, result[r] = "Ok"
  PROVE  /\ attempt[r] \in 1..MaxRetries /\ Applied(r) /\ pc[r] = "done"
         /\ CurrentCall(r) \in Calls /\ call[CurrentCall(r)] = "applied"
<1>1. pc[r] = "done"
  BY DEF SafetyInv, PhaseInv, Phase, Outcome
<1>2. attempt[r] \in 0..MaxRetries
  BY DEF SafetyInv, TypeInv, TypeOK, ServiceTypeOK
<1>3. attempt[r] \in 1..MaxRetries /\ call[<<r, attempt[r]>>] = "applied"
  BY <1>2, RouterAssumption DEF OkInv, CurrentCall
<1> QED
  BY <1>1, <1>3 DEF Applied, Calls, CurrentCall

LEMMA OkStep == SafetyInv /\ OkInv /\ [Next]_vars => OkInv'
<1> SUFFICES ASSUME SafetyInv, OkInv, [Next]_vars, NEW q \in Requests, result'[q] = "Ok"
    PROVE  attempt'[q] > 0 /\ call'[<<q, attempt'[q]>>] = "applied"
  BY DEF OkInv, CurrentCall
<1>1. CASE result[q] = "Ok"
  <2>1. pc[q] = "done" /\ CurrentCall(q) \in Calls /\ call[CurrentCall(q)] = "applied"
    BY <1>1, OkIsApplied
  <2>2. attempt[q] > 0 /\ attempt'[q] = attempt[q]
    BY <1>1, <2>1, FinalStays DEF OkInv, FinalAt
  <2> QED
    BY <2>1, <2>2, AppliedStays DEF CurrentCall
<1>2. CASE CallOk(q)
  <2>1. attempt[q] > 0
    BY <1>2 DEF CallOk, EndCall, SafetyInv, PhaseInv, Phase
  <2> QED
    BY <1>2, <2>1 DEF CallOk, EndCall, dbVars, CurrentCall
<1> QED
  BY <1>1, <1>2, OkIsNew

LEMMA OkStart == Init => OkInv
BY DEF Init, OkInv

DbInv == SafetyInv /\ StoreInv /\ OkInv

LEMMA DbStart == Init => DbInv
BY SafetyStart, StoreStart, OkStart DEF DbInv

LEMMA DbInvStep == DbInv /\ [Next]_vars => DbInv'
BY SafetyStep, StoreStep, OkStep DEF DbInv

LEMMA StoreIsGenuine == DbInv => StoreHoldsGenuineVectors
<1> SUFFICES ASSUME DbInv PROVE StoreHoldsGenuineVectors
  OBVIOUS
<1>1. ASSUME NEW k \in Keys, store[k] # NoVector
      PROVE  \E r \in Requests :
               /\ msg[r] # NoMessage /\ ValidMessage(msg[r]) /\ msg[r].op = "upsert"
               /\ Key(r) = k
               /\ GenuineVector(r, store[k])
  <2>1. PICK r \in Requests : Wrote(r, k) /\ store[k] = vector[r]
    BY <1>1 DEF DbInv, StoreInv
  <2>2. msg[r] # NoMessage /\ ValidMessage(msg[r]) /\ GenuineVector(r, vector[r])
    BY <2>1, SentIsValid DEF DbInv, Wrote, Applied
  <2> QED
    BY <2>1, <2>2 DEF Wrote
<1>2. ASSUME NEW r \in Requests, Sent(r) PROVE GenuineVector(r, vector[r])
  BY <1>2, SentIsValid DEF DbInv, Sent
<1> QED
  BY <1>1, <1>2 DEF StoreHoldsGenuineVectors

LEMMA SingleWriter == DbInv => SingleWriterIsDurable
<1> SUFFICES ASSUME DbInv, NEW r \in Requests, result[r] = "Ok", msg[r].op = "upsert",
                    \A q \in Requests \ {r} :
                      Sent(q) /\ msg[q].op = "upsert" => Key(q) # Key(r)
    PROVE  store[Key(r)] = vector[r]
  BY DEF SingleWriterIsDurable
<1>1. Wrote(r, Key(r)) /\ Key(r) \in Keys
  BY OkIsApplied, SentIsValid DEF DbInv, Wrote, Applied
<1>2. PICK q \in Requests : Wrote(q, Key(r)) /\ store[Key(r)] = vector[q]
  BY <1>1 DEF DbInv, StoreInv
<1>3. q = r
  BY <1>2 DEF Wrote, Applied, Sent
<1> QED
  BY <1>2, <1>3

\* The database holds intact, prepared vectors of valid upserts only, under
\* their own keys, and searches are made with such vectors: no stale tail or
\* foreign byte of a recycled buffer gets out.
THEOREM RouterStore == Spec => []StoreHoldsGenuineVectors
BY DbStart, DbInvStep, StoreIsGenuine, PTL DEF Spec

\* With one writer per point an acknowledged upsert stays, whatever attempts of
\* it are applied twice or late.
THEOREM RouterSingleWriter == Spec => []SingleWriterIsDurable
BY DbStart, DbInvStep, SingleWriter, PTL DEF Spec

-----------------------------------------------------------------------------
(* The metric: requests by the label they are counted under. *)

Counted ==
  [r \in Requests |-> IF pc[r] = "done" /\ ~msg[r].oversize
                        THEN <<LabelOf(r, result[r])>> ELSE << >>]

MetricInv == \A l \in Labels : requests_total[l] = CountAt(Counted, {<<l>>})

\* A step of r counts nothing, or r's end and nothing else.
LEMMA StepCounts ==
  ASSUME SafetyInv, NEW r \in Requests, ServerStep(r) \/ EnvironmentStep(r)
  PROVE  \/ requests_total' = requests_total /\ Counted'[r] = Counted[r]
         \/ \E l \in Labels :
              /\ Counted[r] = << >> /\ Counted'[r] = <<l>>
              /\ requests_total' = [requests_total EXCEPT ![l] = @ + 1]
<1> USE DEF Goto, gateVars, metricVars, poolVars, dbVars
<1>1. /\ pc \in [Requests -> Places] /\ result \in [Requests -> Results]
      /\ Phase(r) /\ Arrived
  BY DEF SafetyInv, TypeInv, TypeOK, ServiceTypeOK, PhaseInv
<1>2. ASSUME NEW e \in Results, Finish(r, e), msg' = msg, ~msg[r].oversize,
             pc[r] \notin {"idle", "done"}
      PROVE  \E l \in Labels :
               /\ Counted[r] = << >> /\ Counted'[r] = <<l>>
               /\ requests_total' = [requests_total EXCEPT ![l] = @ + 1]
  <2>1. LabelOf(r, e) \in Labels
    BY <1>1, <1>2, LabelType
  <2>2. pc'[r] = "done" /\ result'[r] = e
    BY <1>1, <1>2 DEF Finish
  <2>3. LabelOf(r, result[r])' = LabelOf(r, e)
    BY <1>2, <2>2 DEF LabelOf
  <2>4. Counted'[r] = <<LabelOf(r, e)>> /\ Counted[r] = << >>
    BY <1>2, <2>2, <2>3 DEF Counted
  <2> QED
    BY <1>2, <2>1, <2>4 DEF Finish
<1>3. ASSUME pc'[r] # "done", pc[r] # "done" PROVE Counted'[r] = Counted[r]
  BY <1>3 DEF Counted
<1>4. CASE (\E m \in Messages : Arrive(r, m)) \/ Admit(r) \/ Deliver(r) \/ LookupFinds(r)
           \/ TakeBuffer(r) \/ AllocateBuffer(r) \/ AlignRejects(r) \/ AlignZeroCopy(r)
           \/ AlignCopies(r) \/ ComputeNorm(r) \/ DropPrepares(r)
           \/ SendCall(r) \/ TimeoutRetries(r) \/ WakeUp(r) \/ Cancel(r)
  <2>1. pc'[r] # "done" /\ pc[r] # "done" /\ requests_total' = requests_total
    BY <1>1, <1>4
    DEF Arrive, Admit, Deliver, LookupFinds, BeginPoll, TakeBuffer, AllocateBuffer, AlignRejects,
        AlignZeroCopy, AlignCopies, ComputeNorm, DropPrepares, SendCall, TimeoutRetries,
        EndCall, WakeUp, Cancel, Dropped, AwaitingAt
  <2> QED
    BY <1>3, <2>1
<1>5. CASE RefuseOversize(r)
  BY <1>1, <1>5 DEF RefuseOversize, Counted
<1>6. CASE LookupRejects(r)
  <2>1. LookupError(r) \in Results
    BY DEF LookupError, Results, Errors
  <2> QED
    BY <1>2, <1>6, <2>1 DEF LookupRejects, BeginPoll
<1>7. CASE DropRejects(r)
  BY <1>1, <1>2, <1>7 DEF DropRejects, Phase, Fits, RunningAt
<1>8. CASE CallOk(r) \/ CallFails(r) \/ TimeoutGivesUp(r)
  <2>1. PICK e \in {"Ok", "Vdb"} : EndCall(r) /\ Finish(r, e)
    BY <1>8 DEF CallOk, CallFails, TimeoutGivesUp
  <2>2. e \in Results
    BY DEF Results, Errors
  <2> QED
    BY <1>1, <1>2, <2>1, <2>2 DEF EndCall, Phase, Fits
<1>9. CASE \E k \in 1..MaxRetries : DbApplies(r, k) \/ DbLoses(r, k)
  BY <1>9 DEF DbApplies, DbLoses, Counted, LabelOf
<1> QED
  BY <1>4, <1>5, <1>6, <1>7, <1>8, <1>9 DEF ServerStep, EnvironmentStep

LEMMA MetricStep == SafetyInv /\ MetricInv /\ [Next]_vars => MetricInv'
<1> SUFFICES ASSUME SafetyInv, MetricInv, [Next]_vars, NEW l \in Labels
    PROVE  requests_total'[l] = CountAt(Counted', {<<l>>})
  BY DEF MetricInv
<1>1. requests_total \in [Labels -> Nat] /\ requests_total[l] = CountAt(Counted, {<<l>>})
  BY DEF SafetyInv, TypeInv, TypeOK, ServiceTypeOK, MetricInv
<1>2. ASSUME NEW r \in Requests, ServerStep(r) \/ EnvironmentStep(r)
      PROVE  requests_total'[l] = CountAt(Counted', {<<l>>})
  <2>1. \A q \in Requests \ {r} : Counted'[q] = Counted[q]
    BY <1>2, OthersRest DEF SafetyInv, Counted, LabelOf
  <2>2. /\ CountAt(Counted, {<<l>>}) \in Nat
        /\ CountAt(Counted', {<<l>>}) = CountAt(Counted, {<<l>>})
              + (IF Counted'[r] \in {<<l>>} THEN 1 ELSE 0)
              - (IF Counted[r] \in {<<l>>} THEN 1 ELSE 0)
    BY <2>1, CountChanges
  <2>3. CASE requests_total' = requests_total /\ Counted'[r] = Counted[r]
    BY <1>1, <2>2, <2>3
  <2>4. ASSUME NEW k \in Labels,
               Counted[r] = << >>, Counted'[r] = <<k>>,
               requests_total' = [requests_total EXCEPT ![k] = @ + 1]
        PROVE  requests_total'[l] = CountAt(Counted', {<<l>>})
    <3>1. Counted[r] \notin {<<l>>}
      BY <2>4
    <3>2. Counted'[r] \in {<<l>>} <=> k = l
      BY <2>4
    <3> QED
      BY <1>1, <2>2, <2>4, <3>1, <3>2
  <2> QED
    BY <1>2, <2>3, <2>4, StepCounts
<1>3. CASE Finished \/ UNCHANGED vars
  <2>1. Counted' = Counted /\ requests_total' = requests_total
    BY <1>3 DEF Finished, vars, metricVars, Counted, LabelOf
  <2> QED
    BY <1>1, <2>1
<1> QED
  BY <1>2, <1>3 DEF Next

LEMMA MetricStart == Init => MetricInv
<1> SUFFICES ASSUME Init, NEW l \in Labels PROVE requests_total[l] = CountAt(Counted, {<<l>>})
  BY DEF MetricInv
<1>1. {r \in Requests : Counted[r] \in {<<l>>}} = {}
  BY DEF Init, Counted
<1> QED
  BY <1>1, FS_EmptySet DEF Init, CountAt

LEMMA MetricIsExact == SafetyInv /\ MetricInv => RequestsAreCountedOnce
<1> SUFFICES ASSUME SafetyInv, MetricInv, NEW l \in Labels
    PROVE  requests_total[l] =
             Cardinality({r \in Requests :
               /\ pc[r] = "done" /\ ~msg[r].oversize
               /\ msg[r].model = l.model /\ msg[r].op = l.op
               /\ ExpectedStatus(r) = l.status})
  BY DEF RequestsAreCountedOnce
<1>1. ASSUME NEW r \in Requests
      PROVE  Counted[r] \in {<<l>>} <=>
               /\ pc[r] = "done" /\ ~msg[r].oversize
               /\ msg[r].model = l.model /\ msg[r].op = l.op
               /\ ExpectedStatus(r) = l.status
  <2>1. CASE pc[r] = "done" /\ ~msg[r].oversize
    <3>1. Answered(r) /\ msg[r] \in Messages
      BY <2>1 DEF SafetyInv, PhaseInv, Phase, TypeInv, Arrived
    <3>2. msg[r].len \in Nat /\ msg[r].dim \in Nat
      BY <3>1, RouterAssumption DEF Message
    <3>3. \A m \in DOMAIN Models : Models[m].dim \in Nat
      BY RouterAssumption
    <3>4. StatusLabel(result[r]) = ExpectedStatus(r)
      BY <2>1, <3>1, <3>2, <3>3
      DEF Answered, StatusLabel, ExpectedStatus, ValidMessage, Fits, Registered, LengthOK, SpecOf
    <3>5. Counted[r] = <<LabelOf(r, result[r])>>
      BY <2>1 DEF Counted
    <3>6. LabelOf(r, result[r]) = l <=>
            msg[r].model = l.model /\ msg[r].op = l.op /\ StatusLabel(result[r]) = l.status
      BY DEF LabelOf, Labels
    <3> QED
      BY <2>1, <3>4, <3>5, <3>6
  <2>2. CASE ~(pc[r] = "done" /\ ~msg[r].oversize)
    BY <2>2 DEF Counted
  <2> QED
    BY <2>1, <2>2
<1>2. {r \in Requests : Counted[r] \in {<<l>>}} =
        {r \in Requests :
           /\ pc[r] = "done" /\ ~msg[r].oversize
           /\ msg[r].model = l.model /\ msg[r].op = l.op
           /\ ExpectedStatus(r) = l.status}
  BY <1>1
<1> QED
  BY <1>2 DEF MetricInv, CountAt

\* Each completed request is counted once, under the label its content calls
\* for; cancelled and oversize ones not at all.
THEOREM RouterMetric == Spec => []RequestsAreCountedOnce
<1>1. Init => SafetyInv /\ MetricInv
  BY SafetyStart, MetricStart
<1>2. SafetyInv /\ MetricInv /\ [Next]_vars => (SafetyInv /\ MetricInv)'
  BY SafetyStep, MetricStep
<1> QED
  BY <1>1, <1>2, MetricIsExact, PTL DEF Spec

-----------------------------------------------------------------------------
(* Buffers: at most one for each thread, so a pool of that size suffices. *)

BufferInv ==
  /\ PoolProofs!CountInv
  /\ CountAt(pc, RunningAt) <= Workers
  /\ Workers <= PoolSize => falling = {} /\ exhausted = 0

LEMMA SameCardinality == \A S : PoolProofs!Cardinality(S) = Cardinality(S)
BY DEF Cardinality, PoolProofs!Cardinality

\* A task that needs a thread takes a free one.
LEMMA ThreadsStep ==
  ASSUME SafetyInv, CountAt(pc, RunningAt) <= Workers,
         NEW r \in Requests, ServerStep(r) \/ EnvironmentStep(r)
  PROVE  CountAt(pc', RunningAt) <= Workers
<1> USE DEF Goto
<1>1. pc \in [Requests -> Places] /\ Workers \in Nat
  BY RouterAssumption DEF SafetyInv, TypeInv, TypeOK, ServiceTypeOK
<1>2. /\ CountAt(pc, RunningAt) \in Nat
      /\ CountAt(pc', RunningAt) = CountAt(pc, RunningAt)
            + (IF pc'[r] \in RunningAt THEN 1 ELSE 0) - (IF pc[r] \in RunningAt THEN 1 ELSE 0)
  <2>1. \A q \in Requests \ {r} : pc'[q] = pc[q]
    BY OthersRest DEF SafetyInv
  <2> QED
    BY <2>1, CountChanges
<1>3. CASE LookupFinds(r) \/ WakeUp(r)
  <2>1. WorkerFree
    BY <1>3 DEF LookupFinds, BeginPoll, WakeUp
  <2>2. CountAt(pc, RunningAt) < Workers
    BY <2>1 DEF WorkerFree, Running, CountAt
  <2> QED
    BY <1>1, <1>2, <2>2
<1>4. CASE \/ TakeBuffer(r) \/ AllocateBuffer(r) \/ AlignRejects(r) \/ AlignZeroCopy(r)
           \/ AlignCopies(r) \/ ComputeNorm(r) \/ DropPrepares(r)
  <2>1. pc[r] \in RunningAt
    BY <1>4 DEF TakeBuffer, AllocateBuffer, AlignRejects, AlignZeroCopy, AlignCopies,
                ComputeNorm, DropPrepares, RunningAt
  <2> QED
    BY <1>1, <1>2, <2>1
<1>5. CASE \/ \E m \in Messages : Arrive(r, m)
           \/ Admit(r) \/ Deliver(r) \/ RefuseOversize(r) \/ LookupRejects(r) \/ DropRejects(r)
           \/ SendCall(r) \/ CallOk(r) \/ CallFails(r) \/ TimeoutGivesUp(r)
           \/ TimeoutRetries(r) \/ Cancel(r)
  <2>1. pc'[r] \notin RunningAt
    BY <1>1, <1>5
    DEF Arrive, Admit, Deliver, RefuseOversize, LookupRejects, DropRejects, SendCall, CallOk,
        CallFails, TimeoutGivesUp, TimeoutRetries, Cancel, Dropped, EndCall, Finish, RunningAt
  <2> QED
    BY <1>1, <1>2, <2>1
<1>6. CASE \E k \in 1..MaxRetries : DbApplies(r, k) \/ DbLoses(r, k)
  BY <1>6 DEF DbApplies, DbLoses
<1> QED
  BY <1>3, <1>4, <1>5, <1>6 DEF ServerStep, EnvironmentStep

\* A task about to take a buffer runs without one, beside all that hold one.
LEMMA HoldersAndTaker ==
  ASSUME SafetyInv, CountAt(pc, RunningAt) <= Workers, NEW r \in Requests, pc[r] = "take"
  PROVE  Cardinality(PoolProofs!Holders) < Workers
<1> DEFINE R == {q \in Requests : pc[q] \in RunningAt}
           H == PoolProofs!Holders
<1>1. H \subseteq R \ {r}
  BY DEF PoolProofs!Holders, PoolProofs!NoBuffer, Pool!NoBuffer, SafetyInv, PhaseInv, Phase,
         Holding, RunningAt
<1>2. IsFiniteSet(R) /\ Cardinality(R) \in Nat /\ Cardinality(R) <= Workers
  BY RouterAssumption, FS_Subset, FS_CardinalityType DEF CountAt
<1>3. r \in R
  BY DEF RunningAt
<1>4. IsFiniteSet(R \ {r}) /\ Cardinality(R \ {r}) = Cardinality(R) - 1
  BY <1>2, <1>3, FS_RemoveElement
<1>5. Cardinality(H) <= Cardinality(R \ {r}) /\ Cardinality(H) \in Nat
  BY <1>1, <1>4, FS_Subset, FS_CardinalityType
<1> QED
  BY <1>2, <1>4, <1>5, RouterAssumption

LEMMA BufferStep == SafetyInv /\ BufferInv /\ [Next]_vars => BufferInv'
<1> SUFFICES ASSUME SafetyInv, BufferInv, [Next]_vars PROVE BufferInv'
  OBVIOUS
<1>1. PoolProofs!CountInv'
  <2>1. [PoolProofs!PoolNext]_(PoolProofs!poolVars)
    BY PoolStep, SamePool DEF SafetyInv, TypeInv, TypeOK, PoolProofs!poolVars, poolVars
  <2> QED
    BY <2>1, PoolProofs!CountStep, PoolAssumptionHolds DEF BufferInv
<1>2. CountAt(pc', RunningAt) <= Workers
  <2>1. CASE Finished \/ UNCHANGED vars
    BY <2>1 DEF Finished, vars, BufferInv
  <2> QED
    BY <2>1, ThreadsStep DEF BufferInv, Next
<1>3. ASSUME Workers <= PoolSize PROVE falling' = {} /\ exhausted' = 0
  <2>1. falling = {} /\ exhausted = 0
    BY <1>3 DEF BufferInv
  <2>2. ASSUME NEW r \in Requests, TakeBuffer(r) PROVE UNCHANGED <<falling, exhausted>>
    <3>1. CASE Pool!TakePooled(r)
      BY <3>1 DEF Pool!TakePooled
    <3>2. CASE Pool!TakeMisses(r)
      <4>1. PoolProofs!TakeMisses(r)
        BY <3>2 DEF Pool!TakeMisses, PoolProofs!TakeMisses, Pool!Idle, PoolProofs!Idle,
                    Pool!Holders, PoolProofs!Holders, Pool!NoBuffer, PoolProofs!NoBuffer
      <4>2. Cardinality(PoolProofs!Holders) >= PoolSize
        BY <4>1, PoolProofs!MissMeansAllOut, PoolAssumptionHolds, SameCardinality DEF BufferInv
      <4>3. Cardinality(PoolProofs!Holders) < Workers
        BY <2>2, HoldersAndTaker DEF BufferInv, TakeBuffer
      <4>4. Cardinality(PoolProofs!Holders) \in Nat
        BY PoolProofs!HoldersFinite, PoolAssumptionHolds, SameCardinality
      <4> QED
        BY <1>3, <4>2, <4>3, <4>4, RouterAssumption DEF PoolSize
    <3> QED
      BY <2>2, <3>1, <3>2 DEF TakeBuffer
  <2>3. ASSUME NEW r \in Requests, AllocateBuffer(r) PROVE FALSE
    BY <2>1, <2>3 DEF AllocateBuffer, Pool!TakeFallback
  <2>4. ASSUME NEW r \in Requests, ServerStep(r), ~TakeBuffer(r), ~AllocateBuffer(r)
        PROVE  UNCHANGED <<falling, exhausted>>
    BY <2>4
    DEF poolVars, ServerStep, Admit, RefuseOversize, LookupRejects, LookupFinds, AlignRejects,
        AlignZeroCopy, AlignCopies, Pool!Copy, ComputeNorm, DropRejects, DropPrepares, Pool!Drop,
        SendCall, EndCall, TimeoutGivesUp, TimeoutRetries, WakeUp
  <2>5. ASSUME NEW r \in Requests, EnvironmentStep(r) PROVE UNCHANGED <<falling, exhausted>>
    BY <2>5
    DEF poolVars, EnvironmentStep, Arrive, Deliver, CallOk, CallFails, EndCall, Cancel, Dropped,
        DbApplies, DbLoses
  <2>6. CASE Finished \/ UNCHANGED vars
    BY <2>1, <2>6 DEF Finished, vars, poolVars
  <2> QED
    BY <2>1, <2>2, <2>3, <2>4, <2>5, <2>6 DEF Next
<1> QED
  BY <1>1, <1>2, <1>3 DEF BufferInv

LEMMA BufferStart == Init => BufferInv
<1> SUFFICES ASSUME Init PROVE BufferInv
  OBVIOUS
<1>1. PoolProofs!CountInv
  BY SamePool, PoolProofs!CountInit, PoolAssumptionHolds DEF Init
<1>2. {r \in Requests : pc[r] \in RunningAt} = {}
  BY DEF Init, RunningAt
<1>3. CountAt(pc, RunningAt) <= Workers
  BY <1>2, FS_EmptySet, RouterAssumption DEF CountAt
<1> QED
  BY <1>1, <1>3 DEF Init, Pool!PoolInit, BufferInv

LEMMA BuffersStay == SafetyInv /\ BufferInv => BuffersStayInsideOnePoll
BY DEF SafetyInv, PhaseInv, Phase, Holding, BufferInv, BuffersStayInsideOnePoll, Pool!Holders

\* Nobody awaits anything with a buffer in hand, so a pool with a buffer for
\* each worker thread never allocates another, whatever the number of requests.
THEOREM RouterBuffers == Spec => []BuffersStayInsideOnePoll
<1>1. Init => SafetyInv /\ BufferInv
  BY SafetyStart, BufferStart
<1>2. SafetyInv /\ BufferInv /\ [Next]_vars => (SafetyInv /\ BufferInv)'
  BY SafetyStep, BufferStep
<1> QED
  BY <1>1, <1>2, BuffersStay, PTL DEF Spec

-----------------------------------------------------------------------------
(* The refinement: the router keeps the promise of RequestSpec. *)

Answers == [r \in Requests |-> Told(r)]
Effects == [r \in Requests |-> Cardinality({k \in 1..MaxRetries : call[<<r, k>>] = "applied"})]

LEMMA SameWellFormed == \A m : Promise!WellFormed(m) <=> ValidMessage(m)
BY DEF Promise!WellFormed, ValidMessage

LEMMA SomeAttempts ==
  /\ MaxRetries \in Nat
  /\ Cardinality(1..MaxRetries) = MaxRetries
  /\ \A A \in SUBSET (1..MaxRetries) :
       IsFiniteSet(A) /\ Cardinality(A) \in Nat /\ Cardinality(A) <= MaxRetries
<1>1. MaxRetries \in Nat \ {0} /\ 1 \in Int /\ MaxRetries \in Int
  BY RouterAssumption
<1>2. IsFiniteSet(1..MaxRetries)
      /\ Cardinality(1..MaxRetries) = IF 1 > MaxRetries THEN 0 ELSE MaxRetries - 1 + 1
  BY <1>1, FS_Interval
<1>3. Cardinality(1..MaxRetries) = MaxRetries
  BY <1>1, <1>2
<1> QED
  BY <1>1, <1>2, <1>3, FS_Subset, FS_CardinalityType

LEMMA EffectsType ==
  ASSUME NEW r \in Requests
  PROVE  Effects[r] \in Nat /\ (Applied(r) => Effects[r] > 0)
<1> DEFINE A == {k \in 1..MaxRetries : call[<<r, k>>] = "applied"}
<1>1. IsFiniteSet(A) /\ Cardinality(A) \in Nat
  BY SomeAttempts
<1>2. Cardinality(A) = 0 <=> A = {}
  BY <1>1, FS_EmptySet
<1>3. Effects[r] = Cardinality(A)
  BY DEF Effects
<1>4. Applied(r) => A # {}
  BY DEF Applied
<1> HIDE DEF A
<1> QED
  BY <1>1, <1>2, <1>3, <1>4

\* A call that is applied is one effect more, and there are attempts left for it.
LEMMA ApplyIsAnEffect ==
  ASSUME SafetyInv, NEW r \in Requests, NEW j \in 1..MaxRetries, DbApplies(r, j)
  PROVE  /\ Effects[r] < MaxRetries
         /\ Effects' = [Effects EXCEPT ![r] = @ + 1]
<1> DEFINE A(q) == {k \in 1..MaxRetries : call[<<q, k>>] = "applied"}
           B == {k \in 1..MaxRetries : call'[<<r, k>>] = "applied"}
<1>1. call[<<r, j>>] = "sent" /\ call' = [call EXCEPT ![<<r, j>>] = "applied"]
  BY DEF DbApplies, Db!ApplyUpsert, Db!ApplySearch
<1>2. call \in [Calls -> {"unsent", "sent", "applied", "lost"}] /\ <<r, j>> \in Calls
  BY DEF SafetyInv, TypeInv, TypeOK, DbTypeOK, Calls
<1>3. IsFiniteSet(A(r)) /\ Cardinality(A(r)) \in Nat
  BY SomeAttempts
<1>4. j \notin A(r) /\ B = A(r) \cup {j}
  BY <1>1, <1>2 DEF Calls
<1>5. Cardinality(B) = Cardinality(A(r)) + 1 /\ Cardinality(A(r)) \in Nat
  BY <1>3, <1>4, FS_AddElement
<1>6. Cardinality(B) <= MaxRetries
  BY SomeAttempts
<1>7. \A q \in Requests \ {r} :
        {k \in 1..MaxRetries : call'[<<q, k>>] = "applied"} = A(q)
  BY <1>1, <1>2 DEF Calls
<1>8. Effects[r] = Cardinality(A(r))
  BY DEF Effects
<1>9. Effects' = [Effects EXCEPT ![r] = Cardinality(B)]
  BY <1>7 DEF Effects
<1>10. Cardinality(A(r)) < MaxRetries
  BY <1>5, <1>6, SomeAttempts
<1>11. Effects' = [Effects EXCEPT ![r] = Effects[r] + 1]
  BY <1>5, <1>8, <1>9
<1> QED
  BY <1>8, <1>10, <1>11

LEMMA EffectsRest ==
  ASSUME SafetyInv, [Next]_vars,
         ~\E r \in Requests : \E k \in 1..MaxRetries : DbApplies(r, k)
  PROVE  store' = store /\ Effects' = Effects
<1>1. store' = store /\ \A c \in Calls : call'[c] = "applied" <=> call[c] = "applied"
  BY StoreRests
<1>2. \A q \in Requests : {k \in 1..MaxRetries : call'[<<q, k>>] = "applied"}
                          = {k \in 1..MaxRetries : call[<<q, k>>] = "applied"}
  BY <1>1 DEF Calls
<1> QED
  BY <1>1, <1>2 DEF Effects

\* What a client is told, and when that may be.
ToldInv ==
  \A r \in Requests : Told(r) # "none" =>
    \/ Told(r) = "ok" /\ ValidMessage(msg[r]) /\ Effects[r] > 0
    \/ Told(r) = "unavailable" /\ ValidMessage(msg[r])
    \/ Told(r) = "refused" /\ ~ValidMessage(msg[r])
    \/ Told(r) = "left"

LEMMA ToldFits == DbInv => ToldInv
<1> SUFFICES ASSUME DbInv, NEW r \in Requests, Told(r) # "none"
    PROVE  \/ Told(r) = "ok" /\ ValidMessage(msg[r]) /\ Effects[r] > 0
           \/ Told(r) = "unavailable" /\ ValidMessage(msg[r])
           \/ Told(r) = "refused" /\ ~ValidMessage(msg[r])
           \/ Told(r) = "left"
  BY DEF ToldInv
<1>1. CASE pc[r] = "done"
  <2>1. Answered(r) /\ msg[r] \in Messages
    BY <1>1 DEF DbInv, SafetyInv, PhaseInv, Phase, TypeInv, Arrived
  <2>2. msg[r].len \in Nat /\ msg[r].dim \in Nat
    BY <2>1, RouterAssumption DEF Message
  <2>3. CASE result[r] = "Ok"
    <3>1. Effects[r] > 0
      BY <2>3, OkIsApplied, EffectsType DEF DbInv
    <3>2. ValidMessage(msg[r])
      BY <2>1, <2>3 DEF Answered
    <3> QED
      BY <1>1, <2>3, <3>1, <3>2 DEF Told, GrpcStatus
  <2>4. CASE result[r] = "Vdb"
    BY <1>1, <2>1, <2>4 DEF Told, GrpcStatus, Answered
  <2>5. CASE result[r] \notin {"Ok", "Vdb"}
    <3>1. ~ValidMessage(msg[r])
      BY <2>1, <2>2, <2>5
      DEF Answered, ValidMessage, Fits, Registered, LengthOK, SpecOf
    <3>2. GrpcStatus(result[r]) \notin {"ok", "unavailable"}
      BY <2>1, <2>5 DEF Answered, GrpcStatus
    <3> QED
      BY <1>1, <3>1, <3>2 DEF Told
  <2> QED
    BY <2>3, <2>4, <2>5
<1>2. CASE pc[r] = "cancelled"
  BY <1>2 DEF Told
<1>3. CASE pc[r] \notin {"done", "cancelled"}
  BY <1>3 DEF Told
<1> QED
  BY <1>1, <1>2, <1>3

PromiseStep == [Promise!PromiseNext]_<<msg, Answers, Effects, store>>

\* A request is made.
LEMMA ArriveAsks ==
  ASSUME SafetyInv, [Next]_vars, NEW r \in Requests, NEW m \in Messages, Arrive(r, m)
  PROVE  Promise!Ask(r, m)
<1>1. pc \in [Requests -> Places] /\ msg[r] = NoMessage
  BY DEF SafetyInv, TypeInv, TypeOK, ServiceTypeOK, PhaseInv, Phase, Arrive
<1>2. \A q \in Requests : Told(q)' = Told(q)
  BY <1>1 DEF Arrive, Goto, Told
<1>3. Answers' = Answers
  BY <1>2 DEF Answers
<1>4. store' = store /\ call' = call /\ msg' = [msg EXCEPT ![r] = m]
  BY DEF Arrive, dbVars
<1> QED
  BY <1>1, <1>3, <1>4 DEF Promise!Ask, Answers

\* The database applies a call.
LEMMA ApplyTakesEffect ==
  ASSUME SafetyInv, NEW r \in Requests, NEW j \in 1..MaxRetries, DbApplies(r, j)
  PROVE  Promise!TakeEffect(r)
<1>1. call[<<r, j>>] # "unsent"
  BY DEF DbApplies
<1>2. msg[r] # NoMessage /\ ValidMessage(msg[r]) /\ GenuineVector(r, vector[r])
  BY <1>1, SentIsValid
<1>3. Effects[r] < MaxRetries /\ Effects' = [Effects EXCEPT ![r] = @ + 1]
  BY ApplyIsAnEffect
<1>4. UNCHANGED <<msg, pc, result>>
  BY DEF DbApplies
<1>5. Answers' = Answers
  BY <1>4 DEF Answers, Told
<1>6. vector[r] = Promise!Prepared(r, msg[r])
  <2>1. vector[r] \in Vector
    BY <1>1, SentIsValid DEF SafetyInv, TypeInv, VectorsReady
  <2>2. vector[r] = [bytes |-> vector[r].bytes, norm |-> vector[r].norm]
    BY <2>1 DEF Vector
  <2> QED
    BY <1>2, <2>2 DEF GenuineVector, Promise!Prepared, Raw, Pool!Payload, SpecOf
<1>7. Key(r) = Promise!Target(msg[r])
  BY DEF Key, SpecOf, Promise!Target
<1>8. store' = IF msg[r].op = "upsert"
                 THEN [store EXCEPT ![Promise!Target(msg[r])] = Promise!Prepared(r, msg[r])]
                 ELSE store
  BY <1>6, <1>7 DEF DbApplies, Db!ApplyUpsert, Db!ApplySearch
<1> QED
  BY <1>2, <1>3, <1>4, <1>5, <1>8, SameWellFormed
  DEF Promise!TakeEffect, Effects, Answers

\* Any other step tells at most one client something.
LEMMA StepTells ==
  ASSUME DbInv, DbInv', ToldInv', [Next]_vars, NEW r \in Requests, ServerStep(r) \/ EnvironmentStep(r),
         ~\E m \in Messages : Arrive(r, m),
         ~\E q \in Requests : \E k \in 1..MaxRetries : DbApplies(q, k)
  PROVE  PromiseStep
<1>1. store' = store /\ Effects' = Effects
  BY EffectsRest DEF DbInv
<1>2. msg' = msg
  BY DEF ServerStep, EnvironmentStep, Admit, Deliver, RefuseOversize, LookupRejects, LookupFinds,
         TakeBuffer, AllocateBuffer, AlignRejects, AlignZeroCopy, AlignCopies, ComputeNorm,
         DropRejects, DropPrepares, SendCall, EndCall, TimeoutGivesUp, TimeoutRetries, WakeUp,
         CallOk, CallFails, Cancel, Dropped, DbLoses
<1>3. \A q \in Requests \ {r} : Told(q)' = Told(q)
  BY OthersRest DEF DbInv, SafetyInv, Told
<1>4. CASE Told(r)' = Told(r)
  <2>1. Answers' = Answers
    BY <1>3, <1>4 DEF Answers
  <2> QED
    BY <1>1, <1>2, <2>1 DEF PromiseStep
<1>5. CASE Told(r)' # Told(r)
  <2>1. pc[r] \notin FinalAt
    BY <1>5, FinalStays DEF DbInv, Told
  <2>2. Told(r) = "none" /\ Answers[r] = "none"
    BY <2>1 DEF Told, FinalAt, Answers
  <2>3. Answers' = [Answers EXCEPT ![r] = Told(r)']
    BY <1>3 DEF Answers
  <2>4. msg[r] # NoMessage
    <3>1. pc'[r] # "idle"
      BY <1>5, <2>2 DEF Told
    <3> QED
      BY <1>2, <3>1 DEF DbInv, SafetyInv, PhaseInv, Phase
  <2>5. Promise!Tell(r, Told(r)')
    BY <1>1, <1>2, <2>2, <2>3, <2>4 DEF Promise!Tell, Answers, Effects
  <2>6. \/ Told(r)' = "ok" /\ ValidMessage(msg[r]) /\ Effects[r] > 0
        \/ Told(r)' = "unavailable" /\ ValidMessage(msg[r])
        \/ Told(r)' = "refused" /\ ~ValidMessage(msg[r])
        \/ Told(r)' = "left"
    <3>1. Told(r)' # "none"
      BY <1>5, <2>2
    <3> QED
      BY <1>1, <1>2, <3>1 DEF ToldInv, ValidMessage
  <2>7. Promise!Serve(r) \/ Promise!GiveUp(r) \/ Promise!Refuse(r) \/ Promise!Leave(r)
    BY <2>5, <2>6, SameWellFormed
    DEF Promise!Serve, Promise!GiveUp, Promise!Refuse, Promise!Leave, Effects
  <2> QED
    BY <2>7 DEF PromiseStep, Promise!PromiseNext
<1> QED
  BY <1>4, <1>5

LEMMA RouterPromiseStep ==
  ASSUME DbInv, DbInv', ToldInv', [Next]_vars
  PROVE  PromiseStep
<1>1. ASSUME NEW r \in Requests, NEW m \in Messages, Arrive(r, m) PROVE PromiseStep
  BY <1>1, ArriveAsks DEF DbInv, PromiseStep, Promise!PromiseNext
<1>2. ASSUME NEW r \in Requests, NEW k \in 1..MaxRetries, DbApplies(r, k) PROVE PromiseStep
  BY <1>2, ApplyTakesEffect DEF DbInv, PromiseStep, Promise!PromiseNext
<1>3. CASE Finished \/ UNCHANGED vars
  BY <1>3 DEF Finished, vars, dbVars, PromiseStep, Answers, Effects, Told
<1> QED
  BY <1>1, <1>2, <1>3, StepTells DEF Next

LEMMA PromiseStart == Init => Promise!PromiseInit
<1> SUFFICES ASSUME Init PROVE Promise!PromiseInit
  OBVIOUS
<1>1. \A r \in Requests : {k \in 1..MaxRetries : call[<<r, k>>] = "applied"} = {}
  BY DEF Init, Db!DbInit, Calls
<1>2. \A r \in Requests : Cardinality({k \in 1..MaxRetries : call[<<r, k>>] = "applied"}) = 0
  BY <1>1, FS_EmptySet
<1>3. \A r \in Requests : Told(r) = "none"
  BY DEF Init, Told
<1> QED
  BY <1>2, <1>3 DEF Init, Db!DbInit, Promise!PromiseInit, Keys, Namespaces

\* The pipeline, with its shared buffers, threads, retries, late calls and
\* cancellations, implements the promise of RequestSpec.
THEOREM RouterKeepsPromise == Spec => PromiseIsKept
<1>1. Init => Promise!PromiseInit
  BY PromiseStart
<1>2. DbInv /\ DbInv' /\ ToldInv' /\ [Next]_vars => [Promise!PromiseNext]_(Promise!promiseVars)
  BY RouterPromiseStep DEF PromiseStep, Promise!promiseVars, Answers, Effects
<1>3. Init => DbInv
  BY DbStart
<1>4. DbInv /\ [Next]_vars => DbInv'
  BY DbInvStep
<1> QED
  BY <1>1, <1>2, <1>3, <1>4, ToldFits, PTL DEF Spec, PromiseIsKept, Promise!PromiseSpec

-----------------------------------------------------------------------------
(* The queue of the limit. *)

\* The semaphore's queue holds each request that waits, once, and nothing of a
\* request that was admitted or has left.
QueueIsExact ==
  /\ \A r \in Requests : pc[r] = "queued" <=> \E i \in 1..Len(waiting) : waiting[i] = r
  /\ \A i, j \in 1..Len(waiting) : waiting[i] = waiting[j] => i = j

LEMMA QueueParts ==
  QueueIsExact <=>
    Distinct(waiting) /\ \A r \in Requests : pc[r] = "queued" <=> Queued(waiting, r)
BY DEF QueueIsExact, Distinct, Queued

\* The queue after a step of r: r joins it, leaves it, or nobody does.
LEMMA QueueMoves ==
  ASSUME QueueIsExact, NEW r \in Requests, \A q \in Requests \ {r} : pc'[q] = pc[q],
         Distinct(waiting'),
         \A q \in Requests : Queued(waiting', q) <=>
           IF q = r THEN pc'[r] = "queued" ELSE Queued(waiting, q)
  PROVE  QueueIsExact'
<1>1. \A q \in Requests : pc[q] = "queued" <=> Queued(waiting, q)
  BY QueueParts
<1>2. \A q \in Requests : pc'[q] = "queued" <=> Queued(waiting', q)
  BY <1>1
<1> QED
  BY <1>2 DEF QueueIsExact, Distinct, Queued

LEMMA QueueStep ==
  TypeInv /\ QueueIsExact /\ [Next]_vars => QueueIsExact'
<1> SUFFICES ASSUME TypeInv, QueueIsExact, [Next]_vars PROVE QueueIsExact'
  OBVIOUS
<1>1. /\ pc \in [Requests -> Places] /\ waiting \in Seq(Requests) /\ Distinct(waiting)
      /\ \A q \in Requests : pc[q] = "queued" <=> Queued(waiting, q)
  BY QueueParts DEF TypeInv, TypeOK, ServiceTypeOK
<1>2. ASSUME NEW r \in Requests, ServerStep(r) \/ EnvironmentStep(r) PROVE QueueIsExact'
  <2>1. \A q \in Requests \ {r} : pc'[q] = pc[q]
    BY <1>2, StepMoves DEF Moves
  <2>2. CASE \E m \in Messages : Arrive(r, m)
    <3>1. waiting' = Append(waiting, r) /\ pc[r] = "idle" /\ pc'[r] = "queued"
      BY <1>1, <2>2 DEF Arrive, Goto
    <3>2. /\ Distinct(waiting')
          /\ \A q : Queued(waiting', q) <=> q = r \/ Queued(waiting, q)
      BY <1>1, <3>1, QueueJoins
    <3> QED
      BY <2>1, <3>1, <3>2, QueueMoves
  <2>3. CASE Admit(r)
    <3>1. waiting # << >> /\ r = Head(waiting) /\ waiting' = Tail(waiting) /\ pc'[r] = "reading"
      BY <1>1, <2>3 DEF Admit, Goto
    <3>2. /\ Distinct(waiting')
          /\ \A q : Queued(waiting', q) <=> Queued(waiting, q) /\ q # r
      BY <1>1, <3>1, QueueServes
    <3> QED
      BY <2>1, <3>1, <3>2, QueueMoves
  <2>4. CASE Cancel(r) /\ pc[r] = "queued"
    <3>1. PICK i \in 1..Len(waiting) :
            /\ waiting[i] = r
            /\ waiting' = SubSeq(waiting, 1, i - 1) \o SubSeq(waiting, i + 1, Len(waiting))
      BY <2>4 DEF Cancel, Dropped, LeaveQueue
    <3>2. /\ Distinct(waiting')
          /\ \A q : Queued(waiting', q) <=> Queued(waiting, q) /\ q # r
      BY <1>1, <3>1, QueueLeaves
    <3>3. pc'[r] = "cancelled"
      BY <1>1, <2>4 DEF Cancel, Dropped, Goto
    <3> QED
      BY <2>1, <3>2, <3>3, QueueMoves
  <2>5. ASSUME waiting' = waiting, pc'[r] = "queued" <=> pc[r] = "queued" PROVE QueueIsExact'
    BY <1>1, <2>1, <2>5, QueueMoves
  <2>6. CASE Cancel(r) /\ pc[r] # "queued"
    <3>1. waiting' = waiting /\ pc'[r] = "cancelled"
      BY <1>1, <2>6 DEF Cancel, Dropped, LeaveQueue, Goto
    <3> QED
      BY <2>5, <2>6, <3>1
  <2>7. CASE Deliver(r) \/ RefuseOversize(r) \/ LookupRejects(r) \/ LookupFinds(r)
               \/ TakeBuffer(r) \/ AllocateBuffer(r) \/ AlignRejects(r) \/ AlignZeroCopy(r) \/ AlignCopies(r)
               \/ ComputeNorm(r)
    <3>1. waiting' = waiting /\ pc[r] # "queued" /\ pc'[r] # "queued"
      BY <1>1, <2>7 DEF Deliver, RefuseOversize, LookupRejects, LookupFinds, BeginPoll, TakeBuffer,
        AllocateBuffer, AlignRejects, AlignZeroCopy, AlignCopies, ComputeNorm, Finish, Goto, gateVars
    <3> QED
      BY <2>5, <3>1
  <2>8. CASE DropRejects(r) \/ DropPrepares(r) \/ SendCall(r) \/ TimeoutGivesUp(r)
               \/ TimeoutRetries(r) \/ WakeUp(r) \/ CallOk(r) \/ CallFails(r)
    <3>1. waiting' = waiting /\ pc[r] # "queued" /\ pc'[r] # "queued"
      BY <1>1, <2>8 DEF DropRejects, DropPrepares, SendCall, TimeoutGivesUp, TimeoutRetries,
        WakeUp, CallOk, CallFails, EndCall, Finish, Goto, gateVars
    <3> QED
      BY <2>5, <3>1
  <2>9. CASE \E k \in 1..MaxRetries : DbApplies(r, k) \/ DbLoses(r, k)
    BY <2>5, <2>9 DEF DbApplies, DbLoses, gateVars
  <2> QED
    BY <1>2, <2>2, <2>3, <2>4, <2>6, <2>7, <2>8, <2>9 DEF ServerStep, EnvironmentStep
<1>3. CASE Finished \/ UNCHANGED vars
  BY <1>3 DEF Finished, vars, gateVars, QueueIsExact
<1> QED
  BY <1>2, <1>3 DEF Next

\* The queue of the limit holds exactly the requests that wait: nobody who left
\* it keeps his place, and nobody is in it twice.
THEOREM RouterQueue == Spec => []QueueIsExact
<1>1. Init => TypeInv /\ QueueIsExact
  <2>1. Init => QueueIsExact
    BY DEF Init, QueueIsExact
  <2> QED
    BY <2>1, TypeInvInit
<1>2. TypeInv /\ QueueIsExact /\ [Next]_vars => (TypeInv /\ QueueIsExact)'
  BY TypeInvStep, QueueStep
<1> QED
  BY <1>1, <1>2, PTL DEF Spec

LEMMA OnlyClients == TypeInv /\ CountInv /\ QueueIsExact => OnlyClientsHoldUp
<1> SUFFICES ASSUME TypeInv, CountInv, QueueIsExact, \A r \in Requests : ~Unblocked(r)
    PROVE  /\ \A r \in Requests : pc[r] \in {"idle", "queued", "reading"} \union FinalAt
           /\ (\E r \in Requests : pc[r] = "queued") =>
                Cardinality({r \in Requests : pc[r] = "reading"}) = MaxConcurrent
  BY DEF OnlyClientsHoldUp
<1>1. pc \in [Requests -> Places] /\ waiting \in Seq(Requests) /\ permits \in Nat
  BY DEF TypeInv, TypeOK, ServiceTypeOK
<1>2. \A q \in Requests : pc[q] \notin RunningAt
  BY DEF Unblocked
<1>3. WorkerFree
  <2>1. Running = {}
    BY <1>2 DEF Running
  <2> QED
    BY <2>1, FS_EmptySet, RouterAssumption DEF WorkerFree
<1>4. \A q \in Requests : pc[q] \in {"idle", "queued", "reading"} \union FinalAt
  BY <1>1, <1>2, <1>3 DEF Unblocked, Places, AwaitingAt
<1>5. ASSUME NEW r \in Requests, pc[r] = "queued"
      PROVE  Cardinality({q \in Requests : pc[q] = "reading"}) = MaxConcurrent
  <2>1. Queued(waiting, r) /\ Distinct(waiting)
    BY <1>5, QueueParts
  <2>2. waiting # << >>
    BY <2>1, EmptySeq DEF Queued
  <2>3. Head(waiting) \in Requests /\ Queued(waiting, Head(waiting))
    BY <1>1, <2>1, <2>2, QueueServes
  <2>4. pc[Head(waiting)] = "queued"
    BY <2>3, QueueParts
  <2>5. permits = 0
    BY <1>1, <2>2, <2>3, <2>4 DEF Unblocked
  <2>6. {q \in Requests : pc[q] \in Admitted} = {q \in Requests : pc[q] = "reading"}
    BY <1>4 DEF Admitted, RunningAt, AwaitingAt, FinalAt
  <2>7. CountAt(pc, Admitted) = MaxConcurrent
    <3>1. CountAt(pc, Admitted) \in Nat
      BY <1>5, CountChanges
    <3> QED
      BY <2>5, <3>1 DEF CountInv
  <2> QED
    BY <2>6, <2>7 DEF CountAt
<1> QED
  BY <1>4, <1>5

\* Requests never wait for each other, for the queue or for workers in a circle:
\* when none can go on, each awaits its own client's body, or a permit while every
\* permit is with such a request.
THEOREM RouterDoesNotLockUp == Spec => []OnlyClientsHoldUp
<1>1. TypeInv /\ CountInv /\ QueueIsExact => OnlyClientsHoldUp
  BY OnlyClients
<1>2. Init => TypeInv /\ CountInv /\ QueueIsExact
  <2>1. Init => QueueIsExact
    BY DEF Init, QueueIsExact
  <2> QED
    BY <2>1, TypeInvInit, CountStart
<1>3. TypeInv /\ CountInv /\ QueueIsExact /\ [Next]_vars => (TypeInv /\ CountInv /\ QueueIsExact)'
  BY TypeInvStep, CountStep, QueueStep
<1> QED
  BY <1>1, <1>2, <1>3, PTL DEF Spec

-----------------------------------------------------------------------------
(* Requests only get nearer to their end. *)

\* The steps to the end of a handler that goes on, apart from its retries.
Stage(place) ==
  CASE place = "idle"     -> 11
    [] place = "queued"   -> 10
    [] place = "reading"  -> 9
    [] place = "ready"    -> 8
    [] place = "take"     -> 7
    [] place = "fallback" -> 6
    [] place = "align"    -> 5
    [] place = "norm"     -> 4
    [] place = "drop"     -> 3
    [] place = "send"     -> 1
    [] place = "await"    -> 3
    [] place = "sleeping" -> 2
    [] OTHER              -> 0

\* A bound on the steps r still takes: an attempt is three of them.
StepsLeft(r) ==
  IF pc[r] \in FinalAt THEN 0 ELSE 3 * (MaxRetries - attempt[r]) + Stage(pc[r])

RequestsDescend ==
  [][\A r \in Requests :
       StepsLeft(r)' <= StepsLeft(r) /\ (pc'[r] # pc[r] => StepsLeft(r)' < StepsLeft(r))]_vars

LEMMA StageType ==
  \A p \in Places : Stage(p) \in 0..11 /\ (p \notin FinalAt => Stage(p) > 0)
BY DEF Places, RunningAt, AwaitingAt, FinalAt, Stage

LEMMA StepsLeftType ==
  ASSUME TypeInv, NEW r \in Requests
  PROVE  StepsLeft(r) \in 0..(3 * MaxRetries + 11) /\ (pc[r] \notin FinalAt => StepsLeft(r) > 0)
<1>1. pc[r] \in Places /\ attempt[r] \in 0..MaxRetries /\ MaxRetries \in Nat
  BY RouterAssumption DEF TypeInv, TypeOK, ServiceTypeOK
<1> QED
  BY <1>1, StageType DEF StepsLeft

\* A step that goes from one place to another.
Goes(r, a, b) == pc[r] = a /\ pc'[r] = b

LEMMA StepDescends ==
  ASSUME TypeInv, NEW r \in Requests, ServerStep(r) \/ EnvironmentStep(r)
  PROVE  /\ StepsLeft(r)' <= StepsLeft(r)
         /\ pc'[r] # pc[r] => StepsLeft(r)' < StepsLeft(r)
<1>1. /\ pc \in [Requests -> Places] /\ attempt \in [Requests -> 0..MaxRetries]
      /\ MaxRetries \in Nat
  BY RouterAssumption DEF TypeInv, TypeOK, ServiceTypeOK
<1>2. pc[r] \in Places /\ attempt[r] \in 0..MaxRetries
  BY <1>1
<1>3. ASSUME attempt'[r] = attempt[r], pc[r] \notin FinalAt,
             pc'[r] \in FinalAt \/ (Stage(pc'[r]) < Stage(pc[r]) /\ pc'[r] \in Places)
      PROVE  StepsLeft(r)' < StepsLeft(r) /\ StepsLeft(r) \in Nat /\ StepsLeft(r)' \in Nat
  BY <1>1, <1>2, <1>3, StageType DEF StepsLeft, FinalAt
<1>4. CASE \/ \E m \in Messages : Arrive(r, m)
           \/ Admit(r) \/ Deliver(r) \/ LookupFinds(r) \/ TakeBuffer(r) \/ AllocateBuffer(r)
  <2>1. /\ attempt' = attempt
        /\ \/ Goes(r, "idle", "queued") \/ Goes(r, "queued", "reading")
           \/ Goes(r, "reading", "ready") \/ Goes(r, "ready", "take")
           \/ Goes(r, "take", "align") \/ Goes(r, "take", "fallback")
           \/ Goes(r, "fallback", "align")
    BY <1>1, <1>4
    DEF Arrive, Admit, Deliver, LookupFinds, BeginPoll, TakeBuffer, AllocateBuffer, Goto, Goes
  <2> QED
    BY <1>3, <2>1 DEF Goes, Stage, FinalAt, Places, RunningAt, AwaitingAt
<1>5. CASE AlignRejects(r) \/ AlignZeroCopy(r) \/ AlignCopies(r) \/ ComputeNorm(r) \/ DropPrepares(r)
  <2>1. /\ attempt' = attempt
        /\ \/ Goes(r, "align", "drop") \/ Goes(r, "align", "norm") \/ Goes(r, "norm", "drop")
           \/ Goes(r, "drop", "send")
    BY <1>1, <1>5 DEF AlignRejects, AlignZeroCopy, AlignCopies, ComputeNorm, DropPrepares, Goto, Goes
  <2> QED
    BY <1>3, <2>1 DEF Goes, Stage, FinalAt, Places, RunningAt, AwaitingAt
<1>6. CASE TimeoutRetries(r) \/ WakeUp(r)
  <2>1. attempt' = attempt /\ (Goes(r, "await", "sleeping") \/ Goes(r, "sleeping", "send"))
    BY <1>1, <1>6 DEF TimeoutRetries, EndCall, WakeUp, Goto, Goes
  <2> QED
    BY <1>3, <2>1 DEF Goes, Stage, FinalAt, Places, RunningAt, AwaitingAt
<1>7. CASE RefuseOversize(r) \/ LookupRejects(r) \/ DropRejects(r) \/ CallOk(r) \/ CallFails(r)
             \/ TimeoutGivesUp(r) \/ Cancel(r)
  <2>1. attempt' = attempt /\ pc[r] \notin FinalAt /\ pc'[r] \in FinalAt
    BY <1>1, <1>7 DEF RefuseOversize, LookupRejects, BeginPoll, DropRejects, CallOk, CallFails,
      TimeoutGivesUp, EndCall, Cancel, Dropped, Finish, Goto, FinalAt, AwaitingAt
  <2>2. attempt'[r] = attempt[r] /\ pc[r] \notin FinalAt /\ pc'[r] \in FinalAt
    BY <2>1
  <2>3. StepsLeft(r)' < StepsLeft(r)
    BY <1>3, <2>2
  <2> QED
    BY <1>3, <2>2, <2>3
<1>8. CASE SendCall(r)
  <2>1. Goes(r, "send", "await") /\ attempt'[r] = attempt[r] + 1
    BY <1>1, <1>8 DEF SendCall, Goto, Goes
  <2>2. StepsLeft(r) = 3 * (MaxRetries - attempt[r]) + 1
    BY <2>1 DEF Goes, StepsLeft, Stage, FinalAt
  <2>3. StepsLeft(r)' = 3 * (MaxRetries - (attempt[r] + 1)) + 3
    BY <2>1 DEF Goes, StepsLeft, Stage, FinalAt
  <2>4. StepsLeft(r)' = 3 * (MaxRetries - attempt[r])
    BY <1>1, <1>2, <2>3
  <2> QED
    BY <1>1, <1>2, <2>2, <2>4
<1>9. CASE \E k \in 1..MaxRetries : DbApplies(r, k) \/ DbLoses(r, k)
  <2>1. pc' = pc /\ attempt' = attempt
    BY <1>9 DEF DbApplies, DbLoses
  <2>2. StepsLeft(r)' = StepsLeft(r)
    BY <2>1 DEF StepsLeft
  <2> QED
    BY <2>1, <2>2, StepsLeftType
<1> QED
  BY <1>3, <1>4, <1>5, <1>6, <1>7, <1>8, <1>9 DEF ServerStep, EnvironmentStep

\* Every step a request takes brings it nearer to its end, so it takes at most
\* 3 * MaxRetries + 11 of them, whatever the other requests and the database do:
\* there is no way to retry for ever.
THEOREM RouterDescends == Spec => RequestsDescend
<1>1. TypeInv /\ [Next]_vars =>
        [\A r \in Requests :
           StepsLeft(r)' <= StepsLeft(r) /\ (pc'[r] # pc[r] => StepsLeft(r)' < StepsLeft(r))]_vars
  <2> SUFFICES ASSUME TypeInv, Next, NEW r \in Requests
               PROVE  StepsLeft(r)' <= StepsLeft(r)
                      /\ (pc'[r] # pc[r] => StepsLeft(r)' < StepsLeft(r))
    OBVIOUS
  <2>1. ASSUME NEW q \in Requests, ServerStep(q) \/ EnvironmentStep(q), q # r
        PROVE  StepsLeft(r)' = StepsLeft(r) /\ pc'[r] = pc[r]
    <3>1. pc'[r] = pc[r] /\ attempt'[r] = attempt[r]
      BY <2>1, OthersRest
    <3> QED
      BY <3>1 DEF StepsLeft
  <2>2. CASE Finished
    BY <2>2, StepsLeftType DEF Finished, vars, StepsLeft
  <2>3. StepsLeft(r) <= StepsLeft(r)
    BY StepsLeftType
  <2> QED
    BY <2>1, <2>2, <2>3, StepDescends DEF Next
<1>2. Init => TypeInv
  BY TypeInvInit
<1>3. TypeInv /\ [Next]_vars => TypeInv'
  BY TypeInvStep
<1> QED
  BY <1>1, <1>2, <1>3, PTL DEF Spec, RequestsDescend

-----------------------------------------------------------------------------
(* What the pool promises, of the pool under the request path. *)

LEMMA SamePoolPromises ==
  /\ Pool!ViewIsOwn <=> PoolProofs!ViewIsOwn
  /\ Pool!NoBufferLost <=> PoolProofs!NoBufferLost
  /\ Pool!SizedPoolNeverAllocates <=> PoolProofs!SizedPoolNeverAllocates
<1> USE DEF Pool!NoBuffer, PoolProofs!NoBuffer, Pool!Holders, PoolProofs!Holders
<1>1. Pool!ViewIsOwn <=> PoolProofs!ViewIsOwn
  BY DEF Pool!ViewIsOwn, PoolProofs!ViewIsOwn
<1>2. Pool!NoBufferLost <=> PoolProofs!NoBufferLost
  BY DEF Pool!NoBufferLost, PoolProofs!NoBufferLost, Pool!QueueCapacity,
         PoolProofs!QueueCapacity, Pool!Cardinality, PoolProofs!Cardinality
<1>3. Pool!SizedPoolNeverAllocates <=> PoolProofs!SizedPoolNeverAllocates
  BY DEF Pool!SizedPoolNeverAllocates, PoolProofs!SizedPoolNeverAllocates,
         Pool!Cardinality, PoolProofs!Cardinality
<1> QED
  BY <1>1, <1>2, <1>3

\* In the whole server, whatever the requests do and wherever they are
\* cancelled: a request never reads bytes of the one that had its buffer before,
\* no buffer is lost, and a pool with a buffer for each request never allocates.
THEOREM RouterPool ==
  Spec => [](Pool!ViewIsOwn /\ Pool!NoBufferLost /\ Pool!SizedPoolNeverAllocates)
<1>1. PoolProofs!PoolSpec => []PoolProofs!ViewIsOwn
  BY PoolProofs!PoolViewsAreOwn, PoolAssumptionHolds
<1>2. PoolProofs!PoolSpec => []PoolProofs!NoBufferLost
  BY PoolProofs!PoolConservation, PoolAssumptionHolds
<1>3. PoolProofs!PoolSpec => []PoolProofs!SizedPoolNeverAllocates
  BY PoolProofs!PoolSized, PoolAssumptionHolds
<1>4. Init => PoolProofs!PoolInit
  BY SamePool DEF Init
<1>5. TypeInv /\ [Next]_vars => [PoolProofs!PoolNext]_(PoolProofs!poolVars)
  BY PoolStep, SamePool DEF TypeInv, TypeOK, poolVars, PoolProofs!poolVars
<1>6. Init => TypeInv
  BY TypeInvInit
<1>7. TypeInv /\ [Next]_vars => TypeInv'
  BY TypeInvStep
<1>8. Spec => PoolProofs!PoolSpec
  BY <1>4, <1>5, <1>6, <1>7, PTL DEF Spec, PoolProofs!PoolSpec
<1>9. /\ Pool!ViewIsOwn <=> PoolProofs!ViewIsOwn
      /\ Pool!NoBufferLost <=> PoolProofs!NoBufferLost
      /\ Pool!SizedPoolNeverAllocates <=> PoolProofs!SizedPoolNeverAllocates
  BY SamePoolPromises
<1> QED
  BY <1>1, <1>2, <1>3, <1>8, <1>9, PTL

=============================================================================
