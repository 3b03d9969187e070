-------------------------- MODULE BufferPool_proofs --------------------------
(***************************************************************************)
(* Proofs about the buffer pool, for every number of takers, pool size and *)
(* capacity.                                                               *)
(***************************************************************************)
EXTENDS BufferPool, TLAPS, SequenceTheorems, FiniteSetTheorems

-----------------------------------------------------------------------------
(* Buffers and the operators on them. *)

\* A buffer is never the sentinel a dropped guard is left with: it has bytes.
LEMMA BufferIsNotNoBuffer == \A b \in Buffer : b # NoBuffer
<1> SUFFICES ASSUME NEW b \in Buffer, b = NoBuffer PROVE FALSE
  OBVIOUS
<1>1. DOMAIN b.data = 1..CapacityBytes
  BY DEF Buffer
<1>2. DOMAIN b.data = {}
  BY DEF NoBuffer
<1>3. 1 \in 1..CapacityBytes
  BY PoolAssumption
<1> QED
  BY <1>1, <1>2, <1>3

\* Every buffer of the pool has the pool's capacity, so a drop returns it.
LEMMA BufferCapacity == \A b \in Buffer : Capacity(b) = CapacityBytes
<1> TAKE b \in Buffer
<1>1. b.data \in Seq(Bytes)
  BY PoolAssumption, IsASeq DEF Buffer
<1>2. DOMAIN b.data = 1..Len(b.data) /\ Len(b.data) \in Nat
  BY <1>1, LenProperties
<1>3. DOMAIN b.data = 1..CapacityBytes
  BY DEF Buffer
<1> QED
  BY <1>2, <1>3, PoolAssumption DEF Capacity

\* AlignedBuffer::new rounds to whole words, which leaves CapacityBytes as it
\* is: the fresh buffer is zeroed and shows nothing.
LEMMA NewBufferType ==
  /\ NewBuffer(CapacityBytes) \in Buffer
  /\ NewBuffer(CapacityBytes).len = 0
<1>1. 4 * DivCeil4(CapacityBytes) = CapacityBytes
  BY PoolAssumption DEF DivCeil4
<1>2. [i \in 1..(4 * DivCeil4(CapacityBytes)) |-> Zero] \in [1..CapacityBytes -> Bytes]
  BY <1>1 DEF Bytes
<1> QED
  BY <1>2, PoolAssumption DEF NewBuffer, Buffer

LEMMA PayloadType ==
  ASSUME NEW t \in Takers, NEW n \in Nat
  PROVE  /\ Payload(t, n) \in Seq(Takers)
         /\ Len(Payload(t, n)) = n
         /\ \A i \in 1..n : Payload(t, n)[i] = t
<1>1. Payload(t, n) \in [1..n -> Takers]
  BY DEF Payload
<1>2. Payload(t, n) \in Seq(Takers)
  BY <1>1
<1>3. DOMAIN Payload(t, n) = 1..n
  BY DEF Payload
<1>4. Len(Payload(t, n)) = n
  BY <1>2, <1>3, LenProperties
<1> QED
  BY <1>2, <1>4 DEF Payload

\* A payload that fits keeps the buffer's capacity and sets its length.
LEMMA CopyIntoType ==
  ASSUME NEW b \in Buffer, NEW t \in Takers, NEW n \in Nat,
         CopyFits(b, Payload(t, n))
  PROVE  /\ CopyInto(b, Payload(t, n)) \in Buffer
         /\ CopyInto(b, Payload(t, n)).len = n
         /\ n <= CapacityBytes
         /\ \A i \in 1..n : CopyInto(b, Payload(t, n)).data[i] = t
<1> DEFINE src == Payload(t, n)
           c == CopyInto(b, src)
<1>1. Len(src) = n /\ \A i \in 1..n : src[i] = t
  BY PayloadType
<1>2. Capacity(b) = CapacityBytes
  BY BufferCapacity
<1>3. n <= CapacityBytes
  BY <1>1, <1>2 DEF CopyFits
<1>4. c.data = [i \in 1..CapacityBytes |-> IF i <= n THEN src[i] ELSE b.data[i]]
  BY <1>1, <1>2 DEF CopyInto
<1>5. \A i \in 1..CapacityBytes : (IF i <= n THEN src[i] ELSE b.data[i]) \in Bytes
  <2> TAKE i \in 1..CapacityBytes
  <2>1. b.data[i] \in Bytes
    BY DEF Buffer
  <2>2. i <= n => i \in 1..n
    BY PoolAssumption
  <2> QED
    BY <1>1, <2>1, <2>2 DEF Bytes
<1>6. c.len = n
  BY <1>1 DEF CopyInto
<1>7. c.data \in [1..CapacityBytes -> Bytes]
  BY <1>4, <1>5
<1>8. c \in Buffer
  BY <1>3, <1>6, <1>7, PoolAssumption DEF CopyInto, Buffer
<1>9. \A i \in 1..n : c.data[i] = t
  BY <1>1, <1>3, <1>4, PoolAssumption
<1> QED
  BY <1>3, <1>6, <1>8, <1>9

LEMMA ClearType ==
  \A b \in Buffer : Clear(b) \in Buffer /\ Clear(b).len = 0
BY PoolAssumption DEF Clear, Buffer

\* A cleared buffer goes back to the queue, or is freed when the queue is full.
LEMMA ReturnedType ==
  ASSUME NEW b \in Buffer, queue \in Seq(Buffer)
  PROVE  /\ Returned(b) \in Seq(Buffer)
         /\ Len(queue) < QueueCapacity => /\ Returned(b) = Append(queue, b)
                                          /\ Len(Returned(b)) = Len(queue) + 1
         /\ ~(Len(queue) < QueueCapacity) => Returned(b) = queue
BY BufferCapacity, AppendProperties DEF Returned

-----------------------------------------------------------------------------
(* The type invariant. *)

LEMMA TypeInit == PoolInit => PoolTypeOK
<1> SUFFICES ASSUME PoolInit PROVE PoolTypeOK
  OBVIOUS
<1>1. queue \in [1..Size -> Buffer]
  BY NewBufferType DEF PoolInit
<1>2. queue \in Seq(Buffer)
  BY <1>1, PoolAssumption
<1> QED
  BY <1>2, PoolAssumption DEF PoolInit, PoolTypeOK

LEMMA TypeStep == PoolTypeOK /\ [PoolNext]_poolVars => PoolTypeOK'
<1> SUFFICES ASSUME PoolTypeOK, [PoolNext]_poolVars PROVE PoolTypeOK'
  OBVIOUS
<1> USE DEF PoolTypeOK
<1>1. ASSUME NEW t \in Takers, TakePooled(t) PROVE PoolTypeOK'
  <2>1. Head(queue) \in Buffer /\ Tail(queue) \in Seq(Buffer)
    BY <1>1, HeadTailProperties DEF TakePooled
  <2> QED
    BY <1>1, <2>1 DEF TakePooled
<1>2. ASSUME NEW t \in Takers, TakeMisses(t) PROVE PoolTypeOK'
  BY <1>2 DEF TakeMisses
<1>3. ASSUME NEW t \in Takers, TakeFallback(t) PROVE PoolTypeOK'
  <2>1. (exhausted + 1) % CounterMod \in 0..(CounterMod - 1)
    BY PoolAssumption
  <2> QED
    BY <1>3, <2>1, NewBufferType DEF TakeFallback
<1>4. ASSUME NEW t \in Takers, NEW n \in CopySizes, Copy(t, Payload(t, n))
      PROVE  PoolTypeOK'
  <2>1. held[t] \in Buffer
    BY <1>4 DEF Copy, Holders
  <2>2. n \in Nat
    BY PoolAssumption
  <2>3. CopyInto(held[t], Payload(t, n)) \in Buffer
    BY <1>4, <2>1, <2>2, CopyIntoType DEF Copy
  <2> QED
    BY <1>4, <2>3 DEF Copy
<1>5. ASSUME NEW t \in Takers, Drop(t) PROVE PoolTypeOK'
  <2>1. held[t] \in Buffer
    BY <1>5 DEF Drop, Holders
  <2>2. Clear(held[t]) \in Buffer
    BY <2>1, ClearType
  <2>3. Returned(Clear(held[t])) \in Seq(Buffer)
    BY <2>2, ReturnedType
  <2> QED
    BY <1>5, <2>3 DEF Drop
<1>6. CASE UNCHANGED poolVars
  BY <1>6 DEF poolVars
<1> QED
  BY <1>1, <1>2, <1>3, <1>4, <1>5, <1>6 DEF PoolNext

\* Every buffer in the queue and in the guards has the pool's capacity, at
\* every point of every interleaving of take, copy_from_slice and drop.
THEOREM PoolTypeCorrect == PoolSpec => []PoolTypeOK
<1>1. PoolInit => PoolTypeOK
  BY TypeInit
<1>2. PoolTypeOK /\ [PoolNext]_poolVars => PoolTypeOK'
  BY TypeStep
<1> QED
  BY <1>1, <1>2, PTL DEF PoolSpec

-----------------------------------------------------------------------------
(* A view shows its holder's bytes only.  Inductive once the buffers in the *)
(* queue are known to be cleared: a drop clears before it pushes.           *)

QueueIsClear == \A i \in 1..Len(queue) : queue[i].len = 0

ViewInv == PoolTypeOK /\ ViewIsOwn /\ QueueIsClear

LEMMA ViewInit == PoolInit => ViewInv
<1> SUFFICES ASSUME PoolInit PROVE ViewInv
  OBVIOUS
<1>1. PoolTypeOK
  BY TypeInit
<1>2. ViewIsOwn
  BY DEF PoolInit, ViewIsOwn, Holders
<1>3. QueueIsClear
  <2>1. \A i \in DOMAIN queue : queue[i].len = 0
    BY NewBufferType DEF PoolInit
  <2>2. DOMAIN queue = 1..Len(queue)
    BY <1>1, LenProperties DEF PoolTypeOK
  <2> QED
    BY <2>1, <2>2 DEF QueueIsClear
<1> QED
  BY <1>1, <1>2, <1>3 DEF ViewInv

LEMMA ViewStep == ViewInv /\ [PoolNext]_poolVars => ViewInv'
<1> SUFFICES ASSUME ViewInv, [PoolNext]_poolVars PROVE ViewInv'
  OBVIOUS
<1> USE DEF ViewInv
<1>0. PoolTypeOK'
  BY TypeStep
<1>1. ASSUME NEW t \in Takers, TakePooled(t) PROVE ViewIsOwn' /\ QueueIsClear'
  <2>1. queue \in Seq(Buffer) /\ queue # << >> /\ queue' = Tail(queue)
    BY <1>1 DEF TakePooled, PoolTypeOK
  <2>2. Head(queue).len = 0
    <3>1. Head(queue) = queue[1] /\ 1 \in 1..Len(queue)
      BY <2>1, EmptySeq
    <3> QED
      BY <3>1 DEF QueueIsClear
  <2>3. QueueIsClear'
    <3>1. \A i \in 1..Len(Tail(queue)) :
            Tail(queue)[i] = queue[i + 1] /\ i + 1 \in 1..Len(queue)
      BY <2>1, HeadTailProperties, LenProperties
    <3> QED
      BY <2>1, <3>1 DEF QueueIsClear
  <2>4. ViewIsOwn'
    BY <1>1, <2>2 DEF TakePooled, ViewIsOwn, Holders, PoolTypeOK
  <2> QED
    BY <2>3, <2>4
<1>2. ASSUME NEW t \in Takers, TakeMisses(t) PROVE ViewIsOwn' /\ QueueIsClear'
  BY <1>2 DEF TakeMisses, ViewIsOwn, QueueIsClear, Holders
<1>3. ASSUME NEW t \in Takers, TakeFallback(t) PROVE ViewIsOwn' /\ QueueIsClear'
  BY <1>3, NewBufferType
  DEF TakeFallback, ViewIsOwn, QueueIsClear, Holders, PoolTypeOK
<1>4. ASSUME NEW t \in Takers, NEW n \in CopySizes, Copy(t, Payload(t, n))
      PROVE  ViewIsOwn' /\ QueueIsClear'
  <2>1. held[t] \in Buffer /\ n \in Nat
    BY <1>4, PoolAssumption DEF Copy, Holders, PoolTypeOK
  <2>2. /\ CopyInto(held[t], Payload(t, n)).len = n
        /\ \A i \in 1..n : CopyInto(held[t], Payload(t, n)).data[i] = t
    BY <1>4, <2>1, CopyIntoType DEF Copy
  <2> QED
    BY <1>4, <2>2 DEF Copy, ViewIsOwn, QueueIsClear, Holders, PoolTypeOK
<1>5. ASSUME NEW t \in Takers, Drop(t) PROVE ViewIsOwn' /\ QueueIsClear'
  <2>1. held[t] \in Buffer /\ queue \in Seq(Buffer)
    BY <1>5 DEF Drop, Holders, PoolTypeOK
  <2>2. Clear(held[t]) \in Buffer /\ Clear(held[t]).len = 0
    BY <2>1, ClearType
  <2>3. QueueIsClear'
    <3>1. CASE Returned(Clear(held[t])) = queue
      BY <1>5, <3>1 DEF Drop, QueueIsClear
    <3>2. CASE Returned(Clear(held[t])) = Append(queue, Clear(held[t]))
      BY <1>5, <2>1, <2>2, <3>2, AppendProperties, LenProperties DEF Drop, QueueIsClear
    <3> QED
      BY <3>1, <3>2 DEF Returned
  <2>4. ViewIsOwn'
    BY <1>5 DEF Drop, ViewIsOwn, Holders, PoolTypeOK
  <2> QED
    BY <2>3, <2>4
<1>6. CASE UNCHANGED poolVars
  BY <1>0, <1>6 DEF poolVars, ViewIsOwn, QueueIsClear, Holders
<1> QED
  BY <1>0, <1>1, <1>2, <1>3, <1>4, <1>5, <1>6 DEF PoolNext

\* No request ever reads another request's bytes through a recycled buffer.
THEOREM PoolViewsAreOwn == PoolSpec => []ViewIsOwn
<1>1. PoolInit => ViewInv
  BY ViewInit
<1>2. ViewInv /\ [PoolNext]_poolVars => ViewInv'
  BY ViewStep
<1>3. ViewInv => ViewIsOwn
  BY DEF ViewInv
<1> QED
  BY <1>1, <1>2, <1>3, PTL DEF PoolSpec

-----------------------------------------------------------------------------
(* No buffer is lost. *)

CountInv == PoolTypeOK /\ NoBufferLost

LEMMA HoldersFinite == IsFiniteSet(Holders) /\ Cardinality(Holders) \in Nat
BY PoolAssumption, FS_Subset, FS_CardinalityType DEF Holders

\* A take puts its taker among the holders.
LEMMA HoldersGrow ==
  ASSUME PoolTypeOK, NEW t \in Takers, t \notin Holders,
         NEW b \in Buffer, held' = [held EXCEPT ![t] = b]
  PROVE  Cardinality(Holders') = Cardinality(Holders) + 1
<1>1. b # NoBuffer
  BY BufferIsNotNoBuffer
<1>2. Holders' = Holders \union {t}
  BY <1>1 DEF Holders, PoolTypeOK
<1> QED
  BY <1>2, HoldersFinite, FS_AddElement

\* A drop takes its holder out.
LEMMA HoldersShrink ==
  ASSUME PoolTypeOK, NEW t \in Takers, t \in Holders,
         held' = [held EXCEPT ![t] = NoBuffer]
  PROVE  Cardinality(Holders') = Cardinality(Holders) - 1
<1>1. Holders' = Holders \ {t}
  BY DEF Holders, PoolTypeOK
<1> QED
  BY <1>1, HoldersFinite, FS_RemoveElement

LEMMA CountInit == PoolInit => CountInv
<1> SUFFICES ASSUME PoolInit PROVE CountInv
  OBVIOUS
<1>1. PoolTypeOK
  BY TypeInit
<1>2. Len(queue) = Size
  <2>1. DOMAIN queue = 1..Size
    BY DEF PoolInit
  <2>2. DOMAIN queue = 1..Len(queue) /\ Len(queue) \in Nat
    BY <1>1, LenProperties DEF PoolTypeOK
  <2> QED
    BY <2>1, <2>2, PoolAssumption
<1> QED
  BY <1>1, <1>2, HoldersFinite, PoolAssumption DEF CountInv, NoBufferLost, QueueCapacity

LEMMA CountStep == CountInv /\ [PoolNext]_poolVars => CountInv'
<1> SUFFICES ASSUME CountInv, [PoolNext]_poolVars PROVE CountInv'
  OBVIOUS
<1> USE DEF CountInv
<1>0. PoolTypeOK'
  BY TypeStep
<1>a. /\ Len(queue) \in Nat /\ Cardinality(Holders) \in Nat
      /\ QueueCapacity \in Nat /\ Size <= QueueCapacity /\ Size \in Nat
  BY HoldersFinite, LenProperties, PoolAssumption DEF PoolTypeOK, QueueCapacity
<1>b. QueueCapacity' = QueueCapacity
  BY DEF QueueCapacity
<1>1. ASSUME NEW t \in Takers, TakePooled(t) PROVE NoBufferLost'
  <2>1. Head(queue) \in Buffer /\ Len(Tail(queue)) = Len(queue) - 1
    BY <1>1, HeadTailProperties DEF TakePooled, PoolTypeOK
  <2>2. Cardinality(Holders') = Cardinality(Holders) + 1
    BY <1>1, <2>1, HoldersGrow DEF TakePooled, Idle
  <2> QED
    BY <1>1, <1>a, <1>b, <2>1, <2>2 DEF TakePooled, NoBufferLost
<1>2. ASSUME NEW t \in Takers, TakeMisses(t) PROVE NoBufferLost'
  BY <1>2, <1>b DEF TakeMisses, NoBufferLost, Holders
<1>3. ASSUME NEW t \in Takers, TakeFallback(t) PROVE NoBufferLost'
  <2>1. CASE t \notin Holders
    <3>1. Cardinality(Holders') = Cardinality(Holders) + 1
      BY <1>3, <2>1, NewBufferType, HoldersGrow DEF TakeFallback
    <3> QED
      BY <1>3, <1>a, <1>b, <3>1 DEF TakeFallback, NoBufferLost
  <2>2. CASE t \in Holders
    <3>1. Holders' = Holders
      BY <1>3, <2>2, NewBufferType, BufferIsNotNoBuffer
      DEF TakeFallback, Holders, PoolTypeOK
    <3> QED
      BY <1>3, <1>b, <3>1 DEF TakeFallback, NoBufferLost
  <2> QED
    BY <2>1, <2>2
<1>4. ASSUME NEW t \in Takers, NEW n \in CopySizes, Copy(t, Payload(t, n))
      PROVE  NoBufferLost'
  <2>1. held[t] \in Buffer /\ n \in Nat
    BY <1>4, PoolAssumption DEF Copy, Holders, PoolTypeOK
  <2>2. CopyInto(held[t], Payload(t, n)) # NoBuffer
    BY <1>4, <2>1, CopyIntoType, BufferIsNotNoBuffer DEF Copy
  <2>3. Holders' = Holders
    BY <1>4, <2>2 DEF Copy, Holders, PoolTypeOK
  <2> QED
    BY <1>4, <1>b, <2>3 DEF Copy, NoBufferLost
<1>5. ASSUME NEW t \in Takers, Drop(t) PROVE NoBufferLost'
  <2>1. Clear(held[t]) \in Buffer /\ queue \in Seq(Buffer)
    BY <1>5, ClearType DEF Drop, Holders, PoolTypeOK
  <2>2. Cardinality(Holders') = Cardinality(Holders) - 1
    BY <1>5, HoldersShrink DEF Drop
  <2>3. CASE Len(queue) < QueueCapacity
    <3>1. Len(queue') = Len(queue) + 1
      BY <1>5, <2>1, <2>3, ReturnedType DEF Drop
    <3> QED
      BY <1>a, <1>b, <2>2, <2>3, <3>1 DEF NoBufferLost
  <2>4. CASE ~(Len(queue) < QueueCapacity)
    <3>1. queue' = queue
      BY <1>5, <2>1, <2>4, ReturnedType DEF Drop
    <3>2. Cardinality(Holders') >= 0
      BY HoldersFinite, FS_Subset, FS_CardinalityType, PoolAssumption DEF Holders
    <3> QED
      BY <1>a, <1>b, <2>2, <2>4, <3>1, <3>2 DEF NoBufferLost
  <2> QED
    BY <2>3, <2>4
<1>6. CASE UNCHANGED poolVars
  BY <1>0, <1>6, <1>b DEF poolVars, NoBufferLost, Holders
<1> QED
  BY <1>0, <1>1, <1>2, <1>3, <1>4, <1>5, <1>6 DEF PoolNext

\* The pool never loses one of its Size buffers, whatever the interleaving.
THEOREM PoolConservation == PoolSpec => []NoBufferLost
<1>1. PoolInit => CountInv
  BY CountInit
<1>2. CountInv /\ [PoolNext]_poolVars => CountInv'
  BY CountStep
<1>3. CountInv => NoBufferLost
  BY DEF CountInv
<1> QED
  BY <1>1, <1>2, <1>3, PTL DEF PoolSpec

-----------------------------------------------------------------------------
(* When the pool falls back to an allocation. *)

\* A taker that finds the queue empty finds at least Size buffers in guards.
LEMMA MissMeansAllOut ==
  ASSUME CountInv, NEW t \in Takers, TakeMisses(t)
  PROVE  Cardinality(Holders) >= Size
<1>1. Len(queue) = 0
  BY EmptySeq DEF TakeMisses
<1> QED
  BY <1>1, HoldersFinite, PoolAssumption DEF CountInv, NoBufferLost

LEMMA MissStep ==
  ASSUME CountInv, PoolNext
  PROVE  \A t \in Takers : t \in falling' \ falling => Cardinality(Holders) >= Size
<1>1. ASSUME NEW t \in Takers, TakeMisses(t)
      PROVE  Cardinality(Holders) >= Size
  BY <1>1, MissMeansAllOut
<1>2. ASSUME NEW t \in Takers,
             \/ TakePooled(t)
             \/ TakeFallback(t)
             \/ \E n \in CopySizes : Copy(t, Payload(t, n))
             \/ Drop(t)
      PROVE  falling' \subseteq falling
  BY <1>2 DEF TakePooled, TakeFallback, Copy, Drop
<1> QED
  BY <1>1, <1>2 DEF PoolNext

\* No take allocates while a pre-filled buffer is idle.
THEOREM PoolMisses == PoolSpec => MissOnlyWhenAllOut
<1>1. PoolInit => CountInv
  BY CountInit
<1>2. CountInv /\ [PoolNext]_poolVars => CountInv'
  BY CountStep
<1>3. CountInv /\ [PoolNext]_poolVars
        => [\A t \in Takers :
              t \in falling' \ falling => Cardinality(Holders) >= Size]_poolVars
  BY MissStep
<1> QED
  BY <1>1, <1>2, <1>3, PTL DEF PoolSpec, MissOnlyWhenAllOut

LEMMA SizedStep ==
  CountInv /\ SizedPoolNeverAllocates /\ [PoolNext]_poolVars
    => SizedPoolNeverAllocates'
<1> SUFFICES ASSUME CountInv, SizedPoolNeverAllocates, [PoolNext]_poolVars,
                    Cardinality(Takers) <= Size
             PROVE  falling' = {} /\ exhausted' = 0
  BY DEF SizedPoolNeverAllocates
<1>1. falling = {} /\ exhausted = 0
  BY DEF SizedPoolNeverAllocates
<1>2. ASSUME NEW t \in Takers, TakeMisses(t) PROVE FALSE
  <2>1. Cardinality(Holders) >= Size
    BY <1>2, MissMeansAllOut
  <2>2. Holders \in SUBSET Takers
    BY DEF Holders
  <2>3. Cardinality(Holders) <= Cardinality(Takers) /\ Cardinality(Takers) \in Nat
    BY <2>2, PoolAssumption, FS_Subset, FS_CardinalityType
  <2>4. Cardinality(Holders) = Cardinality(Takers)
    BY <2>1, <2>3, HoldersFinite, PoolAssumption
  <2>5. Holders = Takers
    BY <2>2, <2>4, PoolAssumption, FS_Subset
  <2> QED
    BY <1>2, <2>5 DEF TakeMisses, Idle
<1>3. ASSUME NEW t \in Takers,
             \/ TakePooled(t)
             \/ \E n \in CopySizes : Copy(t, Payload(t, n))
             \/ Drop(t)
      PROVE  falling' = falling /\ exhausted' = exhausted
  BY <1>3 DEF TakePooled, Copy, Drop
<1>4. ASSUME NEW t \in Takers, TakeFallback(t) PROVE FALSE
  BY <1>1, <1>4 DEF TakeFallback
<1>5. CASE UNCHANGED poolVars
  BY <1>1, <1>5 DEF poolVars
<1> QED
  BY <1>1, <1>2, <1>3, <1>4, <1>5 DEF PoolNext

\* A pool with a buffer for each concurrent taker never allocates again.
THEOREM PoolSized == PoolSpec => []SizedPoolNeverAllocates
<1>1. PoolInit => CountInv /\ SizedPoolNeverAllocates
  BY CountInit DEF PoolInit, SizedPoolNeverAllocates
<1>2. CountInv /\ SizedPoolNeverAllocates /\ [PoolNext]_poolVars
        => (CountInv /\ SizedPoolNeverAllocates)'
  BY CountStep, SizedStep
<1> QED
  BY <1>1, <1>2, PTL DEF PoolSpec

=============================================================================
