------------------------------ MODULE BufferPool ------------------------------
(***************************************************************************)
(* The pool of aligned scratch buffers (src/src/pool.rs).                   *)
(*                                                                         *)
(* Every request borrows one buffer for the synchronous part of its        *)
(* pipeline, may copy its misaligned payload into it, and hands it back    *)
(* when the PooledBuffer guard is dropped, on the error paths too.  The    *)
(* queue is a lock-free bounded queue: pop and push are atomic, and a      *)
(* taker that found it empty has not yet counted and allocated its         *)
(* fallback buffer, so that is a step of its own.                          *)
(*                                                                         *)
(* A byte is abstracted to the taker whose payload wrote it (Zero in a     *)
(* freshly allocated buffer).                                              *)
(***************************************************************************)
EXTENDS Integers, Sequences, FiniteSets

CONSTANTS
  Takers,         \* the concurrent borrowers
  Zero,           \* the byte of a freshly allocated buffer, no taker's
  Size,           \* number of buffers the pool is pre-filled with
  CapacityBytes,  \* byte capacity asked for each buffer
  CopySizes,      \* lengths of the payloads a taker copies, in bytes
  CounterMod      \* the exhausted counter is an AtomicU64: it wraps here

\* A CapacityBytes that is not a multiple of 4 would be rounded up by
\* AlignedBuffer::new and never equal pool.capacity_bytes on the way back;
\* the service only asks for max_dim * 4.
ASSUME PoolAssumption ==
  /\ IsFiniteSet(Takers)
  /\ Zero \notin Takers
  /\ Size \in Nat
  /\ CapacityBytes \in Nat \ {0} /\ CapacityBytes % 4 = 0
  /\ CopySizes \subseteq Nat
  /\ CounterMod \in Nat \ {0}

VARIABLES
  queue,      \* the buffers waiting in the ArrayQueue, oldest first
  held,       \* held[t]: the buffer inside t's PooledBuffer, or NoBuffer
  falling,    \* takers that popped nothing and are about to allocate
  exhausted   \* exhausted_count

poolVars == <<queue, held, falling, exhausted>>

-----------------------------------------------------------------------------
(* Buffers. *)

\* Mutant of DivCeil4: a word too many when n is a whole number of words.
DivAlwaysUp(n) == n \div 4 + 1

DivCeil4(n) == (n + 3) \div 4

\* AlignedBuffer::default(), what mem::take leaves in a dropped guard.
NoBuffer == [data |-> << >>, len |-> 0]

NewBuffer(bytes) ==
  [data |-> [i \in 1..(4 * DivCeil4(bytes)) |-> Zero], len |-> 0]

Capacity(b) == Len(b.data)

CopyFits(b, src) == Len(src) <= Capacity(b)

\* copy_from_slice, once the length check passed: a prefix is overwritten.
CopyInto(b, src) ==
  [data |-> [i \in 1..Capacity(b) |-> IF i <= Len(src) THEN src[i] ELSE b.data[i]],
   len  |-> Len(src)]

\* Mutant of Filled: the view ignores len.
WholeBuffer(b) == b.data

\* as_f32: the filled bytes, readable as f32 when they are whole words.
Castable(b) == b.len % 4 = 0
Filled(b)   == SubSeq(b.data, 1, b.len)

\* Mutant of Clear: the length survives the drop.
ClearNothing(b) == b

Clear(b) == [b EXCEPT !.len = 0]

\* The payload of taker t: n bytes of its own.
Payload(t, n) == [i \in 1..n |-> t]

-----------------------------------------------------------------------------
(* The pool. *)

QueueCapacity == IF Size > 1 THEN Size ELSE 1

Holders == {t \in Takers : held[t] # NoBuffer}

PoolInit ==
  /\ queue = [i \in 1..Size |-> NewBuffer(CapacityBytes)]
  /\ held = [t \in Takers |-> NoBuffer]
  /\ falling = {}
  /\ exhausted = 0

Idle(t) == t \notin Holders /\ t \notin falling

\* take(): the queue had a buffer.
TakePooled(t) ==
  /\ Idle(t)
  /\ queue # << >>
  /\ held' = [held EXCEPT ![t] = Head(queue)]
  /\ queue' = Tail(queue)
  /\ UNCHANGED <<falling, exhausted>>

\* take(): pop returned None.
TakeMisses(t) ==
  /\ Idle(t)
  /\ queue = << >>
  /\ falling' = falling \union {t}
  /\ UNCHANGED <<queue, held, exhausted>>

\* take(): the one-off allocation, counted; never blocks.
TakeFallback(t) ==
  /\ t \in falling
  /\ exhausted' = (exhausted + 1) % CounterMod
  /\ held' = [held EXCEPT ![t] = NewBuffer(CapacityBytes)]
  /\ falling' = falling \ {t}
  /\ UNCHANGED queue

\* copy_from_slice through the guard; a payload that does not fit is an error
\* that leaves the buffer as it was.
Copy(t, src) ==
  /\ t \in Holders
  /\ CopyFits(held[t], src)
  /\ held' = [held EXCEPT ![t] = CopyInto(held[t], src)]
  /\ UNCHANGED <<queue, falling, exhausted>>

\* Mutant of Returned: the last place of the queue is never used.
ReturnedIfRoomForTwo(b) ==
  IF Capacity(b) = CapacityBytes /\ Len(queue) + 1 < QueueCapacity
    THEN Append(queue, b)
    ELSE queue

\* Where a dropped buffer goes: back to the queue, unless it has another
\* capacity or the queue is full, and then it is freed.
Returned(b) ==
  IF Capacity(b) = CapacityBytes /\ Len(queue) < QueueCapacity
    THEN Append(queue, b)
    ELSE queue

\* Drop for PooledBuffer.
Drop(t) ==
  /\ t \in Holders
  /\ queue' = Returned(Clear(held[t]))
  /\ held' = [held EXCEPT ![t] = NoBuffer]
  /\ UNCHANGED <<falling, exhausted>>

PoolNext ==
  \E t \in Takers :
    \/ TakePooled(t)
    \/ TakeMisses(t)
    \/ TakeFallback(t)
    \/ \E n \in CopySizes : Copy(t, Payload(t, n))
    \/ Drop(t)

PoolSpec == PoolInit /\ [][PoolNext]_poolVars

-----------------------------------------------------------------------------
(* Properties. *)

Bytes == Takers \union {Zero}

Buffer == [data : [1..CapacityBytes -> Bytes], len : 0..CapacityBytes]

\* The type of the pool's state: every buffer in use has the pool's capacity.
PoolTypeOK ==
  /\ queue \in Seq(Buffer)
  /\ held \in [Takers -> Buffer \union {NoBuffer}]
  /\ falling \in SUBSET Takers
  /\ exhausted \in 0..(CounterMod - 1)

\* No buffer leaks: however takes, fallbacks and drops interleave, the buffers
\* in the queue and in the guards are at least the Size the pool started with,
\* and fallback buffers never grow the queue past its capacity.  So the pool is
\* full again after a burst (pool.rs:290).
NoBufferLost ==
  /\ Len(queue) + Cardinality(Holders) >= Size
  /\ Len(queue) <= QueueCapacity

\* The f32 view of a held buffer shows only bytes its holder copied: a recycled
\* buffer keeps the bytes of the request before, and they stay out of view.
ViewIsOwn ==
  \A t \in Holders : \A i \in 1..held[t].len : held[t].data[i] = t

\* A taker falls back to an allocation only when at least Size buffers are in
\* guards: no fallback while a pre-filled buffer is idle.
MissOnlyWhenAllOut ==
  [][\A t \in Takers :
       t \in falling' \ falling => Cardinality(Holders) >= Size]_poolVars

\* With a buffer for each concurrent taker the pool never allocates again: what
\* start_service's buffers_per_worker * worker_threads sizing is for.
SizedPoolNeverAllocates ==
  Cardinality(Takers) <= Size => falling = {} /\ exhausted = 0

=============================================================================
