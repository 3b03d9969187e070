----------------------------- MODULE QueueTheorems -----------------------------
(***************************************************************************)
(* Lemmas about a queue of waiters, first come first served, that a waiter   *)
(* may leave from any place: tokio's semaphore in front of the handlers and  *)
(* sqlx's pool of connections.                                               *)
(***************************************************************************)
EXTENDS Integers, Sequences, SequenceTheorems, TLAPS

Queued(w, c) == \E i \in 1..Len(w) : w[i] = c
Distinct(w)  == \A i, j \in 1..Len(w) : w[i] = w[j] => i = j

LEMMA QueueJoins ==
  ASSUME NEW S, NEW w \in Seq(S), NEW c \in S, Distinct(w), ~Queued(w, c)
  PROVE  /\ Append(w, c) \in Seq(S) /\ Distinct(Append(w, c))
         /\ \A d : Queued(Append(w, c), d) <=> d = c \/ Queued(w, d)
<1>1. /\ Append(w, c) \in Seq(S) /\ Len(Append(w, c)) = Len(w) + 1
      /\ \A i \in 1..Len(w) : Append(w, c)[i] = w[i]
      /\ Append(w, c)[Len(w) + 1] = c
      /\ Len(w) \in Nat
  BY AppendProperties, LenProperties
<1>2. \A i \in 1..(Len(w) + 1) : i \in 1..Len(w) \/ i = Len(w) + 1
  BY <1>1
<1> QED
  BY <1>1, <1>2 DEF Distinct, Queued

LEMMA QueueLeaves ==
  ASSUME NEW S, NEW w \in Seq(S), Distinct(w), NEW i \in 1..Len(w)
  PROVE  LET v == SubSeq(w, 1, i - 1) \o SubSeq(w, i + 1, Len(w))
         IN  /\ v \in Seq(S) /\ Distinct(v)
             /\ \A d : Queued(v, d) <=> Queued(w, d) /\ d # w[i]
<1> DEFINE a == SubSeq(w, 1, i - 1)
           b == SubSeq(w, i + 1, Len(w))
           v == a \o b
<1>1. Len(w) \in Nat /\ \A j \in 1..Len(w) : w[j] \in S
  BY LenProperties, ElementOfSeq
<1>2. /\ a \in Seq(S) /\ Len(a) = i - 1
      /\ \A j \in 1..(i - 1) : a[j] = w[j]
  BY <1>1, SubSeqProperties
<1>3. /\ b \in Seq(S) /\ Len(b) = Len(w) - i
      /\ \A j \in 1..(Len(w) - i) : b[j] = w[j + i]
  <2>1. \A j \in (i + 1)..Len(w) : w[j] \in S
    BY <1>1
  <2>2. b \in Seq(S) /\ Len(b) = (IF i + 1 <= Len(w) THEN Len(w) - (i + 1) + 1 ELSE 0)
        /\ \A j \in 1..(Len(w) - (i + 1) + 1) : b[j] = w[(i + 1) + j - 1]
    BY <1>1, <2>1, SubSeqProperties
  <2> HIDE DEF b
  <2> QED
    BY <1>1, <2>2
<1> HIDE DEF a, b
<1>4. /\ v \in Seq(S) /\ Len(v) = Len(w) - 1
      /\ \A j \in 1..(Len(w) - 1) : v[j] = IF j < i THEN w[j] ELSE w[j + 1]
  <2>1. v \in Seq(S) /\ Len(v) = Len(a) + Len(b)
        /\ \A j \in 1..(Len(a) + Len(b)) : v[j] = IF j <= Len(a) THEN a[j] ELSE b[j - Len(a)]
    BY <1>2, <1>3, ConcatProperties
  <2> HIDE DEF v
  <2>2. Len(v) = Len(w) - 1
    BY <1>1, <1>2, <1>3, <2>1
  <2>3. ASSUME NEW j \in 1..(Len(w) - 1), j < i PROVE v[j] = w[j]
    <3>1. j \in 1..(i - 1) /\ j \in 1..(Len(a) + Len(b)) /\ j <= Len(a)
      BY <1>1, <1>2, <1>3, <2>3
    <3> QED
      BY <1>2, <2>1, <3>1
  <2>4. ASSUME NEW j \in 1..(Len(w) - 1), ~(j < i) PROVE v[j] = w[j + 1]
    <3>1. /\ j \in 1..(Len(a) + Len(b)) /\ ~(j <= Len(a))
          /\ j - Len(a) \in 1..(Len(w) - i) /\ (j - Len(a)) + i = j + 1
      BY <1>1, <1>2, <1>3, <2>4
    <3> QED
      BY <1>3, <2>1, <3>1
  <2> QED
    BY <2>1, <2>2, <2>3, <2>4
<1> HIDE DEF v
<1>5. Distinct(v)
  <2> SUFFICES ASSUME NEW j \in 1..Len(v), NEW l \in 1..Len(v), v[j] = v[l] PROVE j = l
    BY DEF Distinct
  <2> DEFINE from(n) == IF n < i THEN n ELSE n + 1
  <2>1. from(j) \in 1..Len(w) /\ from(l) \in 1..Len(w) /\ (from(j) = from(l) => j = l)
    BY <1>1, <1>4
  <2>2. v[j] = w[from(j)] /\ v[l] = w[from(l)]
    BY <1>4
  <2> QED
    BY <2>1, <2>2 DEF Distinct
<1>6. ASSUME NEW d, Queued(v, d) PROVE Queued(w, d) /\ d # w[i]
  BY <1>1, <1>4, <1>6 DEF Queued, Distinct
<1>7. ASSUME NEW d, Queued(w, d), d # w[i] PROVE Queued(v, d)
  <2>1. PICK j \in 1..Len(w) : w[j] = d
    BY <1>7 DEF Queued
  <2>2. CASE j < i
    BY <1>1, <1>4, <2>1, <2>2 DEF Queued
  <2>3. CASE j > i
    <3>1. j - 1 \in 1..Len(v) /\ v[j - 1] = d
      BY <1>1, <1>4, <2>1, <2>3
    <3> QED
      BY <3>1 DEF Queued
  <2> QED
    BY <1>7, <2>1, <2>2, <2>3
<1> QED
  BY <1>4, <1>5, <1>6, <1>7 DEF v, a, b

\* The first in the queue is served.
LEMMA QueueServes ==
  ASSUME NEW S, NEW w \in Seq(S), Distinct(w), w # << >>
  PROVE  /\ Head(w) = w[1] /\ w[1] \in S /\ Queued(w, w[1])
         /\ Tail(w) \in Seq(S) /\ Distinct(Tail(w))
         /\ \A d : Queued(Tail(w), d) <=> Queued(w, d) /\ d # w[1]
<1>1. /\ Len(w) \in Nat \ {0} /\ Head(w) = w[1] /\ w[1] \in S
      /\ Tail(w) \in Seq(S) /\ Len(Tail(w)) = Len(w) - 1
      /\ \A i \in 1..Len(Tail(w)) : Tail(w)[i] = w[i + 1]
  BY HeadTailProperties, LenProperties, EmptySeq, ElementOfSeq
<1> DEFINE v == Tail(w)
<1> HIDE DEF v
<1>2. Distinct(v)
  BY <1>1 DEF Distinct, v
<1>3. ASSUME NEW d, Queued(v, d) PROVE Queued(w, d) /\ d # w[1]
  BY <1>1, <1>3 DEF Queued, Distinct, v
<1>4. ASSUME NEW d, Queued(w, d), d # w[1] PROVE Queued(v, d)
  <2>1. PICK i \in 1..Len(w) : w[i] = d
    BY <1>4 DEF Queued
  <2>2. i - 1 \in 1..Len(v) /\ v[i - 1] = d
    BY <1>1, <1>4, <2>1 DEF v
  <2> QED
    BY <2>2 DEF Queued
<1> QED
  BY <1>1, <1>2, <1>3, <1>4 DEF Queued, v

=============================================================================
