---------------------------- MODULE Registry_proofs ----------------------------
(***************************************************************************)
(* Proofs about the model registry, for every set of threads, models and   *)
(* specifications.                                                         *)
(***************************************************************************)
EXTENDS Registry, TLAPS

\* What a thread inside rcu knows: it is making an update; the copy it built is
\* its update of the map it loaded, and the flag is about that map too; and as
\* long as nobody swapped, the map it loaded is the stored one.
TriesAreSound ==
  \A t \in Threads :
    /\ pc[t] = "idle" <=> update[t] = NoUpdate
    /\ pc[t] # "idle" /\ latest[t] => cur[t] = models
    /\ pc[t] = "built" =>
         /\ new[t] = Changed(update[t], cur[t])
         /\ Removes(update[t]) => (existed[t] <=> cur[t][update[t].id] # NoModel)

RegistryInv == RegistryTypeOK /\ TriesAreSound

LEMMA UpdateIsNotNone == \A u \in Updates : u # NoUpdate
BY RegistryAssumption DEF Updates

LEMMA ChangedType ==
  ASSUME NEW u \in Updates, NEW m \in Maps
  PROVE  Changed(u, m) \in Maps
BY DEF Changed, Updates, Maps

LEMMA RegistryInvInit == RegistryInit => RegistryInv
BY DEF RegistryInit, RegistryInv, RegistryTypeOK, TriesAreSound

LEMMA RegistryInvStep == RegistryInv /\ [RegistryNext]_registryVars => RegistryInv'
<1> SUFFICES ASSUME RegistryInv, [RegistryNext]_registryVars PROVE RegistryInv'
  OBVIOUS
<1> USE DEF RegistryInv, RegistryTypeOK, TriesAreSound
<1>1. ASSUME NEW t \in Threads, NEW u \in Updates, Call(t, u) PROVE RegistryInv'
  BY <1>1, UpdateIsNotNone DEF Call, Hold
<1>2. ASSUME NEW t \in Threads, Build(t) PROVE RegistryInv'
  <2>1. update[t] \in Updates
    BY <1>2 DEF Build
  <2>2. Changed(update[t], cur[t]) \in Maps
    BY <2>1, ChangedType
  <2>3. existed' \in [Threads -> BOOLEAN]
    BY <1>2 DEF Build
  <2>4. RegistryTypeOK'
    BY <1>2, <2>2, <2>3 DEF Build
  <2>5. TriesAreSound'
    BY <1>2 DEF Build
  <2> QED
    BY <2>4, <2>5
<1>3. ASSUME NEW t \in Threads, SwapSucceeds(t) PROVE RegistryInv'
  <2>1. answer' \in [Threads -> BOOLEAN \union {NoAnswer}]
    BY <1>3 DEF SwapSucceeds
  <2>2. RegistryTypeOK'
    BY <1>3, <2>1 DEF SwapSucceeds
  <2>3. TriesAreSound'
    BY <1>3 DEF SwapSucceeds
  <2> QED
    BY <2>2, <2>3
<1>4. ASSUME NEW t \in Threads, SwapFails(t) PROVE RegistryInv'
  BY <1>4 DEF SwapFails, Hold
<1>5. CASE UNCHANGED registryVars
  BY <1>5 DEF registryVars
<1> QED
  BY <1>1, <1>2, <1>3, <1>4, <1>5 DEF RegistryNext, Rcu

\* The state of the registry keeps its type.
THEOREM RegistryTypeCorrect == RcuSpec => []RegistryTypeOK
<1>1. RegistryInv => RegistryTypeOK
  BY DEF RegistryInv
<1> QED
  BY <1>1, RegistryInvInit, RegistryInvStep, PTL DEF RcuSpec

LEMMA AtomicStep ==
  RegistryInv /\ [RegistryNext]_registryVars => [Atomic!SpecNext]_(Atomic!specVars)
<1> SUFFICES ASSUME RegistryInv, [RegistryNext]_registryVars
             PROVE  [Atomic!SpecNext]_(Atomic!specVars)
  OBVIOUS
<1> USE DEF RegistryInv, RegistryTypeOK, TriesAreSound
<1>1. ASSUME NEW t \in Threads, NEW u \in Updates, Call(t, u)
      PROVE  Atomic!SpecNext
  <2>1. Atomic!Invoke(t, u)
    BY <1>1 DEF Call, Atomic!Invoke
  <2> QED
    BY <2>1 DEF Atomic!SpecNext, Atomic!Updates, Updates
<1>2. ASSUME NEW t \in Threads, Build(t) \/ SwapFails(t)
      PROVE  UNCHANGED Atomic!specVars
  BY <1>2 DEF Build, SwapFails, Atomic!specVars
<1>3. ASSUME NEW t \in Threads, SwapSucceeds(t)
      PROVE  Atomic!SpecNext
  <2>1. cur[t] = models /\ new[t] = Changed(update[t], models) /\ update[t] # NoUpdate
    BY <1>3 DEF SwapSucceeds
  <2>2. models' = Atomic!Applied(update[t], models)
    BY <1>3, <2>1 DEF SwapSucceeds, Changed, Atomic!Applied
  <2>3. Removes(update[t]) => existed[t] = (models[update[t].id] # NoModel)
    BY <1>3, <2>1 DEF SwapSucceeds
  <2>4. answer' = [answer EXCEPT ![t] = Atomic!AnswerOf(update[t], models)]
    BY <1>3, <2>3 DEF SwapSucceeds, Removes, Atomic!AnswerOf
  <2>5. Atomic!Complete(t)
    BY <1>3, <2>1, <2>2, <2>4 DEF SwapSucceeds, Atomic!Complete
  <2> QED
    BY <2>5 DEF Atomic!SpecNext
<1>4. CASE UNCHANGED registryVars
  BY <1>4 DEF registryVars, Atomic!specVars
<1> QED
  BY <1>1, <1>2, <1>3, <1>4 DEF RegistryNext, Rcu

\* rcu implements an atomic update: no upsert or remove is lost to a concurrent
\* one, and remove's answer is about the map it was swapped against, whatever
\* its earlier tries saw.
THEOREM RegistryIsAtomic == RcuSpec => UpdatesAreAtomic
<1>1. RegistryInit => Atomic!SpecInit
  BY DEF RegistryInit, Maps, Atomic!SpecInit
<1> QED
  BY <1>1, RegistryInvInit, RegistryInvStep, AtomicStep, PTL
  DEF RcuSpec, UpdatesAreAtomic, Atomic!AtomicSpec

=============================================================================
