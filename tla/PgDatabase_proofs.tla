--------------------------- MODULE PgDatabase_proofs ---------------------------
(***************************************************************************)
(* That the pgvector client, its pool and PostgreSQL amount to the database *)
(* Router is written against: every step of theirs is at most one step of   *)
(* VectorDb, of one call.                                                    *)
(***************************************************************************)
EXTENDS PgClient_proofs

-----------------------------------------------------------------------------
(* Who is on its way. *)

\* A statement of c that matters to what becomes of c is waiting on k.
Carries(k, c) ==
  \E i \in 1..Len(sent[k]) :
    sent[k][i].by = c /\ sent[k][i].text \in {"insert", "select", "probe"}

LEMMA WayOf ==
  \A c : OnItsWay(c) <=> \/ at[c] \in {"acquiring", "asking"}
                         \/ c \in late
                         \/ \E k \in Connections : Carries(k, c)
BY DEF OnItsWay, Carries

\* A connection carries statements of one call.
LEMMA CarriesOwn ==
  ClientInv => \A k \in Connections : \A c : Carries(k, c) => Busy(k) /\ By(k) = c
<1> SUFFICES ASSUME ClientInv, NEW k \in Connections, NEW c,
                    NEW n \in 1..Len(sent[k]), sent[k][n].by = c
             PROVE  Busy(k) /\ By(k) = c
  BY DEF Carries
<1>1. Busy(k)
  BY DEF Busy
<1>2. PICK d : By(k) = d
  OBVIOUS
<1>3. d \in Callers /\ job[d] \in Job
  BY <1>1, <1>2, Owned
<1>4. /\ Rollback(d) \in Sendable /\ Rollback(d).by = d
      /\ \A i \in 1..Len(Script(d)) : Statement(d, i) \in Sendable /\ Statement(d, i).by = d
  BY <1>3, StatementTypes
<1>5. CASE sent[k] = <<Rollback(d)>>
  <2> DEFINE y == Rollback(d)
  <2>1. y \in Sendable /\ y.by = d
    BY <1>4
  <2>2. Len(<<y>>) = 1 /\ <<y>>[1] = y
    BY <2>1, One
  <2>3. sent[k][n].by = d
    BY <1>5, <2>1, <2>2
  <2> QED
    BY <1>1, <1>2, <2>3
<1>6. ASSUME NEW i \in 1..Len(Script(d)), sent[k] = <<Statement(d, i)>>
      PROVE  Busy(k) /\ By(k) = c
  BY <1>1, <1>2, <1>4, <1>6, One
<1>7. ASSUME NEW i \in 1..Len(Script(d)), sent[k] = <<Statement(d, i), Rollback(d)>>
      PROVE  Busy(k) /\ By(k) = c
  <2> DEFINE x == Statement(d, i)
             y == Rollback(d)
  <2>1. x \in Sendable /\ y \in Sendable /\ x.by = d /\ y.by = d
    BY <1>4
  <2>2. Len(<<x, y>>) = 2 /\ <<x, y>>[1] = x /\ <<x, y>>[2] = y
    BY <2>1, Two
  <2>3. sent[k][n].by = d
    BY <1>7, <2>1, <2>2
  <2> QED
    BY <1>1, <1>2, <2>3
<1> QED
  BY <1>1, <1>2, <1>5, <1>6, <1>7, Pending

LEMMA CarriesOwnNext ==
  ClientInv' => (\A k \in Connections : \A c : Carries(k, c) => Busy(k) /\ By(k) = c)'
BY CarriesOwn, PTL

\* What becomes of the calls that a step does not touch.
LEMMA FatesElsewhere ==
  ASSUME ClientInv, ClientInv', NEW c, Confined(c), NEW d \in Callers \ {c}
  PROVE  Fate(d)' = Fate(d) /\ (d \in applied' <=> d \in applied)
<1>1. PICK k : Between(c, k)
  BY DEF Confined
<1>2. SameCall(d)
  BY <1>1 DEF Between
<1>3. ASSUME NEW j \in Connections PROVE Carries(j, d)' <=> Carries(j, d)
  <2>1. CASE j = k
    <3>1. ~Carries(k, d)
      BY <1>1, <2>1, CarriesOwn DEF Between
    <3>2. ~Carries(k, d)'
      BY <1>1, <2>1, CarriesOwnNext DEF Between
    <3> QED
      BY <2>1, <3>1, <3>2
  <2>2. CASE j # k
    BY <1>1, <2>2 DEF Between, SameConnection, Carries
  <2> QED
    BY <2>1, <2>2
<1>4. OnItsWay(d)' <=> OnItsWay(d)
  BY <1>2, <1>3 DEF SameCall, OnItsWay, Carries
<1>5. Executed(d)' <=> Executed(d)
  BY <1>2 DEF SameCall, Executed
<1> QED
  BY <1>2, <1>4, <1>5 DEF SameCall, Fate

-----------------------------------------------------------------------------
(* The moves of one call. *)

Stays(c) == Fate(c)' = Fate(c) /\ (c \in applied' <=> c \in applied)

Moves(c) ==
  \/ Stays(c)
  \/ Fate(c) = "unsent" /\ Fate(c)' = "sent" /\ (c \in applied' <=> c \in applied)
  \/ Fate(c) = "sent" /\ Fate(c)' = "lost" /\ (c \in applied' <=> c \in applied)
  \/ /\ Fate(c) = "sent" /\ Fate(c)' = "applied" /\ at[c] # "idle"
     /\ IF job[c].op = "upsert" THEN c \in applied' ELSE (c \in applied' <=> c \in applied)

\* The step of the database a call's move is.
LEMMA MoveIsStep ==
  ASSUME NEW c \in Callers, Moves(c),
         \A d \in Callers \ {c} : Fate(d)' = Fate(d) /\ (d \in applied' <=> d \in applied)
  PROVE  DbStep(c) \/ UNCHANGED <<Stored, Fates>>
<1>1. Fates' = [Fates EXCEPT ![c] = Fate(c)'] /\ Fates[c] = Fate(c)
  BY DEF Fates
<1>2. (c \in applied' <=> c \in applied) => Stored' = Stored
  BY DEF Stored
<1>3. c \in applied' => Stored' = [Stored EXCEPT ![c] = c]
  BY DEF Stored
<1>4. CASE Stays(c)
  <2>1. Fates' = Fates
    BY <1>4 DEF Stays, Fates
  <2> QED
    BY <1>2, <1>4, <2>1 DEF Stays
<1>5. CASE Fate(c) = "unsent" /\ Fate(c)' = "sent" /\ (c \in applied' <=> c \in applied)
  BY <1>1, <1>2, <1>5 DEF DbStep, Db!Transmit
<1>6. CASE Fate(c) = "sent" /\ Fate(c)' = "lost" /\ (c \in applied' <=> c \in applied)
  BY <1>1, <1>2, <1>6 DEF DbStep, Db!Lose
<1>7. CASE /\ Fate(c) = "sent" /\ Fate(c)' = "applied" /\ at[c] # "idle"
           /\ IF job[c].op = "upsert" THEN c \in applied' ELSE (c \in applied' <=> c \in applied)
  BY <1>1, <1>2, <1>3, <1>7 DEF DbStep, Db!ApplyUpsert, Db!ApplySearch
<1> QED
  BY <1>4, <1>5, <1>6, <1>7 DEF Moves

\* A call that was made is executed once, while it is on its way, and never gets
\* back on its way.
LEMMA MadeCallMoves ==
  ASSUME ClientInv, ClientInv', NEW c \in Callers, at[c] # "idle", at'[c] # "idle",
         job' = job, Executed(c) => Executed(c)',
         Executed(c)' => Executed(c) \/ OnItsWay(c),
         OnItsWay(c)' => OnItsWay(c) \/ Executed(c)
  PROVE  Moves(c)
<1>1. CallInv(c) /\ CallInv(c)'
  BY DEF ClientInv
<1>2. /\ c \in applied <=> Executed(c) /\ job[c].op = "upsert"
      /\ c \in applied' <=> Executed(c)' /\ job[c].op = "upsert"
  BY <1>1 DEF CallInv, Executed
<1>3. /\ Fate(c) = IF Executed(c) THEN "applied" ELSE IF OnItsWay(c) THEN "sent" ELSE "lost"
      /\ Fate(c)' = IF Executed(c)' THEN "applied" ELSE IF OnItsWay(c)' THEN "sent" ELSE "lost"
  BY DEF Fate
<1> QED
  BY <1>2, <1>3 DEF Moves, Stays

\* An answer takes a statement off a connection and puts none on.
LEMMA AnsweredWay ==
  ASSUME ClientInv, NEW k \in Connections, NEW ok, Answered(k, ok), NEW c, OnItsWay(c)'
  PROVE  OnItsWay(c)
<1> USE DEF Answered, Put, callVars
<1>1. sent[k] \in Seq(Sendable) /\ sent[k] # << >> /\ sent'[k] = Tail(sent[k])
  BY DEF ClientInv, TypeInv
<1>2. /\ Len(sent[k]) \in Nat /\ Len(sent'[k]) = Len(sent[k]) - 1
      /\ \A i \in 1..Len(sent'[k]) : sent'[k][i] = sent[k][i + 1]
  BY <1>1, HeadTailProperties, LenProperties
<1>3. ASSUME NEW j \in Connections, Carries(j, c)' PROVE Carries(j, c)
  <2>1. CASE j = k
    <3>1. PICK i \in 1..Len(sent'[k]) :
            sent'[k][i].by = c /\ sent'[k][i].text \in {"insert", "select", "probe"}
      BY <1>3, <2>1 DEF Carries
    <3>2. i + 1 \in 1..Len(sent[k]) /\ sent'[k][i] = sent[k][i + 1]
      BY <1>2, <3>1
    <3> QED
      BY <2>1, <3>1, <3>2 DEF Carries
  <2>2. CASE j # k
    <3>1. sent'[j] = sent[j]
      BY <2>2 DEF ClientInv, TypeInv
    <3> QED
      BY <1>3, <3>1 DEF Carries
  <2> QED
    BY <2>1, <2>2
<1> QED
  BY <1>3 DEF OnItsWay, Carries

\* The database executes a call with one of the statements that make it be on
\* its way: no transaction ever holds an upsert for a later commit.
LEMMA RunEffect ==
  ASSUME ClientInv, NEW k \in Connections, Busy(k), NEW c, By(k) = c, Run(Head(sent[k]), k)
  PROVE  /\ Executed(c) => Executed(c)'
         /\ Executed(c)' => Executed(c) \/ Carries(k, c)
<1> USE DEF Put
<1>1. c \in Callers /\ job[c] \in Jobs /\ ran \in [Callers -> Runs \union {NotRun}]
  <2>1. c \in Callers /\ job[c] # Nobody
    BY Owned
  <2> QED
    BY <2>1 DEF ClientInv, TypeInv
<1>2. sent[k] \in Seq(Sendable) /\ sent[k] # << >>
  BY DEF ClientInv, TypeInv, Busy
<1>3. PICK s : s = Head(sent[k])
  OBVIOUS
<1>4. s = sent[k][1] /\ s.by = c /\ 1 \in 1..Len(sent[k]) /\ s \in Sendable
  <2>1. Len(sent[k]) \in Nat \ {0} /\ s = sent[k][1] /\ s \in Sendable
    BY <1>2, <1>3, HeadTailProperties, LenProperties, EmptySeq
  <2> QED
    BY <2>1 DEF By
<1>5. s.text \in {"insert", "select", "probe"} => Carries(k, c)
  BY <1>4 DEF Carries
<1>6. tx[k].writes = {}
  <2>1. ASSUME NEW i, DoneBy(c, k, i - 1) PROVE tx[k].writes = {}
    BY <2>1 DEF DoneBy, TxAfter, NoTx
  <2> QED
    BY <2>1, Pending
<1>7. CASE s.text \in {"begin", "set", "rollback"}
  <2>1. applied' = applied /\ ran' = ran
    BY <1>3, <1>7 DEF Run
  <2> QED
    BY <2>1 DEF Executed
<1>8. CASE s.text = "commit"
  <2>1. applied' = applied /\ ran' = ran
    BY <1>3, <1>6, <1>8 DEF Run
  <2> QED
    BY <2>1 DEF Executed
<1>9. CASE s.text = "insert"
  <2>1. ran' = ran /\ applied \subseteq applied'
    BY <1>3, <1>9 DEF Run
  <2> QED
    BY <1>5, <1>9, <2>1 DEF Executed
<1>10. CASE s.text = "select"
  <2>1. applied' = applied /\ ran'[c] = [ef |-> tx[k].ef, given |-> Operands(job[c])]
    BY <1>1, <1>3, <1>4, <1>10 DEF Run
  <2>2. tx[k].ef \in BOOLEAN
    BY DEF ClientInv, TypeInv, Session
  <2>3. ran'[c] # NotRun
    BY <1>1, <2>1, <2>2, RunsAreRuns
  <2> QED
    BY <1>5, <1>10, <2>3 DEF Executed
<1>11. CASE s.text = "probe"
  <2>1. applied' = applied /\ ran'[c] = [ef |-> FALSE, given |-> << >>]
    BY <1>1, <1>3, <1>4, <1>11 DEF Run
  <2>2. ran'[c] # NotRun
    BY <1>1, <2>1, RunsAreRuns
  <2> QED
    BY <1>5, <1>11, <2>2 DEF Executed
<1> QED
  BY <1>4, <1>7, <1>8, <1>9, <1>10, <1>11 DEF Sendable, Texts

\* An insert that outlives its connection was on it.
LEMMA LostWay ==
  ASSUME ClientInv, NEW k \in Connections, Lost(k), at' = at, NEW c, OnItsWay(c)'
  PROVE  OnItsWay(c)
<1>1. ASSUME c \in late' PROVE OnItsWay(c)
  <2>1. CASE c \in late
    BY <2>1 DEF OnItsWay
  <2>2. CASE c \notin late
    <3>1. PICK n \in 1..Len(sent[k]) : sent[k][n].text = "insert" /\ sent[k][n].by = c
      BY <1>1, <2>2 DEF Lost
    <3> QED
      BY <3>1 DEF OnItsWay
  <2> QED
    BY <2>1, <2>2
<1>2. ASSUME NEW j \in Connections, Carries(j, c)' PROVE OnItsWay(c)
  <2>1. sent' = [sent EXCEPT ![k] = << >>] /\ sent \in [Connections -> Seq(Sendable)]
    BY DEF Lost, Put, ClientInv, TypeInv
  <2>2. j # k
    BY <1>2, <2>1 DEF Carries
  <2>3. sent'[j] = sent[j]
    BY <2>1, <2>2
  <2> QED
    BY <1>2, <2>3 DEF Carries, OnItsWay
<1> QED
  BY <1>1, <1>2 DEF OnItsWay, Carries

-----------------------------------------------------------------------------
(* Every step of the client is one of the database's. *)

DbNext == (\E c \in Callers : DbStep(c)) \/ UNCHANGED <<Stored, Fates>>

LEMMA OneCall ==
  ASSUME ClientInv, ClientInv', NEW c \in Callers, Confined(c), Moves(c)
  PROVE  DbNext
<1>1. \A d \in Callers \ {c} : Fate(d)' = Fate(d) /\ (d \in applied' <=> d \in applied)
  BY FatesElsewhere
<1> QED
  BY <1>1, MoveIsStep DEF DbNext

LEMMA NoCall ==
  ASSUME ClientInv, ClientInv', Confined(Nobody)
  PROVE  DbNext
<1>1. \A d \in Callers : Fate(d)' = Fate(d) /\ (d \in applied' <=> d \in applied)
  BY FatesElsewhere, ClientAssumption
<1>2. Stored' = Stored /\ Fates' = Fates
  BY <1>1 DEF Stored, Fates
<1> QED
  BY <1>2 DEF DbNext

\* What a call in progress does of itself executes nothing.
LEMMA CallInProgress ==
  ASSUME ClientInv, ClientInv', NEW c \in Callers,
         at[c] \in {"acquiring", "asking"}, at'[c] # "idle",
         job' = job, applied' = applied, ran' = ran
  PROVE  Moves(c)
<1>1. OnItsWay(c) /\ (Executed(c)' <=> Executed(c)) /\ at[c] # "idle"
  BY DEF OnItsWay, Executed
<1> QED
  BY <1>1, MadeCallMoves

LEMMA BeginMoves ==
  ASSUME ClientInv, ClientInv', NEW c \in Callers, NEW j \in Jobs, Begin(c, j)
  PROVE  Moves(c)
<1>1. at[c] = "idle" /\ at'[c] = "acquiring" /\ applied' = applied
  BY DEF ClientInv, TypeInv, Begin, Put, dataVars
<1>2. ~Executed(c)'
  BY <1>1 DEF ClientInv, CallInv
<1> QED
  BY <1>1, <1>2 DEF Moves, Fate, OnItsWay

\* The ways out of a call.
LEMMA EndMoves ==
  ASSUME ClientInv, ClientInv', NEW c \in Callers, at[c] \in {"acquiring", "asking"},
         NEW o \in Outcomes, End(c, o), applied' = applied, ran' = ran
  PROVE  Moves(c)
<1>1. at'[c] = o /\ o # "idle" /\ job' = job
  BY DEF ClientInv, TypeInv, End, Put, Outcomes
<1> QED
  BY <1>1, CallInProgress

LEMMA CallStepIsDb ==
  ASSUME ClientInv, ClientInv', NEW c \in Callers, CallStep(c)
  PROVE  DbNext
<1>1. ASSUME NEW k \in Connections, Acquire(c, k) PROVE DbNext
  <2>1. at[c] = "acquiring" /\ at'[c] = "asking" /\ UNCHANGED <<job, applied, ran>>
    BY <1>1 DEF ClientInv, TypeInv, Acquire, Put, dataVars
  <2> QED
    BY <1>1, <2>1, AcquireStep, CallInProgress, OneCall
<1>2. CASE Proceed(c)
  <2>1. at[c] = "asking" /\ at' = at /\ UNCHANGED <<job, applied, ran>>
    BY <1>2 DEF Proceed, dataVars
  <2> QED
    BY <1>2, <2>1, ProceedStep, CallInProgress, OneCall
<1>3. CASE Succeed(c)
  <2>1. PICK o \in Outcomes : End(c, o)
    BY <1>3 DEF Succeed, Outcomes
  <2>2. at[c] = "asking" /\ UNCHANGED <<applied, ran>>
    BY <1>3 DEF Succeed, GiveBack, dataVars
  <2> QED
    BY <1>3, <2>1, <2>2, SucceedStep, EndMoves, OneCall
<1>4. CASE Fail(c)
  <2>1. at[c] = "asking" /\ End(c, "error") /\ UNCHANGED <<applied, ran>>
    BY <1>4 DEF Fail, GiveBack, dataVars
  <2> QED
    BY <1>4, <2>1, FailStep, EndMoves, OneCall DEF Outcomes
<1> QED
  BY <1>1, <1>2, <1>3, <1>4 DEF CallStep

\* A call that is given up stays on its way if what it sent may still arrive,
\* and is lost if not.
LEMMA GivingUpIsDb ==
  ASSUME ClientInv, ClientInv', NEW c \in Callers,
         AcquireFails(c) \/ TimeOut(c) \/ Drop(c) \/ Break(c)
  PROVE  DbNext
<1>1. CASE AcquireFails(c)
  <2>1. at[c] = "acquiring" /\ End(c, "error") /\ UNCHANGED <<applied, ran>>
    BY <1>1 DEF AcquireFails, Unqueue, dataVars
  <2>2. Confined(c)
    BY <1>1, UnqueueStep DEF AcquireFails
  <2> QED
    BY <2>1, <2>2, EndMoves, OneCall DEF Outcomes
<1>2. CASE TimeOut(c) \/ Drop(c)
  <2>1. PICK o \in {"error", "dropped"} : Abandon(c) /\ End(c, o)
    BY <1>2 DEF TimeOut, Drop
  <2>2. at[c] \in {"acquiring", "asking"} /\ UNCHANGED <<applied, ran>>
    BY <2>1 DEF Abandon, Unqueue, GiveBack, dataVars
  <2> QED
    BY <2>1, <2>2, AbandonStep, EndMoves, OneCall DEF Outcomes
<1>3. CASE Break(c)
  <2>1. at[c] = "asking" /\ End(c, "error") /\ UNCHANGED <<applied, ran>>
    BY <1>3 DEF Break, Lost
  <2> QED
    BY <1>3, <2>1, BreakStep, EndMoves, OneCall DEF Outcomes
<1> QED
  BY <1>1, <1>2, <1>3

\* The database executes a call while it is on its way, whether or not anybody
\* waits for it.
LEMMA AnsweredIsDb ==
  ASSUME ClientInv, ClientInv', NEW k \in Connections, Execute(k) \/ Refuse(k)
  PROVE  DbNext
<1>1. PICK c : By(k) = c
  OBVIOUS
<1>2. Busy(k) /\ at' = at /\ job' = job /\ \E ok : Answered(k, ok)
  BY DEF Execute, Refuse, Answered, Busy, callVars
<1>3. c \in Callers /\ at[c] # "idle"
  BY <1>1, <1>2, Owned DEF Outcomes
<1>4. OnItsWay(c)' => OnItsWay(c)
  BY <1>2, AnsweredWay
<1>5. (Executed(c) => Executed(c)') /\ (Executed(c)' => Executed(c) \/ OnItsWay(c))
  <2>1. CASE Execute(k)
    BY <1>1, <1>2, <2>1, RunEffect, WayOf DEF Execute
  <2>2. CASE Refuse(k)
    BY <2>2 DEF Refuse, Executed
  <2> QED
    BY <2>1, <2>2
<1>6. Confined(c)
  BY <1>1, ExecuteStep, RefuseStep
<1> QED
  BY <1>2, <1>3, <1>4, <1>5, <1>6, MadeCallMoves, OneCall

LEMMA PoolIsDb ==
  ASSUME ClientInv, ClientInv', NEW k \in Connections, TakeBack(k) \/ Discard(k)
  PROVE  DbNext
<1>1. CASE TakeBack(k)
  BY <1>1, TakeBackStep, NoCall
<1>2. CASE Discard(k) /\ ~Busy(k)
  <2>1. PICK c : By(k) = c
    OBVIOUS
  <2> QED
    BY <1>2, <2>1, DiscardStep, NoCall
<1>3. CASE Discard(k) /\ Busy(k)
  <2>1. PICK c : By(k) = c
    OBVIOUS
  <2>2. c \in Callers /\ at[c] # "idle"
    BY <1>3, <2>1, Owned DEF Outcomes
  <2>3. Lost(k) /\ at' = at /\ job' = job /\ applied' = applied /\ ran' = ran
    BY <1>3 DEF Discard, Lost
  <2>4. OnItsWay(c)' => OnItsWay(c)
    BY <2>3, LostWay
  <2>5. Executed(c)' <=> Executed(c)
    BY <2>3 DEF Executed
  <2>6. Confined(c)
    BY <1>3, <2>1, DiscardStep
  <2> QED
    BY <2>2, <2>3, <2>4, <2>5, <2>6, MadeCallMoves, OneCall
<1> QED
  BY <1>1, <1>2, <1>3

\* An insert arrives over a connection that is gone, or never does.
LEMMA LateIsDb ==
  ASSUME ClientInv, ClientInv', NEW c \in Callers, LateInsert(c)
  PROVE  DbNext
<1>1. c \in late /\ late' \subseteq late /\ applied \subseteq applied'
      /\ UNCHANGED <<at, job, sent, ran>>
  BY DEF LateInsert, callVars, poolVars
<1>2. OnItsWay(c) /\ (Executed(c) => Executed(c)')
  BY <1>1 DEF OnItsWay, Executed
<1>3. at[c] # "idle" /\ at'[c] # "idle"
  BY <1>1 DEF ClientInv, CallInv, Outcomes
<1>4. Confined(c)
  BY LateInsertStep
<1> QED
  BY <1>1, <1>2, <1>3, <1>4, MadeCallMoves, OneCall

LEMMA ClientStepIsDb ==
  ClientInv /\ ClientInv' /\ [ClientNext]_clientVars
    => [\E c \in Callers : DbStep(c)]_<<Stored, Fates>>
<1> SUFFICES ASSUME ClientInv, ClientInv', [ClientNext]_clientVars PROVE DbNext
  BY DEF DbNext
<1>1. ASSUME NEW c \in Callers, NEW j \in Jobs, Begin(c, j) PROVE DbNext
  BY <1>1, BeginStep, BeginMoves, OneCall
<1>2. ASSUME UNCHANGED clientVars PROVE DbNext
  BY <1>2 DEF DbNext, clientVars, callVars, poolVars, dataVars,
              Stored, Fates, Fate, Executed, OnItsWay
<1> QED
  BY <1>1, <1>2, CallStepIsDb, GivingUpIsDb, AnsweredIsDb, PoolIsDb, LateIsDb
  DEF ClientNext, AllDone

\* The client, its pool and PostgreSQL implement the database Router is written
\* against: each call has its effect at most once, at one moment after it was
\* made, or never, and no step decides about two calls.
THEOREM ImplementsDatabase ==
  ClientSpec => DatabaseIsImplemented
<1>1. ClientInit => Db!DbInit
  <2> SUFFICES ASSUME ClientInit PROVE Db!DbInit
    OBVIOUS
  <2>1. applied = {} /\ \A c \in Callers : at[c] = "idle"
    BY DEF ClientInit
  <2> QED
    BY <2>1 DEF Db!DbInit, Stored, Fates, Fate
<1> QED
  BY <1>1, ClientStepIsDb, ConnectionsAreOwned, PTL DEF ClientSpec, DatabaseIsImplemented

\* A call's fate is final: one that has its effect has it once, and one that was
\* given up and came to nothing never has an effect later, however late its
\* connection is taken back.
FateIsFinal ==
  [][\A c \in Callers : Fate(c) \in {"applied", "lost"} => Fate(c)' = Fate(c)]_clientVars

LEMMA DbStepKeepsFates ==
  ASSUME ClientInv, ClientInv', [ClientNext]_clientVars,
         NEW c \in Callers, Fate(c) \in {"applied", "lost"}
  PROVE  Fate(c)' = Fate(c)
<1>1. Fates[c] = Fate(c) /\ Fates'[c] = Fate(c)' /\ Fates \in [Callers -> {Fate(d) : d \in Callers}]
  BY DEF Fates
<1>2. CASE UNCHANGED <<Stored, Fates>>
  BY <1>1, <1>2
<1>3. ASSUME NEW d \in Callers, DbStep(d) PROVE Fate(c)' = Fate(c)
  <2>1. Fates[d] \in {"unsent", "sent"} /\ \E f : Fates' = [Fates EXCEPT ![d] = f]
    BY <1>3 DEF DbStep, Db!Transmit, Db!Lose, Db!ApplyUpsert, Db!ApplySearch
  <2>2. c # d
    BY <1>1, <2>1
  <2> QED
    BY <1>1, <2>1, <2>2
<1> QED
  BY <1>2, <1>3, ClientStepIsDb

\* What a call did in the database is settled once, whatever becomes of its
\* connection afterwards.
THEOREM FatesAreFinal == ClientSpec => FateIsFinal
<1>1. ClientInv /\ ClientInv' /\ [ClientNext]_clientVars
        => [\A c \in Callers : Fate(c) \in {"applied", "lost"} => Fate(c)' = Fate(c)]_clientVars
  BY DbStepKeepsFates
<1> QED
  BY <1>1, ConnectionsAreOwned, PTL DEF ClientSpec, FateIsFinal

=============================================================================
