---------------------------- MODULE PgClient_proofs ----------------------------
(***************************************************************************)
(* Proofs about the pgvector client, for any number of calls, whatever they *)
(* ask for, and any pool of connections: what is on a connection that a     *)
(* call holds, what a call that ended has left on one, and that nothing of  *)
(* it ever reaches another call.                                            *)
(***************************************************************************)
EXTENDS PgClient, TLAPS, QueueTheorems, SequenceTheorems, FiniteSetTheorems

-----------------------------------------------------------------------------
(* The inductive invariant. *)

Texts     == {"insert", "probe", "begin", "set", "select", "commit", "rollback"}
Sendable  == [by : Callers, text : Texts]
Reply     == [to : Callers, ok : BOOLEAN]
Session   == [open : BOOLEAN, ef : BOOLEAN, writes : SUBSET Callers]

TypeInv ==
  /\ ef_search \in BOOLEAN
  /\ inflight \in Int
  /\ at \in [Callers -> {"idle", "acquiring", "asking"} \union Outcomes]
  /\ job \in [Callers -> Jobs \union {Nobody}]
  /\ step \in [Callers -> 0..4]
  /\ conn \in [Callers -> Connections \union {Nobody}]
  /\ waiting \in Seq(Callers)
  /\ place \in [Connections -> {"pool", "held", "returning"}]
  /\ sent \in [Connections -> Seq(Sendable)]
  /\ answers \in [Connections -> Seq(Reply)]
  /\ tx \in [Connections -> Session]
  /\ late \subseteq Callers /\ applied \subseteq Callers
  /\ ran \in [Callers -> Runs \union {NotRun}]

\* The queue holds each call that waits, once.
QueueInv ==
  /\ \A c \in Callers : at[c] = "acquiring" <=> \E i \in 1..Len(waiting) : waiting[i] = c
  /\ \A i, j \in 1..Len(waiting) : waiting[i] = waiting[j] => i = j

\* The session's transaction when c's first n statements were executed, and no
\* other's: in it no upsert is ever written.
TxAfter(c, n) ==
  IF ~OwnsTx(c) \/ n = 0 \/ n = 4 THEN NoTx
  ELSE IF n = 1 THEN [open |-> TRUE, ef |-> FALSE, writes |-> {}]
  ELSE [open |-> TRUE, ef |-> TRUE, writes |-> {}]

\* The statement c is about; the others only surround it.
KeyAt(c) == IF OwnsTx(c) THEN 3 ELSE 1

DoneBy(c, k, n) == tx[k] = TxAfter(c, n) /\ (Executed(c) <=> n >= KeyAt(c))

\* Whose statements are on k.
By(k) == sent[k][1].by
Busy(k) == sent[k] # << >>

\* A call has one statement out, or one answer in, and both are its own.
Attends(c, k) ==
  \E i \in 1..Len(Script(c)) :
    /\ step[c] = i
    /\ \/ sent[k] = <<Statement(c, i)>> /\ answers[k] = << >> /\ DoneBy(c, k, i - 1)
       \/ /\ sent[k] = << >> /\ Len(answers[k]) = 1
          /\ IF answers[k][1].ok THEN DoneBy(c, k, i) ELSE DoneBy(c, k, i - 1)

\* What a call that ended has left: nothing, its last statement, a ROLLBACK or
\* both, and a transaction only with a ROLLBACK to come.
Leftover(c, k) ==
  /\ at[c] \in Outcomes
  /\ \/ sent[k] = <<Rollback(c)>> /\ tx[k].writes = {}
     \/ ~OwnsTx(c) /\ sent[k] = <<Statement(c, 1)>> /\ DoneBy(c, k, 0)
     \/ /\ OwnsTx(c)
        /\ \E n \in 0..3 : sent[k] = <<Statement(c, n + 1), Rollback(c)>> /\ DoneBy(c, k, n)

CallInv(c) ==
  /\ job[c] = Nobody <=> at[c] = "idle"
  /\ conn[c] # Nobody <=> at[c] = "asking"
  /\ \A k \in Connections : conn[c] = k => place[k] = "held" /\ Attends(c, k)
  /\ at[c] \in {"idle", "acquiring"} => ~Executed(c)
  /\ at[c] = "ok" => Executed(c)
  /\ c \in late => /\ at[c] \in Outcomes /\ job[c].op = "upsert" /\ ~Executed(c)
                   /\ \A k \in Connections : Busy(k) => By(k) # c
  /\ c \in applied => at[c] # "idle" /\ job[c].op = "upsert"
  /\ ran[c] # NotRun =>
       /\ at[c] # "idle" /\ job[c].op # "upsert"
       /\ job[c].op = "search" => ran[c] = [ef |-> ef_search, given |-> Operands(job[c])]

ConnInv(k) ==
  /\ place[k] = "pool" => sent[k] = << >> /\ answers[k] = << >> /\ tx[k] = NoTx
  /\ place[k] = "held" => \E c \in Callers : conn[c] = k
  /\ place[k] = "returning" =>
       IF Busy(k) THEN \E c \in Callers : By(k) = c /\ Leftover(c, k) ELSE tx[k] = NoTx

\* No two calls on one connection, none on two.
Alone ==
  /\ \A c, d \in Callers : conn[c] = conn[d] /\ conn[c] # Nobody => c = d
  /\ \A j, k \in Connections : Busy(j) /\ Busy(k) /\ By(j) = By(k) => j = k

ClientInv ==
  /\ TypeInv /\ QueueInv /\ Alone
  /\ \A c \in Callers : CallInv(c)
  /\ \A k \in Connections : ConnInv(k)

-----------------------------------------------------------------------------
(* Sequences of up to two statements, and the scripts. *)

LEMMA One ==
  ASSUME NEW S, NEW x \in S
  PROVE  /\ Append(<< >>, x) = <<x>>
         /\ <<x>> \in Seq(S) /\ <<x>> # << >> /\ Len(<<x>>) = 1 /\ <<x>>[1] = x
         /\ Head(<<x>>) = x /\ Tail(<<x>>) = << >>
OBVIOUS

LEMMA Two ==
  ASSUME NEW S, NEW x \in S, NEW y \in S
  PROVE  /\ Append(<<x>>, y) = <<x, y>>
         /\ <<x, y>> \in Seq(S) /\ <<x, y>> # << >> /\ Len(<<x, y>>) = 2
         /\ <<x, y>>[1] = x /\ <<x, y>>[2] = y
         /\ Head(<<x, y>>) = x /\ Tail(<<x, y>>) = <<y>>
<1>1. <<x, y>> \in Seq(S) /\ <<x, y>> # << >> /\ Len(<<x, y>>) = 2
      /\ <<x, y>>[1] = x /\ <<x, y>>[2] = y /\ Head(<<x, y>>) = x
  OBVIOUS
<1>2. Append(<<x>>, y) = <<x, y>>
  <2>1. <<x>> \in Seq(S) /\ Len(<<x>>) = 1 /\ <<x>>[1] = x
    OBVIOUS
  <2>2. /\ Append(<<x>>, y) \in Seq(S) /\ Len(Append(<<x>>, y)) = 2
        /\ Append(<<x>>, y)[1] = x /\ Append(<<x>>, y)[2] = y
    BY <2>1, AppendProperties
  <2>3. \A i \in 1..2 : Append(<<x>>, y)[i] = <<x, y>>[i]
    BY <1>1, <2>2
  <2> QED
    BY <1>1, <2>2, <2>3, SeqEqual
<1>3. Tail(<<x, y>>) = <<y>>
  OBVIOUS
<1> QED
  BY <1>1, <1>2, <1>3

\* What a call sends: one statement of its own, or the four of its transaction.
KeyText(c) ==
  CASE job[c].op = "upsert" -> "insert"
    [] job[c].op = "health" -> "probe"
    [] OTHER -> "select"

LEMMA Scripts ==
  ASSUME NEW c, job[c] \in Job
  PROVE  /\ OwnsTx(c) =>
              /\ Len(Script(c)) = 4
              /\ Script(c)[1] = "begin" /\ Script(c)[2] = "set"
              /\ Script(c)[3] = "select" /\ Script(c)[4] = "commit"
         /\ ~OwnsTx(c) => Len(Script(c)) = 1 /\ Script(c)[1] = KeyText(c)
         /\ \A i \in 1..Len(Script(c)) : Script(c)[i] \in Texts
<1>1. CASE job[c].op = "upsert"
  BY <1>1 DEF OwnsTx, Script, KeyText, Texts, Job
<1>2. CASE job[c].op = "health"
  BY <1>2 DEF OwnsTx, Script, KeyText, Texts, Job
<1>3. CASE job[c].op \notin {"upsert", "health"} /\ ef_search
  BY <1>3 DEF OwnsTx, Script, KeyText, Texts, Job
<1>4. CASE job[c].op \notin {"upsert", "health"} /\ ~ef_search
  BY <1>4 DEF OwnsTx, Script, KeyText, Texts, Job
<1> QED
  BY <1>1, <1>2, <1>3, <1>4

LEMMA StatementTypes ==
  ASSUME NEW c \in Callers, job[c] \in Job
  PROVE  /\ Rollback(c) \in Sendable /\ Rollback(c).by = c /\ Rollback(c).text = "rollback"
         /\ \A i \in 1..Len(Script(c)) :
              /\ Statement(c, i) \in Sendable
              /\ Statement(c, i).by = c /\ Statement(c, i).text = Script(c)[i]
BY Scripts DEF Statement, Rollback, Sendable, Texts

-----------------------------------------------------------------------------
(* What a step of one call and one connection leaves alone. *)

\* A call that asks for the same, under the same setting, sends the same.
LEMMA SameScript ==
  ASSUME NEW d, ef_search' = ef_search, job'[d] = job[d]
  PROVE  /\ Script(d)' = Script(d)
         /\ OwnsTx(d)' <=> OwnsTx(d)
         /\ KeyAt(d)' = KeyAt(d)
         /\ \A n : TxAfter(d, n)' = TxAfter(d, n)
         /\ \A n : Statement(d, n)' = Statement(d, n)
         /\ Rollback(d)' = Rollback(d)
<1>1. Script(d)' = Script(d)
  BY DEF Script
<1>2. OwnsTx(d)' <=> OwnsTx(d)
  BY DEF OwnsTx
<1>3. KeyAt(d)' = KeyAt(d)
  BY <1>2 DEF KeyAt
<1>4. \A n : TxAfter(d, n)' = TxAfter(d, n)
  BY <1>2 DEF TxAfter, NoTx
<1>5. \A n : Statement(d, n)' = Statement(d, n)
  BY <1>1 DEF Statement
<1>6. Rollback(d)' = Rollback(d)
  BY DEF Rollback
<1> QED
  BY <1>1, <1>2, <1>3, <1>4, <1>5, <1>6

SameCall(d) ==
  /\ ef_search' = ef_search
  /\ at'[d] = at[d] /\ job'[d] = job[d] /\ step'[d] = step[d] /\ conn'[d] = conn[d]
  /\ ran'[d] = ran[d]
  /\ d \in late' <=> d \in late
  /\ d \in applied' <=> d \in applied

SameConnection(j) ==
  place'[j] = place[j] /\ sent'[j] = sent[j] /\ answers'[j] = answers[j] /\ tx'[j] = tx[j]

LEMMA SameAttends ==
  ASSUME NEW d, NEW j, SameCall(d), SameConnection(j)
  PROVE  /\ Executed(d)' <=> Executed(d)
         /\ Attends(d, j)' <=> Attends(d, j)
         /\ Leftover(d, j)' <=> Leftover(d, j)
<1> USE SameScript DEF SameCall, SameConnection
<1>1. Executed(d)' <=> Executed(d)
  BY DEF Executed
<1>2. \A n : DoneBy(d, j, n)' <=> DoneBy(d, j, n)
  BY <1>1 DEF DoneBy
<1>3. Attends(d, j)' <=> Attends(d, j)
  BY <1>2 DEF Attends
<1>4. Leftover(d, j)' <=> Leftover(d, j)
  BY <1>2 DEF Leftover, Outcomes
<1> QED
  BY <1>1, <1>3, <1>4

\* Who has statements on a connection: the call that holds it, or one that ended
\* and left it to be taken back.
LEMMA Owners ==
  ASSUME ClientInv, NEW k \in Connections, Busy(k)
  PROVE  /\ By(k) \in Callers
         /\ \/ place[k] = "held" /\ at[By(k)] = "asking" /\ conn[By(k)] = k
            \/ place[k] = "returning" /\ at[By(k)] \in Outcomes
<1>1. sent[k] \in Seq(Sendable) /\ place[k] \in {"pool", "held", "returning"}
  BY DEF ClientInv, TypeInv
<1>2. By(k) \in Callers
  <2>1. Len(sent[k]) \in Nat \ {0}
    BY <1>1, LenProperties, EmptySeq DEF Busy
  <2>2. sent[k][1] \in Sendable
    BY <1>1, <2>1, ElementOfSeq
  <2> QED
    BY <2>2 DEF By, Sendable
<1>3. CASE place[k] = "held"
  <2>1. PICK c \in Callers : conn[c] = k
    BY <1>3 DEF ClientInv, ConnInv
  <2>2. at[c] = "asking" /\ Attends(c, k)
    BY <2>1, ClientAssumption DEF ClientInv, CallInv
  <2>3. job[c] \in Job
    BY <2>2, ClientAssumption DEF ClientInv, CallInv, TypeInv
  <2>4. By(k) = c
    BY <2>2, <2>3, StatementTypes DEF Attends, Busy, By
  <2> QED
    BY <1>2, <1>3, <2>1, <2>2, <2>4
<1>4. CASE place[k] = "returning"
  BY <1>2, <1>4 DEF ClientInv, ConnInv, Leftover
<1>5. place[k] # "pool"
  BY DEF ClientInv, ConnInv, Busy
<1> QED
  BY <1>1, <1>3, <1>4, <1>5

\* A step of at most one call c and one connection k, which is nobody else's,
\* keeps what the invariant says of the other calls and connections.
Between(c, k) ==
  /\ \A d \in Callers \ {c} : SameCall(d) /\ (conn[d] # Nobody => conn[d] # k)
  /\ \A j \in Connections \ {k} :
       SameConnection(j) /\ (c \in Callers => conn[c] # j) /\ (Busy(j) => By(j) # c)
  /\ c \in Callers => conn'[c] \in {Nobody, k}
  /\ k \in Connections => (Busy(k) => By(k) = c) /\ (Busy(k)' => By(k)' = c)

Confined(c) == \E k : Between(c, k)

LEMMA Elsewhere ==
  ASSUME ClientInv, NEW c, NEW k, Between(c, k)
  PROVE  /\ Alone'
         /\ \A d \in Callers \ {c} : CallInv(d)'
         /\ \A j \in Connections \ {k} : ConnInv(j)'
<1> USE DEF Between
<1>1. \A j \in Connections \ {k} : (Busy(j)' <=> Busy(j)) /\ By(j)' = By(j)
  BY DEF SameConnection, Busy, By
<1>2. Alone'
  <2>1. ASSUME NEW d \in Callers, NEW e \in Callers, conn'[d] = conn'[e], conn'[d] # Nobody
        PROVE  d = e
    BY <2>1 DEF ClientInv, Alone, SameCall
  <2>2. ASSUME NEW i \in Connections, NEW j \in Connections,
               Busy(i)', Busy(j)', By(i)' = By(j)'
        PROVE  i = j
    BY <1>1, <2>2 DEF ClientInv, Alone
  <2> QED
    BY <2>1, <2>2 DEF Alone
<1>3. ASSUME NEW d \in Callers \ {c} PROVE CallInv(d)'
  <2>1. SameCall(d) /\ CallInv(d)
    BY DEF ClientInv
  <2>2. Executed(d)' <=> Executed(d)
    BY <2>1 DEF Executed, SameCall
  <2>3. ASSUME NEW j \in Connections, conn'[d] = j
        PROVE  place'[j] = "held" /\ Attends(d, j)'
    <3>1. j # k /\ conn[d] = j
      BY <2>1, <2>3, ClientAssumption DEF SameCall
    <3>2. SameConnection(j)
      BY <3>1
    <3>3. Attends(d, j)' <=> Attends(d, j)
      BY <2>1, <3>2, SameAttends
    <3> QED
      BY <2>1, <3>1, <3>2, <3>3 DEF CallInv, SameConnection
  <2>4. ASSUME d \in late' PROVE \A j \in Connections : Busy(j)' => By(j)' # d
    BY <1>1, <2>1, <2>4 DEF CallInv, SameCall
  <2>5. Outcomes' = Outcomes /\ Operands(job[d])' = Operands(job[d])
    BY <2>1 DEF SameCall, Outcomes
  <2> QED
    BY <2>1, <2>2, <2>3, <2>4, <2>5 DEF CallInv, SameCall
<1>4. ASSUME NEW j \in Connections \ {k} PROVE ConnInv(j)'
  <2>1. SameConnection(j) /\ ConnInv(j)
    BY DEF ClientInv
  <2>2. ASSUME place[j] = "held" PROVE \E d \in Callers : conn'[d] = j
    <3>1. PICK d \in Callers : conn[d] = j
      BY <2>1, <2>2 DEF ConnInv
    <3>2. d # c
      BY <3>1
    <3> QED
      BY <3>1, <3>2 DEF SameCall
  <2>3. ASSUME Busy(j), place[j] = "returning"
        PROVE  \E d \in Callers : By(j) = d /\ Leftover(d, j)'
    <3>1. PICK d \in Callers : By(j) = d /\ Leftover(d, j)
      BY <2>1, <2>3 DEF ConnInv
    <3>2. SameCall(d)
      BY <2>3, <3>1
    <3> QED
      BY <2>1, <3>1, <3>2, SameAttends
  <2> QED
    BY <1>1, <2>1, <2>2, <2>3 DEF ConnInv, SameConnection
<1> QED
  BY <1>2, <1>3, <1>4

\* So the rest of the invariant is the business of c and k.
LEMMA Here ==
  ASSUME ClientInv, NEW c \in Callers, NEW k, Between(c, k),
         TypeInv', QueueInv', CallInv(c)', k \in Connections => ConnInv(k)'
  PROVE  ClientInv' /\ Confined(c)
BY Elsewhere DEF ClientInv, Confined

LEMMA HereNobody ==
  ASSUME ClientInv, NEW k \in Connections, Between(Nobody, k),
         TypeInv', QueueInv', ConnInv(k)'
  PROVE  ClientInv' /\ Confined(Nobody)
BY Elsewhere, ClientAssumption DEF ClientInv, Confined

-----------------------------------------------------------------------------
(* The queue for connections. *)

LEMMA QueueParts ==
  QueueInv <=> Distinct(waiting) /\ \A c \in Callers : at[c] = "acquiring" <=> Queued(waiting, c)
BY DEF QueueInv, Distinct, Queued

\* A step that moves nobody into the queue or out of it.
LEMMA QueueRests ==
  ASSUME QueueInv, waiting' = waiting,
         \A d \in Callers : at[d] = "acquiring" <=> at'[d] = "acquiring"
  PROVE  QueueInv'
BY DEF QueueInv

-----------------------------------------------------------------------------
(* Calls that hold no connection: they begin, and leave the queue. *)

Untouched(c, k) ==
  /\ \A d \in Callers \ {c} : SameCall(d)
  /\ \A j \in Connections \ {k} : SameConnection(j)

\* A call without a connection and without statements on one.
LEMMA Detached ==
  ASSUME ClientInv, NEW c \in Callers, at[c] \in {"idle", "acquiring"} \/ c \in late
  PROVE  /\ conn[c] = Nobody
         /\ \A k \in Connections : Busy(k) => By(k) # c
         /\ at[c] \in {"idle", "acquiring"} => ~Executed(c) /\ c \notin late
<1>1. CallInv(c)
  BY DEF ClientInv
<1>2. at[c] # "asking"
  BY <1>1 DEF CallInv, Outcomes
<1>3. ASSUME NEW k \in Connections, Busy(k), at[c] \in {"idle", "acquiring"} PROVE By(k) # c
  BY <1>3, Owners DEF Outcomes
<1> QED
  BY <1>1, <1>2, <1>3 DEF CallInv, Outcomes

LEMMA DetachedStep ==
  ASSUME ClientInv, NEW c \in Callers, at[c] \in {"idle", "acquiring"} \/ c \in late,
         Untouched(c, Nobody), conn' = conn
  PROVE  Between(c, Nobody)
BY Detached, ClientAssumption DEF Between, Untouched

LEMMA BeginStep ==
  ASSUME ClientInv, NEW c \in Callers, NEW j \in Jobs, Begin(c, j)
  PROVE  ClientInv' /\ Confined(c)
<1> USE DEF Begin, Put, poolVars, dataVars
<1>1. at[c] = "idle" /\ TypeInv /\ QueueInv /\ CallInv(c)
  BY DEF ClientInv
<1>2. Distinct(waiting) /\ ~Queued(waiting, c)
      /\ \A d \in Callers : at[d] = "acquiring" <=> Queued(waiting, d)
  BY <1>1, QueueParts
<1>3. /\ waiting' \in Seq(Callers) /\ Distinct(waiting')
      /\ \A d : Queued(waiting', d) <=> d = c \/ Queued(waiting, d)
  BY <1>1, <1>2, QueueJoins DEF TypeInv
<1>4. QueueInv'
  <2>1. \A d \in Callers : at'[d] = "acquiring" <=> d = c \/ at[d] = "acquiring"
    BY <1>1 DEF TypeInv
  <2> QED
    BY <1>2, <1>3, <2>1 DEF QueueInv, Distinct, Queued
<1>5. TypeInv'
  BY <1>1, <1>3 DEF TypeInv, Outcomes
<1>6. Untouched(c, Nobody)
  BY <1>1 DEF TypeInv, Untouched, SameCall, SameConnection
<1>7. Between(c, Nobody)
  BY <1>1, <1>6, DetachedStep
<1>8. CallInv(c)'
  <2>1. at'[c] = "acquiring" /\ job'[c] = j /\ j # Nobody
    BY <1>1, ClientAssumption DEF TypeInv
  <2>2. conn'[c] = Nobody /\ c \notin late'
    BY <1>1, Detached
  <2>3. ~Executed(c)' /\ c \notin applied' /\ ran'[c] = NotRun
    BY <1>1 DEF CallInv, Executed
  <2> QED
    BY <2>1, <2>2, <2>3, ClientAssumption DEF CallInv, Outcomes
<1> QED
  BY <1>4, <1>5, <1>7, <1>8, Here, ClientAssumption

\* A call that gives up waiting for a connection.
LEMMA UnqueueStep ==
  ASSUME ClientInv, NEW c \in Callers, Unqueue(c), NEW o \in {"error", "dropped"}, End(c, o)
  PROVE  ClientInv' /\ Confined(c)
<1> USE DEF Unqueue, End, Put, poolVars, dataVars
<1>1. at[c] = "acquiring" /\ TypeInv /\ QueueInv /\ CallInv(c)
  BY DEF ClientInv
<1>2. Distinct(waiting) /\ \A d \in Callers : at[d] = "acquiring" <=> Queued(waiting, d)
  BY <1>1, QueueParts
<1>3. /\ waiting' \in Seq(Callers) /\ Distinct(waiting')
      /\ \A d : Queued(waiting', d) <=> Queued(waiting, d) /\ d # c
  <2>1. PICK i \in 1..Len(waiting) :
          /\ waiting[i] = c
          /\ waiting' = SubSeq(waiting, 1, i - 1) \o SubSeq(waiting, i + 1, Len(waiting))
    OBVIOUS
  <2> QED
    BY <1>1, <1>2, <2>1, QueueLeaves DEF TypeInv
<1>4. QueueInv'
  <2>1. \A d \in Callers : at'[d] = "acquiring" <=> d # c /\ at[d] = "acquiring"
    BY <1>1 DEF TypeInv
  <2> QED
    BY <1>2, <1>3, <2>1 DEF QueueInv, Distinct, Queued
<1>5. TypeInv'
  BY <1>1, <1>3 DEF TypeInv, Outcomes
<1>6. Untouched(c, Nobody)
  BY <1>1 DEF TypeInv, Untouched, SameCall, SameConnection
<1>7. Between(c, Nobody)
  BY <1>1, <1>6, DetachedStep
<1>8. CallInv(c)'
  <2>1. at'[c] = o /\ job'[c] = job[c] /\ job[c] # Nobody
    BY <1>1 DEF TypeInv, CallInv
  <2>2. conn'[c] = Nobody /\ c \notin late'
    BY <1>1, Detached
  <2>3. ~Executed(c)' /\ c \notin applied' /\ ran'[c] = NotRun
    BY <1>1 DEF CallInv, Executed
  <2> QED
    BY <2>1, <2>2, <2>3, ClientAssumption DEF CallInv, Outcomes
<1> QED
  BY <1>4, <1>5, <1>7, <1>8, Here, ClientAssumption

-----------------------------------------------------------------------------
(* Calls with a connection. *)

LEMMA Attending ==
  ASSUME ClientInv, NEW c \in Callers, NEW k \in Connections, conn[c] = k
  PROVE  /\ at[c] = "asking" /\ place[k] = "held" /\ Attends(c, k)
         /\ job[c] \in Job /\ job[c] # Nobody /\ c \notin late
         /\ Busy(k) => By(k) = c
         /\ \A d \in Callers \ {c} : conn[d] # k
         /\ \A j \in Connections \ {k} : Busy(j) => By(j) # c
<1>1. at[c] = "asking" /\ place[k] = "held" /\ Attends(c, k)
  BY ClientAssumption DEF ClientInv, CallInv
<1>2. job[c] \in Job /\ job[c] # Nobody /\ c \notin late
  <2>1. CallInv(c) /\ TypeInv
    BY DEF ClientInv
  <2>2. job[c] # Nobody /\ c \notin late
    BY <1>1, <2>1 DEF CallInv, Outcomes
  <2> QED
    BY <2>1, <2>2, ClientAssumption DEF TypeInv
<1>3. Busy(k) => By(k) = c
  BY <1>1, <1>2, StatementTypes DEF Attends, Busy, By
<1>4. \A d \in Callers \ {c} : conn[d] # k
  BY ClientAssumption DEF ClientInv, Alone
<1>5. \A j \in Connections \ {k} : Busy(j) => By(j) # c
  BY <1>1, Owners DEF Outcomes
<1> QED
  BY <1>1, <1>2, <1>3, <1>4, <1>5

\* And one exists for each that asks.
LEMMA Attended ==
  ASSUME ClientInv, NEW c \in Callers, at[c] = "asking"
  PROVE  conn[c] \in Connections
BY DEF ClientInv, CallInv, TypeInv

LEMMA AttendingStep ==
  ASSUME ClientInv, NEW c \in Callers, NEW k \in Connections, conn[c] = k,
         Untouched(c, k), conn'[c] \in {Nobody, k}, Busy(k)' => By(k)' = c
  PROVE  Between(c, k)
BY Attending DEF Between, Untouched

LEMMA AcquireStep ==
  ASSUME ClientInv, NEW c \in Callers, NEW k \in Connections, Acquire(c, k)
  PROVE  ClientInv' /\ Confined(c)
<1> USE DEF Acquire, Put, dataVars
<1>1. at[c] = "acquiring" /\ place[k] = "pool"
      /\ TypeInv /\ QueueInv /\ CallInv(c) /\ ConnInv(k)
  BY DEF ClientInv
<1>2. sent[k] = << >> /\ answers[k] = << >> /\ tx[k] = NoTx
  BY <1>1 DEF ConnInv
<1>3. job[c] \in Job /\ job[c] # Nobody /\ ~Executed(c) /\ c \notin late
  BY <1>1, Detached, ClientAssumption DEF TypeInv, CallInv
<1>4. 1 \in 1..Len(Script(c)) /\ Statement(c, 1) \in Sendable /\ Statement(c, 1).by = c
  BY <1>3, Scripts, StatementTypes
<1>5. sent'[k] = <<Statement(c, 1)>> /\ answers'[k] = << >> /\ tx'[k] = NoTx
      /\ sent'[k] \in Seq(Sendable) /\ sent'[k][1] = Statement(c, 1)
  BY <1>1, <1>2, <1>4, One DEF TypeInv
<1>6. /\ waiting' \in Seq(Callers) /\ Distinct(waiting')
      /\ \A d : Queued(waiting', d) <=> Queued(waiting, d) /\ d # c
  <2>1. Distinct(waiting) /\ Queued(waiting, c)
    BY <1>1, QueueParts
  <2>2. waiting \in Seq(Callers) /\ waiting # << >>
    BY <1>1, <2>1, EmptySeq DEF TypeInv, Queued
  <2> QED
    BY <2>1, <2>2, QueueServes
<1>7. QueueInv'
  <2>1. \A d \in Callers : at'[d] = "acquiring" <=> d # c /\ at[d] = "acquiring"
    BY <1>1 DEF TypeInv
  <2>2. \A d \in Callers : at[d] = "acquiring" <=> Queued(waiting, d)
    BY <1>1, QueueParts
  <2> QED
    BY <1>6, <2>1, <2>2 DEF QueueInv, Distinct, Queued
<1>8. TypeInv'
  BY <1>1, <1>5, <1>6 DEF TypeInv, Outcomes
<1>9. Between(c, k)
  <2>1. Untouched(c, k)
    BY <1>1 DEF TypeInv, Untouched, SameCall, SameConnection
  <2>2. \A d \in Callers : conn[d] # k
    BY <1>1 DEF ClientInv, CallInv
  <2>3. conn[c] = Nobody /\ conn'[c] = k /\ \A j \in Connections : Busy(j) => By(j) # c
    BY <1>1, Detached DEF TypeInv
  <2>4. By(k)' = c
    BY <1>4, <1>5 DEF By
  <2> QED
    BY <1>2, <2>1, <2>2, <2>3, <2>4, ClientAssumption DEF Between, Untouched, Busy
<1>10. CallInv(c)'
  <2>1. at'[c] = "asking" /\ conn'[c] = k /\ step'[c] = 1 /\ job'[c] = job[c] /\ place'[k] = "held"
    BY <1>1 DEF TypeInv
  <2>2. ~Executed(c)' /\ c \notin late' /\ c \notin applied' /\ ran'[c] = NotRun
    BY <1>3 DEF Executed
  <2>3. KeyAt(c)' = KeyAt(c) /\ KeyAt(c) \in 1..3 /\ TxAfter(c, 1 - 1)' = NoTx
    BY <2>1, SameScript DEF KeyAt, TxAfter, NoTx
  <2>4. DoneBy(c, k, 1 - 1)'
    BY <1>5, <2>2, <2>3 DEF DoneBy
  <2>5. Attends(c, k)'
    BY <1>4, <1>5, <2>1, <2>4, SameScript DEF Attends
  <2> QED
    BY <1>3, <2>1, <2>2, <2>5, ClientAssumption DEF CallInv, Outcomes
<1>11. ConnInv(k)'
  BY <1>1 DEF ConnInv, TypeInv
<1> QED
  BY <1>7, <1>8, <1>9, <1>10, <1>11, Here

\* The answer a call reads is to its own statement, and the only one there.
LEMMA AnswerIn ==
  ASSUME ClientInv, NEW c \in Callers, NEW k \in Connections, conn[c] = k, answers[k] # << >>
  PROVE  /\ sent[k] = << >> /\ Tail(answers[k]) = << >>
         /\ \E i \in 1..Len(Script(c)) :
              step[c] = i /\ IF Answer(c).ok THEN DoneBy(c, k, i) ELSE DoneBy(c, k, i - 1)
<1>1. Attends(c, k) /\ answers[k] \in Seq(Reply)
  BY Attending DEF ClientInv, TypeInv
<1>2. /\ sent[k] = << >> /\ Len(answers[k]) = 1
      /\ \E i \in 1..Len(Script(c)) :
           step[c] = i /\ IF answers[k][1].ok THEN DoneBy(c, k, i) ELSE DoneBy(c, k, i - 1)
  BY <1>1 DEF Attends
<1>3. Answer(c) = answers[k][1]
  BY <1>1, <1>2 DEF Answer
<1>4. Tail(answers[k]) = << >>
  <2>1. Tail(answers[k]) \in Seq(Reply) /\ Len(Tail(answers[k])) = 0
    BY <1>1, <1>2, HeadTailProperties
  <2> QED
    BY <2>1, EmptySeq
<1> QED
  BY <1>2, <1>3, <1>4

LEMMA ProceedStep ==
  ASSUME ClientInv, NEW c \in Callers, Proceed(c)
  PROVE  ClientInv' /\ Confined(c)
<1> USE DEF Proceed, Put, dataVars
<1>1. PICK k \in Connections : conn[c] = k
  BY Attended
<1>2. TypeInv /\ QueueInv /\ CallInv(c) /\ ConnInv(k)
      /\ at[c] = "asking" /\ place[k] = "held" /\ job[c] \in Job
  BY <1>1, Attending DEF ClientInv
<1>3. sent[k] = << >> /\ Tail(answers[k]) = << >>
  BY <1>1, AnswerIn
<1>4. PICK i \in 1..Len(Script(c)) : step[c] = i /\ DoneBy(c, k, i)
  BY <1>1, AnswerIn
<1>5. /\ i \in Nat /\ i + 1 \in 1..Len(Script(c)) /\ i + 1 \in 0..4
      /\ Statement(c, i + 1) \in Sendable /\ Statement(c, i + 1).by = c
  <2>1. step[c] < Len(Script(c)) /\ Len(Script(c)) \in {1, 4}
    BY <1>2, Scripts
  <2> QED
    BY <1>2, <1>4, <2>1, StatementTypes
<1>6. /\ sent'[k] = <<Statement(c, i + 1)>> /\ answers'[k] = << >>
      /\ sent'[k] \in Seq(Sendable) /\ sent'[k][1] = Statement(c, i + 1)
      /\ step'[c] = i + 1
  BY <1>1, <1>2, <1>3, <1>4, <1>5, One DEF TypeInv
<1>7. QueueInv'
  BY <1>2, QueueRests
<1>8. TypeInv'
  <2>1. answers' \in [Connections -> Seq(Reply)]
    BY <1>1, <1>2, <1>3, <1>6, EmptySeq DEF TypeInv
  <2>2. sent' \in [Connections -> Seq(Sendable)]
    BY <1>1, <1>2, <1>6 DEF TypeInv
  <2>3. step' \in [Callers -> 0..4]
    BY <1>2, <1>4, <1>5 DEF TypeInv
  <2> QED
    BY <1>2, <2>1, <2>2, <2>3 DEF TypeInv, Outcomes
<1>9. Between(c, k)
  <2>1. Untouched(c, k)
    BY <1>1, <1>2 DEF TypeInv, Untouched, SameCall, SameConnection
  <2>2. By(k)' = c
    BY <1>5, <1>6 DEF By
  <2> QED
    BY <1>1, <2>1, <2>2, AttendingStep
<1>10. CallInv(c)'
  <2>1. Executed(c)' <=> Executed(c)
    BY DEF Executed
  <2>2. DoneBy(c, k, i)'
    BY <1>4, <2>1, SameScript DEF DoneBy
  <2>3. Attends(c, k)'
    BY <1>5, <1>6, <2>2, SameScript DEF Attends
  <2> QED
    BY <1>1, <1>2, <2>1, <2>3 DEF CallInv, Outcomes
<1>11. ConnInv(k)'
  BY <1>1, <1>2 DEF ConnInv
<1> QED
  BY <1>7, <1>8, <1>9, <1>10, <1>11, Here

\* A call that ends gives its connection back, with a ROLLBACK to come if it
\* drops a transaction: what is left to show is what it leaves there.
LEMMA GivesBack ==
  ASSUME ClientInv, NEW c \in Callers, NEW k \in Connections, conn[c] = k,
         NEW o \in Outcomes, End(c, o), NEW b \in BOOLEAN, GiveBack(c, b),
         o = "ok" => Executed(c),
         answers' \in [Connections -> Seq(Reply)],
         \A j \in Connections \ {k} : answers'[j] = answers[j],
         ConnInv(k)'
  PROVE  ClientInv' /\ Confined(c)
<1> USE DEF End, GiveBack, Put, dataVars
<1>1. /\ TypeInv /\ QueueInv /\ CallInv(c) /\ Attends(c, k)
      /\ at[c] = "asking" /\ job[c] \in Job /\ c \notin late /\ (Busy(k) => By(k) = c)
  BY Attending DEF ClientInv
<1>2. Rollback(c) \in Sendable /\ Rollback(c).by = c
  BY <1>1, StatementTypes
<1>3. sent' \in [Connections -> Seq(Sendable)]
  BY <1>1, <1>2, AppendProperties DEF TypeInv
<1>4. Busy(k)' => By(k)' = c
  <2>1. CASE ~b
    BY <1>1, <2>1 DEF Busy, By
  <2>2. CASE b
    <3>1. sent'[k] = Append(sent[k], Rollback(c)) /\ sent[k] \in Seq(Sendable)
      BY <1>1, <2>2 DEF TypeInv
    <3>2. CASE sent[k] = << >>
      <4>1. sent'[k][1] = Rollback(c)
        BY <1>2, <3>1, <3>2, One
      <4> QED
        BY <1>2, <4>1 DEF By
    <3>3. CASE sent[k] # << >>
      <4>1. Len(sent[k]) \in Nat \ {0}
        BY <3>1, <3>3, LenProperties, EmptySeq
      <4>2. sent'[k][1] = sent[k][1]
        BY <1>2, <3>1, <4>1, AppendProperties
      <4> QED
        BY <1>1, <3>3, <4>2 DEF By, Busy
    <3> QED
      BY <3>2, <3>3
  <2> QED
    BY <2>1, <2>2
<1>5. TypeInv'
  BY <1>1, <1>3 DEF TypeInv, Outcomes
<1>6. QueueInv'
  <2>1. \A d \in Callers : at[d] = "acquiring" <=> at'[d] = "acquiring"
    BY <1>1 DEF TypeInv, Outcomes
  <2> QED
    BY <1>1, <2>1, QueueRests
<1>7. Between(c, k)
  <2>1. Untouched(c, k)
    BY <1>1 DEF TypeInv, Untouched, SameCall, SameConnection
  <2>2. conn'[c] = Nobody
    BY <1>1 DEF TypeInv
  <2> QED
    BY <1>4, <2>1, <2>2, AttendingStep
<1>8. CallInv(c)'
  <2>1. at'[c] = o /\ conn'[c] = Nobody /\ job'[c] = job[c] /\ c \notin late'
    BY <1>1 DEF TypeInv
  <2>2. Executed(c)' <=> Executed(c)
    BY DEF Executed
  <2> QED
    BY <1>1, <2>1, <2>2, ClientAssumption DEF CallInv, Outcomes
<1> QED
  BY <1>5, <1>6, <1>7, <1>8, Here

\* What is on the connection of an ended call, seen from its last statement.
LEMMA LeavesBehind ==
  ASSUME ClientInv, NEW c \in Callers, NEW k \in Connections, conn[c] = k,
         NEW o \in Outcomes, End(c, o), GiveBack(c, OwnsTx(c))
  PROVE  ConnInv(k)'
<1> USE DEF End, GiveBack, Put, dataVars
<1>1. /\ TypeInv /\ CallInv(c) /\ Attends(c, k) /\ at[c] = "asking" /\ job[c] \in Job
  BY Attending DEF ClientInv
<1>2. /\ Rollback(c) \in Sendable /\ Rollback(c).by = c
      /\ \A i \in 1..Len(Script(c)) :
           Statement(c, i) \in Sendable /\ Statement(c, i).by = c
      /\ Rollback(c)' = Rollback(c)
  BY <1>1, StatementTypes, SameScript
<1>3. /\ place'[k] = "returning" /\ at'[c] = o
      /\ sent'[k] = IF OwnsTx(c) THEN Append(sent[k], Rollback(c)) ELSE sent[k]
      /\ tx'[k] = tx[k]
  BY <1>1 DEF TypeInv
<1>4. \A n : DoneBy(c, k, n)' <=> DoneBy(c, k, n)
  BY <1>3, SameScript DEF DoneBy, Executed
<1>5. OwnsTx(c)' <=> OwnsTx(c)
  BY SameScript
<1>6. PICK i \in 1..Len(Script(c)) :
        \/ sent[k] = <<Statement(c, i)>> /\ DoneBy(c, k, i - 1)
        \/ sent[k] = << >> /\ (DoneBy(c, k, i) \/ DoneBy(c, k, i - 1))
  BY <1>1 DEF Attends
<1>7. CASE OwnsTx(c)
  <2>1. i \in 1..4 /\ i - 1 \in 0..3 /\ (i - 1) + 1 = i
    BY <1>1, <1>7, Scripts
  <2>2. CASE sent[k] = <<Statement(c, i)>> /\ DoneBy(c, k, i - 1)
    <3> DEFINE x == Statement(c, i)
               y == Rollback(c)
    <3>0. x \in Sendable /\ y \in Sendable /\ x.by = c
      BY <1>2
    <3> HIDE DEF x, y
    <3>1. sent'[k] = <<x, y>>
      <4>1. sent'[k] = Append(sent[k], y)
        BY <1>3, <1>7 DEF y
      <4>2. sent[k] = <<x>>
        BY <2>2 DEF x
      <4>3. Append(<<x>>, y) = <<x, y>>
        BY <3>0, Two
      <4> QED
        BY <4>1, <4>2, <4>3
    <3>2. sent'[k] # << >> /\ sent'[k][1].by = c
      <4>1. <<x, y>> # << >> /\ <<x, y>>[1] = x
        BY <3>0, Two
      <4> QED
        BY <3>0, <3>1, <4>1
    <3> USE DEF x, y
    <3>3. Statement(c, i)' = Statement(c, i)
      BY SameScript
    <3>4. Leftover(c, k)'
      BY <1>2, <1>3, <1>4, <1>5, <1>7, <2>1, <2>2, <3>1, <3>3 DEF Leftover, Outcomes
    <3> QED
      BY <1>3, <3>2, <3>4 DEF ConnInv, Busy, By
  <2>3. CASE sent[k] = << >>
    <3>1. sent'[k] = <<Rollback(c)>>
      BY <1>2, <1>3, <1>7, <2>3, One
    <3>2. sent'[k] # << >> /\ sent'[k][1].by = c
      BY <1>2, <3>1, One
    <3>3. tx[k].writes = {}
      BY <1>6, <2>3, One, <1>2 DEF DoneBy, TxAfter, NoTx
    <3>4. Leftover(c, k)'
      BY <1>2, <1>3, <3>1, <3>3 DEF Leftover, Outcomes
    <3> QED
      BY <1>3, <3>2, <3>4 DEF ConnInv, Busy, By
  <2> QED
    BY <1>6, <2>2, <2>3
<1>8. CASE ~OwnsTx(c)
  <2>1. i = 1 /\ i - 1 = 0
    BY <1>1, <1>8, Scripts
  <2>2. CASE sent[k] = <<Statement(c, i)>> /\ DoneBy(c, k, i - 1)
    <3>1. sent'[k] # << >> /\ sent'[k][1].by = c
      BY <1>2, <1>3, <1>8, <2>2, One
    <3>2. Statement(c, 1)' = Statement(c, 1)
      BY SameScript
    <3>3. Leftover(c, k)'
      BY <1>2, <1>3, <1>4, <1>5, <1>8, <2>1, <2>2, <3>2 DEF Leftover, Outcomes
    <3> QED
      BY <1>3, <3>1, <3>3 DEF ConnInv, Busy, By
  <2>3. CASE sent[k] = << >>
    <3>1. tx[k] = NoTx
      BY <1>2, <1>6, <1>8, <2>3, One DEF DoneBy, TxAfter
    <3> QED
      BY <1>3, <1>8, <2>3, <3>1 DEF ConnInv, Busy, NoTx
  <2> QED
    BY <1>6, <2>2, <2>3
<1> QED
  BY <1>7, <1>8

LEMMA SucceedStep ==
  ASSUME ClientInv, NEW c \in Callers, Succeed(c)
  PROVE  ClientInv' /\ Confined(c)
<1> USE DEF Succeed, Put
<1>1. PICK k \in Connections : conn[c] = k
  BY Attended
<1>2. PICK o \in {"ok", "error"} : End(c, o)
  OBVIOUS
<1>3. TypeInv /\ place[k] = "held" /\ job[c] \in Job
  BY <1>1, Attending DEF ClientInv
<1>4. sent[k] = << >> /\ Tail(answers[k]) = << >>
  BY <1>1, AnswerIn
<1>5. PICK i \in 1..Len(Script(c)) : step[c] = i /\ DoneBy(c, k, i)
  BY <1>1, AnswerIn
<1>6. i = IF OwnsTx(c) THEN 4 ELSE 1
  BY <1>3, <1>5, Scripts
<1>7. tx[k] = NoTx /\ Executed(c)
  BY <1>5, <1>6 DEF DoneBy, TxAfter, KeyAt
<1>8. answers' \in [Connections -> Seq(Reply)] /\ \A j \in Connections \ {k} : answers'[j] = answers[j]
  BY <1>1, <1>3, <1>4, EmptySeq DEF TypeInv
<1>9. ConnInv(k)'
  BY <1>1, <1>3, <1>4, <1>7 DEF ConnInv, Busy, TypeInv, GiveBack, dataVars, NoTx
<1> QED
  BY <1>1, <1>2, <1>7, <1>8, <1>9, GivesBack DEF Outcomes

LEMMA FailStep ==
  ASSUME ClientInv, NEW c \in Callers, Fail(c)
  PROVE  ClientInv' /\ Confined(c)
<1> USE DEF Fail, Put
<1>1. PICK k \in Connections : conn[c] = k
  BY Attended
<1>2. TypeInv /\ OwnsTx(c) \in BOOLEAN
  BY DEF ClientInv, OwnsTx
<1>3. Tail(answers[k]) = << >>
  BY <1>1, AnswerIn
<1>4. answers' \in [Connections -> Seq(Reply)] /\ \A j \in Connections \ {k} : answers'[j] = answers[j]
  BY <1>1, <1>2, <1>3, EmptySeq DEF TypeInv
<1>5. ConnInv(k)'
  BY <1>1, LeavesBehind DEF Outcomes
<1> QED
  BY <1>1, <1>2, <1>4, <1>5, GivesBack DEF Outcomes

\* A timeout or a drop, wherever the call is.
LEMMA AbandonStep ==
  ASSUME ClientInv, NEW c \in Callers, NEW o \in {"error", "dropped"}, Abandon(c), End(c, o)
  PROVE  ClientInv' /\ Confined(c)
<1>1. CASE Unqueue(c)
  BY <1>1, UnqueueStep
<1>2. CASE at[c] = "asking" /\ GiveBack(c, OwnsTx(c)) /\ UNCHANGED answers
  <2>1. PICK k \in Connections : conn[c] = k
    BY <1>2, Attended
  <2>2. answers' \in [Connections -> Seq(Reply)] /\ OwnsTx(c) \in BOOLEAN
    BY <1>2 DEF ClientInv, TypeInv, OwnsTx
  <2>3. ConnInv(k)'
    BY <1>2, <2>1, LeavesBehind DEF Outcomes
  <2> QED
    BY <1>2, <2>1, <2>2, <2>3, GivesBack DEF Outcomes
<1> QED
  BY <1>1, <1>2 DEF Abandon

\* The call whose statements are on a connection.
LEMMA Owned ==
  ASSUME ClientInv, NEW k \in Connections, Busy(k), NEW c, By(k) = c
  PROVE  /\ c \in Callers /\ job[c] \in Job /\ job[c] # Nobody /\ c \notin late
         /\ \/ place[k] = "held" /\ at[c] = "asking" /\ conn[c] = k /\ Attends(c, k)
            \/ place[k] = "returning" /\ at[c] \in Outcomes /\ conn[c] = Nobody /\ Leftover(c, k)
         /\ \A d \in Callers \ {c} : conn[d] # Nobody => conn[d] # k
         /\ \A j \in Connections \ {k} : (conn[c] # j) /\ (Busy(j) => By(j) # c)
<1>1. /\ c \in Callers
      /\ \/ place[k] = "held" /\ at[c] = "asking" /\ conn[c] = k
         \/ place[k] = "returning" /\ at[c] \in Outcomes
  BY Owners
<1>2. CallInv(c) /\ TypeInv /\ ConnInv(k)
  BY <1>1 DEF ClientInv
<1>3. job[c] \in Job /\ job[c] # Nobody /\ c \notin late
  <2>1. job[c] # Nobody /\ c \notin late
    BY <1>1, <1>2 DEF CallInv, Outcomes
  <2> QED
    BY <1>1, <1>2, <2>1, ClientAssumption DEF TypeInv
<1>4. CASE place[k] = "held" /\ at[c] = "asking" /\ conn[c] = k
  BY <1>1, <1>3, <1>4, Attending, ClientAssumption
<1>5. CASE place[k] = "returning" /\ at[c] \in Outcomes
  <2>1. Leftover(c, k)
    BY <1>2, <1>5 DEF ConnInv
  <2>2. conn[c] = Nobody
    BY <1>2, <1>5 DEF CallInv, Outcomes
  <2>3. \A d \in Callers : conn[d] # k
    BY <1>5 DEF ClientInv, CallInv
  <2>4. \A j \in Connections \ {k} : Busy(j) => By(j) # c
    BY DEF ClientInv, Alone
  <2> QED
    BY <1>1, <1>3, <1>5, <2>1, <2>2, <2>3, <2>4, ClientAssumption
<1> QED
  BY <1>1, <1>4, <1>5

LEMMA OwnedStep ==
  ASSUME ClientInv, NEW k \in Connections, Busy(k), NEW c, By(k) = c,
         Untouched(c, k), conn'[c] = conn[c], Busy(k)' => By(k)' = c
  PROVE  Between(c, k)
BY Owned DEF Between, Untouched

\* All that is on a connection: the statements of one call, the one it is about
\* only while that has not been executed, and after it at most a ROLLBACK.
LEMMA Pending ==
  ASSUME ClientInv, NEW k \in Connections, Busy(k), NEW c, By(k) = c
  PROVE  \/ /\ sent[k] = <<Rollback(c)>> /\ place[k] = "returning"
            /\ tx[k].writes = {}
         \/ \E i \in 1..Len(Script(c)) :
              /\ DoneBy(c, k, i - 1)
              /\ \/ /\ sent[k] = <<Statement(c, i)>>
                    /\ IF place[k] = "held" THEN step[c] = i /\ answers[k] = << >> ELSE ~OwnsTx(c)
                 \/ /\ sent[k] = <<Statement(c, i), Rollback(c)>>
                    /\ place[k] = "returning" /\ OwnsTx(c)
<1>1. job[c] \in Job
  BY Owned
<1>2. CASE place[k] = "held" /\ Attends(c, k)
  BY <1>2 DEF Attends, Busy
<1>3. CASE place[k] = "returning" /\ Leftover(c, k)
  <2>1. CASE sent[k] = <<Rollback(c)>> /\ tx[k].writes = {}
    BY <1>3, <2>1
  <2>2. CASE ~OwnsTx(c) /\ sent[k] = <<Statement(c, 1)>> /\ DoneBy(c, k, 0)
    <3>1. 1 \in 1..Len(Script(c)) /\ 1 - 1 = 0
      BY <1>1, <2>2, Scripts
    <3> QED
      BY <1>3, <2>2, <3>1
  <2>3. ASSUME OwnsTx(c), NEW n \in 0..3,
               sent[k] = <<Statement(c, n + 1), Rollback(c)>>, DoneBy(c, k, n)
        PROVE  \E i \in 1..Len(Script(c)) :
                 /\ DoneBy(c, k, i - 1)
                 /\ sent[k] = <<Statement(c, i), Rollback(c)>> /\ OwnsTx(c)
    <3>1. n + 1 \in 1..Len(Script(c)) /\ (n + 1) - 1 = n
      BY <1>1, <2>3, Scripts
    <3> QED
      BY <2>3, <3>1
  <2> QED
    BY <1>3, <2>1, <2>2, <2>3 DEF Leftover
<1> QED
  BY <1>2, <1>3, Owned

-----------------------------------------------------------------------------
(* The database executes or refuses a statement. *)

\* What the database has recorded of a call.
Recorded(c) ==
  /\ c \in applied => job[c].op = "upsert"
  /\ ran[c] # NotRun =>
       /\ job[c].op # "upsert"
       /\ job[c].op = "search" => ran[c] = [ef |-> ef_search, given |-> Operands(job[c])]

SameData(c, k) ==
  /\ \A d \in Callers \ {c} : ran'[d] = ran[d] /\ (d \in applied' <=> d \in applied)
  /\ \A j \in Connections \ {k} : tx'[j] = tx[j]

DataTypes ==
  /\ tx \in [Connections -> Session]
  /\ applied \subseteq Callers
  /\ ran \in [Callers -> Runs \union {NotRun}]

LEMMA RunsAreRuns ==
  ASSUME NEW j \in Jobs, NEW e \in BOOLEAN
  PROVE  /\ [ef |-> e, given |-> Operands(j)] \in Runs /\ [ef |-> e, given |-> Operands(j)] # NotRun
         /\ [ef |-> e, given |-> << >>] \in Runs /\ [ef |-> e, given |-> << >>] # NotRun
BY NotRunAssumption DEF Runs

LEMMA SessionFields ==
  ASSUME NEW s \in Session, NEW v \in BOOLEAN
  PROVE  /\ [s EXCEPT !.open = v] = [open |-> v, ef |-> s.ef, writes |-> s.writes]
         /\ [s EXCEPT !.ef = v] = [open |-> s.open, ef |-> v, writes |-> s.writes]
BY DEF Session

\* The next statement of a script brings the session and the database to where
\* the call's next statement is due, and touches no other call.
LEMMA RunStep ==
  ASSUME NEW c \in Callers, NEW k \in Connections, job[c] \in Jobs,
         ef_search \in BOOLEAN, ef_search' = ef_search, job' = job,
         DataTypes, Recorded(c),
         NEW i \in 1..Len(Script(c)), DoneBy(c, k, i - 1), Run(Statement(c, i), k)
  PROVE  DataTypes' /\ SameData(c, k) /\ Recorded(c)' /\ DoneBy(c, k, i)'
<1> USE DEF Put
<1>1. job[c] \in Job
  BY ClientAssumption
<1>2. /\ Statement(c, i).by = c /\ Statement(c, i).text = Script(c)[i]
  BY StatementTypes, <1>1
<1>3. OwnsTx(c) \in BOOLEAN /\ KeyAt(c)' = KeyAt(c) /\ \A n : TxAfter(c, n)' = TxAfter(c, n)
  BY SameScript DEF OwnsTx
<1>4. tx[k] = TxAfter(c, i - 1) /\ (Executed(c) <=> i - 1 >= KeyAt(c))
  BY DEF DoneBy
<1>5. DoneBy(c, k, i)' <=> tx'[k] = TxAfter(c, i) /\ (Executed(c)' <=> i >= KeyAt(c))
  BY <1>3 DEF DoneBy
<1>6. CASE OwnsTx(c)
  <2>1. /\ job[c].op = "search" /\ ef_search /\ KeyAt(c) = 3
        /\ i \in 1..4 /\ Script(c)[i] = <<"begin", "set", "select", "commit">>[i]
    BY <1>1, <1>6, Scripts DEF OwnsTx, KeyAt
  <2>2. CASE i = 1
    <3>1. tx' = [tx EXCEPT ![k].open = TRUE] /\ UNCHANGED <<applied, ran>>
      BY <1>2, <2>1, <2>2 DEF Run
    <3>2. tx[k] = NoTx
      BY <1>4, <2>2 DEF TxAfter
    <3>3. tx'[k] = [open |-> TRUE, ef |-> FALSE, writes |-> {}]
      <4>1. tx'[k] = [tx[k] EXCEPT !.open = TRUE]
        BY <3>1 DEF DataTypes
      <4>2. tx[k].ef = FALSE /\ tx[k].writes = {}
        BY <3>2 DEF NoTx
      <4>3. tx[k] \in Session
        BY DEF DataTypes
      <4> QED
        BY <4>1, <4>2, <4>3, SessionFields
    <3>4. DoneBy(c, k, i)'
      BY <1>4, <1>5, <1>6, <2>1, <2>2, <3>1, <3>3 DEF TxAfter, Executed
    <3> QED
      BY <3>1, <3>3, <3>4 DEF DataTypes, SameData, Recorded, Session
  <2>3. CASE i = 2
    <3>1. tx' = [tx EXCEPT ![k].ef = tx[k].open] /\ UNCHANGED <<applied, ran>>
      BY <1>2, <2>1, <2>3 DEF Run
    <3>2. tx[k] = [open |-> TRUE, ef |-> FALSE, writes |-> {}]
      BY <1>4, <1>6, <2>3 DEF TxAfter
    <3>3. tx'[k] = [open |-> TRUE, ef |-> TRUE, writes |-> {}]
      <4>1. tx'[k] = [tx[k] EXCEPT !.ef = tx[k].open]
        BY <3>1 DEF DataTypes
      <4>2. tx[k].open = TRUE /\ tx[k].writes = {}
        BY <3>2
      <4>3. tx[k] \in Session
        BY DEF DataTypes
      <4> QED
        BY <4>1, <4>2, <4>3, SessionFields
    <3>4. DoneBy(c, k, i)'
      BY <1>4, <1>5, <1>6, <2>1, <2>3, <3>1, <3>3 DEF TxAfter, Executed
    <3> QED
      BY <3>1, <3>3, <3>4 DEF DataTypes, SameData, Recorded, Session
  <2>4. CASE i = 3
    <3>1. /\ ran' = [ran EXCEPT ![c] = [ef |-> tx[k].ef, given |-> Operands(job[c])]]
          /\ UNCHANGED <<tx, applied>>
      BY <1>2, <2>1, <2>4 DEF Run
    <3>2. tx[k].ef = TRUE
      BY <1>4, <1>6, <2>4 DEF TxAfter
    <3>3. ran'[c] = [ef |-> ef_search, given |-> Operands(job[c])]
      BY <2>1, <3>1, <3>2 DEF DataTypes
    <3>4. ran'[c] \in Runs /\ ran'[c] # NotRun
      BY <3>3, RunsAreRuns
    <3>5. DoneBy(c, k, i)'
      <4>1. tx'[k] = TxAfter(c, i)
        BY <1>4, <1>6, <2>4, <3>1 DEF TxAfter
      <4>2. Executed(c)'
        BY <3>4 DEF Executed
      <4> QED
        BY <1>5, <2>1, <2>4, <4>1, <4>2
    <3>6. Recorded(c)'
      BY <2>1, <3>1, <3>3 DEF Recorded, Operands, Conditions, Bound, SlotOf
    <3>7. DataTypes'
      BY <3>1, <3>3, <3>4 DEF DataTypes, Runs
    <3> QED
      BY <3>1, <3>5, <3>6, <3>7 DEF SameData
  <2>5. CASE i = 4
    <3>1. applied' = applied \union tx[k].writes /\ tx' = [tx EXCEPT ![k] = NoTx] /\ UNCHANGED ran
      BY <1>2, <2>1, <2>5 DEF Run
    <3>2. tx[k].writes = {}
      BY <1>4, <1>6, <2>5 DEF TxAfter
    <3>3. tx'[k] = NoTx /\ applied' = applied
      BY <3>1, <3>2 DEF DataTypes
    <3>4. DoneBy(c, k, i)'
      BY <1>4, <1>5, <1>6, <2>1, <2>5, <3>1, <3>3 DEF TxAfter, Executed
    <3> QED
      BY <3>1, <3>3, <3>4 DEF DataTypes, SameData, Recorded, Session, NoTx
  <2> QED
    BY <2>1, <2>2, <2>3, <2>4, <2>5
<1>7. CASE ~OwnsTx(c)
  <2>1. i = 1 /\ KeyAt(c) = 1 /\ Script(c)[i] = KeyText(c)
    BY <1>1, <1>7, Scripts DEF KeyAt
  <2>2. tx[k] = NoTx /\ ~Executed(c)
    BY <1>4, <1>7, <2>1 DEF TxAfter
  <2>3. CASE job[c].op = "upsert"
    <3>1. applied' = applied \union {c} /\ UNCHANGED <<tx, ran>>
      BY <1>2, <2>1, <2>2, <2>3 DEF Run, KeyText, NoTx
    <3>2. DoneBy(c, k, i)'
      BY <1>5, <1>7, <2>1, <2>2, <3>1 DEF TxAfter, Executed
    <3> QED
      BY <2>3, <3>1, <3>2 DEF DataTypes, SameData, Recorded
  <2>4. CASE job[c].op = "health"
    <3>1. ran' = [ran EXCEPT ![c] = [ef |-> FALSE, given |-> << >>]] /\ UNCHANGED <<tx, applied>>
      BY <1>2, <2>1, <2>4 DEF Run, KeyText
    <3>2. ran'[c] = [ef |-> FALSE, given |-> << >>] /\ ran'[c] \in Runs /\ ran'[c] # NotRun
      BY <3>1, RunsAreRuns DEF DataTypes
    <3>3. DoneBy(c, k, i)'
      BY <1>5, <1>7, <2>1, <2>2, <3>1, <3>2 DEF TxAfter, Executed
    <3>4. DataTypes'
      BY <3>1, <3>2 DEF DataTypes, Runs
    <3> QED
      BY <2>4, <3>1, <3>3, <3>4 DEF SameData, Recorded
  <2>5. CASE job[c].op \notin {"upsert", "health"}
    <3>1. job[c].op = "search" /\ ~ef_search
      BY <1>1, <1>7, <2>5 DEF Job, OwnsTx
    <3>2. /\ ran' = [ran EXCEPT ![c] = [ef |-> tx[k].ef, given |-> Operands(job[c])]]
          /\ UNCHANGED <<tx, applied>>
      BY <1>2, <2>1, <2>5 DEF Run, KeyText
    <3>3. ran'[c] = [ef |-> ef_search, given |-> Operands(job[c])]
      <4>1. tx[k].ef = FALSE /\ ef_search = FALSE
        BY <2>2, <3>1 DEF NoTx
      <4> QED
        BY <3>2, <4>1 DEF DataTypes
    <3>4. ran'[c] \in Runs /\ ran'[c] # NotRun
      BY <3>3, RunsAreRuns
    <3>5. DoneBy(c, k, i)'
      BY <1>5, <1>7, <2>1, <2>2, <3>2, <3>4 DEF TxAfter, Executed
    <3>6. Recorded(c)'
      BY <3>1, <3>2, <3>3 DEF Recorded, Operands, Conditions, Bound, SlotOf
    <3>7. DataTypes'
      BY <3>2, <3>4 DEF DataTypes, Runs
    <3> QED
      BY <3>2, <3>5, <3>6, <3>7 DEF SameData
  <2> QED
    BY <2>3, <2>4, <2>5
<1> QED
  BY <1>6, <1>7

\* An answer comes in: to the call that waits for it, or on a connection that is
\* taken back, where only a ROLLBACK can be left.
LEMMA AnsweredStep ==
  ASSUME ClientInv, NEW k \in Connections, NEW ok \in BOOLEAN, Answered(k, ok),
         NEW c, By(k) = c,
         DataTypes', SameData(c, k), Recorded(c)', Executed(c) => Executed(c)',
         \A i \in 1..Len(Script(c)) :
           sent[k][1] = Statement(c, i) /\ DoneBy(c, k, i - 1)
             => IF ok THEN DoneBy(c, k, i)' ELSE DoneBy(c, k, i - 1)',
         sent[k][1] = Rollback(c) => tx'[k] = NoTx
  PROVE  ClientInv' /\ Confined(c)
<1> USE DEF Answered, Put, callVars
<1>1. /\ TypeInv /\ QueueInv /\ Busy(k)
      /\ c \in Callers /\ job[c] \in Job /\ job[c] # Nobody /\ c \notin late
      /\ CallInv(c) /\ ConnInv(k)
  BY Owned DEF ClientInv, Busy
<1>2. /\ Rollback(c) \in Sendable /\ Rollback(c).by = c
      /\ \A i \in 1..Len(Script(c)) : Statement(c, i) \in Sendable /\ Statement(c, i).by = c
      /\ Rollback(c)' = Rollback(c)
  BY <1>1, StatementTypes, SameScript
<1>3. Head(sent[k]).by = c /\ sent'[k] = Tail(sent[k])
  <2>1. sent[k] \in Seq(Sendable) /\ sent[k] # << >>
    BY <1>1 DEF TypeInv
  <2> QED
    BY <1>1, <2>1, HeadTailProperties DEF By, TypeInv
<1>4. /\ answers'[k] = Append(answers[k], [to |-> c, ok |-> ok])
      /\ answers' \in [Connections -> Seq(Reply)]
  <2>1. [to |-> c, ok |-> ok] \in Reply
    BY <1>1 DEF Reply
  <2>2. Append(answers[k], [to |-> c, ok |-> ok]) \in Seq(Reply)
    BY <1>1, <2>1, AppendProperties DEF TypeInv
  <2> QED
    BY <1>1, <1>3, <2>2 DEF TypeInv
<1>5. \/ sent'[k] = << >> /\ (place[k] = "returning" => tx'[k] = NoTx)
      \/ sent'[k] = <<Rollback(c)>> /\ tx'[k].writes = {} /\ place[k] = "returning"
  <2>1. CASE sent[k] = <<Rollback(c)>>
    BY <1>2, <1>3, <2>1, One
  <2>2. ASSUME NEW i \in 1..Len(Script(c)), sent[k] = <<Statement(c, i)>>, DoneBy(c, k, i - 1),
               place[k] = "held" \/ ~OwnsTx(c)
        PROVE  sent'[k] = << >> /\ (place[k] = "returning" => tx'[k] = NoTx)
    <3>1. sent'[k] = << >> /\ sent[k][1] = Statement(c, i)
      BY <1>2, <1>3, <2>2, One
    <3>2. DoneBy(c, k, i)' \/ DoneBy(c, k, i - 1)'
      BY <2>2, <3>1
    <3>3. ASSUME place[k] = "returning" PROVE tx'[k] = NoTx
      <4>1. ~OwnsTx(c)'
        BY <2>2, <3>3, SameScript
      <4> QED
        BY <3>2, <4>1 DEF DoneBy, TxAfter, NoTx
    <3> QED
      BY <3>1, <3>3
  <2>3. ASSUME NEW i \in 1..Len(Script(c)), sent[k] = <<Statement(c, i), Rollback(c)>>,
               DoneBy(c, k, i - 1), place[k] = "returning"
        PROVE  sent'[k] = <<Rollback(c)>> /\ tx'[k].writes = {}
    <3> DEFINE x == Statement(c, i)
               y == Rollback(c)
    <3>1. x \in Sendable /\ y \in Sendable
      BY <1>2
    <3>2. <<x, y>>[1] = x /\ Tail(<<x, y>>) = <<y>>
      BY <3>1, Two
    <3>3. DoneBy(c, k, i)' \/ DoneBy(c, k, i - 1)'
      BY <2>3, <3>2
    <3>4. tx'[k].writes = {}
      BY <3>3 DEF DoneBy, TxAfter, NoTx
    <3> QED
      BY <1>3, <2>3, <3>2, <3>4
  <2> QED
    BY <1>1, <2>1, <2>2, <2>3, Pending
<1>6. TypeInv'
  <2>1. sent' \in [Connections -> Seq(Sendable)]
    BY <1>1, <1>2, <1>3, <1>5, One, EmptySeq DEF TypeInv
  <2> QED
    BY <1>1, <1>4, <2>1 DEF TypeInv, DataTypes, Outcomes
<1>7. QueueInv'
  BY <1>1, QueueRests
<1>8. Between(c, k)
  <2>1. Untouched(c, k)
    BY <1>1 DEF TypeInv, Untouched, SameCall, SameConnection, SameData
  <2>2. Busy(k)' => By(k)' = c
    BY <1>2, <1>5, One DEF Busy, By
  <2> QED
    BY <1>1, <2>1, <2>2, OwnedStep
<1>9. CallInv(c)'
  <2>1. ASSUME conn[c] = k PROVE Attends(c, k)'
    <3>1. place[k] = "held" /\ Attends(c, k)
      BY <1>1, <2>1, Attending
    <3>2. PICK i \in 1..Len(Script(c)) :
            /\ step[c] = i
            /\ sent[k] = <<Statement(c, i)>> /\ answers[k] = << >> /\ DoneBy(c, k, i - 1)
      BY <1>1, <3>1 DEF Attends, Busy
    <3>3. sent'[k] = << >>
      BY <1>5, <3>1
    <3>4. answers'[k] = <<[to |-> c, ok |-> ok]>>
      BY <1>4, <3>2
    <3>5. Len(answers'[k]) = 1 /\ answers'[k][1].ok = ok
      <4> DEFINE r == [to |-> c, ok |-> ok]
      <4>1. r.ok = ok /\ r \in Reply
        BY <1>1 DEF Reply
      <4>2. <<r>>[1] = r /\ Len(<<r>>) = 1
        BY <4>1, One
      <4> QED
        BY <3>4, <4>1, <4>2
    <3>6. IF ok THEN DoneBy(c, k, i)' ELSE DoneBy(c, k, i - 1)'
      BY <1>2, <3>2, One
    <3>7. Script(c)' = Script(c)
      BY SameScript
    <3> QED
      BY <3>2, <3>3, <3>5, <3>6, <3>7 DEF Attends
  <2>2. conn[c] # Nobody => conn[c] = k
    BY <1>1, Owned
  <2>3. at[c] \in Outcomes \union {"asking"}
    BY <1>1, Owned
  <2> QED
    BY <1>1, <2>1, <2>2, <2>3, ClientAssumption DEF CallInv, Recorded, Outcomes
<1>10. ConnInv(k)'
  <2>1. CASE place[k] = "held"
    BY <1>1, <2>1 DEF ConnInv
  <2>2. CASE place[k] = "returning" /\ sent'[k] = << >>
    <3>1. tx'[k] = NoTx
      BY <1>2, <1>5, <2>2, One
    <3> QED
      BY <2>2, <3>1 DEF ConnInv, Busy, NoTx
  <2>3. CASE place[k] = "returning" /\ sent'[k] = <<Rollback(c)>> /\ tx'[k].writes = {}
    <3>1. Leftover(c, k)'
      BY <1>1, <1>2, <2>3, Owned DEF Leftover, Outcomes
    <3>2. sent'[k] # << >> /\ sent'[k][1].by = c
      BY <1>2, <2>3, One
    <3> QED
      BY <1>1, <2>3, <3>1, <3>2 DEF ConnInv, Busy, By
  <2>4. place[k] \in {"held", "returning"}
    BY <1>1, Owned
  <2> QED
    BY <1>5, <2>1, <2>2, <2>3, <2>4
<1> QED
  BY <1>1, <1>6, <1>7, <1>8, <1>9, <1>10, Here

LEMMA ExecuteStep ==
  ASSUME ClientInv, NEW k \in Connections, Execute(k), NEW c, By(k) = c
  PROVE  ClientInv' /\ Confined(c)
<1>1. /\ Busy(k) /\ Answered(k, TRUE) /\ Run(Head(sent[k]), k)
      /\ ef_search' = ef_search /\ job' = job
  BY DEF Execute, Answered, Busy, callVars
<1>2. c \in Callers /\ job[c] \in Job /\ job[c] # Nobody
  BY <1>1, Owned
<1>3. TypeInv /\ CallInv(c)
  BY <1>2 DEF ClientInv
<1>4. job[c] \in Jobs /\ ef_search \in BOOLEAN /\ DataTypes /\ Recorded(c)
  BY <1>2, <1>3 DEF TypeInv, DataTypes, CallInv, Recorded
<1>5. Head(sent[k]) = sent[k][1]
  BY <1>1, <1>3 DEF TypeInv, Busy
<1>6. /\ Rollback(c) \in Sendable /\ Rollback(c).text = "rollback"
      /\ \A i \in 1..Len(Script(c)) :
           Statement(c, i) \in Sendable /\ Statement(c, i).text # "rollback"
  BY <1>2, StatementTypes, Scripts DEF KeyText
<1>7. CASE sent[k] = <<Rollback(c)>>
  <2>1. sent[k][1] = Rollback(c)
    BY <1>6, <1>7, One
  <2>2. tx' = [tx EXCEPT ![k] = NoTx] /\ UNCHANGED <<applied, ran>>
    BY <1>1, <1>5, <1>6, <2>1 DEF Run, Put
  <2>3. tx'[k] = NoTx /\ DataTypes' /\ SameData(c, k)
    BY <1>4, <2>2 DEF DataTypes, SameData, Session, NoTx
  <2>4. Recorded(c)'
    BY <1>1, <1>4, <2>2 DEF Recorded, Operands, Conditions, Bound, SlotOf
  <2>5. Executed(c) => Executed(c)'
    BY <2>2 DEF Executed
  <2>6. \A i \in 1..Len(Script(c)) : sent[k][1] # Statement(c, i)
    BY <1>6, <2>1
  <2> QED
    BY <1>1, <2>3, <2>4, <2>5, <2>6, AnsweredStep
<1>8. ASSUME NEW i \in 1..Len(Script(c)), DoneBy(c, k, i - 1),
             sent[k] = <<Statement(c, i)>> \/ sent[k] = <<Statement(c, i), Rollback(c)>>
      PROVE  ClientInv' /\ Confined(c)
  <2>1. sent[k][1] = Statement(c, i)
    BY <1>6, <1>8, One, Two
  <2>2. DataTypes' /\ SameData(c, k) /\ Recorded(c)' /\ DoneBy(c, k, i)'
    BY <1>1, <1>2, <1>4, <1>5, <1>8, <2>1, RunStep
  <2>3. Executed(c) => Executed(c)'
    <3>1. (Executed(c) <=> i - 1 >= KeyAt(c)) /\ (Executed(c)' <=> i >= KeyAt(c)')
      BY <1>8, <2>2 DEF DoneBy
    <3>2. KeyAt(c)' = KeyAt(c) /\ KeyAt(c) \in 1..3
      BY <1>1, SameScript DEF KeyAt
    <3> QED
      BY <1>2, <3>1, <3>2, Scripts
  <2>4. ASSUME NEW n \in 1..Len(Script(c)), sent[k][1] = Statement(c, n) PROVE n = i
    <3>1. Script(c)[n] = Script(c)[i]
      <4>1. Statement(c, n).text = Statement(c, i).text
        BY <2>1, <2>4
      <4> QED
        BY <1>2, <4>1, StatementTypes
    <3>2. CASE OwnsTx(c)
      BY <1>2, <3>1, <3>2, Scripts
    <3>3. CASE ~OwnsTx(c)
      BY <1>2, <3>1, <3>3, Scripts
    <3> QED
      BY <3>2, <3>3
  <2>5. sent[k][1] # Rollback(c)
    BY <1>6, <2>1
  <2> QED
    BY <1>1, <2>2, <2>3, <2>4, <2>5, AnsweredStep
<1> QED
  BY <1>1, <1>7, <1>8, Pending

LEMMA RefuseStep ==
  ASSUME ClientInv, NEW k \in Connections, Refuse(k), NEW c, By(k) = c
  PROVE  ClientInv' /\ Confined(c)
<1>1. /\ Busy(k) /\ Answered(k, FALSE) /\ Head(sent[k]).text # "rollback"
      /\ UNCHANGED <<ef_search, job, tx, applied, ran>>
  BY DEF Refuse, Answered, Busy, callVars
<1>2. c \in Callers /\ job[c] \in Job /\ job[c] # Nobody
  BY <1>1, Owned
<1>3. TypeInv /\ CallInv(c)
  BY <1>2 DEF ClientInv
<1>4. DataTypes' /\ SameData(c, k)
  BY <1>1, <1>3 DEF TypeInv, DataTypes, SameData, Session, Runs
<1>5. Recorded(c)' /\ (Executed(c)' <=> Executed(c))
  BY <1>1, <1>2, <1>3 DEF CallInv, Recorded, Executed, Operands, Conditions, Bound, SlotOf
<1>6. \A i : DoneBy(c, k, i) => DoneBy(c, k, i)'
  BY <1>1, <1>5, SameScript DEF DoneBy
<1>7. sent[k][1] # Rollback(c)
  BY <1>1, <1>2, <1>3, StatementTypes DEF TypeInv, Busy
<1> QED
  BY <1>1, <1>4, <1>5, <1>6, <1>7, AnsweredStep

\* What a connection that carries nothing does is nobody's business.
LEMMA IdleConnectionStep ==
  ASSUME ClientInv, NEW k \in Connections, place[k] = "returning", ~Busy(k), ~Busy(k)',
         Untouched(Nobody, k)
  PROVE  Between(Nobody, k)
<1>1. \A d \in Callers : conn[d] # k
  BY DEF ClientInv, CallInv
<1>2. \A j \in Connections : Busy(j) => By(j) # Nobody
  BY Owners, ClientAssumption
<1> QED
  BY <1>1, <1>2, ClientAssumption DEF Between, Untouched

LEMMA TakeBackStep ==
  ASSUME ClientInv, NEW k \in Connections, TakeBack(k)
  PROVE  ClientInv' /\ Confined(Nobody)
<1> USE DEF TakeBack, Put, callVars, dataVars
<1>1. TypeInv /\ QueueInv /\ ConnInv(k)
  BY DEF ClientInv
<1>2. Between(Nobody, k)
  <2>1. Untouched(Nobody, k)
    BY <1>1 DEF TypeInv, Untouched, SameCall, SameConnection
  <2> QED
    BY <2>1, IdleConnectionStep DEF Busy
<1>3. TypeInv'
  BY <1>1, EmptySeq DEF TypeInv, Outcomes, Session, Runs
<1>4. QueueInv'
  BY <1>1, QueueRests
<1>5. ConnInv(k)'
  BY <1>1 DEF ConnInv, Busy, TypeInv, NoTx
<1> QED
  BY <1>2, <1>3, <1>4, <1>5, HereNobody

-----------------------------------------------------------------------------
(* Connections that are gone, and what arrives over them. *)

\* The insert that may still arrive is the one its call has not had executed.
LEMMA LostInsert ==
  ASSUME ClientInv, NEW k \in Connections, Busy(k), NEW c, By(k) = c, Lost(k)
  PROVE  \/ late' = late
         \/ late' = late \union {c} /\ job[c].op = "upsert" /\ ~Executed(c)
<1> DEFINE inserts == {n \in 1..Len(sent[k]) : sent[k][n].text = "insert"}
           senders == {s.by : s \in {sent[k][i] : i \in inserts}}
<1>1. c \in Callers /\ job[c] \in Job
  BY Owned
<1>2. /\ Rollback(c) \in Sendable /\ Rollback(c).text = "rollback"
      /\ \A i \in 1..Len(Script(c)) :
           Statement(c, i) \in Sendable /\ Statement(c, i).by = c
           /\ Statement(c, i).text = Script(c)[i]
  BY <1>1, StatementTypes
<1>3. late' = late \/ late' = late \union senders
  BY DEF Lost
<1>4. CASE sent[k] = <<Rollback(c)>>
  <2>1. inserts = {}
    BY <1>2, <1>4, One
  <2>2. senders = {}
    BY <2>1
  <2> QED
    BY <1>3, <2>2
<1>5. ASSUME NEW i \in 1..Len(Script(c)), sent[k] = <<Statement(c, i)>>, DoneBy(c, k, i - 1)
      PROVE  \/ late' = late
             \/ late' = late \union {c} /\ job[c].op = "upsert" /\ ~Executed(c)
  <2>1. Len(sent[k]) = 1 /\ sent[k][1] = Statement(c, i)
    BY <1>2, <1>5, One
  <2>2. CASE Script(c)[i] # "insert"
    <3>1. inserts = {}
      BY <1>2, <2>1, <2>2
    <3> QED
      BY <1>3, <3>1
  <2>3. CASE Script(c)[i] = "insert"
    <3>1. ~OwnsTx(c) /\ i = 1 /\ KeyText(c) = "insert"
      BY <1>1, <2>3, Scripts
    <3>2. job[c].op = "upsert" /\ ~Executed(c)
      BY <1>5, <3>1 DEF KeyText, DoneBy, KeyAt
    <3>3. inserts = {1}
      BY <1>2, <2>1, <2>3
    <3>4. senders = {c}
      BY <1>2, <2>1, <3>3
    <3> QED
      BY <1>3, <3>2, <3>4
  <2> QED
    BY <2>2, <2>3
<1>6. ASSUME NEW i \in 1..Len(Script(c)), OwnsTx(c), sent[k] = <<Statement(c, i), Rollback(c)>>
      PROVE  late' = late
  <2> DEFINE x == Statement(c, i)
             y == Rollback(c)
  <2>1. Len(sent[k]) = 2 /\ sent[k][1] = x /\ sent[k][2] = y
    BY <1>2, <1>6, Two
  <2>2. x.text # "insert" /\ y.text # "insert"
    BY <1>1, <1>2, <1>6, Scripts
  <2>3. inserts = {}
    BY <2>1, <2>2
  <2> QED
    BY <1>3, <2>3
<1> QED
  BY <1>4, <1>5, <1>6, Pending

\* The session ends with everything on it.
LEMMA LostConnection ==
  ASSUME ClientInv, NEW k \in Connections, Lost(k), late' \subseteq Callers,
         UNCHANGED <<ef_search, job>>
  PROVE  /\ ConnInv(k)' /\ ~Busy(k)'
         /\ place' \in [Connections -> {"pool", "held", "returning"}]
         /\ sent' \in [Connections -> Seq(Sendable)] /\ answers' \in [Connections -> Seq(Reply)]
         /\ tx' \in [Connections -> Session]
         /\ \A j \in Connections \ {k} : SameConnection(j)
         /\ waiting' = waiting /\ applied' = applied /\ ran' = ran
<1> USE DEF Lost, Put
<1>1. TypeInv
  BY DEF ClientInv
<1>2. NoTx \in Session
  BY DEF NoTx, Session
<1>3. sent' \in [Connections -> Seq(Sendable)] /\ answers' \in [Connections -> Seq(Reply)]
  BY <1>1, EmptySeq DEF TypeInv
<1>4. place'[k] = "pool" /\ sent'[k] = << >> /\ answers'[k] = << >> /\ tx'[k] = NoTx
  BY <1>1 DEF TypeInv
<1> QED
  BY <1>1, <1>2, <1>3, <1>4 DEF TypeInv, SameConnection, ConnInv, Busy, NoTx

LEMMA BreakStep ==
  ASSUME ClientInv, NEW c \in Callers, Break(c)
  PROVE  ClientInv' /\ Confined(c)
<1> USE DEF Break, End, Put
<1>1. PICK k \in Connections : conn[c] = k
  BY Attended
<1>2. Lost(k)
  BY <1>1
<1>3. /\ TypeInv /\ QueueInv /\ CallInv(c) /\ at[c] = "asking" /\ c \notin late
      /\ job[c] \in Job /\ job[c] # Nobody /\ (Busy(k) => By(k) = c)
  BY <1>1, Attending DEF ClientInv
<1>4. \/ late' = late
      \/ late' = late \union {c} /\ job[c].op = "upsert" /\ ~Executed(c)
  <2>1. CASE Busy(k)
    BY <1>2, <1>3, <2>1, LostInsert
  <2>2. CASE ~Busy(k)
    <3>1. sent[k] = << >>
      BY <2>2 DEF Busy
    <3>2. {n \in 1..Len(sent[k]) : sent[k][n].text = "insert"} = {}
      BY <3>1
    <3> QED
      BY <1>2, <3>2 DEF Lost
  <2> QED
    BY <2>1, <2>2
<1>5. late' \subseteq Callers
  BY <1>3, <1>4 DEF TypeInv
<1>6. TypeInv'
  <2>1. /\ at' \in [Callers -> {"idle", "acquiring", "asking"} \union Outcomes]
        /\ step' \in [Callers -> 0..4] /\ conn' \in [Callers -> Connections \union {Nobody}]
        /\ inflight' \in Int /\ UNCHANGED <<ef_search, job>>
    BY <1>3 DEF TypeInv, Outcomes
  <2> QED
    BY <1>2, <1>3, <1>5, <2>1, LostConnection DEF TypeInv, Outcomes
<1>7. QueueInv'
  <2>1. \A d \in Callers : at[d] = "acquiring" <=> at'[d] = "acquiring"
    BY <1>3 DEF TypeInv
  <2> QED
    BY <1>2, <1>3, <1>5, <2>1, QueueRests, LostConnection
<1>8. Between(c, k)
  <2>1. Untouched(c, k)
    BY <1>2, <1>3, <1>4, <1>5, LostConnection DEF TypeInv, Untouched, SameCall
  <2>2. conn'[c] = Nobody /\ ~Busy(k)'
    BY <1>2, <1>3, <1>5, LostConnection DEF TypeInv
  <2> QED
    BY <1>1, <2>1, <2>2, AttendingStep
<1>9. CallInv(c)'
  <2>1. at'[c] = "error" /\ conn'[c] = Nobody /\ job'[c] = job[c]
    BY <1>3 DEF TypeInv
  <2>2. (Executed(c)' <=> Executed(c)) /\ applied' = applied /\ ran' = ran
    BY <1>2, <1>5, LostConnection DEF Executed
  <2>3. ASSUME NEW j \in Connections, Busy(j)' PROVE By(j)' # c
    <3>1. j # k
      BY <1>2, <1>5, <2>3, LostConnection
    <3>2. SameConnection(j)
      BY <1>2, <1>5, <3>1, LostConnection
    <3>3. Busy(j) /\ By(j)' = By(j)
      BY <2>3, <3>2 DEF SameConnection, Busy, By
    <3> QED
      BY <1>1, <3>1, <3>3, Attending
  <2> QED
    BY <1>3, <1>4, <2>1, <2>2, <2>3, ClientAssumption
    DEF CallInv, Outcomes, Operands, Conditions, Bound, SlotOf
<1>10. ConnInv(k)'
  BY <1>2, <1>5, LostConnection
<1> QED
  BY <1>6, <1>7, <1>8, <1>9, <1>10, Here

LEMMA DiscardStep ==
  ASSUME ClientInv, NEW k \in Connections, Discard(k), NEW c, By(k) = c
  PROVE  ClientInv' /\ IF Busy(k) THEN Confined(c) ELSE Confined(Nobody)
<1> USE DEF Discard
<1>1. TypeInv /\ QueueInv /\ place[k] = "returning" /\ Lost(k)
      /\ UNCHANGED <<ef_search, inflight, at, job, step, conn>>
  BY DEF ClientInv
<1>2. ASSUME late' \subseteq Callers PROVE TypeInv' /\ QueueInv'
  <2>1. TypeInv'
    BY <1>1, <1>2, LostConnection DEF TypeInv, Outcomes
  <2> QED
    BY <1>1, <1>2, <2>1, LostConnection, QueueRests
<1>3. CASE Busy(k)
  <2>1. /\ c \in Callers /\ job[c] \in Job /\ job[c] # Nobody /\ c \notin late
        /\ at[c] \in Outcomes /\ conn[c] = Nobody
    BY <1>1, <1>3, Owned
  <2>2. CallInv(c)
    BY <2>1 DEF ClientInv
  <2>3. \/ late' = late
        \/ late' = late \union {c} /\ job[c].op = "upsert" /\ ~Executed(c)
    BY <1>1, <1>3, LostInsert
  <2>4. late' \subseteq Callers
    BY <1>1, <2>1, <2>3 DEF TypeInv
  <2>5. Between(c, k)
    <3>1. Untouched(c, k)
      BY <1>1, <2>3, <2>4, LostConnection DEF Untouched, SameCall
    <3> QED
      BY <1>1, <1>3, <2>4, <3>1, LostConnection, OwnedStep
  <2>6. CallInv(c)'
    <3>1. (Executed(c)' <=> Executed(c)) /\ applied' = applied /\ ran' = ran
      BY <1>1, <2>4, LostConnection DEF Executed
    <3>2. ASSUME NEW j \in Connections, Busy(j)' PROVE By(j)' # c
      <4>1. j # k
        BY <1>1, <2>4, <3>2, LostConnection
      <4>2. SameConnection(j)
        BY <1>1, <2>4, <4>1, LostConnection
      <4>3. Busy(j) /\ By(j)' = By(j)
        BY <3>2, <4>2 DEF SameConnection, Busy, By
      <4> QED
        BY <1>3, <4>1, <4>3, Owned
    <3> QED
      BY <1>1, <2>1, <2>2, <2>3, <3>1, <3>2, ClientAssumption
      DEF CallInv, Outcomes, Operands, Conditions, Bound, SlotOf
  <2>7. ConnInv(k)'
    BY <1>1, <2>4, LostConnection
  <2> QED
    BY <1>2, <1>3, <2>1, <2>4, <2>5, <2>6, <2>7, Here
<1>4. CASE ~Busy(k)
  <2>1. {n \in 1..Len(sent[k]) : sent[k][n].text = "insert"} = {}
    BY <1>4 DEF Busy
  <2>2. late' = late
    BY <1>1, <2>1 DEF Lost
  <2>3. late' \subseteq Callers
    BY <1>1, <2>2 DEF TypeInv
  <2>4. Untouched(Nobody, k)
    BY <1>1, <2>2, <2>3, LostConnection DEF Untouched, SameCall
  <2>5. Between(Nobody, k)
    BY <1>1, <1>4, <2>3, <2>4, LostConnection, IdleConnectionStep
  <2>6. ConnInv(k)'
    BY <1>1, <2>3, LostConnection
  <2> QED
    BY <1>2, <1>4, <2>3, <2>5, <2>6, HereNobody
<1> QED
  BY <1>3, <1>4

LEMMA LateInsertStep ==
  ASSUME ClientInv, NEW c \in Callers, LateInsert(c)
  PROVE  ClientInv' /\ Confined(c)
<1> USE DEF LateInsert, callVars, poolVars
<1>1. /\ TypeInv /\ QueueInv /\ CallInv(c) /\ c \in late
      /\ at[c] \in Outcomes /\ job[c].op = "upsert"
  BY DEF ClientInv, CallInv
<1>2. Between(c, Nobody)
  <2>1. Untouched(c, Nobody)
    BY DEF Untouched, SameCall, SameConnection
  <2> QED
    BY <1>1, <2>1, DetachedStep
<1>3. TypeInv'
  BY <1>1 DEF TypeInv, Outcomes, Session, Runs
<1>4. QueueInv'
  BY <1>1, QueueRests
<1>5. CallInv(c)'
  <2>1. Executed(c) => Executed(c)'
    BY DEF Executed
  <2>2. conn[c] = Nobody
    BY <1>1, Detached
  <2> QED
    BY <1>1, <2>1, <2>2, ClientAssumption
    DEF CallInv, Outcomes, Operands, Conditions, Bound, SlotOf
<1> QED
  BY <1>2, <1>3, <1>4, <1>5, Here, ClientAssumption

-----------------------------------------------------------------------------
(* The invariant. *)

LEMMA ClientInvInit ==
  ClientInit => ClientInv
<1> SUFFICES ASSUME ClientInit PROVE ClientInv
  OBVIOUS
<1> USE DEF ClientInit
<1>1. NoTx \in Session
  BY DEF NoTx, Session
<1>2. TypeInv
  BY <1>1, ClientAssumption, EmptySeq DEF TypeInv, Outcomes
<1>3. QueueInv
  BY EmptySeq DEF QueueInv
<1>4. Alone
  BY DEF Alone, Busy
<1>5. ASSUME NEW c \in Callers PROVE CallInv(c)
  <2>1. \A k \in Connections : conn[c] # k
    BY ClientAssumption
  <2> QED
    BY <2>1 DEF CallInv, Executed, Outcomes
<1>6. ASSUME NEW k \in Connections PROVE ConnInv(k)
  BY DEF ConnInv, Busy, NoTx
<1> QED
  BY <1>2, <1>3, <1>4, <1>5, <1>6 DEF ClientInv

LEMMA ClientInvStutter ==
  ASSUME ClientInv, UNCHANGED clientVars
  PROVE  ClientInv'
<1> USE DEF clientVars, callVars, poolVars, dataVars
<1>1. \A c \in Callers : SameCall(c)
  BY DEF SameCall
<1>2. \A k \in Connections : SameConnection(k)
  BY DEF SameConnection
<1>3. TypeInv'
  BY DEF ClientInv, TypeInv, Outcomes, Session, Runs
<1>4. QueueInv'
  BY QueueRests DEF ClientInv
<1>5. \A j \in Connections : (Busy(j)' <=> Busy(j)) /\ By(j)' = By(j)
  BY DEF Busy, By
<1>6. Alone'
  BY <1>5 DEF ClientInv, Alone
<1>7. ASSUME NEW c \in Callers PROVE CallInv(c)'
  <2>1. CallInv(c)
    BY DEF ClientInv
  <2>2. \A k \in Connections : Attends(c, k)' <=> Attends(c, k)
    BY <1>1, <1>2, SameAttends
  <2>3. Executed(c)' <=> Executed(c)
    BY DEF Executed
  <2>4. Operands(job[c])' = Operands(job[c]) /\ Outcomes' = Outcomes
    BY DEF Outcomes
  <2> QED
    BY <1>5, <2>1, <2>2, <2>3, <2>4 DEF CallInv
<1>8. ASSUME NEW k \in Connections PROVE ConnInv(k)'
  <2>1. ConnInv(k)
    BY DEF ClientInv
  <2>2. \A c \in Callers : Leftover(c, k)' <=> Leftover(c, k)
    BY <1>1, <1>2, SameAttends
  <2> QED
    BY <1>5, <2>1, <2>2 DEF ConnInv
<1> QED
  BY <1>3, <1>4, <1>6, <1>7, <1>8 DEF ClientInv

LEMMA ClientInvStep ==
  ClientInv /\ [ClientNext]_clientVars => ClientInv'
<1> SUFFICES ASSUME ClientInv, [ClientNext]_clientVars PROVE ClientInv'
  OBVIOUS
<1>1. ASSUME NEW c \in Callers, NEW j \in Jobs, Begin(c, j) PROVE ClientInv'
  BY <1>1, BeginStep
<1>2. ASSUME NEW c \in Callers, CallStep(c) PROVE ClientInv'
  BY <1>2, AcquireStep, ProceedStep, SucceedStep, FailStep DEF CallStep
<1>3. ASSUME NEW c \in Callers, AcquireFails(c) PROVE ClientInv'
  BY <1>3, UnqueueStep DEF AcquireFails
<1>4. ASSUME NEW c \in Callers, TimeOut(c) PROVE ClientInv'
  BY <1>4, AbandonStep DEF TimeOut
<1>5. ASSUME NEW c \in Callers, Drop(c) PROVE ClientInv'
  BY <1>5, AbandonStep DEF Drop
<1>6. ASSUME NEW c \in Callers, Break(c) PROVE ClientInv'
  BY <1>6, BreakStep
<1>7. ASSUME NEW c \in Callers, LateInsert(c) PROVE ClientInv'
  BY <1>7, LateInsertStep
<1>8. ASSUME NEW k \in Connections, TakeBack(k) \/ Discard(k) \/ Execute(k) \/ Refuse(k)
      PROVE  ClientInv'
  <2>1. PICK c : By(k) = c
    OBVIOUS
  <2> QED
    BY <1>8, <2>1, TakeBackStep, DiscardStep, ExecuteStep, RefuseStep
<1>9. ASSUME AllDone \/ UNCHANGED clientVars PROVE ClientInv'
  BY <1>9, ClientInvStutter DEF AllDone
<1> QED
  BY <1>1, <1>2, <1>3, <1>4, <1>5, <1>6, <1>7, <1>8, <1>9 DEF ClientNext

\* Whatever the calls, the failures and the database do, what is on a connection
\* is one call's and what that call has coming.
THEOREM ConnectionsAreOwned ==
  ClientSpec => []ClientInv
BY ClientInvInit, ClientInvStep, PTL DEF ClientSpec

-----------------------------------------------------------------------------
(* What follows from it. *)

\* The types, the queue, who holds which connection, and that a pooled one is
\* clean: ClientTypeOK.
THEOREM ClientTypeCorrect ==
  ClientSpec => []ClientTypeOK
<1>1. ClientInv => ClientTypeOK
  <2> SUFFICES ASSUME ClientInv PROVE ClientTypeOK
    OBVIOUS
  <2>1. TypeInv /\ QueueInv
    BY DEF ClientInv
  <2>2. \A c \in Callers : conn[c] # Nobody <=> at[c] = "asking"
    BY DEF ClientInv, CallInv
  <2>3. ASSUME NEW k \in Connections
        PROVE  place[k] = "held" <=> Cardinality({c \in Callers : conn[c] = k}) = 1
    <3> DEFINE holders == {c \in Callers : conn[c] = k}
    <3>1. CASE place[k] = "held"
      <4>1. PICK c \in Callers : conn[c] = k
        BY <3>1 DEF ClientInv, ConnInv
      <4>2. holders = {c}
        BY <4>1, ClientAssumption DEF ClientInv, Alone
      <4>3. Cardinality(holders) = 1
        BY <4>2, FS_Singleton
      <4> QED
        BY <3>1, <4>3
    <3>2. CASE place[k] # "held"
      <4>1. holders = {}
        BY <3>2 DEF ClientInv, CallInv
      <4>2. Cardinality(holders) = 0
        BY <4>1, FS_EmptySet
      <4> QED
        BY <3>2, <4>2
    <3> QED
      BY <3>1, <3>2
  <2>4. \A k \in Connections : place[k] = "pool" => sent[k] = << >> /\ tx[k] = NoTx
    BY DEF ClientInv, ConnInv
  <2> QED
    BY <2>1, <2>2, <2>3, <2>4 DEF ClientTypeOK, TypeInv, QueueInv
<1> QED
  BY <1>1, ConnectionsAreOwned, PTL

\* A call that reports success was executed: what it asked for, and not what
\* another call left on its connection.
THEOREM OkIsExecuted ==
  ClientSpec => []OkMeansExecuted
<1>1. ClientInv => OkMeansExecuted
  <2> SUFFICES ASSUME ClientInv, NEW c \in Callers, at[c] = "ok"
               PROVE  CASE job[c].op = "upsert" -> c \in applied
                        [] job[c].op = "search" -> ran[c] # NotRun
                        [] OTHER -> ReadyStatus(c) = 200 => ran[c] # NotRun
    BY DEF OkMeansExecuted
  <2>1. CallInv(c) /\ Executed(c)
    BY DEF ClientInv, CallInv
  <2>2. CASE job[c].op = "upsert"
    BY <2>1, <2>2 DEF CallInv, Executed
  <2>3. CASE job[c].op # "upsert"
    BY <2>1, <2>3 DEF CallInv, Executed
  <2> QED
    BY <2>2, <2>3
<1> QED
  BY <1>1, ConnectionsAreOwned, PTL

\* The placeholders of a query and the values bound to them agree, whichever of
\* its conditions are there.
LEMMA OperandsAgree ==
  ASSUME NEW j \in Job
  PROVE  Operands(j) = [cond \in Conditions(j) |-> cond]
<1>1. CASE j.filter /\ j.threshold
  BY <1>1 DEF Operands, Conditions, Bound, SlotOf
<1>2. CASE j.filter /\ ~j.threshold
  BY <1>2 DEF Operands, Conditions, Bound, SlotOf
<1>3. CASE ~j.filter /\ j.threshold
  BY <1>3 DEF Operands, Conditions, Bound, SlotOf
<1>4. CASE ~j.filter /\ ~j.threshold
  BY <1>4 DEF Operands, Conditions, Bound, SlotOf
<1> QED
  BY <1>1, <1>2, <1>3, <1>4

\* A search runs under the setting it was configured with and compares each
\* condition with its own operand.
THEOREM SearchesAsAsked ==
  ClientSpec => []SearchesRunAsAsked
<1>1. ClientInv => SearchesRunAsAsked
  <2> SUFFICES ASSUME ClientInv, NEW c \in Callers,
                      job[c] # Nobody, job[c].op = "search", ran[c] # NotRun
               PROVE  /\ ran[c].ef = ef_search
                      /\ ran[c].given = [cond \in Conditions(job[c]) |-> cond]
    BY DEF SearchesRunAsAsked
  <2>1. CallInv(c) /\ TypeInv
    BY DEF ClientInv
  <2>2. ran[c] = [ef |-> ef_search, given |-> Operands(job[c])]
    BY <2>1 DEF CallInv
  <2>3. job[c] \in Job
    BY <2>1, ClientAssumption DEF TypeInv
  <2> QED
    BY <2>2, <2>3, OperandsAgree
<1> QED
  BY <1>1, ConnectionsAreOwned, PTL

-----------------------------------------------------------------------------
(* The gauge. *)

InProgress == {c \in Callers : at[c] \in {"acquiring", "asking"}}

GaugeInv == IsFiniteSet(InProgress) /\ inflight = Cardinality(InProgress)

LEMMA GaugeUp ==
  ASSUME GaugeInv, NEW c, c \notin InProgress,
         InProgress' = InProgress \union {c}, inflight' = inflight + 1
  PROVE  GaugeInv'
BY FS_AddElement, FS_CardinalityType DEF GaugeInv

LEMMA GaugeDown ==
  ASSUME GaugeInv, NEW c, c \in InProgress,
         InProgress' = InProgress \ {c}, inflight' = inflight - 1
  PROVE  GaugeInv'
BY FS_RemoveElement, FS_CardinalityType DEF GaugeInv

\* Every way out of a call goes through End.
LEMMA EndsOnce ==
  ASSUME TypeInv, GaugeInv, NEW c \in Callers, at[c] \in {"acquiring", "asking"},
         NEW o \in Outcomes, End(c, o)
  PROVE  GaugeInv'
<1>1. InProgress' = InProgress \ {c}
  BY DEF TypeInv, InProgress, End, Put, Outcomes
<1> QED
  BY <1>1, GaugeDown DEF InProgress, End

LEMMA GaugeStep ==
  TypeInv /\ GaugeInv /\ [ClientNext]_clientVars => GaugeInv'
<1> SUFFICES ASSUME TypeInv, GaugeInv, [ClientNext]_clientVars PROVE GaugeInv'
  OBVIOUS
<1>1. ASSUME NEW c \in Callers, NEW j \in Jobs, Begin(c, j) PROVE GaugeInv'
  <2>1. InProgress' = InProgress \union {c} /\ c \notin InProgress /\ inflight' = inflight + 1
    BY <1>1 DEF Begin, TypeInv, InProgress, Put
  <2> QED
    BY <2>1, GaugeUp
<1>2. ASSUME NEW c \in Callers, NEW k \in Connections, Acquire(c, k) PROVE GaugeInv'
  <2>1. InProgress' = InProgress /\ inflight' = inflight
    BY <1>2 DEF Acquire, TypeInv, InProgress, Put
  <2> QED
    BY <2>1 DEF GaugeInv
<1>3. ASSUME NEW c \in Callers, Succeed(c) PROVE GaugeInv'
  <2>1. PICK o \in {"ok", "error"} : End(c, o)
    BY <1>3 DEF Succeed
  <2> QED
    BY <1>3, <2>1, EndsOnce DEF Succeed, Outcomes
<1>4. ASSUME NEW c \in Callers, Fail(c) \/ Break(c) PROVE GaugeInv'
  BY <1>4, EndsOnce DEF Fail, Break, Outcomes
<1>5. ASSUME NEW c \in Callers, AcquireFails(c) \/ TimeOut(c) \/ Drop(c) PROVE GaugeInv'
  BY <1>5, EndsOnce DEF AcquireFails, TimeOut, Drop, Abandon, Unqueue, Outcomes
<1>6. ASSUME UNCHANGED <<at, inflight>> PROVE GaugeInv'
  BY <1>6 DEF GaugeInv, InProgress
<1>7. ASSUME NEW c \in Callers, Proceed(c) \/ LateInsert(c) PROVE GaugeInv'
  BY <1>6, <1>7 DEF Proceed, LateInsert, callVars
<1>8. ASSUME NEW k \in Connections, TakeBack(k) \/ Discard(k) \/ Execute(k) \/ Refuse(k)
      PROVE  GaugeInv'
  BY <1>6, <1>8 DEF TakeBack, Discard, Execute, Refuse, Answered, callVars
<1>9. ASSUME AllDone \/ UNCHANGED clientVars PROVE GaugeInv'
  BY <1>6, <1>9 DEF AllDone, clientVars, callVars
<1> QED
  BY <1>1, <1>2, <1>3, <1>4, <1>5, <1>7, <1>8, <1>9 DEF ClientNext, CallStep

\* The gauge is the number of calls in progress: each call is counted once and
\* leaves once, on whichever of its ways out.
THEOREM ClientGauge ==
  ClientSpec => []GaugeIsExact
<1>1. ClientInit => GaugeInv
  <2> SUFFICES ASSUME ClientInit PROVE GaugeInv
    OBVIOUS
  <2>1. InProgress = {} /\ inflight = 0
    BY DEF ClientInit, InProgress
  <2> QED
    BY <2>1, FS_EmptySet DEF GaugeInv
<1>2. ClientInv => TypeInv
  BY DEF ClientInv
<1>3. GaugeInv => GaugeIsExact
  BY DEF GaugeInv, GaugeIsExact, InProgress
<1>4. ClientSpec => []GaugeInv
  BY <1>1, <1>2, GaugeStep, ConnectionsAreOwned, PTL DEF ClientSpec
<1> QED
  BY <1>3, <1>4, PTL

-----------------------------------------------------------------------------
(* Nobody waits for nobody: some other step than a timer's is always due. *)

\* Something is due to a pool with connections, no timer counted: the database's
\* answer, a call that reads one, the task that takes a connection back, or the
\* first of the queue, for a connection that is there.
Due ==
  \/ \E k \in Connections : Busy(k)
  \/ \E c \in Callers : /\ at[c] = "asking" /\ answers[conn[c]] # << >>
                        /\ step[c] \in 1..Len(Script(c))
  \/ \E k \in Connections : place[k] = "returning" /\ sent[k] = << >>
  \/ \E c \in Callers : /\ at[c] = "acquiring" /\ waiting # << >> /\ c = Head(waiting)
                        /\ \E k \in Connections : place[k] = "pool"

LEMMA AskingIsDue ==
  ASSUME ClientInv, NEW c \in Callers, at[c] = "asking"
  PROVE  Due
<1>1. PICK k \in Connections : conn[c] = k
  BY Attended
<1>2. PICK i \in 1..Len(Script(c)) :
        step[c] = i /\ (sent[k] = <<Statement(c, i)>> \/ Len(answers[k]) = 1)
  BY <1>1, Attending DEF Attends
<1>3. CASE sent[k] = <<Statement(c, i)>>
  BY <1>3 DEF Due, Busy
<1>4. CASE Len(answers[k]) = 1
  <2>1. Len(<< >>) = 0
    OBVIOUS
  <2>2. answers[k] # << >>
    BY <1>4, <2>1
  <2> QED
    BY <1>1, <1>2, <2>2 DEF Due
<1> QED
  BY <1>2, <1>3, <1>4

LEMMA WaitingIsDue ==
  ASSUME ClientInv, NEW c \in Callers, at[c] = "acquiring", Connections # {}
  PROVE  Due
<1>1. PICK k \in Connections : TRUE
  OBVIOUS
<1>2. place[k] \in {"pool", "held", "returning"} /\ ConnInv(k) /\ QueueInv /\ waiting \in Seq(Callers)
  BY DEF ClientInv, TypeInv
<1>3. CASE place[k] = "pool"
  <2>1. Len(waiting) > 0
    BY <1>2 DEF QueueInv
  <2>2. waiting # << >> /\ Head(waiting) \in Callers /\ Head(waiting) = waiting[1]
        /\ 1 \in 1..Len(waiting)
    BY <1>2, <2>1
  <2>3. at[Head(waiting)] = "acquiring"
    BY <1>2, <2>2 DEF QueueInv
  <2> QED
    BY <1>3, <2>2, <2>3 DEF Due
<1>4. CASE place[k] = "held"
  <2>1. PICK d \in Callers : conn[d] = k
    BY <1>2, <1>4 DEF ConnInv
  <2> QED
    BY <2>1, Attending, AskingIsDue
<1>5. CASE place[k] = "returning"
  BY <1>5 DEF Due, Busy
<1> QED
  BY <1>2, <1>3, <1>4, <1>5

\* Calls never wait for each other in a circle: as long as one is in progress,
\* the database owes an answer or the runtime has a step to take, without a
\* timer.  No way out of a call keeps a connection that its pool waits for.
THEOREM ClientDoesNotLockUp ==
  Connections # {} => (ClientSpec => [](InProgress # {} => Due))
<1> SUFFICES ASSUME Connections # {}
             PROVE  ClientSpec => [](InProgress # {} => Due)
  OBVIOUS
<1>1. ClientInv => (InProgress # {} => Due)
  <2>1. ASSUME ClientInv, NEW c \in InProgress PROVE Due
    BY <2>1, AskingIsDue, WaitingIsDue DEF InProgress
  <2> QED
    BY <2>1
<1> QED
  BY <1>1, ConnectionsAreOwned, PTL

=============================================================================
