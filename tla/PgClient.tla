-------------------------------- MODULE PgClient --------------------------------
(***************************************************************************)
(* The pgvector client and its connection pool (src/src/client/pgvector.rs, *)
(* with the /ready handler of src/src/server/http.rs).  A call waits for a  *)
(* connection, sends the statements of its operation one after the other,   *)
(* and gives the connection back; a timeout or a caller that leaves drops   *)
(* it wherever it is.                                                        *)
(*                                                                          *)
(* The pool is sqlx's (external): it hands connections out first come first *)
(* served, and a task of its own takes each one back once everything sent   *)
(* over it has been answered, a dropped transaction's ROLLBACK included.    *)
(* PostgreSQL (external) answers a connection's statements in order, or not *)
(* at all.  Rows, scores and durations are left out.                        *)
(***************************************************************************)
EXTENDS Naturals, Sequences, FiniteSets

CONSTANTS
  Callers,      \* calls: attempts of requests, and probes of /ready
  Jobs,         \* what a call may ask for, see Job
  Connections,  \* vdb.max_connections of them
  EfSettings,   \* whether vdb.ef_search is set
  Nobody,       \* no caller, no connection, nothing stored
  NotRun        \* a search that has not run

Job == [op : {"upsert", "search", "health"}, filter : BOOLEAN, threshold : BOOLEAN]

ASSUME ClientAssumption ==
  /\ Jobs \subseteq Job
  /\ EfSettings \subseteq BOOLEAN
  /\ IsFiniteSet(Connections)
  /\ Nobody \notin Callers \union Connections \union Jobs

VARIABLES
  ef_search,  \* vdb.ef_search is set
  inflight,   \* the in-flight counter
  at,         \* where each call is
  job,        \* what it asks for
  step,       \* the statement of its script it has sent last
  conn,       \* the connection it holds
  waiting,    \* the calls that wait for a connection, first come first
  place,      \* place[k]: where connection k is
  sent,       \* sent[k]: statements the database has not executed
  answers,    \* answers[k]: answers the client has not read
  tx,         \* tx[k]: the session's transaction
  late,       \* inserts on their way over connections that are gone
  applied,    \* the upserts whose row is committed
  ran         \* ran[c]: how c's query or probe was executed

callVars == <<inflight, at, job, step, conn, waiting>>
poolVars == <<place, sent, answers>>
dataVars == <<tx, late, applied, ran>>
clientVars == <<ef_search, callVars, poolVars, dataVars>>

NoTx == [open |-> FALSE, ef |-> FALSE, writes |-> {}]

ClientInit ==
  /\ ef_search \in EfSettings
  /\ inflight = 0
  /\ at = [c \in Callers |-> "idle"]
  /\ job = [c \in Callers |-> Nobody]
  /\ step = [c \in Callers |-> 0]
  /\ conn = [c \in Callers |-> Nobody]
  /\ waiting = << >>
  /\ place = [k \in Connections |-> "pool"]
  /\ sent = [k \in Connections |-> << >>]
  /\ answers = [k \in Connections |-> << >>]
  /\ tx = [k \in Connections |-> NoTx]
  /\ late = {} /\ applied = {}
  /\ ran = [c \in Callers |-> NotRun]

-----------------------------------------------------------------------------
(* The statements of a call. *)

\* Mutant of Script: the SET goes to the pool, outside of a transaction.
ScriptWithoutBegin(c) ==
  CASE job[c].op = "upsert" -> <<"insert">>
    [] job[c].op = "health" -> <<"probe">>
    [] OTHER -> IF ef_search THEN <<"set", "select">> ELSE <<"select">>

Script(c) ==
  CASE job[c].op = "upsert" -> <<"insert">>
    [] job[c].op = "health" -> <<"probe">>
    [] OTHER -> IF ef_search THEN <<"begin", "set", "select", "commit">> ELSE <<"select">>

Statement(c, i) == [by |-> c, text |-> Script(c)[i]]
Rollback(c)     == [by |-> c, text |-> "rollback"]

\* Mutant of OwnsTx: BEGIN and COMMIT are sent as plain statements, no guard.
OwnsTxByHand(c) == FALSE

\* Between its begin and the answer to its commit, a call owns a transaction
\* that is rolled back when it is dropped.
OwnsTx(c) == job[c].op = "search" /\ ef_search

\* Mutant of SlotOf: next is not incremented.
SlotOfFrozen(j, cond) == 3

\* search_sql numbers its placeholders, run_search binds its values, each with
\* its own condition on whether a filter and a threshold are there.
SlotOf(j, cond) == IF cond = "threshold" /\ j.filter THEN 4 ELSE 3

Bound(j) ==
  <<"vector", "limit">> \o (IF j.filter THEN <<"filter">> ELSE << >>)
                        \o (IF j.threshold THEN <<"threshold">> ELSE << >>)

Conditions(j) ==
  (IF j.filter THEN {"filter"} ELSE {}) \union (IF j.threshold THEN {"threshold"} ELSE {})

\* The operand each condition of the query is given.
Operands(j) == [cond \in Conditions(j) |-> Bound(j)[SlotOf(j, cond)]]

\* A run of a query or a probe: under which setting, with which operands.
Runs == [ef : BOOLEAN, given : {Operands(j) : j \in Jobs} \union {<< >>}]

ASSUME NotRunAssumption == NotRun \notin Runs

-----------------------------------------------------------------------------
(* The calls. *)

Put(f, k, v) == [f EXCEPT ![k] = v]

\* track, then acquire.
Begin(c, j) ==
  /\ at[c] = "idle"
  /\ at' = Put(at, c, "acquiring")
  /\ job' = Put(job, c, j)
  /\ waiting' = Append(waiting, c)
  /\ inflight' = inflight + 1
  /\ UNCHANGED <<ef_search, step, conn, poolVars, dataVars>>

Acquire(c, k) ==
  /\ at[c] = "acquiring" /\ c = Head(waiting)
  /\ place[k] = "pool"
  /\ at' = Put(at, c, "asking")
  /\ waiting' = Tail(waiting)
  /\ conn' = Put(conn, c, k)
  /\ place' = Put(place, k, "held")
  /\ step' = Put(step, c, 1)
  /\ sent' = Put(sent, k, Append(sent[k], Statement(c, 1)))
  /\ UNCHANGED <<ef_search, inflight, job, answers, dataVars>>

Answer(c) == Head(answers[conn[c]])

\* The next statement goes out when the one before was answered.
Proceed(c) ==
  /\ at[c] = "asking" /\ answers[conn[c]] # << >>
  /\ Answer(c).ok /\ step[c] < Len(Script(c))
  /\ step' = Put(step, c, step[c] + 1)
  /\ sent' = Put(sent, conn[c], Append(sent[conn[c]], Statement(c, step[c] + 1)))
  /\ answers' = Put(answers, conn[c], Tail(answers[conn[c]]))
  /\ UNCHANGED <<ef_search, inflight, at, job, conn, waiting, place, dataVars>>

\* The end of a call: the guard leaves the counter, whatever the outcome.
End(c, outcome) ==
  /\ at' = Put(at, c, outcome)
  /\ inflight' = inflight - 1
  /\ step' = Put(step, c, 0)
  /\ UNCHANGED <<ef_search, job>>

\* A call that holds a connection ends: the connection goes to the task that
\* takes it back, with a ROLLBACK queued if a transaction is dropped.
GiveBack(c, rollback) ==
  /\ place' = Put(place, conn[c], "returning")
  /\ sent' = IF rollback THEN Put(sent, conn[c], Append(sent[conn[c]], Rollback(c))) ELSE sent
  /\ conn' = Put(conn, c, Nobody)
  /\ UNCHANGED <<waiting, dataVars>>

\* The last answer; the rows of a search may not decode.
Succeed(c) ==
  /\ at[c] = "asking" /\ answers[conn[c]] # << >>
  /\ Answer(c).ok /\ step[c] = Len(Script(c))
  /\ \E outcome \in {"ok"} \union (IF job[c].op = "search" THEN {"error"} ELSE {}) :
       End(c, outcome)
  /\ answers' = Put(answers, conn[c], Tail(answers[conn[c]]))
  /\ GiveBack(c, FALSE)

Fail(c) ==
  /\ at[c] = "asking" /\ answers[conn[c]] # << >>
  /\ ~Answer(c).ok
  /\ End(c, "error")
  /\ answers' = Put(answers, conn[c], Tail(answers[conn[c]]))
  /\ GiveBack(c, OwnsTx(c))

\* A call that waits leaves the queue.
Unqueue(c) ==
  /\ at[c] = "acquiring"
  /\ \E i \in 1..Len(waiting) :
       /\ waiting[i] = c
       /\ waiting' = SubSeq(waiting, 1, i - 1) \o SubSeq(waiting, i + 1, Len(waiting))
  /\ UNCHANGED <<conn, poolVars, dataVars>>

\* The pool's own timeout, or a connection that cannot be opened: an error of
\* the call that is not its timeout.
AcquireFails(c) == Unqueue(c) /\ End(c, "error")

\* Mutant of Abandon: the connection is not given back.
AbandonLeaks(c) ==
  \/ Unqueue(c)
  \/ at[c] = "asking" /\ conn' = Put(conn, c, Nobody) /\ UNCHANGED <<waiting, poolVars, dataVars>>

\* A caller dropped on its way, by its timeout or with the caller itself.
Abandon(c) ==
  \/ Unqueue(c)
  \/ at[c] = "asking" /\ GiveBack(c, OwnsTx(c)) /\ UNCHANGED answers

\* Mutant of TimeOut: the probe has none.
TimeOutBarProbe(c) == Abandon(c) /\ End(c, "error") /\ job[c].op # "health"

TimeOut(c) == Abandon(c) /\ End(c, "error")

\* Mutant of Drop: the counter is only decremented by the line after the await.
DropKeepsGauge(c) ==
  /\ Abandon(c) /\ at' = Put(at, c, "dropped") /\ step' = Put(step, c, 0)
  /\ UNCHANGED <<inflight, ef_search, job>>

Drop(c) == Abandon(c) /\ End(c, "dropped")

-----------------------------------------------------------------------------
(* The pool and the connections. *)

\* Everything sent is answered, the answers nobody reads are skipped.
TakeBack(k) ==
  /\ place[k] = "returning" /\ sent[k] = << >>
  /\ place' = Put(place, k, "pool")
  /\ answers' = Put(answers, k, << >>)
  /\ UNCHANGED <<ef_search, callVars, sent, dataVars>>

\* The end of a session: an insert of its own may still arrive, an open
\* transaction is rolled back, and the slot is free for a new connection.
Lost(k) ==
  /\ place' = Put(place, k, "pool")
  /\ late' = IF tx[k].open THEN late
             ELSE late \union {s.by : s \in {sent[k][i] : i \in
                    {n \in 1..Len(sent[k]) : sent[k][n].text = "insert"}}}
  /\ sent' = Put(sent, k, << >>)
  /\ answers' = Put(answers, k, << >>)
  /\ tx' = Put(tx, k, NoTx)
  /\ UNCHANGED <<waiting, applied, ran>>

\* A connection breaks under its call, or while it is taken back.
Break(c) ==
  /\ at[c] = "asking"
  /\ Lost(conn[c])
  /\ conn' = Put(conn, c, Nobody)
  /\ End(c, "error")

Discard(k) ==
  /\ place[k] = "returning"
  /\ Lost(k)
  /\ UNCHANGED <<ef_search, inflight, at, job, step, conn>>

-----------------------------------------------------------------------------
(* The database. *)

Run(s, k) ==
  CASE s.text = "begin"  -> /\ tx' = [tx EXCEPT ![k].open = TRUE]
                            /\ UNCHANGED <<applied, ran>>
    [] s.text = "set"    -> /\ tx' = [tx EXCEPT ![k].ef = tx[k].open]
                            /\ UNCHANGED <<applied, ran>>
    [] s.text = "select" -> /\ ran' = Put(ran, s.by, [ef |-> tx[k].ef, given |-> Operands(job[s.by])])
                            /\ UNCHANGED <<tx, applied>>
    [] s.text = "probe"  -> /\ ran' = Put(ran, s.by, [ef |-> FALSE, given |-> << >>])
                            /\ UNCHANGED <<tx, applied>>
    [] s.text = "insert" -> /\ IF tx[k].open
                                 THEN tx' = [tx EXCEPT ![k].writes = @ \union {s.by}] /\ UNCHANGED applied
                                 ELSE applied' = applied \union {s.by} /\ UNCHANGED tx
                            /\ UNCHANGED ran
    [] s.text = "commit" -> /\ applied' = applied \union tx[k].writes
                            /\ tx' = Put(tx, k, NoTx)
                            /\ UNCHANGED ran
    [] OTHER             -> tx' = Put(tx, k, NoTx) /\ UNCHANGED <<applied, ran>>

Answered(k, ok) ==
  /\ sent[k] # << >>
  /\ sent' = Put(sent, k, Tail(sent[k]))
  /\ answers' = Put(answers, k, Append(answers[k], [to |-> Head(sent[k]).by, ok |-> ok]))
  /\ UNCHANGED <<ef_search, callVars, place, late>>

Execute(k) == Answered(k, TRUE) /\ Run(Head(sent[k]), k)

Refuse(k) == Answered(k, FALSE) /\ Head(sent[k]).text # "rollback" /\ UNCHANGED <<tx, applied, ran>>

LateInsert(c) ==
  /\ c \in late
  /\ late' = late \ {c}
  /\ applied' \in {applied, applied \union {c}}
  /\ UNCHANGED <<ef_search, callVars, poolVars, tx, ran>>

Outcomes == {"ok", "error", "dropped"}

AllDone == (\A c \in Callers : at[c] \in Outcomes) /\ UNCHANGED clientVars

CallStep(c) == (\E k \in Connections : Acquire(c, k)) \/ Proceed(c) \/ Succeed(c) \/ Fail(c)

ClientNext ==
  \/ \E c \in Callers : \/ \E j \in Jobs : Begin(c, j)
                        \/ CallStep(c) \/ AcquireFails(c) \/ TimeOut(c) \/ Drop(c) \/ Break(c)
                        \/ LateInsert(c)
  \/ \E k \in Connections : TakeBack(k) \/ Discard(k) \/ Execute(k) \/ Refuse(k)
  \/ AllDone

\* The runtime polls a call that can proceed, and sqlx's task.  Timers and the
\* database owe nothing: the properties that need them say so.
ClientSpec ==
  /\ ClientInit /\ [][ClientNext]_clientVars
  /\ \A c \in Callers : WF_clientVars(CallStep(c))
  /\ \A k \in Connections : WF_clientVars(TakeBack(k))

-----------------------------------------------------------------------------
(* Properties. *)

Executed(c) == c \in applied \/ ran[c] # NotRun

ClientTypeOK ==
  /\ at \in [Callers -> {"idle", "acquiring", "asking"} \union Outcomes]
  /\ job \in [Callers -> Jobs \union {Nobody}]
  /\ step \in [Callers -> 0..4]
  /\ \A c \in Callers : at[c] = "acquiring" <=> \E i \in 1..Len(waiting) : waiting[i] = c
  /\ \A c \in Callers : conn[c] # Nobody <=> at[c] = "asking"
  /\ \A k \in Connections :
       place[k] = "held" <=> Cardinality({c \in Callers : conn[c] = k}) = 1
  /\ \A k \in Connections : place[k] = "pool" => sent[k] = << >> /\ tx[k] = NoTx

\* What ready answers from the outcome of its probe.
ReadyStatus(c) == IF at[c] = "ok" THEN 200 ELSE 503

\* Answers are to their own questions: a success was executed, not left over on
\* the connection by a call that was dropped; an acknowledged upsert is committed
\* and not pending in somebody's transaction; a 200 of /ready is the database's.
OkMeansExecuted ==
  \A c \in Callers : at[c] = "ok" =>
    CASE job[c].op = "upsert" -> c \in applied
      [] job[c].op = "search" -> ran[c] # NotRun
      [] OTHER -> ReadyStatus(c) = 200 => ran[c] # NotRun

\* A search runs as it was asked and configured: with ef_search set it runs under
\* the setting, otherwise never under one left behind, and each condition of its
\* query compares with its own operand.
SearchesRunAsAsked ==
  \A c \in Callers : job[c] # Nobody /\ job[c].op = "search" /\ ran[c] # NotRun =>
    /\ ran[c].ef = ef_search
    /\ ran[c].given = [cond \in Conditions(job[c]) |-> cond]

\* The gauge counts the calls in progress, the probes among them.
GaugeIsExact == inflight = Cardinality({c \in Callers : at[c] \in {"acquiring", "asking"}})

\* The database as Router sees it: a call is on its way as long as it may still
\* have its effect, whoever waits for it.
OnItsWay(c) ==
  \/ at[c] \in {"acquiring", "asking"}
  \/ c \in late
  \/ \E k \in Connections : \E i \in 1..Len(sent[k]) :
       sent[k][i].by = c /\ sent[k][i].text \in {"insert", "select", "probe"}

Fate(c) ==
  IF at[c] = "idle" THEN "unsent"
  ELSE IF Executed(c) THEN "applied"
  ELSE IF OnItsWay(c) THEN "sent" ELSE "lost"

Stored == [c \in Callers |-> IF c \in applied THEN c ELSE Nobody]
Fates  == [c \in Callers |-> Fate(c)]

Db == INSTANCE VectorDb
        WITH Calls <- Callers, Keys <- Callers, NoVector <- Nobody,
             store <- Stored, call <- Fates

DbStep(c) ==
  \/ Db!Transmit(c) \/ Db!Lose(c)
  \/ at[c] # "idle" /\ IF job[c].op = "upsert" THEN Db!ApplyUpsert(c, c, c) ELSE Db!ApplySearch(c)

\* The pool, its abandoned calls, leftover transactions and broken connections
\* amount to the database Router is written against: each call has its effect at
\* most once, at one moment after it was made, or never.
DatabaseIsImplemented ==
  Db!DbInit /\ [][\E c \in Callers : DbStep(c)]_<<Stored, Fates>>

Ends(c) == at[c] = "acquiring" ~> at[c] \in Outcomes

\* A database that answers ends every call, with no timer firing: connections
\* come back from every way out of a call, to those who wait longest.
AnswersEndCalls ==
  (\A k \in Connections : WF_clientVars(Execute(k))) => \A c \in Callers : Ends(c)

\* The timers end every call of a database that never answers.
TimersEndCalls ==
  (\A c \in Callers : WF_clientVars(TimeOut(c))) => \A c \in Callers : Ends(c)

=============================================================================
