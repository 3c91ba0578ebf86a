----------------------------- MODULE RepeatQueue -----------------------------
(***************************************************************************)
(* The retry queue of the bus: the SQL table "repeat" (internal/app/       *)
(* repository/repeater.go), the background job that redelivers its rows    *)
(* (internal/app/service/repeater/repeater.go), the attempt bookkeeping of *)
(* a row (internal/app/model/repeat.go) and the administrator's restart    *)
(* and delete requests.  The table is shared by all bus instances and no   *)
(* statement locks a row between the job's SELECT and its UPDATE, so every *)
(* instance works on a snapshot.                                           *)
(*                                                                         *)
(* One (topic, group) is modelled: every statement below is restricted to  *)
(* one, and rows of different groups never meet.  Time is what is left     *)
(* until a row is due: started_at <= now is wait = 0.                      *)
(***************************************************************************)
EXTENDS Naturals, FiniteSets

CONSTANTS
  Ids,              \* primary keys of the table, handed out once each
  Consumers,        \* consumer ids of the group
  Instances,        \* bus processes that share the table
  Strategies,       \* retry strategies a consumer may have connected with
  DefaultStrategy,  \* the strategy of the bus configuration
  NoStrategy,       \* a row stored without a strategy
  MaxAttempts,      \* strategy -> its MaxAttempts
  Delay,            \* strategy -> attempt -> ticks until the next delivery
  RetryAfters,      \* delays a consumer may ask for; 0 is none
  Errors,           \* error texts of failed deliveries
  EmptyResult,      \* the error text of an answer without results
  NoError,          \* the empty error text of a restarted row
  ErrorClass        \* error text -> its class (model.ErrorClass)

ASSUME StrategyAssumption ==
  /\ DefaultStrategy \in Strategies
  /\ NoStrategy \notin Strategies
  /\ \A s \in Strategies : MaxAttempts[s] \in Nat
  /\ \A s \in Strategies : \A a \in 0 .. MaxAttempts[s] + 1 : Delay[s][a] \in Nat

ASSUME ErrorAssumption ==
  /\ EmptyResult \in Errors
  /\ NoError \notin Errors

ASSUME RetryAfterAssumption == RetryAfters \subseteq Nat

ASSUME ConsumerAssumption == Consumers # {}

VARIABLES
  rows,   \* the table: primary key -> row
  bags,   \* per instance: consumer id -> what its connection store knows of it
  phase,  \* per instance: where the running repeat job is with each row
  snap,   \* per instance: the job's in-memory copy of each row it works on
  admin   \* the administrator's request between its SELECT and its write

vars == <<rows, bags, phase, snap, admin>>

\* "none" was never inserted, "pending" has finished_at NULL, "failed" has it set;
\* "done" and "purged" have left the table, by the job and by the administrator.
Status == {"none", "pending", "failed", "done", "purged"}

Row == [status: Status, owner: Consumers, strategy: Strategies \cup {NoStrategy},
        attempt: Nat, deferred: BOOLEAN, error: Errors \cup {NoError}, wait: Nat]

BagState == {"absent", "waiting", "connected"}

Request == [op: {"none", "restart", "delete"}, errors: SUBSET (Errors \cup {NoError}),
            old: SUBSET Ids, visible: SUBSET Ids]

NoRequest == [op |-> "none", errors |-> {}, old |-> {}, visible |-> {}]

InTable(r) == r.status \in {"pending", "failed"}

-----------------------------------------------------------------------------
(* The attempt bookkeeping of model/repeat.go.                             *)

StrategyOf(s) == IF s = NoStrategy THEN DefaultStrategy ELSE s

\* Mutants: one attempt too many; the mark is kept.
OneTooMany(r) ==
  LET s == StrategyOf(r.strategy)
  IN  IF MaxAttempts[s] < r.attempt
      THEN [r EXCEPT !.deferred = FALSE, !.status = "failed"]
      ELSE [r EXCEPT !.deferred = FALSE, !.attempt = @ + 1, !.wait = 1]
KeepsDeferred(r) ==
  LET s == StrategyOf(r.strategy)
  IN  IF MaxAttempts[s] <= r.attempt
      THEN [r EXCEPT !.status = "failed"]
      ELSE [r EXCEPT !.attempt = @ + 1, !.wait = Delay[s][r.attempt + 1]]

\* Repeat.ApplyNextAttempt: an ordinary failure spends an attempt or finishes the row.
ApplyNextAttempt(r) ==
  LET s == StrategyOf(r.strategy)
  IN  IF MaxAttempts[s] <= r.attempt
      THEN [r EXCEPT !.deferred = FALSE, !.status = "failed"]
      ELSE [r EXCEPT !.deferred = FALSE, !.attempt = @ + 1,
                     !.wait = Delay[s][r.attempt + 1]]

\* Mutant: a deferral spends an attempt.
DeferSpends(r) ==
  [r EXCEPT !.deferred = TRUE, !.status = "pending", !.attempt = @ + 1,
            !.wait = Delay[StrategyOf(r.strategy)][r.attempt + 1]]

\* A failure answered with retryLater keeps the attempt and marks the row.
Defer(r) ==
  [r EXCEPT !.deferred = TRUE, !.status = "pending",
            !.wait = Delay[StrategyOf(r.strategy)][r.attempt + 1]]

\* Repeat.ApplyFailure: a positive delay asked for by the consumer wins over
\* the strategy's as long as the row is not finished.
ApplyFailure(r, later, after) ==
  LET applied == IF later THEN Defer(r) ELSE ApplyNextAttempt(r)
  IN  IF applied.status = "pending" /\ after > 0
      THEN [applied EXCEPT !.wait = after]
      ELSE applied

\* The row Repeater.Add inserts for the first failed delivery of a message.
NewRow(c, s, later, after, e) ==
  [status |-> "pending", owner |-> c, strategy |-> s, attempt |-> 0,
   deferred |-> later, error |-> e,
   wait |-> IF after > 0 THEN after ELSE Delay[StrategyOf(s)][0]]

\* What the three restart statements set.
Restarted(r) ==
  [r EXCEPT !.status = "pending", !.attempt = 0, !.error = NoError, !.wait = 0]

-----------------------------------------------------------------------------
Blank ==
  [status |-> "none", owner |-> CHOOSE c \in Consumers : TRUE, strategy |-> NoStrategy,
   attempt |-> 0, deferred |-> FALSE, error |-> NoError, wait |-> 0]

Init ==
  /\ rows = [id \in Ids |-> Blank]
  /\ bags = [i \in Instances |-> [c \in Consumers |-> "absent"]]
  /\ phase = [i \in Instances |-> [id \in Ids |-> "idle"]]
  /\ snap = [i \in Instances |-> [id \in Ids |-> Blank]]
  /\ admin = NoRequest

\* A consumer stream of instance i registers, changes state or goes away.
SetBag(i, c, b) ==
  /\ bags[i][c] # b
  /\ bags' = [bags EXCEPT ![i][c] = b]
  /\ UNCHANGED <<rows, phase, snap, admin>>

\* Time passes: started_at of every row comes closer.
Tick ==
  /\ \E id \in Ids : rows[id].wait > 0
  /\ rows' = [id \in Ids |-> IF rows[id].wait > 0
                             THEN [rows[id] EXCEPT !.wait = @ - 1] ELSE rows[id]]
  /\ UNCHANGED <<bags, phase, snap, admin>>

\* Repeater.Add: a consume loop stores a message its consumer c did not process.
Add(id, c, s, later, after, e) ==
  /\ rows[id].status = "none"
  /\ rows' = [rows EXCEPT ![id] = NewRow(c, s, later, after, e)]
  /\ UNCHANGED <<bags, phase, snap, admin>>

-----------------------------------------------------------------------------
(* The repeat job of instance i.                                           *)

\* Mutant: deferred rows are left out of the job.
SkipsDeferred(i) ==
  {id \in Ids : /\ rows[id].status = "pending"
                /\ rows[id].wait = 0 /\ ~rows[id].deferred
                /\ \E c \in Consumers : bags[i][c] # "absent"}

\* Mutant: started_at is not looked at.
FindsEarly(i) ==
  {id \in Ids : /\ rows[id].status = "pending"
                /\ \E c \in Consumers : bags[i][c] # "absent"}

\* Repository.FindForRepeat over the groups that have a consumer here.
FindForRepeat(i) ==
  {id \in Ids : /\ rows[id].status = "pending"
                /\ rows[id].wait = 0
                /\ \E c \in Consumers : bags[i][c] # "absent"}

\* wg.Wait and the TryLock of the background job: one run at a time.
RunFinished(i) == \A id \in Ids : phase[i][id] = "idle"

RunStart(i) ==
  LET due == FindForRepeat(i)
  IN  /\ RunFinished(i)
      /\ due # {}
      /\ phase' = [phase EXCEPT ![i] = [id \in Ids |-> IF id \in due THEN "todo" ELSE "idle"]]
      /\ snap' = [snap EXCEPT ![i] = [id \in Ids |-> IF id \in due THEN rows[id] ELSE Blank]]
      /\ UNCHANGED <<rows, bags, admin>>

\* ConsumerStore.findBest: the row's own consumer if it is stored, in whatever
\* state, otherwise any consumer of the group.
BestConsumers(i, c) ==
  IF bags[i][c] # "absent" THEN {c} ELSE {d \in Consumers : bags[i][d] # "absent"}

\* One goroutine per consumer id works through that consumer's rows in turn.
NextInLine(i, id) ==
  /\ phase[i][id] = "todo"
  /\ \A other \in Ids :
       phase[i][other] = "sending" => snap[i][other].owner # snap[i][id].owner

\* The goroutine of instance i is through with the row.
Leave(i, id) ==
  /\ phase' = [phase EXCEPT ![i][id] = "idle"]
  /\ snap' = [snap EXCEPT ![i][id] = Blank]

\* "no_consumer" or "consumer_not_connected": the row waits for the next run.
Skip(i, id) ==
  LET best == BestConsumers(i, snap[i][id].owner)
  IN  /\ NextInLine(i, id)
      /\ best = {} \/ \E c \in best : bags[i][c] # "connected"
      /\ Leave(i, id)
      /\ UNCHANGED <<rows, bags, admin>>

Send(i, id) ==
  /\ NextInLine(i, id)
  /\ \E c \in BestConsumers(i, snap[i][id].owner) : bags[i][c] = "connected"
  /\ phase' = [phase EXCEPT ![i][id] = "sending"]
  /\ UNCHANGED <<rows, bags, snap, admin>>

\* "stream_error" and "stream_closed": no answer, the row stays in the queue.
NoAnswer(i, id) ==
  /\ phase[i][id] = "sending"
  /\ Leave(i, id)
  /\ UNCHANGED <<rows, bags, admin>>

\* Repository.UpdateAttempt: every mutable column of the row, taken from the copy.
UpdateAttempt(id, r) ==
  [rows EXCEPT ![id] = IF InTable(@)
                       THEN [@ EXCEPT !.wait = r.wait, !.attempt = r.attempt,
                                      !.error = r.error, !.status = r.status,
                                      !.deferred = r.deferred]
                       ELSE @]

\* The consumer processed the message: Repository.Delete.
AnswerOk(i, id) ==
  /\ phase[i][id] = "sending"
  /\ rows' = [rows EXCEPT ![id] = IF InTable(@) THEN [@ EXCEPT !.status = "done"] ELSE @]
  /\ Leave(i, id)
  /\ UNCHANGED <<bags, admin>>

\* The consumer failed on the message, or postponed it (later).
AnswerFailure(i, id, later, after, e) ==
  LET failed == [ApplyFailure(snap[i][id], later, after) EXCEPT !.error = e]
  IN  /\ phase[i][id] = "sending"
      /\ rows' = UpdateAttempt(id, failed)
      /\ Leave(i, id)
      /\ UNCHANGED <<bags, admin>>

\* The consumer answered without results.
AnswerEmpty(i, id) ==
  LET failed == [ApplyNextAttempt(snap[i][id]) EXCEPT !.error = EmptyResult]
  IN  /\ phase[i][id] = "sending"
      /\ rows' = UpdateAttempt(id, failed)
      /\ Leave(i, id)
      /\ UNCHANGED <<bags, admin>>

\* An answer came but the statement failed ("persistence_error"): only logged.
AnswerNotSaved(i, id) ==
  /\ phase[i][id] = "sending"
  /\ Leave(i, id)
  /\ UNCHANGED <<rows, bags, admin>>

\* The bus process dies; its job and its connections are gone.
Crash(i) ==
  /\ phase' = [phase EXCEPT ![i] = [id \in Ids |-> "idle"]]
  /\ snap' = [snap EXCEPT ![i] = [id \in Ids |-> Blank]]
  /\ bags' = [bags EXCEPT ![i] = [c \in Consumers |-> "absent"]]
  /\ UNCHANGED <<rows, admin>>

-----------------------------------------------------------------------------
(* The administrator.  Which failed rows a lookback leaves out ("old":     *)
(* finished_at < since) is left open; a row that fails after the request   *)
(* was made is never old.                                                  *)

Failed == {id \in Ids : rows[id].status = "failed"}

\* UPDATE ... SET finished_at = null for the rows in S.
RestartRows(S) ==
  rows' = [id \in Ids |-> IF id \in S THEN Restarted(rows[id]) ELSE rows[id]]

\* A restarted row is no longer one of the failures a pending request saw.
Forget(S) == [admin EXCEPT !.old = @ \ S, !.visible = @ \ S]

\* Mutant: the WHERE finished_at IS NOT NULL is missing.
RestartsAll ==
  LET present == {id \in Ids : InTable(rows[id])}
  IN  /\ Failed # {}
      /\ RestartRows(present)
      /\ admin' = Forget(present)
      /\ UNCHANGED <<bags, phase, snap>>

RestartFailed ==
  /\ Failed # {}
  /\ RestartRows(Failed)
  /\ admin' = Forget(Failed)
  /\ UNCHANGED <<bags, phase, snap>>

RestartFailedSince(old) ==
  LET recent == Failed \ old
  IN  /\ recent # {}
      /\ RestartRows(recent)
      /\ admin' = Forget(recent)
      /\ UNCHANGED <<bags, phase, snap>>

\* findFailedErrorsOfClass: the SELECT DISTINCT error of the two requests that name
\* an error class; without a match the request ends here.
ResolveClass(op, class, old) ==
  LET visible == {id \in Failed \ old : ErrorClass[rows[id].error] = class}
  IN  /\ admin.op = "none"
      /\ op = "delete" => old = {}
      /\ visible # {}
      /\ admin' = [op |-> op, errors |-> {rows[id].error : id \in visible},
                   old |-> old, visible |-> visible]
      /\ UNCHANGED <<rows, bags, phase, snap>>

\* WHERE finished_at IS NOT NULL AND error = ANY(errors) [AND finished_at >= since]
Matching == {id \in Failed \ admin.old : rows[id].error \in admin.errors}

RestartFailedByError ==
  /\ admin.op = "restart"
  /\ RestartRows(Matching)
  /\ admin' = NoRequest
  /\ UNCHANGED <<bags, phase, snap>>

DeleteFailedByError ==
  /\ admin.op = "delete"
  /\ rows' = [id \in Ids |-> IF id \in Matching
                             THEN [rows[id] EXCEPT !.status = "purged"] ELSE rows[id]]
  /\ admin' = NoRequest
  /\ UNCHANGED <<bags, phase, snap>>

-----------------------------------------------------------------------------
Answer(i, id) ==
  \/ AnswerOk(i, id)
  \/ \E later \in BOOLEAN, after \in RetryAfters, e \in Errors :
       AnswerFailure(i, id, later, after, e)
  \/ AnswerEmpty(i, id)
  \/ AnswerNotSaved(i, id)
  \/ NoAnswer(i, id)

Job(i) ==
  \/ RunStart(i)
  \/ \E id \in Ids : Skip(i, id) \/ Send(i, id) \/ Answer(i, id)

Admin ==
  \/ RestartFailed
  \/ \E old \in SUBSET Failed : RestartFailedSince(old)
  \/ \E op \in {"restart", "delete"}, e \in Errors, old \in SUBSET Failed :
       ResolveClass(op, ErrorClass[e], old)
  \/ RestartFailedByError
  \/ DeleteFailedByError

Next ==
  \/ Tick
  \/ \E id \in Ids, c \in Consumers, s \in Strategies \cup {NoStrategy},
       later \in BOOLEAN, after \in RetryAfters, e \in Errors :
       Add(id, c, s, later, after, e)
  \/ \E i \in Instances, c \in Consumers, b \in BagState : SetBag(i, c, b)
  \/ \E i \in Instances : Job(i) \/ Crash(i)
  \/ Admin

Spec == Init /\ [][Next]_vars

\* Time passes, the background ticker starts the job again and again, and a job
\* that waits for a consumer ends: the result watchdog of the stream sees to it.
Fairness ==
  /\ WF_vars(Tick)
  /\ \A i \in Instances :
       /\ WF_vars(RunStart(i))
       /\ \A id \in Ids : WF_vars(Skip(i, id) \/ Send(i, id)) /\ WF_vars(Answer(i, id))

FairSpec == Spec /\ Fairness

-----------------------------------------------------------------------------
(* Properties.                                                             *)

TypeOK ==
  /\ rows \in [Ids -> Row]
  /\ bags \in [Instances -> [Consumers -> BagState]]
  /\ phase \in [Instances -> [Ids -> {"idle", "todo", "sending"}]]
  /\ snap \in [Instances -> [Ids -> Row]]
  /\ admin \in Request

\* A deferred repeat is never finished (model/repeat.go, Deferred), neither in the
\* table nor in a copy a job is about to write back, whoever wrote last.
DeferredNeverFinished ==
  \A id \in Ids :
    /\ rows[id].deferred => rows[id].status # "failed"
    /\ \A i \in Instances : snap[i][id].deferred => snap[i][id].status # "failed"

\* A row is marked failed only when its attempts are used up, and no interleaving
\* of jobs and restarts pushes the attempt counter past the strategy's maximum.
FailedMeansExhausted ==
  \A id \in Ids :
    LET r == rows[id] max == MaxAttempts[StrategyOf(r.strategy)]
    IN  /\ r.attempt <= max
        /\ r.status = "failed" => r.attempt = max

\* With one bus instance the job's copy of a row it still has to handle is the row:
\* no administrator's request, insert or earlier run slips in between SELECT and UPDATE.
SnapshotFresh ==
  \A i \in Instances, id \in Ids :
    phase[i][id] # "idle" => snap[i][id] = rows[id]

\* With one bus instance a delivery spends at most one attempt, a deferral none, and
\* a failed row comes back only through the administrator, with its attempts reset:
\* the job's write never takes back an attempt or a restart.
AttemptSteps ==
  [][\A id \in Ids :
       LET r == rows[id] q == rows'[id]
       IN  /\ r.status = "pending" /\ InTable(q) =>
                /\ q.attempt \in {r.attempt, r.attempt + 1}
                /\ q.deferred => q.attempt = r.attempt
           /\ r.status = "failed" /\ q.status = "pending" =>
                q.attempt = 0 /\ q.error = NoError /\ q.wait = 0]_vars

\* repository/repeater.go:311-312: the write after the class lookup "matches only
\* failures that were visible when the class was resolved".
DeletesOnlyVisible ==
  [][\A id \in Ids : rows[id].status = "failed" /\ rows'[id].status = "purged" =>
                      id \in admin.visible]_vars

\* A row whose group keeps connected consumers is delivered again or leaves the queue:
\* neither deferrals nor failures of other rows starve it.
AllConnected == \A i \in Instances, c \in Consumers : bags[i][c] = "connected"

Delivering(id) == \E i \in Instances : phase[i][id] = "sending"

PendingIsDelivered ==
  <>[]AllConnected =>
    \A id \in Ids : rows[id].status = "pending" ~> Delivering(id) \/ rows[id].status # "pending"

\* What is promised of a row: its copies, the job and the connections are not seen.
EntryOf(r) ==
  [status |-> r.status, spent |-> r.attempt, limit |-> MaxAttempts[StrategyOf(r.strategy)],
   deferred |-> r.deferred, due |-> r.wait = 0]

Ledger == INSTANCE RepeatLedger WITH
  ledger <- [id \in Ids |-> EntryOf(rows[id])],
  Limits <- {MaxAttempts[s] : s \in Strategies}

\* With one bus instance the SELECT, the delivery and the UPDATE of the job (repeater.go:86-222)
\* count as one step on the row, whatever inserts, requests and crashes come between them.
ImplementsLedger == Ledger!Spec

=============================================================================
