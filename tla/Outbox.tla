-------------------------------- MODULE Outbox --------------------------------
(***************************************************************************)
(* The transactional outbox of the Go SDK: services write rows of          *)
(* redbus_outbox inside their own transactions (outbox.go), and the        *)
(* flusher of every replica of the service (flusher.go, started and        *)
(* stopped by redbus/client.go) publishes the committed rows with          *)
(* producer.ProduceBatch and deletes them.                                 *)
(*                                                                         *)
(* The database is external and modelled as PostgreSQL does READ COMMITTED *)
(* with FOR UPDATE: a fetch takes its snapshot when it starts, locks the   *)
(* rows one by one in id order, waits for a row another transaction has    *)
(* locked, and skips a row that was deleted in the meantime.               *)
(***************************************************************************)
EXTENDS Naturals, FiniteSets, FiniteSetsExt

CONSTANTS
  Flushers,     \* the replicas of the service, one flusher each
  Rows,         \* ids of the rows the services write, as the table draws them
  TopicOf,      \* row -> its topic
  SizeOf,       \* row -> the size of its message
  Refused,      \* topics the bus refuses (no Kafka permission)
  RequestLimit, \* the largest request the bus's gRPC server receives
  BatchSize,    \* batchSize of the flushers
  MaxFaults     \* bound: crashes, cancellations, failed or timed out calls

ASSUME OutboxAssumption ==
  /\ Rows \subseteq Nat
  /\ DOMAIN TopicOf = Rows /\ SizeOf \in [Rows -> Nat]
  /\ RequestLimit \in Nat /\ BatchSize \in Nat \ {0} /\ MaxFaults \in Nat

VARIABLES
  table,     \* row -> none, open (not committed), live, gone (deleted)
  before,    \* row -> rows with a lower id that were visible no later than it
  landed,    \* row -> how often it was written to Kafka
  blamed,    \* row -> requests with it that failed, or whose delete was not committed
  late,      \* rows of requests given up here that Kafka may still write
  mode,      \* flusher -> off, idle, next (loop of flush), scan (fetch), publish
  cancelled, \* flusher -> its context is cancelled
  failed,    \* flusher -> topics that failed in this pass
  left,      \* flusher -> rows of the snapshot the fetch has not reached
  todo,      \* flusher -> selected rows whose topic is still to be published
  locked,    \* flusher -> rows its transaction has locked
  done,      \* flusher -> published rows of this step
  due,       \* flusher -> rows that were live when the pass started
  faults     \* faults so far

tableVars == <<table, before>>
kafkaVars == <<landed, blamed, late>>
stepVars == <<left, todo, locked, done>>
passVars == <<failed, due>>
vars == <<tableVars, kafkaVars, mode, cancelled, stepVars, passVars, faults>>

Init ==
  /\ table = [r \in Rows |-> "none"]
  /\ before = [r \in Rows |-> {}]
  /\ landed = [r \in Rows |-> 0] /\ blamed = [r \in Rows |-> 0]
  /\ late = {}
  /\ mode = [f \in Flushers |-> "idle"]
  /\ cancelled = [f \in Flushers |-> FALSE]
  /\ failed = [f \in Flushers |-> {}] /\ due = [f \in Flushers |-> {}]
  /\ left = [f \in Flushers |-> {}] /\ todo = [f \in Flushers |-> {}]
  /\ locked = [f \in Flushers |-> {}] /\ done = [f \in Flushers |-> {}]
  /\ faults = 0

Fault == faults < MaxFaults /\ faults' = faults + 1
\* A call of f ends early: its context is cancelled, or it meets an error or a timeout.
Interrupted(f) == IF cancelled[f] THEN UNCHANGED faults ELSE Fault
In(states) == {r \in Rows : table[r] \in states}
Live == In({"live"})
OneMore(count, S) == [r \in Rows |-> IF r \in S THEN count[r] + 1 ELSE count[r]]

-----------------------------------------------------------------------------
(* The services' transactions.                                             *)

\* WriteWithLimit: the row gets its id when it is inserted, not when it is committed.
Write(r) ==
  /\ table[r] = "none" /\ \A q \in Rows : q < r => table[q] # "none"
  /\ table' = [table EXCEPT ![r] = "open"]
  /\ UNCHANGED <<before, kafkaVars, mode, cancelled, stepVars, passVars, faults>>

\* The transaction that wrote the rows S commits.  One that rolls back leaves nothing
\* anybody sees: its rows stay open here.
Commit(S) ==
  /\ S # {} /\ S \subseteq In({"open"})
  /\ table' = [r \in Rows |-> IF r \in S THEN "live" ELSE table[r]]
  /\ before' = [r \in Rows |->
       IF r \in S
       THEN {q \in S \union In({"live", "gone"}) : q < r /\ TopicOf[q] = TopicOf[r]}
       ELSE before[r]]
  /\ UNCHANGED <<kafkaVars, mode, cancelled, stepVars, passVars, faults>>

-----------------------------------------------------------------------------
(* The flusher of replica f: Run, its worker and flush.                    *)

\* The transaction of the step is over, committed or rolled back.
EndStep(f) ==
  /\ left' = [left EXCEPT ![f] = {}] /\ todo' = [todo EXCEPT ![f] = {}]
  /\ locked' = [locked EXCEPT ![f] = {}] /\ done' = [done EXCEPT ![f] = {}]

\* So is the pass.
EndPass(f) ==
  /\ EndStep(f)
  /\ mode' = [mode EXCEPT ![f] = "idle"]
  /\ failed' = [failed EXCEPT ![f] = {}] /\ due' = [due EXCEPT ![f] = {}]

\* StartFlusher and the beginning of Run.
StartFlusher(f) ==
  /\ mode[f] = "off"
  /\ mode' = [mode EXCEPT ![f] = "idle"]
  /\ UNCHANGED <<tableVars, kafkaVars, cancelled, stepVars, passVars, faults>>

\* The worker takes a trigger (the start, a tick of the sweep, a notification) and starts a
\* pass.  The channel holds one; the sweep always brings another.
TakeTrigger(f) ==
  /\ mode[f] = "idle"
  /\ mode' = [mode EXCEPT ![f] = "next"]
  /\ failed' = [failed EXCEPT ![f] = {}]
  /\ due' = [due EXCEPT ![f] = Live]
  /\ UNCHANGED <<tableVars, kafkaVars, cancelled, stepVars, faults>>

\* Close of the client, or its context, cancels the flusher.
Cancel(f) ==
  /\ Fault
  /\ mode[f] # "off" /\ ~cancelled[f]
  /\ cancelled' = [cancelled EXCEPT ![f] = TRUE]
  /\ UNCHANGED <<tableVars, kafkaVars, mode, stepVars, passVars>>

\* Run is over; the next one has a context of its own.
Ends(f) ==
  /\ mode' = [mode EXCEPT ![f] = "off"]
  /\ cancelled' = [cancelled EXCEPT ![f] = FALSE]

\* Run returns once its worker has seen the cancellation between two passes.
Stop(f) ==
  /\ mode[f] = "idle" /\ cancelled[f]
  /\ Ends(f)
  /\ UNCHANGED <<tableVars, kafkaVars, stepVars, passVars, faults>>

\* A pass gives up between two steps: cancelled, or the transaction cannot begin.
GiveUpPass(f) ==
  /\ mode[f] = "next"
  /\ Interrupted(f)
  /\ EndPass(f)
  /\ UNCHANGED <<tableVars, kafkaVars, cancelled>>

\* Mutant: a fetch without FOR UPDATE.
LocksNothing(f, r) == FALSE

LockedBy(f, r) == \E g \in Flushers \ {f} : r \in locked[g]

\* The fetch has still to look at the rows S and has selected the rows sel: it goes on,
\* returns them to be published, or returns nothing, which ends the pass.
Scan(f, S, sel) ==
  LET more == S # {} /\ Cardinality(sel) < BatchSize
  IN  IF ~more /\ sel = {}
      THEN EndPass(f)
      ELSE /\ mode' = [mode EXCEPT ![f] = IF more THEN "scan" ELSE "publish"]
           /\ left' = [left EXCEPT ![f] = IF more THEN S ELSE {}]
           /\ todo' = [todo EXCEPT ![f] = sel]
           /\ locked' = [locked EXCEPT ![f] = sel]
           /\ UNCHANGED <<done, passVars>>

\* flushBatch begins its transaction and the fetch takes its snapshot.
Fetch(f) ==
  /\ mode[f] = "next" /\ ~cancelled[f]
  /\ Scan(f, {r \in Live : TopicOf[r] \notin failed[f]}, {})
  /\ UNCHANGED <<tableVars, kafkaVars, cancelled, faults>>

\* Mutant: a fetch without ORDER BY id.
LockAnyRow(f) ==
  /\ mode[f] = "scan"
  /\ \E r \in left[f] :
       /\ ~LockedBy(f, r)
       /\ Scan(f, left[f] \ {r}, todo[f] \union ({r} \intersect Live))
  /\ UNCHANGED <<tableVars, kafkaVars, cancelled, faults>>

\* The fetch reaches the next row, which no other transaction has locked (any more), and
\* locks it; a row deleted since the snapshot is skipped.
LockRow(f) ==
  /\ mode[f] = "scan"
  /\ LET r == Min(left[f])
     IN  /\ ~LockedBy(f, r)
         /\ Scan(f, left[f] \ {r}, todo[f] \union ({r} \intersect Live))
  /\ UNCHANGED <<tableVars, kafkaVars, cancelled, faults>>

\* The fetch fails, or its wait ends with the context: the pass is over.
FetchFails(f) ==
  /\ mode[f] = "scan"
  /\ Interrupted(f)
  /\ EndPass(f)
  /\ UNCHANGED <<tableVars, kafkaVars, cancelled>>

\* groupByTopic: the group that comes next, in the order of the topics' first rows.
NextTopic(f) == TopicOf[Min(todo[f])]
Group(f) == {r \in todo[f] : TopicOf[r] = NextTopic(f)}

\* The bus takes a request of the group at all: its topic is allowed and it is not too large.
Accepts(f) ==
  /\ NextTopic(f) \notin Refused
  /\ MapThenSumSet(LAMBDA r : SizeOf[r], Group(f)) <= RequestLimit

\* publishGroup succeeds: the request was written to Kafka as a whole.
PublishOk(f) ==
  /\ mode[f] = "publish" /\ todo[f] # {}
  /\ Accepts(f) /\ ~cancelled[f]
  /\ landed' = OneMore(landed, Group(f))
  /\ done' = [done EXCEPT ![f] = @ \union Group(f)]
  /\ todo' = [todo EXCEPT ![f] = @ \ Group(f)]
  /\ UNCHANGED <<tableVars, blamed, late, mode, cancelled, left, locked, passVars, faults>>

\* Mutant: the first failure ends the pass.
PublishFailsPass(f) ==
  /\ mode[f] = "publish" /\ todo[f] # {}
  /\ IF Accepts(f) THEN Interrupted(f) ELSE UNCHANGED faults
  /\ EndPass(f)
  /\ UNCHANGED <<tableVars, kafkaVars, cancelled>>

\* publishGroup fails: refused before anything is written, or with a timeout, a
\* cancellation or an error of Kafka after a part was written or is still on its way.
PublishFails(f) ==
  /\ mode[f] = "publish" /\ todo[f] # {}
  /\ \/ /\ ~Accepts(f)
        /\ UNCHANGED <<kafkaVars, faults>>
     \/ /\ Accepts(f)
        /\ Interrupted(f)
        /\ \E W \in SUBSET Group(f) : \E L \in SUBSET (Group(f) \ W) :
             /\ landed' = OneMore(landed, W)
             /\ late' = late \union L
        /\ blamed' = OneMore(blamed, Group(f))
  /\ failed' = [failed EXCEPT ![f] = @ \union {NextTopic(f)}]
  /\ todo' = [todo EXCEPT ![f] = @ \ Group(f)]
  /\ UNCHANGED <<tableVars, mode, cancelled, left, locked, done, due>>

\* A request nobody waits for any more is written after all.
LateWrite(r) ==
  /\ r \in late
  /\ late' = late \ {r}
  /\ landed' = OneMore(landed, {r})
  /\ UNCHANGED <<tableVars, blamed, mode, cancelled, stepVars, passVars, faults>>

\* Mutant: every selected row is deleted.
DeleteSelected(f) == table' = [r \in Rows |-> IF r \in locked[f] THEN "gone" ELSE table[r]]

DeleteDone(f) == table' = [r \in Rows |-> IF r \in done[f] THEN "gone" ELSE table[r]]

\* Mutant: a pass is one step.
CompletePass(f) ==
  /\ mode[f] = "publish" /\ todo[f] = {}
  /\ DeleteDone(f)
  /\ EndPass(f)
  /\ UNCHANGED <<before, kafkaVars, cancelled, faults>>

\* The published rows are deleted and the step is committed, cancelled or not.
Complete(f) ==
  /\ mode[f] = "publish" /\ todo[f] = {}
  /\ DeleteDone(f)
  /\ EndStep(f)
  /\ mode' = [mode EXCEPT ![f] = "next"]
  /\ UNCHANGED <<before, kafkaVars, cancelled, passVars, faults>>

\* The delete or the commit fails, the commit perhaps only for the caller: the pass is over.
CompleteFails(f) ==
  /\ Fault
  /\ mode[f] = "publish" /\ todo[f] = {}
  /\ \/ DeleteDone(f) /\ UNCHANGED blamed
     \/ UNCHANGED table /\ blamed' = OneMore(blamed, done[f])
  /\ EndPass(f)
  /\ UNCHANGED <<before, landed, late, cancelled>>

\* The replica dies; the database rolls its transaction back.
Crash(f) ==
  /\ Fault
  /\ mode[f] # "off"
  /\ blamed' = OneMore(blamed, done[f])
  /\ EndStep(f)
  /\ Ends(f)
  /\ failed' = [failed EXCEPT ![f] = {}] /\ due' = [due EXCEPT ![f] = {}]
  /\ UNCHANGED <<tableVars, landed, late>>

Pass(f) ==
  \/ TakeTrigger(f) \/ GiveUpPass(f) \/ Fetch(f) \/ LockRow(f) \/ FetchFails(f)
  \/ PublishOk(f) \/ PublishFails(f) \/ Complete(f) \/ CompleteFails(f)

Next ==
  \/ \E r \in Rows : Write(r) \/ LateWrite(r)
  \/ \E S \in SUBSET Rows : Commit(S)
  \/ \E f \in Flushers :
       StartFlusher(f) \/ Pass(f) \/ Cancel(f) \/ Stop(f) \/ Crash(f)

\* A service is started again after it stopped, the sweep never ends, the calls of a pass
\* return in the end (all have timeouts), and select takes the cancellation at some point.
Fairness ==
  /\ \A f \in Flushers :
       WF_vars(StartFlusher(f)) /\ WF_vars(Pass(f)) /\ SF_vars(Stop(f))

Spec == Init /\ [][Next]_vars /\ Fairness

-----------------------------------------------------------------------------

TypeOK ==
  /\ table \in [Rows -> {"none", "open", "live", "gone"}]
  /\ before \in [Rows -> SUBSET Rows]
  /\ landed \in [Rows -> Nat] /\ blamed \in [Rows -> Nat] /\ late \subseteq Rows
  /\ mode \in [Flushers -> {"off", "idle", "next", "scan", "publish"}]
  /\ cancelled \in [Flushers -> BOOLEAN]
  /\ failed \in [Flushers -> SUBSET {TopicOf[r] : r \in Rows}]
  /\ left \in [Flushers -> SUBSET Rows] /\ todo \in [Flushers -> SUBSET Rows]
  /\ locked \in [Flushers -> SUBSET Rows] /\ done \in [Flushers -> SUBSET Rows]
  /\ due \in [Flushers -> SUBSET Rows]
  /\ faults \in 0 .. MaxFaults

\* A row is deleted only after it was written to Kafka, whatever fails in between
\* (flushBatch deletes the rows of confirmed groups only, by id).
DeletedWasPublished == \A r \in Rows : table[r] = "gone" => landed[r] > 0

\* A row is written to Kafka once more than there were failed attempts at it: flushers of
\* several replicas never publish it twice, and a shutdown after the publish still deletes it.
OncePerAttempt ==
  \A r \in Rows : landed[r] + (IF r \in late THEN 1 ELSE 0) <= blamed[r] + 1

\* Within a topic a row overtakes none that was visible before it, with any number of
\* flushers and failures: it is not deleted before it, and not written before an attempt at it.
InOrder ==
  \A r \in Rows : \A q \in before[r] :
    /\ table[r] = "gone" => table[q] = "gone"
    /\ landed[r] > 0 => landed[q] > 0 \/ blamed[q] > 0

\* A pass that ends by itself has left no row behind that was there when it started,
\* except rows of topics that failed in it.
PassIsComplete ==
  [][\A f \in Flushers :
       mode[f] # "idle" /\ mode'[f] = "idle" /\ ~cancelled[f] /\ faults' = faults
         => \A r \in due[f] : table[r] = "gone" \/ TopicOf[r] \in failed[f]]_vars

\* The table is drained again and again, down to rows of topics the bus refuses: as there are
\* finitely many, every committed row of an accepted topic is published and deleted in the
\* end, whatever becomes of the other topics.
RowsAreDelivered == []<>(\A r \in Live : TopicOf[r] \in Refused)

\* Where a row stands, seen from outside: the flusher that has published it holds it until its
\* transaction ends.
Place(r) ==
  CASE table[r] = "gone" -> "forgotten"
    [] table[r] = "live" -> IF \E f \in Flushers : r \in done[f] THEN "written" ELSE "waiting"
    [] OTHER -> "hidden"

Places == [r \in Rows |-> Place(r)]

Relay == INSTANCE TopicRelay WITH
  place <- Places, earlier <- before, copies <- landed, excuses <- blamed, stray <- late

\* The outbox implements TopicRelay: with several replicas, their locks, passes and faults, rows
\* are published topic by topic in order, deleted after that only, and repeated only for a failure.
ImplementsRelay == Relay!Spec

=============================================================================
