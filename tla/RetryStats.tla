------------------------------ MODULE RetryStats ------------------------------
(***************************************************************************)
(* What people see of the repeat queue and act upon: the queries of the    *)
(* repository (repeater.go), their errors merged into classes              *)
(* (model/errorclass.go), the control API and its client, which pass them  *)
(* on, and the two readers: redbus-triage, which asks for the failures of  *)
(* a time window and then for the queue, and the page of the web           *)
(* interface, from which a class is deleted.                               *)
(*                                                                         *)
(* A group stands for a topic and a group.  Errors are numbers, which      *)
(* compare as their texts do; started_at and finished_at are one time.     *)
(***************************************************************************)
EXTENDS Integers, Sequences, SequencesExt, FiniteSets, FiniteSetsExt

CONSTANTS
  StatRows,   \* ids of rows
  StatGroups,
  StatErrors,
  StatClass,  \* ErrorClass: error -> its class, a text as well, whose class may be another one
  StatTime,   \* bound: times are 1 .. StatTime
  StatMoves   \* bound: rows that change while someone reads

ASSUME StatAssumption ==
  /\ IsFiniteSet(StatRows)
  /\ StatTime \in Nat /\ StatMoves \in Nat /\ StatErrors \subseteq Nat /\ StatGroups \subseteq Nat
  /\ \A e \in StatErrors : StatClass[e] \in StatErrors

VARIABLES
  statTable,  \* id -> row, for the rows there are
  statStep,   \* triage, queue, page, delete, end: what is asked for next
  statWindow, \* <<since, until>> of the triage
  statTriage, \* answer of GetRetryTriage: group -> classes, in order
  statBefore, \* the table it was read from
  statQueue,  \* answer to redbus-triage about the queue, in order
  statPage,   \* answer of GetRetryStats for the page: group -> item
  statGone,   \* <<group, class, number of deleted rows>> of the delete, or <<>>
  statMoves,  \* rows that have changed since a reader's last request
  statAll     \* rows that have changed at all

statVars == <<statTable, statStep, statWindow, statTriage, statBefore, statQueue, statPage, statGone, statMoves, statAll>>

StatNone == [g \in {} |-> 0]
StatRow ==
  {r \in [group : StatGroups, state : {"pending", "deferred", "failed"}, error : StatErrors, at : 1 .. StatTime] :
     r.state # "failed" => r.error = Min(StatErrors) /\ r.at = 1}

\* Ids mean nothing, so that each group may as well have consecutive ones.
StatOrdered(f) == \A i, j \in DOMAIN f : i < j => f[i].group <= f[j].group

StatInit ==
  /\ \E ids \in SUBSET StatRows : statTable \in {f \in [ids -> StatRow] : StatOrdered(f)}
  /\ statStep = "triage"
  /\ statWindow \in {w \in (1 .. StatTime) \X (2 .. StatTime + 1) : w[1] < w[2]}
  /\ statTriage = StatNone /\ statBefore = StatNone /\ statQueue = <<>> /\ statPage = StatNone
  /\ statGone = <<>> /\ statMoves = {} /\ statAll = {}

-----------------------------------------------------------------------------
(* The queries.                                                            *)

StatIn(g) == {i \in DOMAIN statTable : statTable[i].group = g}
StatOf(ids, state) == {i \in ids : statTable[i].state = state}
StatPresent == {statTable[i].group : i \in DOMAIN statTable}
StatTimes(ids) == {statTable[i].at : i \in ids}

\* The ORDER BY of the queries and the sort.SliceStable of the classes: the most frequent first.
StatBefore(a, b) == a.count > b.count \/ (a.count = b.count /\ a.error < b.error)

\* The list in which k - 1 elements come before the k-th.
StatSort(stats) ==
  [k \in 1 .. Cardinality(stats) |-> CHOOSE s \in stats : Cardinality({r \in stats : StatBefore(r, s)}) = k - 1]

\* error_stats, repeatTriageSQL: rows grouped by the exact error, most frequent first.
StatByError(ids) ==
  LET of(e) == {i \in ids : statTable[i].error = e}
      stat(e) == [error |-> e, sample |-> e, count |-> Cardinality(of(e)),
                  first |-> Min(StatTimes(of(e))), last |-> Max(StatTimes(of(e)))]
  IN  StatSort({stat(e) : e \in {statTable[i].error : i \in ids}})

\* Mutant: a class keeps the sample of its most frequent error.
StatMergeFirst(list, stat) ==
  LET class == StatClass[stat.error]
      at == {k \in DOMAIN list : list[k].error = class}
  IN  IF at = {} THEN Append(list, [stat EXCEPT !.error = class])
      ELSE [k \in DOMAIN list |->
             IF k \notin at THEN list[k]
             ELSE [list[k] EXCEPT !.count = @ + stat.count, !.first = Min({@, stat.first}),
                                  !.last = Max({@, stat.last})]]

\* GroupRepeatErrorStatsByClass: one more error is merged into its class.
StatMerge(list, stat) ==
  LET class == StatClass[stat.error]
      at == {k \in DOMAIN list : list[k].error = class}
  IN  IF at = {} THEN Append(list, [stat EXCEPT !.error = class])
      ELSE [k \in DOMAIN list |->
             IF k \notin at THEN list[k]
             ELSE [list[k] EXCEPT !.count = @ + stat.count, !.first = Min({@, stat.first}),
                                  !.last = Max({@, stat.last}),
                                  !.sample = IF stat.last > list[k].last THEN stat.sample ELSE @]]

StatMergeAll(stats) ==
  LET merged[k \in 0 .. Len(stats)] == IF k = 0 THEN <<>> ELSE StatMerge(merged[k - 1], stats[k])
  IN  merged[Len(stats)]

StatByClass(ids) == StatSort(ToSet(StatMergeAll(StatByError(ids))))

\* last_error: of what is not deferred the finished rows first, then the latest.
StatLast(ids) ==
  IF ids = {} THEN 0
  ELSE LET later(i, j) == \/ statTable[i].at > statTable[j].at
                          \/ statTable[i].at = statTable[j].at /\ i >= j
       IN  statTable[CHOOSE i \in ids : \A j \in ids : later(i, j)].error

\* repeatStatSQL, repeatCountSQL.
StatItem(g) ==
  LET failed == StatOf(StatIn(g), "failed")
      deferred == StatOf(StatIn(g), "deferred")
  IN  [all |-> Cardinality(StatIn(g)), failed |-> Cardinality(failed), deferred |-> Cardinality(deferred),
       lastError |-> StatLast(IF failed # {} THEN failed ELSE StatIn(g) \ deferred),
       lastReason |-> StatLast(deferred), errors |-> StatByClass(failed)]

-----------------------------------------------------------------------------
(* The readers, and what happens meanwhile.                                *)

\* A row that was waiting fails, or one that had failed is restarted.
StatMove(i, e) ==
  /\ statStep \in {"queue", "delete"} /\ Cardinality(statAll) < StatMoves
  /\ i \in DOMAIN statTable
  /\ statTable' = [statTable EXCEPT ![i] =
       IF @.state = "failed" THEN [@ EXCEPT !.state = "pending"]
       ELSE [@ EXCEPT !.state = "failed", !.error = e, !.at = StatTime]]
  /\ statMoves' = statMoves \union {i} /\ statAll' = statAll \union {i}
  /\ UNCHANGED <<statStep, statWindow, statTriage, statBefore, statQueue, statPage, statGone>>

\* redbus-triage: the failures of the half-open window; GetRetryTriage rejects an empty one.
StatGetTriage ==
  /\ statStep = "triage"
  /\ LET failed == {i \in StatOf(DOMAIN statTable, "failed") :
                      statTable[i].at \in statWindow[1] .. statWindow[2] - 1}
     IN  statTriage' = [g \in {statTable[i].group : i \in failed} |-> StatByClass(failed \intersect StatIn(g))]
  /\ statStep' = "queue" /\ statBefore' = statTable /\ statMoves' = {}
  /\ UNCHANGED <<statTable, statWindow, statQueue, statPage, statGone, statAll>>

\* toQueue: groups that have rows waiting, the largest queue first.
StatGetQueue ==
  /\ statStep = "queue"
  /\ LET pending(g) == Max({StatItem(g).all - StatItem(g).failed - StatItem(g).deferred, 0})
         item(g) == [group |-> g, pending |-> pending(g), deferred |-> StatItem(g).deferred,
                     failed |-> StatItem(g).failed, lastError |-> StatItem(g).lastError,
                     lastReason |-> StatItem(g).lastReason]
         before(a, b) == \/ a.pending + a.deferred > b.pending + b.deferred
                         \/ a.pending + a.deferred = b.pending + b.deferred /\ a.group < b.group
     IN  statQueue' = SetToSortSeq({item(g) : g \in {h \in StatPresent : pending(h) + StatItem(h).deferred > 0}}, before)
  /\ statStep' = "page"
  /\ UNCHANGED <<statTable, statWindow, statTriage, statBefore, statPage, statGone, statMoves, statAll>>

\* repeatStatHandler.
StatGetPage ==
  /\ statStep = "page"
  /\ statPage' = [g \in StatPresent |-> StatItem(g)]
  /\ statStep' = "delete" /\ statMoves' = {}
  /\ UNCHANGED <<statTable, statWindow, statTriage, statBefore, statQueue, statGone, statAll>>

\* deleteErrorHandler with a class of the page: ErrorsOfClass takes the class of it and looks for
\* that among the errors of failed rows.
StatDelete(g, k) ==
  /\ statStep = "delete"
  /\ LET class == StatClass[statPage[g].errors[k].error]
         failed == StatOf(StatIn(g), "failed")
         gone == {i \in failed : StatClass[statTable[i].error] = class}
     IN  /\ statTable' = [i \in DOMAIN statTable \ gone |-> statTable[i]]
         /\ statGone' = <<g, k, Cardinality(gone)>>
  /\ statStep' = "end"
  /\ UNCHANGED <<statWindow, statTriage, statBefore, statQueue, statPage, statMoves, statAll>>

StatSteps ==
  \/ \E i \in StatRows, e \in StatErrors : StatMove(i, e)
  \/ StatGetTriage \/ StatGetQueue \/ StatGetPage
  \/ \E g \in DOMAIN statPage : \E k \in DOMAIN statPage[g].errors : StatDelete(g, k)

StatSpec == StatInit /\ [][StatSteps]_statVars

-----------------------------------------------------------------------------

StatTriageCounts(triage, table, window) ==
  LET failed(g, c) == {i \in DOMAIN table :
         /\ table[i].group = g /\ table[i].state = "failed" /\ StatClass[table[i].error] = c
         /\ window[1] <= table[i].at /\ table[i].at < window[2]}
      listed(g, c) == IF g \in DOMAIN triage THEN {k \in DOMAIN triage[g] : triage[g][k].error = c} ELSE {}
  IN  \A g \in StatGroups, c \in StatErrors :
        IF failed(g, c) = {} THEN listed(g, c) = {}
        ELSE /\ Cardinality(listed(g, c)) = 1
             /\ \A k \in listed(g, c) : \E i, j \in failed(g, c) :
                  /\ triage[g][k].count = Cardinality(failed(g, c))
                  /\ triage[g][k].first = table[i].at
                  /\ triage[g][k].last = table[j].at /\ triage[g][k].sample = table[j].error
                  /\ \A l \in failed(g, c) : table[i].at <= table[l].at /\ table[l].at <= table[j].at

\* GetRetryTriage: every failure of the window is counted in exactly one class of its group, with
\* the first and the last time, and the sample is an error of the class from that last time.
StatTriageIsRight == statStep # "triage" => StatTriageCounts(statTriage, statBefore, statWindow)

StatTotal(classes) ==
  LET total[k \in 0 .. Len(classes)] == IF k = 0 THEN 0 ELSE total[k - 1] + classes[k].count
  IN  total[Len(classes)]

\* Without other changes in between, the delete of a class deletes as many rows as the page counted.
StatDeletesTheCount ==
  statGone # <<>> /\ statMoves = {} => statGone[3] = statPage[statGone[1]].errors[statGone[2]].count

\* The page and the delete agree if the class is its own class, as most are, and the counts of a
\* group's classes are its failures.  With another class, as 'order_<N>fe8a3b2c1' of
\* 'order_5fe8a3b2c1', whose class is 'order_<N><HEX>', rows of that one are deleted or none.
StatDeletesWhatIsShown ==
  statGone # <<>> =>
    LET item == statPage[statGone[1]]
        shown == item.errors[statGone[2]].error
    IN  /\ StatClass[shown] = shown => StatDeletesTheCount
        /\ item.failed = StatTotal(item.errors)

\* model/errorclass.go:11-13: "Placeholders contain no digits, which keeps ErrorClass idempotent and
\* lets a class be passed back as an action filter": the page passes a class of its list back.
ClassIsAFilter == StatDeletesTheCount

\* Both, as one property of a run.
StatsAgree == StatTriageIsRight /\ StatDeletesWhatIsShown

=============================================================================
