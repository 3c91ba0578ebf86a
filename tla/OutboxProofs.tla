----------------------------- MODULE OutboxProofs -----------------------------
(***************************************************************************)
(* Theorems of Outbox for any flushers, rows, topics, sizes, batch size    *)
(* and number of faults.                                                   *)
(*                                                                         *)
(* What is visible of the table only grows towards "gone", and a row is    *)
(* deleted by the flusher that holds its lock.  So what a flusher has      *)
(* selected stays live, is selected by no other, and is, topic by topic,   *)
(* everything that was visible before the last row it selected.            *)
(***************************************************************************)
EXTENDS Outbox, WellFoundedInduction, FiniteSetTheorems, TLAPS

Visible == In({"live", "gone"})
Gone == In({"gone"})

\* Rows that are not committed are nowhere but in the table; a row comes after rows of its
\* topic only.
TableInv ==
  /\ \A r \in Rows \ Visible : landed[r] = 0 /\ before[r] = {}
  /\ late \subseteq Visible
  /\ \A r \in Rows : \A q \in before[r] : q \in Visible /\ q < r /\ TopicOf[q] = TopicOf[r]

\* What a flusher holds, by the phase it is in.
Holds(f) ==
  /\ mode[f] # "publish" => done[f] = {}
  /\ mode[f] \notin {"scan", "publish"} => locked[f] = {}
  /\ mode[f] \in {"off", "idle"} => due[f] = {}
  /\ mode[f] = "scan" => left[f] # {}
  /\ todo[f] \union done[f] \subseteq locked[f] /\ todo[f] \intersect done[f] = {}
  /\ locked[f] \subseteq Live
  /\ left[f] \union due[f] \subseteq Visible
HoldInv == \A f \in Flushers : Holds(f)

Exclusive == \A f, g \in Flushers : f # g => locked[f] \intersect locked[g] = {}

\* No flusher selects, or publishes, a row and leaves out one that was visible before it;
\* what it still has to look at is the rest of the pass.
Scans(f) ==
  /\ \A r \in todo[f] : before[r] \subseteq todo[f] \union Gone
  /\ \A r \in done[f] : before[r] \subseteq done[f] \union Gone
  /\ mode[f] = "scan" =>
       /\ \A r \in left[f] : before[r] \subseteq left[f] \union todo[f] \union Gone
       /\ \A r \in due[f] : r \in left[f] \union todo[f] \union Gone \/ TopicOf[r] \in failed[f]
ScanInv == \A f \in Flushers : Scans(f)

\* Every row whose turn it was has been written, or an attempt at it has failed.
OrderInv ==
  /\ DeletedWasPublished
  /\ InOrder
  /\ \A f \in Flushers : \A r \in done[f] : landed[r] > 0
  /\ \A r \in late : \A q \in before[r] : landed[q] > 0 \/ blamed[q] > 0

\* A row that is neither deleted nor about to be has not been written without a failure.
Spent(r) == IF r \in Gone \/ \E f \in Flushers : r \in done[f] THEN 1 ELSE 0
Coming(r) == IF r \in late THEN 1 ELSE 0
CountInv == \A r \in Rows : landed[r] + Coming(r) <= blamed[r] + Spent(r)

IInv == TypeOK /\ TableInv /\ HoldInv /\ Exclusive /\ ScanInv /\ OrderInv /\ CountInv
-----------------------------------------------------------------------------

LEMMA MinIsSmallest ==
  ASSUME NEW S \in SUBSET Nat, S # {}
  PROVE  Min(S) \in S /\ \A x \in S : Min(S) <= x
<1> DEFINE R == OpToRel(<, Nat)
<1>1. IsWellFoundedOn(R, Nat)
  BY NatLessThanWellFounded
<1>2. PICK t \in S : \A y \in S : ~ (<<y, t>> \in R)
  <2> HIDE DEF R
  <2> QED
    BY <1>1, WFMin
<1>3. ASSUME NEW y \in S PROVE t <= y
  <2>1. ~ (<<y, t>> \in {ss \in Nat \X Nat : ss[1] < ss[2]})
    BY <1>2 DEF OpToRel
  <2> QED
    BY <2>1
<1> HIDE DEF R
<1> QED
  BY <1>3 DEF Min

LEMMA InitInv == Init => IInv
BY OutboxAssumption
   DEF Init, IInv, TypeOK, TableInv, HoldInv, Holds, Exclusive, ScanInv, Scans, OrderInv, CountInv, Spent,
       Coming, Visible, Gone, In, Live, DeletedWasPublished, InOrder

\* The types of a flusher's variables.
StepTyped ==
  /\ left \in [Flushers -> SUBSET Rows] /\ todo \in [Flushers -> SUBSET Rows]
  /\ locked \in [Flushers -> SUBSET Rows] /\ done \in [Flushers -> SUBSET Rows]
PassTyped ==
  /\ mode \in [Flushers -> {"off", "idle", "next", "scan", "publish"}]
  /\ failed \in [Flushers -> SUBSET {TopicOf[r] : r \in Rows}]
  /\ due \in [Flushers -> SUBSET Rows]

LEMMA EndStepTyped ==
  ASSUME StepTyped, NEW f \in Flushers, EndStep(f)
  PROVE  StepTyped'
BY DEF EndStep, StepTyped

LEMMA EndPassTyped ==
  ASSUME StepTyped, PassTyped, NEW f \in Flushers, EndPass(f)
  PROVE  StepTyped' /\ PassTyped'
BY EndStepTyped DEF EndPass, PassTyped

LEMMA ScanTyped ==
  ASSUME StepTyped, PassTyped, NEW f \in Flushers, NEW S \in SUBSET Rows, NEW sel \in SUBSET Rows,
         Scan(f, S, sel)
  PROVE  StepTyped' /\ PassTyped'
<1>1. CASE EndPass(f)
  BY <1>1, EndPassTyped
<1>2. CASE ~EndPass(f)
  <2>1. PassTyped'
    BY <1>2 DEF Scan, passVars, PassTyped
  <2>2. StepTyped'
    BY <1>2 DEF Scan, passVars, StepTyped
  <2> QED
    BY <2>1, <2>2
<1> QED
  BY <1>1, <1>2

LEMMA MoreTyped ==
  ASSUME NEW count \in [Rows -> Nat], NEW S
  PROVE  OneMore(count, S) \in [Rows -> Nat]
BY DEF OneMore

LEMMA StepKeepsType == TypeOK /\ [Next]_vars => TypeOK'
<1> SUFFICES ASSUME TypeOK, [Next]_vars PROVE TypeOK'
  OBVIOUS
<1> USE OutboxAssumption DEF tableVars, kafkaVars, stepVars, passVars
<1>0. StepTyped /\ PassTyped
  BY DEF StepTyped, PassTyped, TypeOK
<1>a. ASSUME StepTyped', PassTyped',
             table' \in [Rows -> {"none", "open", "live", "gone"}], UNCHANGED before,
             landed' \in [Rows -> Nat], blamed' \in [Rows -> Nat], late' \subseteq Rows,
             cancelled' \in [Flushers -> BOOLEAN], faults' \in 0 .. MaxFaults
      PROVE  TypeOK'
  BY <1>a DEF StepTyped, PassTyped, TypeOK
<1>1. ASSUME NEW r \in Rows, Write(r) PROVE TypeOK'
  BY <1>1 DEF Write, TypeOK
<1>2. ASSUME NEW r \in Rows, LateWrite(r) PROVE TypeOK'
  BY <1>2, MoreTyped DEF LateWrite, TypeOK
<1>3. ASSUME NEW S \in SUBSET Rows, Commit(S) PROVE TypeOK'
  <2>1. table' \in [Rows -> {"none", "open", "live", "gone"}]
    BY <1>3 DEF Commit, TypeOK
  <2>2. before' \in [Rows -> SUBSET Rows]
    BY <1>3 DEF Commit, TypeOK, In
  <2> QED
    BY <1>3, <2>1, <2>2 DEF Commit, TypeOK
<1>4. ASSUME NEW f \in Flushers, StartFlusher(f) \/ TakeTrigger(f) \/ Cancel(f) \/ Stop(f) PROVE TypeOK'
  <2>1. PassTyped' /\ cancelled' \in [Flushers -> BOOLEAN]
    <3>1. CASE StartFlusher(f) \/ Cancel(f)
      BY <3>1 DEF StartFlusher, Cancel, PassTyped, TypeOK
    <3>2. CASE TakeTrigger(f)
      BY <3>2 DEF TakeTrigger, Live, In, PassTyped, TypeOK
    <3>3. CASE Stop(f)
      BY <3>3 DEF Stop, Ends, PassTyped, TypeOK
    <3> QED
      BY <1>4, <3>1, <3>2, <3>3
  <2>2. faults' \in 0 .. MaxFaults
    BY <1>4 DEF StartFlusher, TakeTrigger, Cancel, Stop, Fault, TypeOK
  <2>3. UNCHANGED <<table, before, landed, blamed, late, left, todo, locked, done>>
    BY <1>4 DEF StartFlusher, TakeTrigger, Cancel, Stop
  <2> QED
    BY <1>a, <2>1, <2>2, <2>3 DEF StepTyped, TypeOK
<1>5. ASSUME NEW f \in Flushers, Crash(f) PROVE TypeOK'
  <2>1. StepTyped'
    BY <1>0, <1>5, EndStepTyped DEF Crash
  <2>2. PassTyped' /\ cancelled' \in [Flushers -> BOOLEAN]
    BY <1>5 DEF Crash, Ends, PassTyped, TypeOK
  <2>3. blamed' \in [Rows -> Nat] /\ UNCHANGED <<table, before, landed, late>>
    BY <1>5, MoreTyped DEF Crash, TypeOK
  <2>4. faults' \in 0 .. MaxFaults
    BY <1>5 DEF Crash, Fault, TypeOK
  <2> QED
    BY <1>a, <2>1, <2>2, <2>3, <2>4 DEF TypeOK
<1>6. ASSUME NEW f \in Flushers, GiveUpPass(f) \/ FetchFails(f) PROVE TypeOK'
  <2>1. StepTyped' /\ PassTyped'
    BY <1>0, <1>6, EndPassTyped DEF GiveUpPass, FetchFails
  <2>2. faults' \in 0 .. MaxFaults
    BY <1>6 DEF GiveUpPass, FetchFails, Interrupted, Fault, TypeOK
  <2>3. UNCHANGED <<table, before, landed, blamed, late, cancelled>>
    BY <1>6 DEF GiveUpPass, FetchFails
  <2> QED
    BY <1>a, <2>1, <2>2, <2>3 DEF TypeOK
<1>7. ASSUME NEW f \in Flushers, Fetch(f) PROVE TypeOK'
  <2>1. {r \in Live : TopicOf[r] \notin failed[f]} \in SUBSET Rows
    BY DEF Live, In
  <2>2. StepTyped' /\ PassTyped'
    BY <1>0, <1>7, <2>1, ScanTyped DEF Fetch
  <2>3. UNCHANGED <<table, before, landed, blamed, late, cancelled, faults>>
    BY <1>7 DEF Fetch
  <2> QED
    BY <1>a, <2>2, <2>3 DEF TypeOK
<1>8. ASSUME NEW f \in Flushers, LockRow(f) PROVE TypeOK'
  <2> DEFINE r == Min(left[f])
  <2>1. left[f] \ {r} \in SUBSET Rows /\ todo[f] \union ({r} \intersect Live) \in SUBSET Rows
    BY DEF TypeOK, Live, In
  <2>2. Scan(f, left[f] \ {r}, todo[f] \union ({r} \intersect Live))
    BY <1>8 DEF LockRow
  <2> HIDE DEF r
  <2>3. StepTyped' /\ PassTyped'
    BY <1>0, <2>1, <2>2, ScanTyped
  <2> QED
    BY <1>8, <1>a, <2>3 DEF LockRow, TypeOK
<1>9. ASSUME NEW f \in Flushers, PublishOk(f) PROVE TypeOK'
  BY <1>9, MoreTyped DEF PublishOk, Group, TypeOK
<1>10. ASSUME NEW f \in Flushers, PublishFails(f) PROVE TypeOK'
  <2>1. landed' \in [Rows -> Nat] /\ blamed' \in [Rows -> Nat] /\ late' \subseteq Rows
    <3>1. CASE UNCHANGED kafkaVars
      BY <3>1 DEF TypeOK
    <3>2. CASE ~UNCHANGED kafkaVars
      <4>1. PICK W \in SUBSET Group(f), L \in SUBSET Group(f) :
              /\ landed' = OneMore(landed, W) /\ late' = late \union L
              /\ blamed' = OneMore(blamed, Group(f))
        BY <1>10, <3>2 DEF PublishFails
      <4>2. landed' \in [Rows -> Nat] /\ blamed' \in [Rows -> Nat]
        BY <4>1, MoreTyped DEF TypeOK
      <4>3. late' \subseteq Rows
        BY <4>1 DEF Group, TypeOK
      <4> QED
        BY <4>2, <4>3
    <3> QED
      BY <3>1, <3>2
  <2>2. faults' \in 0 .. MaxFaults
    BY <1>10 DEF PublishFails, Interrupted, Fault, TypeOK
  <2>3. NextTopic(f) \in {TopicOf[r] : r \in Rows}
    BY <1>10, MinIsSmallest DEF PublishFails, NextTopic, TypeOK
  <2>4. PassTyped'
    BY <1>10, <2>3 DEF PublishFails, PassTyped, TypeOK
  <2>5. StepTyped'
    BY <1>10 DEF PublishFails, StepTyped, TypeOK
  <2> QED
    BY <1>10, <1>a, <2>1, <2>2, <2>4, <2>5 DEF PublishFails, TypeOK
<1>11. ASSUME NEW f \in Flushers, Complete(f) PROVE TypeOK'
  <2>1. StepTyped'
    BY <1>0, <1>11, EndStepTyped DEF Complete
  <2>2. PassTyped'
    BY <1>11 DEF Complete, PassTyped, TypeOK
  <2> QED
    BY <1>11, <1>a, <2>1, <2>2 DEF Complete, DeleteDone, TypeOK
<1>12. ASSUME NEW f \in Flushers, CompleteFails(f) PROVE TypeOK'
  <2>1. StepTyped' /\ PassTyped'
    BY <1>0, <1>12, EndPassTyped DEF CompleteFails
  <2>2. table' \in [Rows -> {"none", "open", "live", "gone"}] /\ blamed' \in [Rows -> Nat]
    BY <1>12, MoreTyped DEF CompleteFails, DeleteDone, TypeOK
  <2> QED
    BY <1>12, <1>a, <2>1, <2>2 DEF CompleteFails, Fault, TypeOK
<1>13. ASSUME UNCHANGED vars PROVE TypeOK'
  BY <1>13 DEF vars, TypeOK
<1> QED
  BY <1>1, <1>2, <1>3, <1>4, <1>5, <1>6, <1>7, <1>8, <1>9, <1>10, <1>11, <1>12, <1>13 DEF Next, Pass

-----------------------------------------------------------------------------
(* What flushers hold and have selected.                                   *)

\* The table only moves on, and what was visible before a visible row is settled.
Onward ==
  /\ Visible \subseteq Visible' /\ Gone \subseteq Gone'
  /\ \A r \in Visible : before'[r] = before[r]

\* A step leaves the flusher g alone.
Untouched(g) ==
  /\ mode'[g] = mode[g] /\ failed'[g] = failed[g] /\ due'[g] = due[g]
  /\ left'[g] = left[g] /\ todo'[g] = todo[g] /\ locked'[g] = locked[g] /\ done'[g] = done[g]

LEMMA LiveIsVisible == Live \subseteq Visible /\ Gone \subseteq Visible /\ Visible \subseteq Rows
BY DEF Live, Visible, Gone, In

LEMMA LiveOrGone == TypeOK => Visible = Live \union Gone /\ Live \intersect Gone = {}
BY DEF Live, Visible, Gone, In, TypeOK

LEMMA UntouchedKeeps ==
  ASSUME TypeOK, TypeOK', NEW g \in Flushers, Holds(g), Scans(g), Untouched(g), Onward,
         locked[g] \intersect Gone' = {}
  PROVE  Holds(g)' /\ Scans(g)'
<1>1. locked[g] \subseteq Live'
  BY LiveOrGone DEF Holds, Onward, Live, Gone, Visible, In, TypeOK
<1>2. Holds(g)'
  BY <1>1 DEF Holds, Untouched, Onward
<1>3. todo[g] \union done[g] \union left[g] \subseteq Visible
  BY LiveIsVisible DEF Holds
<1>4. Scans(g)'
  BY <1>3 DEF Scans, Untouched, Onward
<1> QED
  BY <1>2, <1>4

\* Steps of the flusher f.
Moves(f) ==
  \/ StartFlusher(f) \/ TakeTrigger(f) \/ Cancel(f) \/ Stop(f) \/ Crash(f) \/ GiveUpPass(f)
  \/ Fetch(f) \/ LockRow(f) \/ FetchFails(f) \/ PublishOk(f) \/ PublishFails(f)
  \/ Complete(f) \/ CompleteFails(f)

LEMMA NextSteps ==
  [Next]_vars =>
    \/ \E r \in Rows : Write(r) \/ LateWrite(r)
    \/ \E S \in SUBSET Rows : Commit(S)
    \/ \E f \in Flushers : Moves(f)
    \/ UNCHANGED vars
BY DEF Next, Pass, Moves

LEMMA OneMoves ==
  ASSUME TypeOK, NEW f \in Flushers, Moves(f), NEW g \in Flushers, g # f
  PROVE  Untouched(g)
<1> USE DEF TypeOK, Untouched, stepVars, passVars, Ends, EndStep, EndPass
<1>1. CASE StartFlusher(f) \/ TakeTrigger(f) \/ Cancel(f) \/ Stop(f)
  BY <1>1 DEF StartFlusher, TakeTrigger, Cancel, Stop
<1>2. CASE Crash(f)
  BY <1>2 DEF Crash
<1>3. CASE GiveUpPass(f) \/ FetchFails(f)
  BY <1>3 DEF GiveUpPass, FetchFails
<1>4. ASSUME NEW S, NEW sel, Scan(f, S, sel) PROVE Untouched(g)
  BY <1>4 DEF Scan
<1>5. CASE Fetch(f) \/ LockRow(f)
  BY <1>4, <1>5 DEF Fetch, LockRow
<1>6. CASE PublishOk(f)
  BY <1>6 DEF PublishOk
<1>7. CASE PublishFails(f)
  BY <1>7 DEF PublishFails
<1>8. CASE Complete(f)
  BY <1>8 DEF Complete
<1>9. CASE CompleteFails(f)
  BY <1>9 DEF CompleteFails
<1> QED
  BY <1>1, <1>2, <1>3, <1>5, <1>6, <1>7, <1>8, <1>9 DEF Moves

LEMMA DeleteMoves ==
  ASSUME TypeOK, NEW f \in Flushers, Holds(f), DeleteDone(f)
  PROVE  Visible' = Visible /\ Gone' = Gone \union done[f]
BY LiveIsVisible DEF Holds, DeleteDone, Visible, Gone, Live, In, TypeOK

\* What a step of a flusher does to the table: it may delete what it has published.
LEMMA FlusherDeletes ==
  ASSUME TypeOK, NEW f \in Flushers, Holds(f), Moves(f)
  PROVE  Onward /\ Visible' = Visible /\ UNCHANGED before /\ Gone' \subseteq Gone \union done[f]
<1>1. UNCHANGED before
  BY DEF Moves, StartFlusher, TakeTrigger, Cancel, Stop, Crash, GiveUpPass, Fetch, LockRow,
         FetchFails, PublishOk, PublishFails, Complete, CompleteFails, tableVars
<1>2. UNCHANGED table \/ DeleteDone(f)
  BY DEF Moves, StartFlusher, TakeTrigger, Cancel, Stop, Crash, GiveUpPass, Fetch, LockRow,
         FetchFails, PublishOk, PublishFails, Complete, CompleteFails, tableVars
<1>3. Visible' = Visible /\ Gone \subseteq Gone' /\ Gone' \subseteq Gone \union done[f]
  <2>1. CASE UNCHANGED table
    BY <2>1 DEF Visible, Gone, In
  <2>2. CASE DeleteDone(f)
    BY <2>2, DeleteMoves
  <2> QED
    BY <1>2, <2>1, <2>2
<1> QED
  BY <1>1, <1>3 DEF Onward

LEMMA EndKeeps ==
  ASSUME TypeOK, NEW f \in Flushers, EndStep(f),
         \/ mode'[f] \in {"idle", "off"} /\ due'[f] = {}
         \/ mode'[f] = "next" /\ due'[f] \subseteq Visible'
  PROVE  Holds(f)' /\ Scans(f)'
BY DEF EndStep, Holds, Scans, TypeOK

\* A fetch that has selected the rows sel and has the rows S to go.
LEMMA ScanKeeps ==
  ASSUME TypeOK, NEW f \in Flushers, NEW S \in SUBSET Visible, NEW sel \in SUBSET Live,
         Scan(f, S, sel), Holds(f), done[f] = {}, UNCHANGED <<table, before>>,
         \A r \in sel : before[r] \subseteq sel \union Gone,
         \A r \in S : before[r] \subseteq S \union sel \union Gone,
         \A r \in due[f] : r \in S \union sel \union Gone \/ TopicOf[r] \in failed[f]
  PROVE  Holds(f)' /\ Scans(f)'
<1>1. Visible' = Visible /\ Gone' = Gone /\ Live' = Live
  BY DEF Visible, Gone, Live, In
<1>2. CASE EndPass(f)
  <2>1. mode'[f] = "idle" /\ due'[f] = {}
    BY <1>2 DEF EndPass, TypeOK
  <2> QED
    BY <1>2, <2>1, EndKeeps DEF EndPass
<1>3. CASE ~EndPass(f)
  <2> DEFINE more == S # {} /\ Cardinality(sel) < BatchSize
  <2>1. /\ more \/ sel # {}
        /\ mode'[f] = IF more THEN "scan" ELSE "publish"
        /\ left'[f] = IF more THEN S ELSE {}
        /\ todo'[f] = sel /\ locked'[f] = sel /\ done'[f] = {}
        /\ due'[f] = due[f] /\ failed'[f] = failed[f]
    BY <1>3 DEF Scan, passVars, TypeOK
  <2>2. more => S # {}
    OBVIOUS
  <2> HIDE DEF more
  <2>3. Holds(f)'
    BY <1>1, <2>1, <2>2 DEF Holds
  <2>4. Scans(f)'
    BY <1>1, <2>1 DEF Scans
  <2> QED
    BY <2>3, <2>4
<1> QED
  BY <1>2, <1>3

LEMMA FetchKeeps ==
  ASSUME TypeOK, TableInv, NEW f \in Flushers, Holds(f), Fetch(f)
  PROVE  Holds(f)' /\ Scans(f)'
<1> DEFINE S == {r \in Live : TopicOf[r] \notin failed[f]}
<1>1. S \in SUBSET Visible /\ {} \in SUBSET Live /\ done[f] = {}
  BY LiveIsVisible DEF Fetch, Holds
<1>2. Scan(f, S, {}) /\ UNCHANGED <<table, before>>
  BY DEF Fetch, tableVars
<1>3. \A r \in S : before[r] \subseteq S \union {} \union Gone
  <2> SUFFICES ASSUME NEW r \in S, NEW q \in before[r] PROVE q \in S \union Gone
    OBVIOUS
  <2>1. r \in Rows /\ q \in Visible /\ TopicOf[q] = TopicOf[r]
    BY LiveIsVisible DEF TableInv
  <2> QED
    BY <2>1, LiveOrGone
<1>4. \A r \in due[f] : r \in S \union {} \union Gone \/ TopicOf[r] \in failed[f]
  BY LiveOrGone DEF Holds
<1> HIDE DEF S
<1> QED
  BY <1>1, <1>2, <1>3, <1>4, ScanKeeps

LEMMA LockKeeps ==
  ASSUME TypeOK, TableInv, NEW f \in Flushers, Holds(f), Scans(f), LockRow(f)
  PROVE  Holds(f)' /\ Scans(f)'
<1> DEFINE r == Min(left[f])
<1> DEFINE S == left[f] \ {r}
<1> DEFINE sel == todo[f] \union ({r} \intersect Live)
<1>1. r \in left[f] /\ (\A q \in left[f] : r <= q) /\ left[f] \subseteq Nat
  BY MinIsSmallest, OutboxAssumption DEF Holds, LockRow, TypeOK
<1>2. Scan(f, S, sel) /\ UNCHANGED <<table, before>> /\ done[f] = {} /\ mode[f] = "scan"
  BY DEF LockRow, tableVars, Holds
<1> HIDE DEF r
<1>3. S \in SUBSET Visible /\ sel \in SUBSET Live
  BY DEF Holds
<1>4. r \in Live \/ r \in Gone
  BY <1>1, LiveOrGone DEF Holds
<1>5. left[f] \subseteq S \union sel \union Gone
  BY <1>4
<1>6. before[r] \subseteq todo[f] \union Gone
  <2> SUFFICES ASSUME NEW q \in before[r] PROVE q \in todo[f] \union Gone
    OBVIOUS
  <2>1. q < r /\ q \in Rows /\ r \in Rows
    BY <1>1, LiveIsVisible DEF TableInv, TypeOK
  <2>2. q \notin left[f]
    BY <1>1, <2>1
  <2> QED
    BY <1>1, <1>2, <2>2 DEF Scans
<1>7. \A x \in sel : before[x] \subseteq sel \union Gone
  BY <1>6 DEF Scans
<1>8. \A x \in S : before[x] \subseteq S \union sel \union Gone
  BY <1>2, <1>5 DEF Scans
<1>9. \A x \in due[f] : x \in S \union sel \union Gone \/ TopicOf[x] \in failed[f]
  BY <1>2, <1>5 DEF Scans
<1> HIDE DEF S, sel
<1> QED
  BY <1>2, <1>3, <1>7, <1>8, <1>9, ScanKeeps

\* A group leaves the rows to publish as a whole: it is all of its topic.
LEMMA GroupIsWhole ==
  ASSUME TypeOK, TableInv, NEW f \in Flushers, Scans(f)
  PROVE  /\ Group(f) \subseteq todo[f]
         /\ \A r \in Group(f) : before[r] \subseteq Group(f) \union Gone
         /\ \A r \in todo[f] \ Group(f) : before[r] \subseteq (todo[f] \ Group(f)) \union Gone
BY DEF Group, Scans, TableInv, TypeOK

LEMMA PublishKeeps ==
  ASSUME TypeOK, TableInv, NEW f \in Flushers, Holds(f), Scans(f), PublishOk(f) \/ PublishFails(f)
  PROVE  Holds(f)' /\ Scans(f)'
<1>1. /\ UNCHANGED <<table, before>> /\ mode[f] = "publish" /\ mode'[f] = "publish"
      /\ todo'[f] = todo[f] \ Group(f)
      /\ done'[f] = done[f] \/ done'[f] = done[f] \union Group(f)
      /\ UNCHANGED <<left, locked, due>>
  BY DEF PublishOk, PublishFails, tableVars, passVars, TypeOK
<1>2. Visible' = Visible /\ Gone' = Gone /\ Live' = Live
  BY <1>1 DEF Visible, Gone, Live, In
<1>3. Holds(f)'
  BY <1>1, <1>2, GroupIsWhole DEF Holds
<1>4. Scans(f)'
  BY <1>1, <1>2, GroupIsWhole DEF Scans
<1> QED
  BY <1>3, <1>4

LEMMA OwnStepKeeps ==
  ASSUME TypeOK, TableInv, NEW f \in Flushers, Holds(f), Scans(f), Moves(f)
  PROVE  Holds(f)' /\ Scans(f)'
<1>0. Onward
  BY FlusherDeletes
<1>1. CASE StartFlusher(f) \/ Cancel(f) \/ TakeTrigger(f)
  <2>1. /\ UNCHANGED <<table, before, left, todo, locked, done>>
        /\ \/ mode'[f] = mode[f] /\ due'[f] = due[f] /\ failed'[f] = failed[f]
           \/ mode[f] = "off" /\ mode'[f] = "idle" /\ due'[f] = due[f]
           \/ mode[f] = "idle" /\ mode'[f] = "next" /\ due'[f] = Live
    BY <1>1 DEF StartFlusher, Cancel, TakeTrigger, tableVars, stepVars, passVars, TypeOK
  <2>2. Visible' = Visible /\ Gone' = Gone /\ Live' = Live
    BY <2>1 DEF Visible, Gone, Live, In
  <2> QED
    BY <2>1, <2>2, LiveIsVisible DEF Holds, Scans
<1>2. CASE Stop(f)
  <2>1. /\ UNCHANGED <<table, before, left, todo, locked, done, due, failed>>
        /\ mode[f] = "idle" /\ mode'[f] = "off"
    BY <1>2 DEF Stop, Ends, tableVars, stepVars, passVars, TypeOK
  <2>2. Visible' = Visible /\ Gone' = Gone /\ Live' = Live
    BY <2>1 DEF Visible, Gone, Live, In
  <2> QED
    BY <2>1, <2>2 DEF Holds, Scans
<1>3. CASE Crash(f) \/ GiveUpPass(f) \/ FetchFails(f) \/ CompleteFails(f)
  <2>1. EndStep(f) /\ mode'[f] \in {"idle", "off"} /\ due'[f] = {}
    BY <1>3 DEF Crash, Ends, GiveUpPass, FetchFails, CompleteFails, EndPass, TypeOK
  <2> QED
    BY <2>1, EndKeeps
<1>4. CASE Complete(f)
  <2>1. EndStep(f) /\ mode'[f] = "next" /\ due'[f] \subseteq Visible'
    BY <1>0, <1>4 DEF Complete, passVars, Onward, Holds, TypeOK
  <2> QED
    BY <2>1, EndKeeps
<1> QED
  BY <1>1, <1>2, <1>3, <1>4, FetchKeeps, LockKeeps, PublishKeeps DEF Moves

\* What a step of nobody's flusher does.
Outside ==
  \/ \E r \in Rows : Write(r) \/ LateWrite(r)
  \/ \E S \in SUBSET Rows : Commit(S)
  \/ UNCHANGED vars

LEMMA OutsideMoves ==
  ASSUME TypeOK, Outside
  PROVE  Onward /\ Gone' = Gone /\ \A g \in Flushers : Untouched(g)
<1> USE DEF Onward, Visible, Gone, In, Untouched, stepVars, passVars, kafkaVars, tableVars
<1>1. CASE \E r \in Rows : Write(r)
  BY <1>1 DEF Write, TypeOK
<1>2. CASE \E r \in Rows : LateWrite(r)
  BY <1>2 DEF LateWrite
<1>3. CASE \E S \in SUBSET Rows : Commit(S)
  <2>1. PICK S \in SUBSET Rows : Commit(S)
    BY <1>3
  <2>2. \A r \in Rows : table'[r] = IF r \in S THEN "live" ELSE table[r]
    BY <2>1 DEF Commit
  <2>3. \A r \in S : table[r] = "open"
    BY <2>1 DEF Commit
  <2>4. \A r \in Rows \ S : before'[r] = before[r]
    BY <2>1 DEF Commit, TypeOK
  <2>5. \A g \in Flushers : Untouched(g)
    BY <2>1 DEF Commit
  <2> QED
    BY <2>2, <2>3, <2>4, <2>5
<1>4. CASE UNCHANGED vars
  BY <1>4 DEF vars
<1> QED
  BY <1>1, <1>2, <1>3, <1>4 DEF Outside

LEMMA StepKeepsHold ==
  ASSUME TypeOK, TypeOK', TableInv, HoldInv, Exclusive, ScanInv, [Next]_vars
  PROVE  HoldInv' /\ ScanInv'
<1>1. CASE Outside
  <2> SUFFICES ASSUME NEW g \in Flushers PROVE Holds(g)' /\ Scans(g)'
    BY DEF HoldInv, ScanInv
  <2>1. locked[g] \intersect Gone' = {}
    BY <1>1, OutsideMoves, LiveOrGone DEF HoldInv, Holds
  <2> QED
    BY <1>1, <2>1, OutsideMoves, UntouchedKeeps DEF HoldInv, ScanInv
<1>2. ASSUME NEW f \in Flushers, Moves(f) PROVE HoldInv' /\ ScanInv'
  <2> SUFFICES ASSUME NEW g \in Flushers PROVE Holds(g)' /\ Scans(g)'
    BY DEF HoldInv, ScanInv
  <2>1. CASE g = f
    BY <1>2, <2>1, OwnStepKeeps DEF HoldInv, ScanInv
  <2>2. CASE g # f
    <3>1. Untouched(g)
      BY <1>2, <2>2, OneMoves
    <3>2. Onward /\ Gone' \subseteq Gone \union done[f]
      BY <1>2, FlusherDeletes DEF HoldInv
    <3>3. done[f] \subseteq locked[f] /\ locked[g] \subseteq Live /\ locked[f] \intersect locked[g] = {}
      BY <2>2 DEF HoldInv, Holds, Exclusive
    <3>4. locked[g] \intersect Gone' = {}
      BY <3>2, <3>3, LiveOrGone
    <3> QED
      BY <3>1, <3>2, <3>4, UntouchedKeeps DEF HoldInv, ScanInv
  <2> QED
    BY <2>1, <2>2
<1> QED
  BY <1>1, <1>2, NextSteps DEF Outside

\* A flusher locks, of new, only a row nobody else has locked.
LEMMA LocksFree ==
  ASSUME TypeOK, NEW f \in Flushers, Holds(f), Moves(f), NEW g \in Flushers, g # f,
         locked[f] \intersect locked[g] = {}
  PROVE  locked'[f] \intersect locked[g] = {}
<1> USE DEF TypeOK, stepVars
<1>1. CASE LockRow(f)
  <2>1. PICK r : /\ ~LockedBy(f, r)
                 /\ Scan(f, left[f] \ {r}, todo[f] \union ({r} \intersect Live))
    BY <1>1 DEF LockRow
  <2>2. locked'[f] \subseteq todo[f] \union {r}
    BY <2>1 DEF Scan, EndPass, EndStep
  <2> QED
    BY <2>1, <2>2 DEF Holds, LockedBy
<1>2. CASE Fetch(f)
  <2>1. locked'[f] = {}
    BY <1>2 DEF Fetch, Scan, EndPass, EndStep
  <2> QED
    BY <2>1
<1>3. CASE ~LockRow(f) /\ ~Fetch(f)
  <2>1. UNCHANGED locked \/ EndStep(f)
    BY <1>3 DEF Moves, StartFlusher, TakeTrigger, Cancel, Stop, Crash, GiveUpPass,
         FetchFails, PublishOk, PublishFails, Complete, CompleteFails, EndPass
  <2> QED
    BY <2>1 DEF EndStep
<1> QED
  BY <1>1, <1>2, <1>3

LEMMA StepKeepsExclusive ==
  ASSUME TypeOK, HoldInv, Exclusive, [Next]_vars
  PROVE  Exclusive'
<1>1. CASE Outside
  BY <1>1, OutsideMoves DEF Exclusive, Untouched
<1>2. ASSUME NEW f \in Flushers, Moves(f) PROVE Exclusive'
  <2>1. \A g \in Flushers : g # f => locked'[g] = locked[g]
    BY <1>2, OneMoves DEF Untouched
  <2>2. \A g \in Flushers : g # f => locked'[f] \intersect locked'[g] = {}
    BY <1>2, <2>1, LocksFree DEF HoldInv, Exclusive
  <2> QED
    BY <2>1, <2>2 DEF Exclusive
<1> QED
  BY <1>1, <1>2, NextSteps DEF Outside

\* Where a step of a flusher writes to Kafka: rows it has selected.
LEMMA FlusherWrites ==
  ASSUME TypeOK, NEW f \in Flushers, Holds(f), Moves(f)
  PROVE  /\ \A r \in Rows \ Live : landed'[r] = landed[r]
         /\ late' \subseteq late \union Live
<1>0. Group(f) \subseteq Live
  BY DEF Holds, Group
<1>1. CASE PublishOk(f)
  BY <1>0, <1>1 DEF PublishOk, OneMore, TypeOK
<1>2. CASE PublishFails(f)
  <2>1. CASE UNCHANGED kafkaVars
    BY <2>1 DEF kafkaVars
  <2>2. CASE ~UNCHANGED kafkaVars
    <3>1. PICK W \in SUBSET Group(f), L \in SUBSET Group(f) :
            landed' = OneMore(landed, W) /\ late' = late \union L
      BY <1>2, <2>2 DEF PublishFails
    <3> QED
      BY <1>0, <3>1 DEF OneMore, TypeOK
  <2> QED
    BY <2>1, <2>2
<1>3. CASE ~PublishOk(f) /\ ~PublishFails(f)
  <2>1. UNCHANGED <<landed, late>>
    BY <1>3 DEF Moves, StartFlusher, TakeTrigger, Cancel, Stop, Crash, GiveUpPass, Fetch, LockRow,
         FetchFails, Complete, CompleteFails, kafkaVars
  <2> QED
    BY <2>1
<1> QED
  BY <1>1, <1>2, <1>3

LEMMA StepKeepsTable ==
  ASSUME TypeOK, TableInv, HoldInv, [Next]_vars
  PROVE  TableInv'
<1>1. CASE \E r \in Rows : Write(r)
  <2>1. PICK r \in Rows : Write(r)
    BY <1>1
  <2>2. Visible' = Visible /\ UNCHANGED <<before, landed, late>>
    BY <2>1 DEF Write, Visible, In, kafkaVars, TypeOK
  <2> QED
    BY <2>2 DEF TableInv
<1>2. CASE \E r \in Rows : LateWrite(r)
  <2>1. PICK r \in Rows : LateWrite(r)
    BY <1>2
  <2>2. Visible' = Visible /\ UNCHANGED before /\ r \in Visible /\ late' \subseteq late
    BY <2>1 DEF LateWrite, Visible, In, tableVars, TableInv
  <2>3. \A q \in Rows \ Visible : landed'[q] = landed[q]
    BY <2>1, <2>2 DEF LateWrite, OneMore
  <2> QED
    BY <2>2, <2>3 DEF TableInv
<1>3. CASE \E S \in SUBSET Rows : Commit(S)
  <2>1. PICK S \in SUBSET Rows : Commit(S)
    BY <1>3
  <2>2. \A r \in Rows : table'[r] = IF r \in S THEN "live" ELSE table[r]
    BY <2>1 DEF Commit
  <2>3. Visible' = Visible \union S /\ Visible = In({"live", "gone"})
    BY <2>2 DEF Visible, In
  <2>4. \A r \in Rows : before'[r] =
          IF r \in S
          THEN {q \in S \union Visible : q < r /\ TopicOf[q] = TopicOf[r]}
          ELSE before[r]
    BY <2>1 DEF Commit, Visible
  <2>5. UNCHANGED <<landed, late>>
    BY <2>1 DEF Commit, kafkaVars
  <2> QED
    BY <2>3, <2>4, <2>5 DEF TableInv
<1>4. ASSUME NEW f \in Flushers, Moves(f) PROVE TableInv'
  <2>1. Visible' = Visible /\ UNCHANGED before
    BY <1>4, FlusherDeletes DEF HoldInv
  <2>2. (\A r \in Rows \ Visible : landed'[r] = landed[r]) /\ late' \subseteq late \union Visible
    BY <1>4, FlusherWrites, LiveIsVisible DEF HoldInv
  <2> QED
    BY <2>1, <2>2 DEF TableInv
<1>5. CASE UNCHANGED vars
  BY <1>5 DEF vars, kafkaVars, tableVars, TableInv, Visible, In
<1> QED
  BY <1>1, <1>2, <1>3, <1>4, <1>5, NextSteps

-----------------------------------------------------------------------------
(* What has been written to Kafka, in which order and how often.           *)

LEMMA MoreGrows ==
  ASSUME NEW count \in [Rows -> Nat], NEW S, NEW r \in Rows
  PROVE  OneMore(count, S)[r] >= count[r] /\ (r \in S => OneMore(count, S)[r] > 0)
BY DEF OneMore

\* A failed publish, taken apart.
LEMMA FailedPublish ==
  ASSUME NEW f \in Flushers, PublishFails(f)
  PROVE  \/ UNCHANGED <<landed, blamed, late>>
         \/ \E W \in SUBSET Group(f) : \E L \in SUBSET (Group(f) \ W) :
              /\ landed' = OneMore(landed, W) /\ late' = late \union L
              /\ blamed' = OneMore(blamed, Group(f))
BY DEF PublishFails, kafkaVars

LEMMA Grows ==
  ASSUME TypeOK, [Next]_vars
  PROVE  \A r \in Rows : landed'[r] >= landed[r] /\ blamed'[r] >= blamed[r]
<1> SUFFICES ASSUME NEW r \in Rows PROVE landed'[r] >= landed[r] /\ blamed'[r] >= blamed[r]
  OBVIOUS
<1>1. landed' = landed \/ \E S \in SUBSET Rows : landed' = OneMore(landed, S)
  <2>1. ASSUME NEW f \in Flushers, PublishFails(f)
        PROVE  landed' = landed \/ \E S \in SUBSET Rows : landed' = OneMore(landed, S)
    BY <2>1, FailedPublish DEF Group, TypeOK
  <2> QED
    BY <2>1 DEF Next, Pass, Write, LateWrite, Commit, StartFlusher, TakeTrigger, Cancel, Stop, Crash,
         GiveUpPass, Fetch, LockRow, FetchFails, PublishOk, Group, Complete, CompleteFails,
         kafkaVars, vars, TypeOK
<1>2. blamed' = blamed \/ \E S \in SUBSET Rows : blamed' = OneMore(blamed, S)
  <2>1. ASSUME NEW f \in Flushers, PublishFails(f)
        PROVE  blamed' = blamed \/ \E S \in SUBSET Rows : blamed' = OneMore(blamed, S)
    BY <2>1, FailedPublish DEF Group, TypeOK
  <2> QED
    BY <2>1 DEF Next, Pass, Write, LateWrite, Commit, StartFlusher, TakeTrigger, Cancel, Stop, Crash,
         GiveUpPass, Fetch, LockRow, FetchFails, PublishOk, Complete, CompleteFails,
         kafkaVars, vars, TypeOK
<1>3. landed'[r] >= landed[r]
  BY <1>1, MoreGrows DEF TypeOK
<1>4. blamed'[r] >= blamed[r]
  BY <1>2, MoreGrows DEF TypeOK
<1> QED
  BY <1>3, <1>4

Tried(q) == landed[q] > 0 \/ blamed[q] > 0

LEMMA TriedStays == ASSUME TypeOK, TypeOK', [Next]_vars, NEW q \in Rows, Tried(q) PROVE Tried(q)'
BY Grows DEF Tried, TypeOK

\* A flusher writes a row, or leaves it to be written, only together with an attempt at every
\* row before it.
LEMMA WritesInOrder ==
  ASSUME TypeOK, TypeOK', TableInv, OrderInv, NEW f \in Flushers, Scans(f), Moves(f), [Next]_vars,
         NEW r \in Rows, landed'[r] # landed[r] \/ r \in late' \ late, NEW q \in before[r]
  PROVE  Tried(q)'
<1>0. q \in Rows
  BY DEF TypeOK
<1>1. CASE q \in Gone
  BY <1>0, <1>1, TriedStays DEF OrderInv, DeletedWasPublished, Gone, In, Tried
<1>2. CASE q \notin Gone
  <2>1. CASE PublishOk(f)
    <3>1. landed' = OneMore(landed, Group(f)) /\ UNCHANGED late
      BY <2>1 DEF PublishOk
    <3>2. r \in Group(f)
      BY <3>1 DEF OneMore, TypeOK
    <3>3. q \in Group(f)
      BY <1>2, <3>2, GroupIsWhole
    <3> QED
      BY <1>0, <3>1, <3>3, MoreGrows DEF Tried, TypeOK
  <2>2. CASE PublishFails(f)
    <3>1. PICK W \in SUBSET Group(f), L \in SUBSET Group(f) :
            /\ landed' = OneMore(landed, W) /\ late' = late \union L
            /\ blamed' = OneMore(blamed, Group(f))
      BY <2>2, FailedPublish
    <3>2. r \in Group(f)
      BY <3>1 DEF OneMore, TypeOK
    <3>3. q \in Group(f)
      BY <1>2, <3>2, GroupIsWhole
    <3> QED
      BY <1>0, <3>1, <3>3, MoreGrows DEF Tried, TypeOK
  <2>3. CASE ~PublishOk(f) /\ ~PublishFails(f)
    <3>1. UNCHANGED <<landed, late>>
      BY <2>3 DEF Moves, StartFlusher, TakeTrigger, Cancel, Stop, Crash, GiveUpPass, Fetch, LockRow,
           FetchFails, Complete, CompleteFails, kafkaVars
    <3> QED
      BY <3>1
  <2> QED
    BY <2>1, <2>2, <2>3
<1> QED
  BY <1>1, <1>2

\* What a flusher has published since its step began has been written.
LEMMA DoneIsWritten ==
  ASSUME TypeOK, NEW f \in Flushers, Moves(f)
  PROVE  \A r \in Rows : r \in done'[f] => r \in done[f] \/ landed'[r] > 0
<1> USE DEF TypeOK, stepVars
<1>1. CASE PublishOk(f)
  BY <1>1, MoreGrows DEF PublishOk
<1>2. CASE Fetch(f) \/ LockRow(f)
  <2>1. EndPass(f) \/ UNCHANGED done
    BY <1>2 DEF Fetch, LockRow, Scan
  <2> QED
    BY <2>1 DEF EndPass, EndStep
<1>3. CASE ~PublishOk(f) /\ ~Fetch(f) /\ ~LockRow(f)
  <2>1. UNCHANGED done \/ EndStep(f)
    BY <1>3 DEF Moves, StartFlusher, TakeTrigger, Cancel, Stop, Crash, GiveUpPass,
         FetchFails, PublishFails, Complete, CompleteFails, EndPass
  <2> QED
    BY <2>1 DEF EndStep
<1> QED
  BY <1>1, <1>2, <1>3

LEMMA StepKeepsOrder ==
  ASSUME IInv, TypeOK', [Next]_vars
  PROVE  OrderInv'
<1> USE DEF IInv
<1>g. \A r \in Rows : landed[r] > 0 => landed'[r] > 0
  BY Grows DEF TypeOK
<1>t. \A r \in Rows : before[r] \subseteq Rows
  BY DEF TypeOK
<1>s. OrderInv <=>
        /\ \A r \in Rows : r \in Gone => landed[r] > 0
        /\ \A r \in Rows : r \in Gone => before[r] \subseteq Gone
        /\ \A r \in Rows : landed[r] > 0 => \A q \in before[r] : Tried(q)
        /\ \A f \in Flushers : \A r \in done[f] : landed[r] > 0
        /\ \A r \in late : \A q \in before[r] : Tried(q)
  BY <1>t DEF OrderInv, DeletedWasPublished, InOrder, Gone, In, Tried
<1>p. ASSUME \A r \in Rows : r \in Gone' => landed'[r] > 0,
             \A r \in Rows : r \in Gone' => before'[r] \subseteq Gone',
             \A r \in Rows : landed'[r] > 0 => \A q \in before'[r] : Tried(q)',
             \A f \in Flushers : \A r \in done'[f] : landed'[r] > 0,
             \A r \in late' : \A q \in before'[r] : Tried(q)'
      PROVE  OrderInv'
  BY <1>p DEF OrderInv, DeletedWasPublished, InOrder, Gone, In, Tried, TypeOK
<1>k. \A q \in Rows : Tried(q) => Tried(q)'
  BY TriedStays
<1>d. \A f \in Flushers : done[f] \subseteq Rows
  BY DEF TypeOK
<1>1. CASE Outside
  <2>1. Onward /\ Gone' = Gone /\ \A g \in Flushers : done'[g] = done[g]
    BY <1>1, OutsideMoves DEF Untouched
  <2>2. Gone \subseteq Visible /\ late \subseteq Visible
    BY LiveIsVisible DEF TableInv
  <2>3. late' \subseteq late /\ \A r \in Rows : landed'[r] = landed[r] \/ r \in late
    BY <1>1 DEF Outside, Write, LateWrite, Commit, OneMore, kafkaVars, vars, TypeOK
  <2>4. \A r \in Rows : landed[r] > 0 => r \in Visible
    BY DEF TableInv
  <2>5. \A r \in Rows : r \in Gone' => landed'[r] > 0 /\ before'[r] \subseteq Gone'
    BY <1>s, <1>g, <2>1, <2>2 DEF Onward
  <2>6. \A r \in Rows : landed'[r] > 0 => \A q \in before'[r] : Tried(q)'
    <3> SUFFICES ASSUME NEW r \in Rows, landed'[r] > 0, NEW q \in before'[r] PROVE Tried(q)'
      OBVIOUS
    <3>1. landed[r] > 0 \/ r \in late
      BY <2>3
    <3>2. q \in before[r]
      BY <2>1, <2>2, <2>4, <3>1 DEF Onward
    <3> QED
      BY <1>s, <1>t, <1>k, <3>1, <3>2
  <2>7. \A f \in Flushers : \A r \in done'[f] : landed'[r] > 0
    BY <1>s, <1>g, <1>d, <2>1
  <2>8. \A r \in late' : \A q \in before'[r] : Tried(q)'
    BY <1>s, <1>t, <1>k, <2>1, <2>2, <2>3 DEF Onward, TypeOK
  <2> QED
    BY <1>p, <2>5, <2>6, <2>7, <2>8
<1>2. ASSUME NEW f \in Flushers, Moves(f) PROVE OrderInv'
  <2>1. UNCHANGED before /\ Gone \subseteq Gone' /\ (Gone' = Gone \/ Gone' = Gone \union done[f])
    <3>1. UNCHANGED before /\ Gone \subseteq Gone'
      BY <1>2, FlusherDeletes DEF HoldInv, Onward
    <3>2. UNCHANGED table \/ DeleteDone(f)
      BY <1>2 DEF Moves, StartFlusher, TakeTrigger, Cancel, Stop, Crash, GiveUpPass, Fetch, LockRow,
         FetchFails, PublishOk, PublishFails, Complete, CompleteFails, tableVars
    <3>3. UNCHANGED table => Gone' = Gone
      BY DEF Gone, In
    <3> QED
      BY <3>1, <3>2, <3>3, DeleteMoves DEF HoldInv
  <2>2. \A r \in Rows : r \in Gone' => landed'[r] > 0
    BY <1>s, <1>g, <2>1
  <2>3. \A r \in Rows : r \in Gone' => before'[r] \subseteq Gone'
    BY <1>s, <2>1 DEF ScanInv, Scans
  <2>4. \A r \in Rows : landed'[r] > 0 => \A q \in before'[r] : Tried(q)'
    BY <1>2, <1>s, <1>t, <1>k, <2>1, WritesInOrder DEF ScanInv
  <2>5. \A g \in Flushers : \A r \in done'[g] : landed'[r] > 0
    <3>1. \A g \in Flushers : g # f => done'[g] = done[g]
      BY <1>2, OneMoves DEF Untouched
    <3>2. done'[f] \subseteq Rows
      BY DEF TypeOK
    <3> QED
      BY <1>2, <1>s, <1>g, <1>d, <3>1, <3>2, DoneIsWritten
  <2>6. \A r \in late' : \A q \in before'[r] : Tried(q)'
    <3>1. late' \subseteq Rows
      BY DEF TypeOK
    <3> QED
      BY <1>2, <1>s, <1>t, <1>k, <2>1, <3>1, WritesInOrder DEF ScanInv
  <2> QED
    BY <1>p, <2>2, <2>3, <2>4, <2>5, <2>6
<1> QED
  BY <1>1, <1>2, NextSteps DEF Outside

-----------------------------------------------------------------------------
(* How often a row is written.                                             *)

CountOf(r) == landed[r] + Coming(r) <= blamed[r] + Spent(r)

\* Nothing about the row r gets worse.
LEMMA CountStays ==
  ASSUME TypeOK, TypeOK', NEW r \in Rows, CountOf(r), landed'[r] = landed[r],
         r \in late' => r \in late,
         \/ blamed'[r] = blamed[r] /\ Spent(r)' >= Spent(r)
         \/ blamed'[r] = blamed[r] + 1
  PROVE  CountOf(r)'
BY DEF CountOf, Coming, Spent, TypeOK

LEMMA CountOutside ==
  ASSUME IInv, TypeOK', Outside
  PROVE  CountInv'
<1> SUFFICES ASSUME NEW r \in Rows PROVE CountOf(r)'
  BY DEF CountInv, CountOf
<1>0. TypeOK /\ CountOf(r)
  BY DEF IInv, CountInv, CountOf
<1>1. Spent(r)' = Spent(r)
  BY <1>0, OutsideMoves DEF Spent, Untouched
<1>2. CASE \E q \in Rows : LateWrite(q)
  <2>1. PICK q \in Rows : LateWrite(q)
    BY <1>2
  <2>2. CASE q = r
    <3>1. /\ landed'[r] = landed[r] + 1 /\ r \in late /\ r \notin late'
          /\ blamed'[r] = blamed[r]
      BY <1>0, <2>1, <2>2 DEF LateWrite, OneMore, TypeOK
    <3> QED
      BY <1>0, <1>1, <3>1 DEF CountOf, Coming, Spent, TypeOK
  <2>3. CASE q # r
    <3>1. landed'[r] = landed[r] /\ (r \in late' => r \in late) /\ blamed'[r] = blamed[r]
      BY <1>0, <2>1, <2>3 DEF LateWrite, OneMore, TypeOK
    <3> QED
      BY <1>0, <1>1, <3>1, CountStays DEF Spent
  <2> QED
    BY <2>2, <2>3
<1>3. CASE ~\E q \in Rows : LateWrite(q)
  <2>1. UNCHANGED <<landed, blamed, late>>
    BY <1>3 DEF Outside, Write, Commit, kafkaVars, vars
  <2> QED
    BY <1>0, <1>1, <2>1, CountStays DEF Spent
<1> QED
  BY <1>2, <1>3

\* A row that is to be published is not spent, and no other flusher has it.
LEMMA GroupUnspent ==
  ASSUME IInv, NEW f \in Flushers, NEW r \in Group(f)
  PROVE  Spent(r) = 0
<1>1. r \in locked[f] /\ r \in Live /\ r \notin done[f]
  BY DEF Group, IInv, HoldInv, Holds
<1>2. \A g \in Flushers : g # f => r \notin done[g]
  BY <1>1 DEF IInv, HoldInv, Holds, Exclusive
<1> QED
  BY <1>1, <1>2, LiveOrGone DEF Spent, IInv

\* A row stays spent, unless the flusher that has published it lets go of it.
LEMMA SpentStays ==
  ASSUME IInv, NEW f \in Flushers, Moves(f), NEW r \in Rows, r \in done[f] => r \in done'[f] \union Gone'
  PROVE  Spent(r)' >= Spent(r)
<1>1. Gone \subseteq Gone'
  BY FlusherDeletes DEF Onward, IInv, HoldInv
<1>2. \A g \in Flushers : g # f => done'[g] = done[g]
  BY OneMoves DEF Untouched, IInv
<1>3. ASSUME r \in Gone \/ \E g \in Flushers : r \in done[g]
      PROVE  r \in Gone' \/ \E g \in Flushers : r \in done'[g]
  BY <1>1, <1>2, <1>3
<1> QED
  BY <1>3 DEF Spent

LEMMA CountFlusher ==
  ASSUME IInv, TypeOK', NEW f \in Flushers, Moves(f)
  PROVE  CountInv'
<1> SUFFICES ASSUME NEW r \in Rows PROVE CountOf(r)'
  BY DEF CountInv, CountOf
<1>0. TypeOK /\ CountOf(r) /\ Holds(f)
  BY DEF IInv, CountInv, CountOf, HoldInv
<1>1. CASE PublishOk(f)
  <2>1. CASE r \in Group(f)
    <3>1. Spent(r) = 0
      BY <2>1, GroupUnspent
    <3>2. r \in done'[f]
      BY <1>0, <1>1, <2>1 DEF PublishOk, TypeOK
    <3>3. Spent(r)' = 1
      BY <3>2 DEF Spent
    <3>4. landed'[r] = landed[r] + 1 /\ blamed'[r] = blamed[r] /\ Coming(r)' = Coming(r)
      BY <1>0, <1>1, <2>1 DEF PublishOk, OneMore, Coming
    <3> QED
      BY <1>0, <3>1, <3>3, <3>4 DEF CountOf, Coming, TypeOK
  <2>2. CASE r \notin Group(f)
    <3>1. Spent(r)' >= Spent(r)
      BY <1>0, <1>1, SpentStays DEF PublishOk, TypeOK
    <3>2. landed'[r] = landed[r] /\ blamed'[r] = blamed[r] /\ UNCHANGED late
      BY <1>0, <1>1, <2>2 DEF PublishOk, OneMore
    <3> QED
      BY <1>0, <3>1, <3>2, CountStays
  <2> QED
    BY <2>1, <2>2
<1>2. CASE PublishFails(f)
  <2>1. Spent(r)' >= Spent(r)
    BY <1>2, SpentStays DEF PublishFails
  <2>2. CASE UNCHANGED <<landed, blamed, late>>
    BY <1>0, <2>1, <2>2, CountStays
  <2>3. ASSUME NEW W \in SUBSET Group(f), NEW L \in SUBSET (Group(f) \ W),
               landed' = OneMore(landed, W), late' = late \union L,
               blamed' = OneMore(blamed, Group(f))
        PROVE  CountOf(r)'
    <3>1. CASE r \in W
      <4>1. landed'[r] = landed[r] + 1 /\ blamed'[r] = blamed[r] + 1 /\ Coming(r)' = Coming(r)
        BY <2>3, <3>1 DEF OneMore, Coming
      <4> QED
        BY <1>0, <2>1, <4>1 DEF CountOf, Coming, Spent, TypeOK
    <3>2. CASE r \in L
      <4>1. landed'[r] = landed[r] /\ blamed'[r] = blamed[r] + 1 /\ Coming(r)' <= Coming(r) + 1
        BY <2>3, <3>2 DEF OneMore, Coming
      <4> QED
        BY <1>0, <2>1, <4>1 DEF CountOf, Coming, Spent, TypeOK
    <3>3. CASE r \notin W \union L
      <4>1. landed'[r] = landed[r] /\ (r \in late' => r \in late)
        BY <2>3, <3>3 DEF OneMore
      <4>2. blamed'[r] = blamed[r] \/ blamed'[r] = blamed[r] + 1
        BY <2>3 DEF OneMore
      <4> QED
        BY <1>0, <2>1, <4>1, <4>2, CountStays
    <3> QED
      BY <3>1, <3>2, <3>3
  <2> QED
    BY <1>2, <2>2, <2>3, FailedPublish
<1>3. CASE Complete(f) \/ (CompleteFails(f) /\ DeleteDone(f) /\ UNCHANGED blamed)
  <2>1. UNCHANGED <<landed, blamed, late>> /\ DeleteDone(f)
    BY <1>3 DEF Complete, CompleteFails, kafkaVars
  <2>2. Spent(r)' >= Spent(r)
    BY <1>0, <2>1, DeleteMoves, SpentStays
  <2> QED
    BY <1>0, <2>1, <2>2, CountStays
<1>4. CASE (Crash(f) \/ CompleteFails(f)) /\ blamed' = OneMore(blamed, done[f])
  <2>1. UNCHANGED <<landed, late>>
    BY <1>4 DEF Crash, CompleteFails
  <2>2. CASE r \in done[f]
    <3>1. blamed'[r] = blamed[r] + 1
      BY <1>4, <2>2 DEF OneMore
    <3> QED
      BY <1>0, <2>1, <3>1, CountStays
  <2>3. CASE r \notin done[f]
    <3>1. blamed'[r] = blamed[r]
      BY <1>4, <2>3 DEF OneMore
    <3>2. Spent(r)' >= Spent(r)
      BY <2>3, SpentStays
    <3> QED
      BY <1>0, <2>1, <3>1, <3>2, CountStays
  <2> QED
    BY <2>2, <2>3
<1>5. CASE \/ StartFlusher(f) \/ TakeTrigger(f) \/ Cancel(f) \/ Stop(f) \/ GiveUpPass(f)
           \/ Fetch(f) \/ LockRow(f) \/ FetchFails(f)
  <2>1. UNCHANGED <<landed, blamed, late>>
    BY <1>5 DEF StartFlusher, TakeTrigger, Cancel, Stop, GiveUpPass, Fetch, LockRow, FetchFails,
         kafkaVars
  <2>2. done[f] = {} \/ UNCHANGED done
    BY <1>0, <1>5 DEF StartFlusher, TakeTrigger, Cancel, Stop, GiveUpPass, Fetch, LockRow,
         FetchFails, stepVars, Holds
  <2>3. Spent(r)' >= Spent(r)
    BY <2>2, SpentStays
  <2> QED
    BY <1>0, <2>1, <2>3, CountStays
<1>6. /\ Crash(f) => blamed' = OneMore(blamed, done[f])
      /\ CompleteFails(f) =>
           (DeleteDone(f) /\ UNCHANGED blamed) \/ blamed' = OneMore(blamed, done[f])
  BY DEF Crash, CompleteFails
<1> QED
  BY <1>1, <1>2, <1>3, <1>4, <1>5, <1>6 DEF Moves

-----------------------------------------------------------------------------

LEMMA StepKeepsInv == IInv /\ [Next]_vars => IInv'
<1> SUFFICES ASSUME IInv, [Next]_vars PROVE IInv'
  OBVIOUS
<1>1. TypeOK'
  BY StepKeepsType DEF IInv
<1>2. TableInv' /\ HoldInv' /\ ScanInv' /\ Exclusive'
  BY <1>1, StepKeepsTable, StepKeepsHold, StepKeepsExclusive DEF IInv
<1>3. OrderInv'
  BY <1>1, StepKeepsOrder
<1>4. CountInv'
  BY <1>1, CountOutside, CountFlusher, NextSteps DEF Outside
<1> QED
  BY <1>1, <1>2, <1>3, <1>4 DEF IInv

LEMMA AlwaysInv == Spec => []IInv
BY InitInv, StepKeepsInv, PTL DEF Spec

\* A row is deleted only after it was written to Kafka, for any number of replicas and faults
\* (the rows flushBatch deletes are those of the groups publishGroup confirmed).
THEOREM NothingIsLost == Spec => []DeletedWasPublished
<1>1. IInv => DeletedWasPublished
  BY DEF IInv, OrderInv
<1> QED
  BY <1>1, AlwaysInv, PTL

\* Replicas never publish a row twice: each time it is written again, an attempt at it has
\* failed or its delete was not committed (FOR UPDATE in fetchSQL, one transaction per step).
THEOREM RepeatsFollowFailures == Spec => []OncePerAttempt
<1>1. IInv => OncePerAttempt
  <2> SUFFICES ASSUME IInv, NEW r \in Rows
               PROVE  landed[r] + (IF r \in late THEN 1 ELSE 0) <= blamed[r] + 1
    BY DEF OncePerAttempt
  <2>1. landed[r] + Coming(r) <= blamed[r] + Spent(r)
    BY DEF IInv, CountInv
  <2> QED
    BY <2>1 DEF IInv, TypeOK, Coming, Spent
<1> QED
  BY <1>1, AlwaysInv, PTL

\* No row of a topic is deleted, or written before an attempt, ahead of one that was visible
\* before it, with any number of replicas and faults (ORDER BY id, whole groups, and the topics
\* that failed in a pass left out of the rest of it).
THEOREM TopicsKeepTheirOrder == Spec => []InOrder
<1>1. IInv => InOrder
  BY DEF IInv, OrderInv
<1> QED
  BY <1>1, AlwaysInv, PTL

\* A fetch that ends the pass has come to the end of its rows and has selected none.
LEMMA ScanEnds ==
  ASSUME TypeOK, NEW f \in Flushers, NEW S, NEW sel, Scan(f, S, sel), mode'[f] = "idle"
  PROVE  S = {} /\ sel = {}
<1>1. sel = {}
  BY DEF Scan, TypeOK
<1>2. Cardinality(sel) < BatchSize
  BY <1>1, FS_EmptySet, OutboxAssumption
<1> QED
  BY <1>1, <1>2 DEF Scan, TypeOK

\* A pass that was not cut short has emptied the table of what it found, but for the topics
\* that failed in it (the loop of flush goes on until a fetch returns nothing).
THEOREM PassesAreComplete == Spec => PassIsComplete
<1> DEFINE Left(f) ==
      mode[f] # "idle" /\ mode'[f] = "idle" /\ ~cancelled[f] /\ faults' = faults
        => \A r \in due[f] : table[r] = "gone" \/ TopicOf[r] \in failed[f]
<1>1. ASSUME IInv, [Next]_vars, NEW f \in Flushers PROVE Left(f)
  <2>1. SUFFICES ASSUME mode[f] # "idle", mode'[f] = "idle", ~cancelled[f], faults' = faults,
                        NEW r \in due[f]
                 PROVE  r \in Gone \/ TopicOf[r] \in failed[f]
    BY DEF Gone, In
  <2>2. TypeOK /\ Holds(f) /\ Scans(f)
    BY <1>1 DEF IInv, HoldInv, ScanInv
  <2>3. Moves(f)
    <3>1. ~Untouched(f)
      BY <2>1 DEF Untouched
    <3>2. ~Outside
      BY <1>1, <2>2, <3>1, OutsideMoves
    <3> QED
      BY <1>1, <2>2, <3>1, <3>2, NextSteps, OneMoves DEF Outside
  <2>4. StartFlusher(f) \/ Fetch(f) \/ LockRow(f)
    <3>1. ~Fault
      BY <1>1, <2>1, <2>2 DEF Fault, TypeOK
    <3>2. ~Complete(f) /\ ~PublishOk(f) /\ ~PublishFails(f) /\ ~TakeTrigger(f) /\ ~Stop(f)
      BY <1>1, <2>1, <2>2 DEF Complete, PublishOk, PublishFails, TakeTrigger, Stop, TypeOK
    <3> QED
      BY <2>1, <2>3, <3>1, <3>2 DEF Moves, Cancel, Crash, CompleteFails, GiveUpPass, FetchFails,
           Interrupted
  <2>5. CASE StartFlusher(f)
    BY <1>1, <2>1, <2>2, <2>5 DEF StartFlusher, Holds
  <2>6. CASE Fetch(f)
    <3>1. {x \in Live : TopicOf[x] \notin failed[f]} = {}
      BY <1>1, <2>1, <2>2, <2>6, ScanEnds DEF Fetch
    <3> QED
      BY <2>2, <3>1, LiveOrGone DEF Holds
  <2>7. CASE LockRow(f)
    <3> DEFINE m == Min(left[f])
    <3>0. m \in left[f]
      BY <1>1, <2>2, <2>7, MinIsSmallest, OutboxAssumption DEF LockRow, Holds, TypeOK
    <3>1. left[f] \ {m} = {} /\ todo[f] \union ({m} \intersect Live) = {}
      BY <1>1, <2>1, <2>2, <2>7, ScanEnds DEF LockRow
    <3> HIDE DEF m
    <3>2. m \in Gone
      BY <2>2, <3>0, <3>1, LiveOrGone DEF Holds
    <3> QED
      BY <1>1, <2>2, <2>7, <3>1, <3>2 DEF LockRow, Scans
  <2> QED
    BY <2>4, <2>5, <2>6, <2>7
<1>2. IInv /\ [Next]_vars => [\A f \in Flushers : Left(f)]_vars
  BY <1>1
<1> HIDE DEF Left
<1>3. Spec => [][\A f \in Flushers : Left(f)]_vars
  BY <1>2, AlwaysInv, PTL DEF Spec
<1> QED
  BY <1>3, PTL DEF PassIsComplete, Left

-----------------------------------------------------------------------------
(***************************************************************************)
(* The outbox implements TopicRelay.  A row is "written" there while some  *)
(* flusher holds it as published, and a request of TopicRelay is a group   *)
(* that a flusher has selected: it is whole by ScanInv, and of rows nobody *)
(* else has published by Exclusive.                                        *)
(***************************************************************************)

Held == {r \in Rows : \E f \in Flushers : r \in done[f]}

LEMMA PlaceIs ==
  ASSUME TypeOK, HoldInv, NEW r \in Rows
  PROVE  /\ Places[r] = "forgotten" <=> r \in Gone
         /\ Places[r] = "written" <=> r \in Held
         /\ Places[r] = "waiting" <=> r \in Live \ Held
         /\ Places[r] = "hidden" <=> r \notin Visible
<1>1. Held \subseteq Live
  BY DEF HoldInv, Holds, Held
<1>2. Places[r] = Place(r)
  BY DEF Places
<1>3. table[r] \in {"none", "open", "live", "gone"}
  BY DEF TypeOK
<1>4. /\ r \in Gone <=> table[r] = "gone"
      /\ r \in Live <=> table[r] = "live"
      /\ r \in Visible <=> table[r] \in {"live", "gone"}
      /\ r \in Held <=> \E f \in Flushers : r \in done[f]
  BY DEF Gone, Live, Visible, In, Held
<1>5. CASE table[r] = "gone"
  BY <1>1, <1>2, <1>4, <1>5 DEF Place
<1>6. CASE table[r] = "live"
  BY <1>1, <1>2, <1>4, <1>6 DEF Place
<1>7. CASE table[r] \in {"none", "open"}
  BY <1>1, <1>2, <1>4, <1>7 DEF Place
<1> QED
  BY <1>3, <1>5, <1>6, <1>7

LEMMA AtIs ==
  ASSUME TypeOK, HoldInv
  PROVE  /\ Relay!At("forgotten") = Gone /\ Relay!At("written") = Held
         /\ Relay!At("waiting") = Live \ Held /\ Relay!At("hidden") = Rows \ Visible
BY PlaceIs, LiveIsVisible DEF Relay!At, Held

\* What a step of the flusher f does to what is held.
LEMMA HeldMoves ==
  ASSUME IInv, TypeOK', NEW f \in Flushers, Moves(f)
  PROVE  Held' = (Held \ done[f]) \union done'[f]
<1>1. \A g \in Flushers : g # f => done'[g] = done[g] /\ done[g] \intersect done[f] = {}
  BY OneMoves DEF Untouched, IInv, HoldInv, Holds, Exclusive
<1>2. done'[f] \subseteq Rows
  BY DEF TypeOK
<1> QED
  BY <1>1, <1>2 DEF Held

\* What is held and what is in the table say where a row is.
LEMMA PlacesMove ==
  ASSUME IInv, IInv', NEW S \in SUBSET Rows, NEW p,
         \/ p = "written" /\ UNCHANGED table /\ Held' = Held \union S
         \/ p = "waiting" /\ UNCHANGED table /\ Held' = Held \ S /\ S \subseteq Live
         \/ p = "forgotten" /\ table' = [r \in Rows |-> IF r \in S THEN "gone" ELSE table[r]]
              /\ Held' = Held \ S
         \/ p = "waiting" /\ table' = [r \in Rows |-> IF r \in S THEN "live" ELSE table[r]]
              /\ S \intersect Visible = {} /\ Held' = Held
  PROVE  Places' = Relay!Moved(S, p)
<1>1. TypeOK /\ HoldInv /\ TypeOK' /\ HoldInv'
  BY DEF IInv
<1>2. ASSUME NEW r \in Rows PROVE Place(r)' = IF r \in S THEN p ELSE Places[r]
  <2>1. Places[r] = Place(r)
    BY DEF Places
  <2>2. /\ r \in Held <=> \E f \in Flushers : r \in done[f]
        /\ r \in Held' <=> \E f \in Flushers : r \in done'[f]
    BY DEF Held
  <2>3. /\ r \in Live <=> table[r] = "live"
        /\ r \in Visible <=> table[r] \in {"live", "gone"}
    BY DEF Live, Visible, In
  <2>4. Held \subseteq Live
    BY <1>1 DEF HoldInv, Holds, Held
  <2>5. Place(r) = IF table[r] = "gone" THEN "forgotten"
                   ELSE IF table[r] = "live" THEN IF r \in Held THEN "written" ELSE "waiting"
                   ELSE "hidden"
    BY <2>2, Zenon DEF Place
  <2>6. Place(r)' = IF table'[r] = "gone" THEN "forgotten"
                    ELSE IF table'[r] = "live" THEN IF r \in Held' THEN "written" ELSE "waiting"
                    ELSE "hidden"
    BY <2>2, Zenon DEF Place
  <2>7. Held' \subseteq Live' /\ (r \in Live' <=> table'[r] = "live")
    BY <1>1 DEF HoldInv, Holds, Held, Live, In
  <2> QED
    BY <2>1, <2>3, <2>4, <2>5, <2>6, <2>7
<1> QED
  BY <1>2 DEF Places, Relay!Moved

LEMMA PlacesStay ==
  ASSUME UNCHANGED table, Held' = Held
  PROVE  Places' = Places
<1>1. ASSUME NEW r \in Rows PROVE Place(r)' = Place(r)
  <2>1. (\E f \in Flushers : r \in done'[f]) <=> \E f \in Flushers : r \in done[f]
    BY DEF Held
  <2> QED
    BY <2>1 DEF Place
<1> QED
  BY <1>1 DEF Places

\* The group a flusher publishes is a request of TopicRelay.
LEMMA GroupIsRequest ==
  ASSUME IInv, NEW f \in Flushers
  PROVE  Group(f) \in SUBSET Rows /\ Relay!Request(Group(f))
<1>1. Group(f) \subseteq Live \ Held
  <2>1. SUFFICES ASSUME NEW r \in Group(f) PROVE r \in Live \ Held
    OBVIOUS
  <2>2. r \in locked[f] /\ r \in Live
    BY DEF Group, IInv, HoldInv, Holds
  <2>3. Spent(r) = 0
    BY GroupUnspent
  <2> QED
    BY <2>2, <2>3 DEF Spent, Held
<1>2. \A r \in Group(f) : before[r] \subseteq Group(f) \union Gone
  BY GroupIsWhole DEF IInv, ScanInv
<1>3. \A r, q \in Group(f) : TopicOf[r] = TopicOf[q]
  BY DEF Group
<1> QED
  BY <1>1, <1>2, <1>3, AtIs, LiveIsVisible DEF Relay!Request, IInv

LEMMA PublishRelays ==
  ASSUME IInv, IInv', NEW f \in Flushers, PublishOk(f)
  PROVE  Relay!Publish(Group(f))
<1>1. Held' = Held \union Group(f)
  <2>1. done'[f] = done[f] \union Group(f)
    BY DEF PublishOk, IInv, TypeOK
  <2>2. Held' = (Held \ done[f]) \union done'[f]
    BY HeldMoves DEF Moves, IInv
  <2>3. done[f] \subseteq Held
    BY DEF Held, IInv, TypeOK
  <2> QED
    BY <2>1, <2>2, <2>3
<1>2. Group(f) \in SUBSET Rows /\ Relay!Request(Group(f))
  BY GroupIsRequest
<1>3. Places' = Relay!Moved(Group(f), "written")
  BY <1>1, <1>2, PlacesMove DEF PublishOk, tableVars
<1>4. landed' = Relay!OneMore(landed, Group(f))
  BY DEF PublishOk, OneMore, Relay!OneMore
<1> QED
  BY <1>2, <1>3, <1>4 DEF Relay!Publish, PublishOk, tableVars

LEMMA FailedPublishRelays ==
  ASSUME IInv, IInv', NEW f \in Flushers, PublishFails(f)
  PROVE  \/ \E W \in SUBSET Group(f) : \E L \in SUBSET (Group(f) \ W) : Relay!Attempt(Group(f), W, L)
         \/ UNCHANGED <<Places, before, landed, blamed, late>>
<1>1. Places' = Places /\ UNCHANGED before
  BY PlacesStay DEF PublishFails, tableVars, Held
<1>2. Relay!Request(Group(f))
  BY GroupIsRequest
<1>3. CASE UNCHANGED kafkaVars
  BY <1>1, <1>3 DEF kafkaVars
<1>4. CASE ~ UNCHANGED kafkaVars
  <2>0. PICK W \in SUBSET Group(f) : \E L \in SUBSET (Group(f) \ W) :
          landed' = OneMore(landed, W) /\ late' = late \union L
    BY <1>4 DEF PublishFails
  <2>1. PICK L \in SUBSET (Group(f) \ W) : landed' = OneMore(landed, W) /\ late' = late \union L
    BY <2>0
  <2>2. blamed' = OneMore(blamed, Group(f))
    BY <1>4 DEF PublishFails
  <2>3. Relay!Attempt(Group(f), W, L)
    BY <1>1, <1>2, <2>1, <2>2 DEF Relay!Attempt, OneMore, Relay!OneMore
  <2> QED
    BY <2>3
<1> QED
  BY <1>3, <1>4

\* The flusher f lets go of what it has published.
LEMMA LetsGo ==
  ASSUME IInv, IInv', NEW f \in Flushers, Moves(f), EndStep(f)
  PROVE  /\ Held' = Held \ done[f] /\ done[f] \in SUBSET Rows /\ done[f] \subseteq Held
         /\ done[f] \subseteq Live
         /\ \A r \in done[f] : before[r] \subseteq done[f] \union Gone
<1>1. done'[f] = {}
  BY DEF EndStep, IInv, TypeOK
<1>2. Held' = (Held \ done[f]) \union done'[f]
  BY HeldMoves DEF IInv
<1> QED
  BY <1>1, <1>2 DEF IInv, TypeOK, Held, HoldInv, Holds, ScanInv, Scans

LEMMA ForgetRelays ==
  ASSUME IInv, IInv', NEW f \in Flushers, Moves(f), EndStep(f), DeleteDone(f),
         UNCHANGED <<before, landed, blamed, late>>
  PROVE  Relay!Forget(done[f])
<1>1. Places' = Relay!Moved(done[f], "forgotten")
  BY LetsGo, PlacesMove DEF DeleteDone
<1> QED
  BY <1>1, LetsGo, AtIs DEF Relay!Forget, IInv

LEMMA LoseRelays ==
  ASSUME IInv, IInv', NEW f \in Flushers, Moves(f), EndStep(f), blamed' = OneMore(blamed, done[f]),
         UNCHANGED <<table, before, landed, late>>
  PROVE  Relay!Lose(done[f])
<1>1. Places' = Relay!Moved(done[f], "waiting")
  BY LetsGo, PlacesMove
<1> QED
  BY <1>1, LetsGo, AtIs DEF Relay!Lose, IInv, OneMore, Relay!OneMore

LEMMA CommitRelays ==
  ASSUME IInv, IInv', NEW S \in SUBSET Rows, Commit(S)
  PROVE  Relay!Appear(S)
<1>1. S \subseteq Rows \ Visible
  BY DEF Commit, Visible, In
<1>2. Held' = Held
  BY DEF Commit, stepVars, Held
<1>3. Places' = Relay!Moved(S, "waiting")
  BY <1>1, <1>2, PlacesMove DEF Commit
<1>4. Relay!At("hidden") = Rows \ Visible /\ Rows \ Relay!At("hidden") = Visible
  BY AtIs, LiveIsVisible DEF IInv
<1>5. Visible = In({"live", "gone"})
  BY DEF Visible
<1>6. before' = [r \in Rows |->
        IF r \in S THEN {q \in S \union Visible : q < r /\ TopicOf[q] = TopicOf[r]} ELSE before[r]]
  BY <1>5 DEF Commit
<1> QED
  BY <1>1, <1>3, <1>4, <1>6 DEF Relay!Appear, Commit, kafkaVars

LEMMA FlusherRelays ==
  ASSUME IInv, IInv', NEW f \in Flushers, Moves(f)
  PROVE  Relay!Next \/ UNCHANGED <<Places, before, landed, blamed, late>>
<1>1. done[f] \in SUBSET Rows /\ Group(f) \in SUBSET Rows
  BY GroupIsRequest DEF IInv, TypeOK
<1>2. CASE PublishOk(f)
  BY <1>1, <1>2, PublishRelays DEF Relay!Next
<1>3. CASE PublishFails(f)
  BY <1>1, <1>3, FailedPublishRelays DEF Relay!Next
<1>4. CASE Complete(f)
  <2>1. Relay!Forget(done[f])
    BY <1>4, ForgetRelays DEF Complete, kafkaVars
  <2> QED
    BY <1>1, <2>1 DEF Relay!Next
<1>5. CASE CompleteFails(f)
  <2>1. Relay!Forget(done[f]) \/ Relay!Lose(done[f])
    BY <1>5, ForgetRelays, LoseRelays DEF CompleteFails, EndPass
  <2> QED
    BY <1>1, <2>1 DEF Relay!Next
<1>6. CASE Crash(f)
  <2>1. Relay!Lose(done[f])
    BY <1>6, LoseRelays DEF Crash, tableVars
  <2> QED
    BY <1>1, <2>1 DEF Relay!Next
<1>7. CASE StartFlusher(f) \/ TakeTrigger(f) \/ Cancel(f) \/ Stop(f) \/ GiveUpPass(f) \/ Fetch(f)
           \/ LockRow(f) \/ FetchFails(f)
  <2>1. UNCHANGED <<table, before, landed, blamed, late>>
    BY <1>7 DEF StartFlusher, TakeTrigger, Cancel, Stop, GiveUpPass, Fetch, LockRow, FetchFails,
                tableVars, kafkaVars
  <2>2. done'[f] = done[f]
    <3>1. done[f] = {} \/ UNCHANGED done
      BY <1>7 DEF StartFlusher, TakeTrigger, Cancel, Stop, GiveUpPass, Fetch, LockRow, FetchFails,
                  stepVars, IInv, HoldInv, Holds
    <3>2. EndStep(f) \/ UNCHANGED done
      BY <1>7 DEF StartFlusher, TakeTrigger, Cancel, Stop, GiveUpPass, Fetch, LockRow, FetchFails,
                  stepVars, Scan, EndPass
    <3> QED
      BY <3>1, <3>2 DEF EndStep, IInv, TypeOK
  <2>3. Held' = Held
    BY <2>2, HeldMoves DEF IInv, Held, TypeOK
  <2> QED
    BY <2>1, <2>3, PlacesStay
<1> QED
  BY <1>2, <1>3, <1>4, <1>5, <1>6, <1>7 DEF Moves

LEMMA OutsideRelays ==
  ASSUME IInv, IInv', Outside
  PROVE  Relay!Next \/ UNCHANGED <<Places, before, landed, blamed, late>>
<1>1. CASE \E r \in Rows : Write(r)
  <2>1. PICK r \in Rows : Write(r)
    BY <1>1
  <2>2. /\ \A q \in Rows : table'[q] = IF q = r THEN "open" ELSE table[q]
        /\ table[r] = "none" /\ UNCHANGED <<done, before, landed, blamed, late>>
    BY <2>1 DEF Write, stepVars, kafkaVars, IInv, TypeOK
  <2>3. \A q \in Rows : Place(q)' = Place(q)
    BY <2>2 DEF Place
  <2> QED
    BY <2>2, <2>3 DEF Places
<1>2. CASE \E r \in Rows : LateWrite(r)
  <2>1. PICK r \in Rows : LateWrite(r)
    BY <1>2
  <2>2. Places' = Places
    BY <2>1, PlacesStay DEF LateWrite, tableVars, stepVars, Held
  <2>3. Relay!WriteStray(r)
    BY <2>1, <2>2 DEF LateWrite, tableVars, Relay!WriteStray, OneMore, Relay!OneMore
  <2> QED
    BY <2>3 DEF Relay!Next
<1>3. CASE \E S \in SUBSET Rows : Commit(S)
  BY <1>3, CommitRelays DEF Relay!Next
<1>4. CASE UNCHANGED vars
  BY <1>4, PlacesStay DEF vars, tableVars, kafkaVars, stepVars, Held
<1> QED
  BY <1>1, <1>2, <1>3, <1>4 DEF Outside

LEMMA InitRelay == Init => Relay!Init
BY DEF Init, Relay!Init, Places, Place

\* The outbox implements TopicRelay for any number of replicas, rows, topics and faults: with
\* the locks, passes, cancellations, timeouts and crashes of flusher.go, rows are published
\* topic by topic in order, deleted after that only, and repeated only for a failure.
THEOREM OutboxRelays == Spec => ImplementsRelay
<1>1. IInv /\ IInv' /\ [Next]_vars => [Relay!Next]_(<<Places, before, landed, blamed, late>>)
  BY NextSteps, FlusherRelays, OutsideRelays DEF Outside
<1> QED
  BY <1>1, InitRelay, AlwaysInv, PTL DEF Spec, ImplementsRelay, Relay!Spec, Relay!vars

=============================================================================
