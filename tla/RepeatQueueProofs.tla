-------------------------- MODULE RepeatQueueProofs --------------------------
(***************************************************************************)
(* Theorems of RepeatQueue for every number of rows, consumers, instances  *)
(* and strategies.  The invariant that carries them says that a row, in    *)
(* the table or in a job's memory, keeps its books right (Sound), and that *)
(* the copy a job still has to write back belongs to the row it came from  *)
(* (CopyOf): UpdateAttempt takes its columns from the copy but leaves the  *)
(* strategy of the row, so the bound on attempts carries over only if both *)
(* have the same strategy.                                                 *)
(***************************************************************************)
EXTENDS RepeatQueue, TLAPS

MaxOf(r) == MaxAttempts[StrategyOf(r.strategy)]

\* The attempt counter respects the strategy, and a failed row has used it up.
Sound(r) ==
  /\ r.attempt <= MaxOf(r)
  /\ r.status = "failed" => r.attempt = MaxOf(r) /\ r.deferred = FALSE

\* The copy c was read from the row r while that was pending.
CopyOf(c, r) ==
  /\ c.status = "pending"
  /\ c.strategy = r.strategy
  /\ r.status # "none"

IInv ==
  /\ TypeOK
  /\ \A id \in Ids : Sound(rows[id])
  /\ \A i \in Instances, id \in Ids :
       /\ Sound(snap[i][id])
       /\ phase[i][id] # "idle" => CopyOf(snap[i][id], rows[id])

-----------------------------------------------------------------------------
(* The bookkeeping operators.                                              *)

LEMMA StrategyOfType ==
  ASSUME NEW s \in Strategies \cup {NoStrategy}
  PROVE  /\ StrategyOf(s) \in Strategies
         /\ MaxAttempts[StrategyOf(s)] \in Nat
  BY StrategyAssumption DEF StrategyOf

LEMMA DelayType ==
  ASSUME NEW s \in Strategies \cup {NoStrategy}, NEW a \in Nat,
         a <= MaxAttempts[StrategyOf(s)] + 1
  PROVE  Delay[StrategyOf(s)][a] \in Nat
<1>1. a \in 0 .. MaxAttempts[StrategyOf(s)] + 1
  BY StrategyOfType
<1> QED
  BY <1>1, StrategyOfType, StrategyAssumption

LEMMA ApplyNextAttemptSound ==
  ASSUME NEW r \in Row, Sound(r), r.status = "pending"
  PROVE  LET q == ApplyNextAttempt(r)
         IN  /\ q \in Row /\ Sound(q)
             /\ q.strategy = r.strategy
             /\ q.status \in {"pending", "failed"}
             /\ q.attempt \in {r.attempt, r.attempt + 1}
             /\ q.deferred = FALSE
<1> DEFINE s == StrategyOf(r.strategy)
<1>1. r.strategy \in Strategies \cup {NoStrategy} /\ r.attempt \in Nat
  BY DEF Row
<1>2. s \in Strategies /\ MaxAttempts[s] \in Nat /\ r.attempt <= MaxAttempts[s]
  BY <1>1, StrategyOfType DEF Sound, MaxOf
<1>3. Delay[s][r.attempt + 1] \in Nat
  BY <1>1, <1>2, DelayType
<1>4. CASE MaxAttempts[s] <= r.attempt
  <2> DEFINE q == [r EXCEPT !.deferred = FALSE, !.status = "failed"]
  <2>1. ApplyNextAttempt(r) = q
    BY <1>4 DEF ApplyNextAttempt
  <2>2. q \in Row
    BY DEF Row, Status
  <2>3. /\ q.strategy = r.strategy /\ q.attempt = r.attempt
        /\ q.status = "failed" /\ q.deferred = FALSE
    BY DEF Row
  <2>4. Sound(q)
    BY <1>1, <1>2, <1>4, <2>3 DEF Sound, MaxOf
  <2> QED
    BY <2>1, <2>2, <2>3, <2>4
<1>5. CASE ~(MaxAttempts[s] <= r.attempt)
  <2> DEFINE q == [r EXCEPT !.deferred = FALSE, !.attempt = @ + 1,
                            !.wait = Delay[s][r.attempt + 1]]
  <2>1. ApplyNextAttempt(r) = q
    BY <1>5 DEF ApplyNextAttempt
  <2>2. q \in Row
    <3>1. r.attempt + 1 \in Nat
      BY <1>1
    <3> QED
      BY <1>3, <3>1, Zenon DEF Row
  <2>3. /\ q.strategy = r.strategy /\ q.attempt = r.attempt + 1
        /\ q.status = "pending" /\ q.deferred = FALSE
    BY DEF Row
  <2>4. Sound(q)
    BY <1>1, <1>2, <1>5, <2>3 DEF Sound, MaxOf
  <2> QED
    BY <2>1, <2>2, <2>3, <2>4
<1> QED
  BY <1>4, <1>5

LEMMA DeferSound ==
  ASSUME NEW r \in Row, Sound(r), r.status = "pending"
  PROVE  LET q == Defer(r)
         IN  /\ q \in Row /\ Sound(q)
             /\ q.strategy = r.strategy
             /\ q.status = "pending"
             /\ q.attempt = r.attempt
<1>1. r.strategy \in Strategies \cup {NoStrategy} /\ r.attempt \in Nat
  BY DEF Row
<1>2. Delay[StrategyOf(r.strategy)][r.attempt + 1] \in Nat
  BY <1>1, StrategyOfType, DelayType DEF Sound, MaxOf
<1> QED
  BY <1>1, <1>2 DEF Defer, Sound, MaxOf, Row, Status

\* What a failed delivery may do to a copy: both branches of the job's answer.
LEMMA ApplyFailureSound ==
  ASSUME NEW r \in Row, Sound(r), r.status = "pending",
         NEW later \in BOOLEAN, NEW after \in RetryAfters, NEW e \in Errors
  PROVE  LET q == [ApplyFailure(r, later, after) EXCEPT !.error = e]
         IN  /\ q \in Row /\ Sound(q)
             /\ q.strategy = r.strategy
             /\ q.status \in {"pending", "failed"}
             /\ q.attempt \in {r.attempt, r.attempt + 1}
             /\ q.deferred => q.attempt = r.attempt
<1> DEFINE applied == IF later THEN Defer(r) ELSE ApplyNextAttempt(r)
<1>1. /\ applied \in Row /\ Sound(applied)
      /\ applied.strategy = r.strategy
      /\ applied.status \in {"pending", "failed"}
      /\ applied.attempt \in {r.attempt, r.attempt + 1}
      /\ applied.deferred => applied.attempt = r.attempt
  <2>1. CASE later
    BY <2>1, DeferSound
  <2>2. CASE ~later
    BY <2>2, ApplyNextAttemptSound
  <2> QED
    BY <2>1, <2>2
<1> HIDE DEF applied
<1>2. ASSUME NEW a \in Row, Sound(a)
      PROVE  LET q == [a EXCEPT !.error = e]
             IN  /\ q \in Row /\ Sound(q)
                 /\ q.strategy = a.strategy /\ q.status = a.status
                 /\ q.attempt = a.attempt /\ q.deferred = a.deferred
  <2>1. [a EXCEPT !.error = e] \in Row
    BY <1>2 DEF Row
  <2> QED
    BY <1>2, <2>1 DEF Row, Sound, MaxOf
<1>3. CASE applied.status = "pending" /\ after > 0
  <2> DEFINE a == [applied EXCEPT !.wait = after]
  <2>1. ApplyFailure(r, later, after) = a
    BY <1>3 DEF ApplyFailure, applied
  <2>2. after \in Nat
    BY RetryAfterAssumption
  <2>3. a \in Row
    BY <1>1, <2>2 DEF Row
  <2>4. /\ a.strategy = applied.strategy /\ a.status = applied.status
        /\ a.attempt = applied.attempt /\ a.deferred = applied.deferred
    BY <1>1 DEF Row
  <2>5. Sound(a)
    BY <1>1, <2>4 DEF Sound, MaxOf
  <2> HIDE DEF a
  <2> QED
    BY <1>1, <1>2, <2>1, <2>3, <2>4, <2>5
<1>4. CASE ~(applied.status = "pending" /\ after > 0)
  <2>1. ApplyFailure(r, later, after) = applied
    BY <1>4 DEF ApplyFailure, applied
  <2> QED
    BY <1>1, <1>2, <2>1
<1> QED
  BY <1>3, <1>4

\* UpdateAttempt writes a sound copy over the row it came from: the row is sound again.
LEMMA UpdateAttemptSound ==
  ASSUME NEW r \in Row, NEW q \in Row, Sound(r), Sound(q), q.strategy = r.strategy,
         q.status \in {"pending", "failed"}
  PROVE  LET w == [r EXCEPT !.wait = q.wait, !.attempt = q.attempt, !.error = q.error,
                            !.status = q.status, !.deferred = q.deferred]
         IN  w \in Row /\ Sound(w) /\ w.strategy = r.strategy /\ w.status # "none"
<1> DEFINE w == [r EXCEPT !.wait = q.wait, !.attempt = q.attempt, !.error = q.error,
                          !.status = q.status, !.deferred = q.deferred]
<1>1. w \in Row
  BY DEF Row
<1>2. /\ w.strategy = r.strategy /\ w.attempt = q.attempt
      /\ w.status = q.status /\ w.deferred = q.deferred
  BY DEF Row
<1>3. Sound(w)
  BY <1>2 DEF Sound, MaxOf
<1> QED
  BY <1>1, <1>2, <1>3

LEMMA NewRowSound ==
  ASSUME NEW c \in Consumers, NEW s \in Strategies \cup {NoStrategy},
         NEW later \in BOOLEAN, NEW after \in RetryAfters, NEW e \in Errors
  PROVE  NewRow(c, s, later, after, e) \in Row /\ Sound(NewRow(c, s, later, after, e))
<1>1. MaxAttempts[StrategyOf(s)] \in Nat
  BY StrategyOfType
<1>2. Delay[StrategyOf(s)][0] \in Nat
  BY <1>1, DelayType
<1>3. after \in Nat
  BY RetryAfterAssumption
<1> DEFINE w == IF after > 0 THEN after ELSE Delay[StrategyOf(s)][0]
<1>4. w \in Nat
  BY <1>2, <1>3
<1>5. NewRow(c, s, later, after, e) \in Row
  <2> HIDE DEF w
  <2> QED
    BY <1>4 DEF NewRow, Row, Status, w
<1>6. Sound(NewRow(c, s, later, after, e))
  BY <1>1 DEF NewRow, Sound, MaxOf
<1> QED
  BY <1>5, <1>6

LEMMA RestartedSound ==
  ASSUME NEW r \in Row, Sound(r), r.status = "failed"
  PROVE  LET q == Restarted(r)
         IN  q \in Row /\ Sound(q) /\ q.strategy = r.strategy /\ q.status = "pending"
<1>1. r.strategy \in Strategies \cup {NoStrategy}
  BY DEF Row
<1>2. MaxOf(r) \in Nat
  BY <1>1, StrategyOfType DEF MaxOf
<1>3. Restarted(r) \in Row
  BY DEF Restarted, Row, Status
<1>4. /\ Restarted(r).strategy = r.strategy /\ Restarted(r).attempt = 0
      /\ Restarted(r).status = "pending"
  BY DEF Restarted, Row
<1>5. Sound(Restarted(r))
  BY <1>2, <1>4 DEF Sound, MaxOf
<1> QED
  BY <1>3, <1>4, <1>5

LEMMA BlankSound == Blank \in Row /\ Sound(Blank) /\ Blank.status = "none"
<1>1. (CHOOSE c \in Consumers : TRUE) \in Consumers
  BY ConsumerAssumption
<1>2. MaxAttempts[StrategyOf(NoStrategy)] \in Nat
  BY StrategyOfType
<1> QED
  BY <1>1, <1>2 DEF Blank, Row, Status, Sound, MaxOf

-----------------------------------------------------------------------------
(* The invariant.                                                          *)

LEMMA InitIInv == Init => IInv
<1> SUFFICES ASSUME Init PROVE IInv
  OBVIOUS
<1>1. TypeOK
  BY BlankSound DEF Init, TypeOK, BagState, Request, NoRequest
<1>2. \A id \in Ids : Sound(rows[id])
  BY BlankSound DEF Init
<1>3. \A i \in Instances, id \in Ids : Sound(snap[i][id]) /\ phase[i][id] = "idle"
  BY BlankSound DEF Init
<1> QED
  BY <1>1, <1>2, <1>3 DEF IInv

\* A step that leaves the table alone and only empties a job's memory.
LEMMA LeaveIInv ==
  ASSUME IInv, NEW i \in Instances, NEW id \in Ids, Leave(i, id),
         UNCHANGED <<rows, bags, admin>>
  PROVE  IInv'
<1>1. TypeOK'
  BY BlankSound DEF IInv, TypeOK, Leave
<1>2. \A j \in Instances, k \in Ids :
        /\ Sound(snap'[j][k])
        /\ phase'[j][k] # "idle" => phase'[j][k] = phase[j][k] /\ snap'[j][k] = snap[j][k]
  BY BlankSound DEF IInv, TypeOK, Leave
<1> QED
  BY <1>1, <1>2 DEF IInv

\* A step that writes sound rows with unchanged strategies and takes no row out of
\* sight of the copies.
LEMMA WriteIInv ==
  ASSUME IInv, UNCHANGED <<bags, phase, snap>>, rows' \in [Ids -> Row], admin' \in Request,
         \A id \in Ids : /\ Sound(rows'[id])
                         /\ \/ rows[id].status = "none"
                            \/ /\ rows'[id].strategy = rows[id].strategy
                               /\ rows'[id].status # "none"
  PROVE  IInv'
<1>1. TypeOK'
  BY DEF IInv, TypeOK
<1>2. \A i \in Instances, id \in Ids :
        phase[i][id] # "idle" => CopyOf(snap[i][id], rows'[id])
  BY DEF IInv, CopyOf
<1> QED
  BY <1>1, <1>2 DEF IInv

\* The job writes the sound copy q over row id and is through with it.
LEMMA WriteBackIInv ==
  ASSUME IInv, NEW i \in Instances, NEW id \in Ids, phase[i][id] = "sending",
         NEW q \in Row, Sound(q), q.strategy = snap[i][id].strategy,
         q.status \in {"pending", "failed"},
         rows' = UpdateAttempt(id, q), Leave(i, id), UNCHANGED <<bags, admin>>
  PROVE  IInv'
<1>1. rows \in [Ids -> Row] /\ Sound(rows[id]) /\ CopyOf(snap[i][id], rows[id])
  BY DEF IInv, TypeOK
<1>2. q.strategy = rows[id].strategy
  BY <1>1 DEF CopyOf
<1> DEFINE w == [rows[id] EXCEPT !.wait = q.wait, !.attempt = q.attempt, !.error = q.error,
                                 !.status = q.status, !.deferred = q.deferred]
<1>3. w \in Row /\ Sound(w) /\ w.strategy = rows[id].strategy /\ w.status # "none"
  BY <1>1, <1>2, UpdateAttemptSound
<1>4. rows' = [rows EXCEPT ![id] = IF InTable(rows[id]) THEN w ELSE rows[id]]
  BY DEF UpdateAttempt
<1> HIDE DEF w
<1>5. rows' \in [Ids -> Row]
  BY <1>1, <1>3, <1>4
<1>6. \A k \in Ids : /\ Sound(rows'[k])
                     /\ rows'[k].strategy = rows[k].strategy
                     /\ rows[k].status # "none" => rows'[k].status # "none"
  BY <1>1, <1>3, <1>4 DEF IInv
<1>7. \A j \in Instances, k \in Ids :
        /\ Sound(snap'[j][k])
        /\ phase'[j][k] # "idle" => phase'[j][k] = phase[j][k] /\ snap'[j][k] = snap[j][k]
  BY BlankSound DEF IInv, TypeOK, Leave
<1>8. TypeOK'
  BY <1>5, BlankSound DEF IInv, TypeOK, Leave
<1>9. \A j \in Instances, k \in Ids :
        phase'[j][k] # "idle" => CopyOf(snap'[j][k], rows'[k])
  BY <1>6, <1>7 DEF IInv, CopyOf
<1> QED
  BY <1>6, <1>7, <1>8, <1>9 DEF IInv

LEMMA StepIInv == IInv /\ [Next]_vars => IInv'
<1> SUFFICES ASSUME IInv, [Next]_vars
             PROVE  IInv'
  OBVIOUS
<1>0. TypeOK /\ rows \in [Ids -> Row] /\ snap \in [Instances -> [Ids -> Row]]
  BY DEF IInv, TypeOK
<1>1. CASE Tick
  <2> DEFINE w(id) == IF rows[id].wait > 0 THEN [rows[id] EXCEPT !.wait = @ - 1] ELSE rows[id]
  <2>1. \A id \in Ids : /\ w(id) \in Row /\ Sound(w(id))
                        /\ w(id).strategy = rows[id].strategy
                        /\ w(id).status = rows[id].status
    <3> SUFFICES ASSUME NEW id \in Ids
                 PROVE  /\ w(id) \in Row /\ Sound(w(id))
                        /\ w(id).strategy = rows[id].strategy
                        /\ w(id).status = rows[id].status
      OBVIOUS
    <3>1. rows[id] \in Row /\ Sound(rows[id])
      BY <1>0 DEF IInv
    <3>2. CASE rows[id].wait > 0
      <4> DEFINE r == rows[id]
      <4>1. r.wait - 1 \in Nat
        BY <3>1, <3>2 DEF Row
      <4> HIDE DEF r
      <4>2. [r EXCEPT !.wait = @ - 1] \in Row
        BY <3>1, <4>1 DEF Row, r
      <4>3. Sound([r EXCEPT !.wait = @ - 1])
        BY <3>1 DEF Row, Sound, MaxOf, r
      <4> QED
        BY <3>1, <3>2, <4>2, <4>3 DEF r, Row
    <3>3. CASE ~(rows[id].wait > 0)
      BY <3>1, <3>3
    <3> QED
      BY <3>2, <3>3
  <2>2. rows' = [id \in Ids |-> w(id)] /\ UNCHANGED <<bags, phase, snap, admin>>
    BY <1>1 DEF Tick
  <2> HIDE DEF w
  <2>3. rows' \in [Ids -> Row] /\ admin' \in Request
    BY <2>1, <2>2, <1>0 DEF TypeOK
  <2> QED
    BY <2>1, <2>2, <2>3, WriteIInv
<1>2. ASSUME NEW id \in Ids, NEW c \in Consumers, NEW s \in Strategies \cup {NoStrategy},
             NEW later \in BOOLEAN, NEW after \in RetryAfters, NEW e \in Errors,
             Add(id, c, s, later, after, e)
      PROVE  IInv'
  <2>1. NewRow(c, s, later, after, e) \in Row /\ Sound(NewRow(c, s, later, after, e))
    BY NewRowSound
  <2>2. rows' \in [Ids -> Row] /\ admin' \in Request
    BY <1>0, <1>2, <2>1 DEF Add, TypeOK
  <2>3. \A k \in Ids : /\ Sound(rows'[k])
                       /\ \/ rows[k].status = "none"
                          \/ rows'[k] = rows[k]
    BY <1>0, <1>2, <2>1 DEF Add, IInv
  <2> QED
    BY <1>2, <2>2, <2>3, WriteIInv DEF Add
<1>3. ASSUME NEW i \in Instances, NEW c \in Consumers, NEW b \in BagState, SetBag(i, c, b)
      PROVE  IInv'
  BY <1>3 DEF SetBag, IInv, TypeOK
<1>4. ASSUME NEW i \in Instances, RunStart(i)
      PROVE  IInv'
  <2>1. TypeOK'
    BY <1>4, BlankSound DEF RunStart, IInv, TypeOK
  <2>2. \A j \in Instances, id \in Ids :
          \/ snap'[j][id] = snap[j][id] /\ phase'[j][id] = phase[j][id]
          \/ snap'[j][id] = Blank /\ phase'[j][id] = "idle"
          \/ snap'[j][id] = rows[id] /\ rows[id].status = "pending"
    BY <1>0, <1>4 DEF RunStart, FindForRepeat, TypeOK
  <2>3. \A j \in Instances, id \in Ids :
          /\ Sound(snap'[j][id])
          /\ phase'[j][id] # "idle" => CopyOf(snap'[j][id], rows[id])
    BY <2>2, BlankSound DEF IInv, CopyOf
  <2> QED
    BY <1>4, <2>1, <2>3 DEF RunStart, IInv
<1>5. ASSUME NEW i \in Instances, NEW id \in Ids, Skip(i, id)
      PROVE  IInv'
  BY <1>5, LeaveIInv DEF Skip
<1>6. ASSUME NEW i \in Instances, NEW id \in Ids, Send(i, id)
      PROVE  IInv'
  <2>1. TypeOK'
    BY <1>6 DEF Send, IInv, TypeOK
  <2>2. \A j \in Instances, k \in Ids : phase'[j][k] # "idle" => phase[j][k] # "idle"
    BY <1>0, <1>6 DEF Send, NextInLine, TypeOK
  <2> QED
    BY <1>6, <2>1, <2>2 DEF Send, IInv
<1>7. ASSUME NEW i \in Instances, NEW id \in Ids, Answer(i, id)
      PROVE  IInv'
  <2>0. phase[i][id] = "sending"
    BY <1>7 DEF Answer, AnswerOk, AnswerFailure, AnswerEmpty, AnswerNotSaved, NoAnswer
  <2>c. snap[i][id] \in Row /\ Sound(snap[i][id]) /\ snap[i][id].status = "pending"
    BY <1>0, <2>0 DEF IInv, CopyOf
  <2>1. CASE AnswerOk(i, id)
    <3> DEFINE w == [rows[id] EXCEPT !.status = "done"]
    <3>1. w \in Row /\ w.strategy = rows[id].strategy /\ w.status = "done"
      BY <1>0 DEF Row, Status
    <3>2. Sound(w)
      BY <1>0 DEF IInv, Sound, MaxOf, Row
    <3>3. rows' = [rows EXCEPT ![id] = IF InTable(rows[id]) THEN w ELSE rows[id]]
      BY <2>1 DEF AnswerOk
    <3> HIDE DEF w
    <3>4. rows' \in [Ids -> Row]
      BY <1>0, <3>1, <3>3
    <3>5. \A k \in Ids : /\ Sound(rows'[k])
                         /\ rows'[k].strategy = rows[k].strategy
                         /\ rows[k].status # "none" => rows'[k].status # "none"
      BY <1>0, <3>1, <3>2, <3>3 DEF IInv
    <3>6. \A j \in Instances, k \in Ids :
            /\ Sound(snap'[j][k])
            /\ phase'[j][k] # "idle" =>
                 phase'[j][k] = phase[j][k] /\ snap'[j][k] = snap[j][k]
      BY <1>0, <2>1, BlankSound DEF IInv, TypeOK, AnswerOk, Leave
    <3>7. TypeOK'
      BY <2>1, <3>4, BlankSound DEF IInv, TypeOK, AnswerOk, Leave
    <3> QED
      BY <3>5, <3>6, <3>7 DEF IInv, CopyOf
  <2>2. ASSUME NEW later \in BOOLEAN, NEW after \in RetryAfters, NEW e \in Errors,
               AnswerFailure(i, id, later, after, e)
        PROVE  IInv'
    <3> DEFINE q == [ApplyFailure(snap[i][id], later, after) EXCEPT !.error = e]
    <3>1. /\ q \in Row /\ Sound(q) /\ q.strategy = snap[i][id].strategy
          /\ q.status \in {"pending", "failed"}
      BY <2>c, ApplyFailureSound
    <3>2. rows' = UpdateAttempt(id, q) /\ Leave(i, id) /\ UNCHANGED <<bags, admin>>
      BY <2>2 DEF AnswerFailure
    <3> HIDE DEF q
    <3> QED
      BY <2>0, <3>1, <3>2, WriteBackIInv
  <2>3. CASE AnswerEmpty(i, id)
    <3> DEFINE a == ApplyNextAttempt(snap[i][id])
               q == [a EXCEPT !.error = EmptyResult]
    <3>1. /\ a \in Row /\ Sound(a) /\ a.strategy = snap[i][id].strategy
          /\ a.status \in {"pending", "failed"}
      BY <2>c, ApplyNextAttemptSound
    <3> HIDE DEF a
    <3>2. /\ q \in Row /\ q.strategy = a.strategy /\ q.status = a.status
          /\ q.attempt = a.attempt /\ q.deferred = a.deferred
      BY <3>1, ErrorAssumption DEF Row
    <3>3. Sound(q)
      BY <3>1, <3>2 DEF Sound, MaxOf
    <3>4. rows' = UpdateAttempt(id, q) /\ Leave(i, id) /\ UNCHANGED <<bags, admin>>
      BY <2>3 DEF AnswerEmpty, a
    <3> HIDE DEF q
    <3> QED
      BY <2>0, <3>1, <3>2, <3>3, <3>4, WriteBackIInv
  <2>4. CASE AnswerNotSaved(i, id) \/ NoAnswer(i, id)
    BY <2>4, LeaveIInv DEF AnswerNotSaved, NoAnswer
  <2> QED
    BY <1>7, <2>1, <2>2, <2>3, <2>4 DEF Answer
<1>8. ASSUME NEW i \in Instances, Crash(i)
      PROVE  IInv'
  <2>1. TypeOK'
    BY <1>8, BlankSound DEF Crash, IInv, TypeOK, BagState
  <2>2. \A j \in Instances, id \in Ids :
          /\ Sound(snap'[j][id])
          /\ phase'[j][id] # "idle" =>
               phase'[j][id] = phase[j][id] /\ snap'[j][id] = snap[j][id]
    BY <1>0, <1>8, BlankSound DEF Crash, IInv, TypeOK
  <2> QED
    BY <1>8, <2>1, <2>2 DEF Crash, IInv
<1>9. ASSUME NEW S \in SUBSET Failed, RestartRows(S), admin' \in Request,
             UNCHANGED <<bags, phase, snap>>
      PROVE  IInv'
  <2>1. \A id \in S : /\ Restarted(rows[id]) \in Row /\ Sound(Restarted(rows[id]))
                      /\ Restarted(rows[id]).strategy = rows[id].strategy
                      /\ Restarted(rows[id]).status = "pending"
    BY <1>0, RestartedSound DEF Failed, IInv
  <2>2. rows' \in [Ids -> Row]
    BY <1>0, <1>9, <2>1 DEF RestartRows
  <2>3. \A id \in Ids : /\ Sound(rows'[id])
                        /\ \/ rows'[id] = rows[id]
                           \/ /\ rows'[id].strategy = rows[id].strategy
                              /\ rows'[id].status # "none"
    BY <1>9, <2>1 DEF RestartRows, IInv
  <2> QED
    BY <1>9, <2>2, <2>3, WriteIInv
<1>10. \A S \in SUBSET Ids : Forget(S) \in Request
  BY <1>0 DEF Forget, Request, TypeOK
<1>11. CASE RestartFailed
  BY <1>9, <1>10, <1>11 DEF RestartFailed, Failed
<1>12. ASSUME NEW old \in SUBSET Failed, RestartFailedSince(old)
       PROVE  IInv'
  BY <1>9, <1>10, <1>12 DEF RestartFailedSince, Failed
<1>13. ASSUME NEW op \in {"restart", "delete"}, NEW e \in Errors, NEW old \in SUBSET Failed,
              ResolveClass(op, ErrorClass[e], old)
       PROVE  IInv'
  <2>1. \A id \in Failed : rows[id].error \in Errors \cup {NoError}
    BY <1>0 DEF Failed, Row
  <2>2. admin' \in Request
    BY <1>13, <2>1 DEF ResolveClass, Request, Failed
  <2> QED
    BY <1>13, <2>2 DEF ResolveClass, IInv, TypeOK
<1>14. CASE RestartFailedByError
  <2>1. Matching \in SUBSET Failed /\ NoRequest \in Request
    BY DEF Matching, NoRequest, Request
  <2> QED
    BY <1>9, <1>14, <2>1 DEF RestartFailedByError
<1>15. CASE DeleteFailedByError
  <2> DEFINE w(id) == [rows[id] EXCEPT !.status = "purged"]
  <2>1. \A id \in Ids : /\ w(id) \in Row /\ Sound(w(id))
                        /\ w(id).strategy = rows[id].strategy
                        /\ w(id).status = "purged"
    BY <1>0 DEF IInv, Sound, MaxOf, Row, Status
  <2>2. /\ rows' = [id \in Ids |-> IF id \in Matching THEN w(id) ELSE rows[id]]
        /\ admin' = NoRequest
        /\ UNCHANGED <<bags, phase, snap>>
    BY <1>15 DEF DeleteFailedByError
  <2> HIDE DEF w
  <2>3. rows' \in [Ids -> Row] /\ admin' \in Request
    BY <1>0, <2>1, <2>2 DEF NoRequest, Request
  <2>4. \A id \in Ids : /\ Sound(rows'[id])
                        /\ \/ rows'[id] = rows[id]
                           \/ /\ rows'[id].strategy = rows[id].strategy
                              /\ rows'[id].status # "none"
    BY <2>1, <2>2 DEF IInv
  <2> QED
    BY <2>2, <2>3, <2>4, WriteIInv
<1>16. CASE UNCHANGED vars
  BY <1>16 DEF vars, IInv, TypeOK
<1> QED
  BY <1>1, <1>2, <1>3, <1>4, <1>5, <1>6, <1>7, <1>8, <1>11, <1>12, <1>13, <1>14, <1>15, <1>16
     DEF Next, Job, Admin

LEMMA Invariance == Spec => []IInv
  BY InitIInv, StepIInv, PTL DEF Spec

\* Every variable keeps its type whatever instances, consumers and the administrator
\* do; that the delays are defined where a strategy is asked for them needs the bound
\* on attempts, so it is proved with the invariant.
THEOREM TypeCorrect == Spec => []TypeOK
<1>1. IInv => TypeOK
  BY DEF IInv
<1> QED
  BY <1>1, Invariance, PTL

\* A deferred repeat is never finished, for any number of instances that overwrite
\* each other's rows (model/repeat.go:22-24, repository/repeater.go:136-143).
THEOREM DeferredRowsArePending == Spec => []DeferredNeverFinished
<1>1. IInv => DeferredNeverFinished
  <2> SUFFICES ASSUME IInv, NEW id \in Ids
               PROVE  /\ rows[id].deferred => rows[id].status # "failed"
                      /\ \A i \in Instances :
                           snap[i][id].deferred => snap[i][id].status # "failed"
    BY DEF DeferredNeverFinished
  <2> QED
    BY DEF IInv, Sound
<1> QED
  BY <1>1, Invariance, PTL

\* No row is marked failed before its attempts are used up and none counts past the
\* maximum, for any number of instances (model/repeat.go:62-75).
THEOREM FailedRowsAreExhausted == Spec => []FailedMeansExhausted
<1>1. IInv => FailedMeansExhausted
  BY DEF IInv, Sound, MaxOf, FailedMeansExhausted
<1> QED
  BY <1>1, Invariance, PTL

-----------------------------------------------------------------------------
(* One bus instance.                                                       *)

SingleInstance == \A i, j \in Instances : i = j

\* A copy is the row it was read from, and the row was due: time does not touch it.
Fresh ==
  \A i \in Instances, id \in Ids :
    phase[i][id] # "idle" => snap[i][id] = rows[id] /\ rows[id].wait = 0

\* The rows a step leaves alone, and what it may do to the others.
LEMMA StepFresh ==
  ASSUME SingleInstance
  PROVE  IInv /\ Fresh /\ [Next]_vars => Fresh'
<1> SUFFICES ASSUME IInv, Fresh, [Next]_vars
             PROVE  Fresh'
  OBVIOUS
<1>0. /\ rows \in [Ids -> Row]
      /\ snap \in [Instances -> [Ids -> Row]]
      /\ phase \in [Instances -> [Ids -> {"idle", "todo", "sending"}]]
      /\ \A i \in Instances, id \in Ids : phase[i][id] # "idle" => rows[id].status = "pending"
  BY DEF IInv, TypeOK, Fresh, CopyOf
\* A step that does not touch the job, nor any pending row that is due.
<1>1. ASSUME UNCHANGED <<phase, snap>>,
             \A id \in Ids : rows[id].status = "pending" /\ rows[id].wait = 0 =>
                               rows'[id] = rows[id]
      PROVE  Fresh'
  BY <1>0, <1>1 DEF Fresh
\* A step in which the job is through with a row, which alone it may change.
<1>2. ASSUME NEW i \in Instances, NEW id \in Ids, Leave(i, id),
             \A k \in Ids \ {id} : rows'[k] = rows[k]
      PROVE  Fresh'
  <2>1. \A j \in Instances, k \in Ids :
          phase'[j][k] # "idle" =>
            k # id /\ phase'[j][k] = phase[j][k] /\ snap'[j][k] = snap[j][k]
    BY <1>0, <1>2, SingleInstance DEF Leave, SingleInstance
  <2> QED
    BY <1>2, <2>1 DEF Fresh
<1>3. CASE Tick
  BY <1>0, <1>1, <1>3 DEF Tick
<1>4. ASSUME NEW id \in Ids, NEW c \in Consumers, NEW s \in Strategies \cup {NoStrategy},
             NEW later \in BOOLEAN, NEW after \in RetryAfters, NEW e \in Errors,
             Add(id, c, s, later, after, e)
      PROVE  Fresh'
  BY <1>0, <1>1, <1>4 DEF Add
<1>5. ASSUME NEW i \in Instances, NEW c \in Consumers, NEW b \in BagState, SetBag(i, c, b)
      PROVE  Fresh'
  BY <1>1, <1>5 DEF SetBag
<1>6. ASSUME NEW i \in Instances, RunStart(i)
      PROVE  Fresh'
  BY <1>0, <1>6 DEF RunStart, FindForRepeat, Fresh
<1>7. ASSUME NEW i \in Instances, NEW id \in Ids, Skip(i, id)
      PROVE  Fresh'
  BY <1>2, <1>7 DEF Skip
<1>8. ASSUME NEW i \in Instances, NEW id \in Ids, Send(i, id)
      PROVE  Fresh'
  <2>1. \A j \in Instances, k \in Ids : phase'[j][k] # "idle" => phase[j][k] # "idle"
    BY <1>0, <1>8 DEF Send, NextInLine
  <2> QED
    BY <1>8, <2>1 DEF Send, Fresh
<1>9. ASSUME NEW i \in Instances, NEW id \in Ids, Answer(i, id)
      PROVE  Fresh'
  <2>1. Leave(i, id)
    BY <1>9 DEF Answer, AnswerOk, AnswerFailure, AnswerEmpty, AnswerNotSaved, NoAnswer
  <2>2. \A k \in Ids \ {id} : rows'[k] = rows[k]
    BY <1>0, <1>9 DEF Answer, AnswerOk, AnswerFailure, AnswerEmpty, AnswerNotSaved, NoAnswer,
                      UpdateAttempt
  <2> QED
    BY <1>2, <2>1, <2>2
<1>10. ASSUME NEW i \in Instances, Crash(i)
       PROVE  Fresh'
  BY <1>0, <1>10 DEF Crash, Fresh
<1>11. CASE Admin
  <2>1. UNCHANGED <<phase, snap>>
    BY <1>11 DEF Admin, RestartFailed, RestartFailedSince, ResolveClass, RestartFailedByError,
                 DeleteFailedByError
  <2>2. \A id \in Ids : id \notin Failed => rows'[id] = rows[id]
    BY <1>0, <1>11 DEF Admin, RestartFailed, RestartFailedSince, ResolveClass,
                       RestartFailedByError, DeleteFailedByError, RestartRows, Matching
  <2> QED
    BY <1>1, <2>1, <2>2 DEF Failed
<1>12. CASE UNCHANGED vars
  BY <1>1, <1>12 DEF vars
<1> QED
  BY <1>3, <1>4, <1>5, <1>6, <1>7, <1>8, <1>9, <1>10, <1>11, <1>12 DEF Next, Job

LEMMA FreshInvariance ==
  ASSUME SingleInstance
  PROVE  Spec => [](IInv /\ Fresh)
<1>1. Init => Fresh
  BY DEF Init, Fresh
<1>2. IInv /\ Fresh /\ [Next]_vars => Fresh'
  BY StepFresh
<1> QED
  BY <1>1, <1>2, Invariance, PTL DEF Spec

\* With one bus instance the job never works on a stale copy: between its SELECT and
\* its UPDATE no insert, restart, purge, crash or other goroutine changes the row
\* (repeater.go:86-115, background.go:41-52 and the WHERE clauses of the requests).
THEOREM CopiesAreFresh ==
  ASSUME SingleInstance
  PROVE  Spec => []SnapshotFresh
<1>1. Fresh => SnapshotFresh
  BY DEF Fresh, SnapshotFresh
<1> QED
  BY <1>1, FreshInvariance, PTL

\* With one bus instance no write takes back an attempt or an administrator's restart.
THEOREM AttemptsStep ==
  ASSUME SingleInstance
  PROVE  Spec => AttemptSteps
<1> DEFINE Good(r, q) ==
      /\ r.status = "pending" /\ InTable(q) =>
           /\ q.attempt \in {r.attempt, r.attempt + 1}
           /\ q.deferred => q.attempt = r.attempt
      /\ r.status = "failed" /\ q.status = "pending" =>
           q.attempt = 0 /\ q.error = NoError /\ q.wait = 0
<1>1. IInv /\ Fresh /\ [Next]_vars => [\A id \in Ids : Good(rows[id], rows'[id])]_vars
  <2> SUFFICES ASSUME IInv, Fresh, [Next]_vars, NEW id \in Ids
               PROVE  Good(rows[id], rows'[id])
    OBVIOUS
  <2>0. rows \in [Ids -> Row] /\ snap \in [Instances -> [Ids -> Row]]
    BY DEF IInv, TypeOK
  <2>1. CASE rows'[id] = rows[id]
    BY <2>1
  <2>2. CASE Tick
    <3>1. \/ rows'[id] = rows[id]
          \/ rows'[id] = [rows[id] EXCEPT !.wait = @ - 1]
      BY <2>2 DEF Tick
    <3> QED
      BY <2>0, <3>1 DEF Row
  <2>3. ASSUME NEW k \in Ids, NEW c \in Consumers, NEW s \in Strategies \cup {NoStrategy},
               NEW later \in BOOLEAN, NEW after \in RetryAfters, NEW e \in Errors,
               Add(k, c, s, later, after, e)
        PROVE  Good(rows[id], rows'[id])
    BY <2>0, <2>3 DEF Add
  <2>4. ASSUME NEW i \in Instances, NEW k \in Ids, Answer(i, k)
        PROVE  Good(rows[id], rows'[id])
    <3>1. CASE id # k
      <4>1. rows'[id] = rows[id]
        BY <2>0, <2>4, <3>1 DEF Answer, AnswerOk, AnswerFailure, AnswerEmpty, AnswerNotSaved,
                                NoAnswer, UpdateAttempt
      <4> QED
        BY <4>1
    <3>2. CASE id = k /\ (AnswerNotSaved(i, id) \/ NoAnswer(i, id))
      BY <3>2 DEF AnswerNotSaved, NoAnswer
    <3>3. CASE id = k /\ AnswerOk(i, id)
      <4>1. rows'[id] = rows[id] \/ rows'[id] = [rows[id] EXCEPT !.status = "done"]
        BY <2>0, <3>3 DEF AnswerOk
      <4> QED
        BY <2>0, <4>1 DEF Row, InTable
    <3>4. ASSUME NEW q \in Row, rows' = UpdateAttempt(id, q), phase[i][id] = "sending",
                 q.attempt \in {snap[i][id].attempt, snap[i][id].attempt + 1},
                 q.deferred => q.attempt = snap[i][id].attempt
          PROVE  Good(rows[id], rows'[id])
      <4>1. snap[i][id] = rows[id] /\ rows[id].status = "pending"
        BY <3>4 DEF Fresh, IInv, CopyOf
      <4>2. rows'[id] = [rows[id] EXCEPT !.wait = q.wait, !.attempt = q.attempt,
                                         !.error = q.error, !.status = q.status,
                                         !.deferred = q.deferred]
        BY <2>0, <3>4, <4>1 DEF UpdateAttempt, InTable
      <4>3. rows'[id].attempt = q.attempt /\ rows'[id].deferred = q.deferred
        BY <2>0, <4>2 DEF Row
      <4> QED
        BY <3>4, <4>1, <4>3
    <3>5. ASSUME phase[i][id] = "sending"
          PROVE  /\ snap[i][id] \in Row /\ Sound(snap[i][id])
                 /\ snap[i][id].status = "pending"
      BY <2>0, <3>5 DEF IInv, CopyOf
    <3>6. ASSUME NEW later \in BOOLEAN, NEW after \in RetryAfters, NEW e \in Errors,
                 AnswerFailure(i, id, later, after, e)
          PROVE  Good(rows[id], rows'[id])
      <4>1. phase[i][id] = "sending"
        BY <3>6 DEF AnswerFailure
      <4> DEFINE q == [ApplyFailure(snap[i][id], later, after) EXCEPT !.error = e]
      <4>2. /\ q \in Row
            /\ q.attempt \in {snap[i][id].attempt, snap[i][id].attempt + 1}
            /\ q.deferred => q.attempt = snap[i][id].attempt
        BY <3>5, <4>1, ApplyFailureSound
      <4>3. rows' = UpdateAttempt(id, q)
        BY <3>6 DEF AnswerFailure
      <4> HIDE DEF q
      <4> QED
        BY <3>4, <4>1, <4>2, <4>3
    <3>7. CASE id = k /\ AnswerEmpty(i, id)
      <4>1. phase[i][id] = "sending"
        BY <3>7 DEF AnswerEmpty
      <4> DEFINE a == ApplyNextAttempt(snap[i][id])
                 q == [a EXCEPT !.error = EmptyResult]
      <4>2. /\ a \in Row /\ a.attempt \in {snap[i][id].attempt, snap[i][id].attempt + 1}
            /\ a.deferred = FALSE
        BY <3>5, <4>1, ApplyNextAttemptSound
      <4> HIDE DEF a
      <4>3. q \in Row /\ q.attempt = a.attempt /\ q.deferred = a.deferred
        BY <4>2, ErrorAssumption DEF Row
      <4>4. rows' = UpdateAttempt(id, q)
        BY <3>7 DEF AnswerEmpty, a
      <4> HIDE DEF q
      <4> QED
        BY <3>4, <4>1, <4>2, <4>3, <4>4
    <3> QED
      BY <2>4, <3>1, <3>2, <3>3, <3>6, <3>7 DEF Answer
  <2>5. CASE Admin
    <3>1. \/ rows'[id] = rows[id]
          \/ rows[id].status = "failed" /\ rows'[id] = Restarted(rows[id])
          \/ rows[id].status = "failed" /\ rows'[id] = [rows[id] EXCEPT !.status = "purged"]
      BY <2>5 DEF Admin, RestartFailed, RestartFailedSince, ResolveClass, RestartFailedByError,
                  DeleteFailedByError, RestartRows, Matching, Failed
    <3> QED
      BY <2>0, <3>1 DEF Restarted, Row
  <2>6. CASE \/ UNCHANGED vars
             \/ \E i \in Instances : RunStart(i) \/ Crash(i)
             \/ \E i \in Instances, k \in Ids : Skip(i, k) \/ Send(i, k)
             \/ \E i \in Instances, c \in Consumers, b \in BagState : SetBag(i, c, b)
    BY <2>6 DEF vars, RunStart, Crash, Skip, Send, SetBag
  <2> QED
    BY <2>2, <2>3, <2>4, <2>5, <2>6 DEF Next, Job
<1>2. Spec => [](IInv /\ Fresh)
  BY FreshInvariance
<1> QED
  BY <1>1, <1>2, PTL DEF Spec, AttemptSteps

-----------------------------------------------------------------------------
(* The refinement, with one bus instance: what the job writes is an        *)
(* outcome of the row as it is, so that reading, delivering and writing    *)
(* count as one step of the ledger.                                        *)

Entries == [id \in Ids |-> EntryOf(rows[id])]

\* What becomes of a row that is delivered and not processed.
Outcome(r, q) ==
  \/ /\ r.attempt < MaxOf(r) /\ q.status = "pending"
     /\ q.attempt = r.attempt + 1 /\ q.deferred = FALSE
  \/ /\ r.attempt = MaxOf(r) /\ q.status = "failed"
     /\ q.attempt = r.attempt /\ q.deferred = FALSE /\ q.wait = r.wait
  \/ q.status = "pending" /\ q.attempt = r.attempt /\ q.deferred = TRUE

\* Only the fields an outcome is about matter.
LEMMA SameOutcome ==
  ASSUME NEW r, NEW q, NEW w, Outcome(r, q),
         w.status = q.status, w.attempt = q.attempt, w.deferred = q.deferred,
         w.status = "failed" => w.wait = q.wait
  PROVE  Outcome(r, w)
  BY DEF Outcome

LEMMA NextAttemptOutcome ==
  ASSUME NEW r \in Row, Sound(r), r.status = "pending"
  PROVE  Outcome(r, ApplyNextAttempt(r))
<1>1. r.attempt \in Nat /\ MaxOf(r) \in Nat /\ r.attempt <= MaxOf(r)
  BY StrategyOfType DEF Row, Sound, MaxOf
<1>2. CASE MaxOf(r) <= r.attempt
  <2>1. ApplyNextAttempt(r) = [r EXCEPT !.deferred = FALSE, !.status = "failed"]
    BY <1>2 DEF ApplyNextAttempt, MaxOf
  <2>2. r.attempt = MaxOf(r)
    BY <1>1, <1>2
  <2> QED
    BY <2>1, <2>2 DEF Outcome, Row
<1>3. CASE ~ (MaxOf(r) <= r.attempt)
  <2>1. ApplyNextAttempt(r) = [r EXCEPT !.deferred = FALSE, !.attempt = @ + 1,
                                        !.wait = Delay[StrategyOf(r.strategy)][r.attempt + 1]]
    BY <1>3 DEF ApplyNextAttempt, MaxOf
  <2>2. r.attempt < MaxOf(r)
    BY <1>1, <1>3
  <2> QED
    BY <2>1, <2>2 DEF Outcome, Row
<1> QED
  BY <1>2, <1>3

LEMMA FailureOutcome ==
  ASSUME NEW r \in Row, Sound(r), r.status = "pending",
         NEW later \in BOOLEAN, NEW after \in RetryAfters, NEW e \in Errors
  PROVE  Outcome(r, [ApplyFailure(r, later, after) EXCEPT !.error = e])
<1> DEFINE applied == IF later THEN Defer(r) ELSE ApplyNextAttempt(r)
<1>1. applied \in Row /\ Outcome(r, applied)
  <2>1. CASE later
    <3>1. Defer(r) \in Row /\ Defer(r).status = "pending" /\ Defer(r).attempt = r.attempt
      BY DeferSound
    <3>2. Defer(r).deferred = TRUE
      BY DEF Defer, Row
    <3> QED
      BY <2>1, <3>1, <3>2 DEF Outcome
  <2>2. CASE ~later
    BY <2>2, ApplyNextAttemptSound, NextAttemptOutcome
  <2> QED
    BY <2>1, <2>2
<1>2. ApplyFailure(r, later, after) =
        IF applied.status = "pending" /\ after > 0
        THEN [applied EXCEPT !.wait = after] ELSE applied
  BY DEF ApplyFailure
<1> HIDE DEF applied
<1> DEFINE w == [ApplyFailure(r, later, after) EXCEPT !.error = e]
<1>3. /\ w.status = applied.status /\ w.attempt = applied.attempt
      /\ w.deferred = applied.deferred
      /\ w.status = "failed" => w.wait = applied.wait
  BY <1>1, <1>2 DEF Row
<1> HIDE DEF w
<1>4. Outcome(r, w)
  BY <1>1, <1>3, SameOutcome
<1> QED
  BY <1>4 DEF w

\* A step on one row is a step on its entry.
LEMMA OneEntry ==
  ASSUME rows \in [Ids -> Row], rows' \in [Ids -> Row], NEW id \in Ids,
         \A k \in Ids \ {id} : rows'[k] = rows[k]
  PROVE  /\ Entries[id] = EntryOf(rows[id])
         /\ Entries' = [Entries EXCEPT ![id] = EntryOf(rows'[id])]
  BY DEF Entries

\* The job writes an outcome of its copy, which is the row.
LEMMA OutcomeIsSeen ==
  ASSUME IInv, IInv', Fresh, NEW i \in Instances, NEW id \in Ids, phase[i][id] = "sending",
         NEW q \in Row, Outcome(snap[i][id], q), rows' = UpdateAttempt(id, q)
  PROVE  Ledger!Next
<1>1. rows \in [Ids -> Row] /\ rows' \in [Ids -> Row]
  BY DEF IInv, TypeOK
<1>2. snap[i][id] = rows[id] /\ rows[id].wait = 0 /\ rows[id].status = "pending"
  BY DEF IInv, CopyOf, Fresh
<1> DEFINE r == rows[id]
           w == [r EXCEPT !.wait = q.wait, !.attempt = q.attempt, !.error = q.error,
                          !.status = q.status, !.deferred = q.deferred]
<1>3. rows' = [rows EXCEPT ![id] = w]
  BY <1>1, <1>2 DEF UpdateAttempt, InTable
<1>4. rows'[id] = w /\ \A k \in Ids \ {id} : rows'[k] = rows[k]
  BY <1>1, <1>3
<1>5. /\ w.status = q.status /\ w.attempt = q.attempt /\ w.deferred = q.deferred
      /\ w.wait = q.wait /\ w.strategy = r.strategy
  BY <1>1 DEF Row
<1> HIDE DEF w
<1>6. PICK due \in BOOLEAN : due = (q.wait = 0)
  OBVIOUS
<1>7. EntryOf(w) = Ledger!Entry(q.status, q.attempt, MaxOf(r), q.deferred, due)
  BY <1>5, <1>6 DEF EntryOf, MaxOf, Ledger!Entry
<1>8. EntryOf(r) = [status |-> "pending", spent |-> r.attempt, limit |-> MaxOf(r),
                    deferred |-> r.deferred, due |-> TRUE]
  BY <1>2 DEF EntryOf, MaxOf
<1>9. Entries[id] = EntryOf(r) /\ Entries' = [Entries EXCEPT ![id] = EntryOf(w)]
  BY <1>1, <1>4, OneEntry
<1>10. CASE /\ r.attempt < MaxOf(r) /\ q.status = "pending"
            /\ q.attempt = r.attempt + 1 /\ q.deferred = FALSE
  <2>1. Ledger!Due(id) /\ Entries[id].spent < Entries[id].limit
    BY <1>8, <1>9, <1>10 DEF Ledger!Due, Entries
  <2>2. EntryOf(w) = Ledger!Entry("pending", Entries[id].spent + 1, Entries[id].limit, FALSE, due)
    <3>1. Entries[id].spent = r.attempt /\ Entries[id].limit = MaxOf(r)
      BY <1>8, <1>9
    <3> QED
      BY <1>7, <1>10, <3>1, Zenon
  <2>3. Ledger!Fail(id, due)
    BY <1>9, <2>1, <2>2 DEF Ledger!Fail, Entries
  <2> QED
    BY <2>3 DEF Ledger!Next
<1>11. CASE /\ r.attempt = MaxOf(r) /\ q.status = "failed"
            /\ q.attempt = r.attempt /\ q.deferred = FALSE /\ q.wait = r.wait
  <2>1. Ledger!Due(id) /\ Entries[id].spent = Entries[id].limit
    BY <1>8, <1>9, <1>11 DEF Ledger!Due, Entries
  <2>2. EntryOf(w) = Ledger!Entry("failed", Entries[id].spent, Entries[id].limit, FALSE, TRUE)
    <3>1. Entries[id].spent = r.attempt /\ Entries[id].limit = MaxOf(r)
      BY <1>8, <1>9
    <3>2. due = TRUE
      BY <1>2, <1>6, <1>11
    <3> QED
      BY <1>7, <1>11, <3>1, <3>2, Zenon
  <2>3. Ledger!GiveUp(id)
    BY <1>9, <2>1, <2>2 DEF Ledger!GiveUp, Entries
  <2> QED
    BY <2>3 DEF Ledger!Next
<1>12. CASE q.status = "pending" /\ q.attempt = r.attempt /\ q.deferred = TRUE
  <2>1. Ledger!Due(id)
    BY <1>8, <1>9 DEF Ledger!Due, Entries
  <2>2. EntryOf(w) = Ledger!Entry("pending", Entries[id].spent, Entries[id].limit, TRUE, due)
    <3>1. Entries[id].spent = r.attempt /\ Entries[id].limit = MaxOf(r)
      BY <1>8, <1>9
    <3> QED
      BY <1>7, <1>12, <3>1, Zenon
  <2>3. Ledger!Postpone(id, due)
    BY <1>9, <2>1, <2>2 DEF Ledger!Postpone, Entries
  <2> QED
    BY <2>3 DEF Ledger!Next
<1> QED
  BY <1>2, <1>10, <1>11, <1>12 DEF Outcome

LEMMA AnswerIsSeen ==
  ASSUME IInv, IInv', Fresh, NEW i \in Instances, NEW id \in Ids, Answer(i, id)
  PROVE  [Ledger!Next]_(Entries)
<1>1. phase[i][id] = "sending"
  BY DEF Answer, AnswerOk, AnswerFailure, AnswerEmpty, AnswerNotSaved, NoAnswer
<1>2. /\ rows \in [Ids -> Row] /\ rows' \in [Ids -> Row]
      /\ snap[i][id] = rows[id] /\ rows[id].wait = 0 /\ rows[id].status = "pending"
      /\ snap[i][id] \in Row /\ Sound(snap[i][id]) /\ snap[i][id].status = "pending"
  BY <1>1 DEF IInv, TypeOK, CopyOf, Fresh
<1>3. CASE AnswerNotSaved(i, id) \/ NoAnswer(i, id)
  BY <1>3 DEF AnswerNotSaved, NoAnswer, Entries
<1>4. CASE AnswerOk(i, id)
  <2>1. /\ rows'[id] = [rows[id] EXCEPT !.status = "done"]
        /\ \A k \in Ids \ {id} : rows'[k] = rows[k]
    BY <1>2, <1>4 DEF AnswerOk, InTable
  <2>2. EntryOf(rows'[id]) = [EntryOf(rows[id]) EXCEPT !.status = "done"]
    BY <1>2, <2>1 DEF EntryOf, Row
  <2>3. Entries' = [Entries EXCEPT ![id] = EntryOf(rows'[id])] /\ Entries[id] = EntryOf(rows[id])
    BY <1>2, <2>1, OneEntry
  <2>4. Ledger!Succeed(id)
    BY <1>2, <2>2, <2>3 DEF Ledger!Succeed, Ledger!Due, EntryOf, Entries
  <2> QED
    BY <2>4 DEF Ledger!Next
<1>5. ASSUME NEW later \in BOOLEAN, NEW after \in RetryAfters, NEW e \in Errors,
             AnswerFailure(i, id, later, after, e)
      PROVE  Ledger!Next
  <2> DEFINE q == [ApplyFailure(snap[i][id], later, after) EXCEPT !.error = e]
  <2>1. q \in Row /\ Outcome(snap[i][id], q)
    BY <1>2, ApplyFailureSound, FailureOutcome
  <2>2. rows' = UpdateAttempt(id, q)
    BY <1>5 DEF AnswerFailure
  <2> HIDE DEF q
  <2> QED
    BY <1>1, <2>1, <2>2, OutcomeIsSeen
<1>6. CASE AnswerEmpty(i, id)
  <2> DEFINE a == ApplyNextAttempt(snap[i][id])
             q == [a EXCEPT !.error = EmptyResult]
  <2>1. a \in Row /\ Outcome(snap[i][id], a)
    BY <1>2, ApplyNextAttemptSound, NextAttemptOutcome
  <2>2. rows' = UpdateAttempt(id, q)
    BY <1>6 DEF AnswerEmpty
  <2> HIDE DEF a
  <2>3. /\ q \in Row
        /\ q.status = a.status /\ q.attempt = a.attempt /\ q.deferred = a.deferred
        /\ q.wait = a.wait
    BY <2>1, ErrorAssumption DEF Row
  <2> HIDE DEF q
  <2>4. Outcome(snap[i][id], q)
    BY <2>1, <2>3, SameOutcome
  <2> QED
    BY <1>1, <2>2, <2>3, <2>4, OutcomeIsSeen
<1> QED
  BY <1>3, <1>4, <1>5, <1>6 DEF Answer

LEMMA AddIsSeen ==
  ASSUME IInv, IInv', NEW id \in Ids, NEW c \in Consumers, NEW s \in Strategies \cup {NoStrategy},
         NEW later \in BOOLEAN, NEW after \in RetryAfters, NEW e \in Errors,
         Add(id, c, s, later, after, e)
  PROVE  Ledger!Next
<1>1. rows \in [Ids -> Row] /\ rows' \in [Ids -> Row]
  BY DEF IInv, TypeOK
<1>2. /\ rows[id].status = "none"
      /\ rows'[id] = NewRow(c, s, later, after, e)
      /\ \A k \in Ids \ {id} : rows'[k] = rows[k]
  BY <1>1 DEF Add
<1> DEFINE limit == MaxAttempts[StrategyOf(s)]
           due == rows'[id].wait = 0
<1>3. limit \in {MaxAttempts[x] : x \in Strategies}
  BY StrategyOfType
<1>4. EntryOf(rows'[id]) = [status |-> "pending", spent |-> 0, limit |-> limit,
                            deferred |-> later, due |-> due]
  BY <1>2 DEF EntryOf, NewRow
<1>5. Entries' = [Entries EXCEPT ![id] = EntryOf(rows'[id])] /\ Entries[id] = EntryOf(rows[id])
  BY <1>1, <1>2, OneEntry
<1>6. due \in BOOLEAN
  OBVIOUS
<1> HIDE DEF limit, due
<1>7. Ledger!Store(id, limit, later, due)
  BY <1>2, <1>4, <1>5 DEF Ledger!Store, Ledger!Entry, EntryOf, Entries
<1> QED
  BY <1>3, <1>6, <1>7 DEF Ledger!Next

LEMMA TickIsSeen ==
  ASSUME IInv, Tick
  PROVE  Ledger!Next
<1> DEFINE some == {id \in Ids : rows[id].wait = 1}
<1>1. \A id \in Ids : /\ rows[id] \in Row
                      /\ rows'[id] = IF rows[id].wait > 0 THEN [rows[id] EXCEPT !.wait = @ - 1]
                                                          ELSE rows[id]
  BY DEF IInv, TypeOK, Tick
<1>2. ASSUME NEW id \in Ids
      PROVE  EntryOf(rows'[id]) = IF id \in some THEN [EntryOf(rows[id]) EXCEPT !.due = TRUE]
                                                 ELSE EntryOf(rows[id])
  <2>1. rows[id].wait \in Nat
    BY <1>1 DEF Row
  <2>2. CASE rows[id].wait = 0
    <3>1. ~ (rows[id].wait > 0)
      BY <2>2
    <3>2. rows'[id] = rows[id]
      BY <1>1, <3>1, Zenon
    <3>3. id \notin some
      BY <2>2
    <3> HIDE DEF some
    <3> QED
      BY <3>2, <3>3
  <2>3. CASE rows[id].wait > 0
    <3>1. /\ rows'[id].wait = rows[id].wait - 1 /\ rows'[id].status = rows[id].status
          /\ rows'[id].attempt = rows[id].attempt /\ rows'[id].deferred = rows[id].deferred
          /\ rows'[id].strategy = rows[id].strategy
      BY <1>1, <2>3 DEF Row
    <3>2. (rows'[id].wait = 0) = (id \in some) /\ (rows[id].wait = 0) = FALSE
      BY <2>1, <2>3, <3>1
    <3> QED
      BY <3>1, <3>2 DEF EntryOf
  <2> QED
    BY <2>1, <2>2, <2>3
<1>3. Entries' = [id \in Ids |-> IF id \in some THEN [Entries[id] EXCEPT !.due = TRUE]
                                                ELSE Entries[id]]
  BY <1>2 DEF Entries
<1>4. Ledger!Pass(some)
  BY <1>3 DEF Ledger!Pass, Entries
<1> QED
  BY <1>4 DEF Ledger!Next

LEMMA AdminIsSeen ==
  ASSUME IInv, Admin
  PROVE  [Ledger!Next]_(Entries)
<1>1. \A id \in Ids : rows[id] \in Row /\ (rows[id].status = "failed" => rows[id].deferred = FALSE)
  BY DEF IInv, TypeOK, Sound
<1>2. Ledger!Failed = Failed
  BY DEF Ledger!Failed, Failed, EntryOf
<1>3. ASSUME NEW S \in SUBSET Failed, RestartRows(S)
      PROVE  Ledger!Next
  <2>1. ASSUME NEW id \in Ids
        PROVE  EntryOf(rows'[id]) =
                 IF id \in S
                 THEN [EntryOf(rows[id]) EXCEPT !.status = "pending", !.spent = 0, !.due = TRUE]
                 ELSE EntryOf(rows[id])
    BY <1>1, <1>3 DEF RestartRows, Restarted, EntryOf, Row
  <2>2. Ledger!Restart(S)
    BY <2>1 DEF Ledger!Restart
  <2> QED
    BY <1>2, <2>2 DEF Ledger!Next
<1>4. CASE DeleteFailedByError
  <2>1. ASSUME NEW id \in Ids
        PROVE  EntryOf(rows'[id]) = IF id \in Matching
                                    THEN [EntryOf(rows[id]) EXCEPT !.status = "purged"]
                                    ELSE EntryOf(rows[id])
    BY <1>1, <1>4 DEF DeleteFailedByError, EntryOf, Row
  <2>2. Ledger!Purge(Matching)
    BY <2>1 DEF Ledger!Purge
  <2>3. Matching \subseteq Failed
    BY DEF Matching
  <2> QED
    BY <1>2, <2>2, <2>3 DEF Ledger!Next
<1>5. CASE \E op \in {"restart", "delete"}, e \in Errors, old \in SUBSET Failed :
             ResolveClass(op, ErrorClass[e], old)
  BY <1>5 DEF ResolveClass, Entries
<1>6. CASE \E S \in SUBSET Failed : RestartRows(S)
  BY <1>3, <1>6
<1>7. RestartFailed \/ (\E old \in SUBSET Failed : RestartFailedSince(old)) \/ RestartFailedByError
        => \E S \in SUBSET Failed : RestartRows(S)
  BY DEF RestartFailed, RestartFailedSince, RestartFailedByError, Matching
<1> QED
  BY <1>4, <1>5, <1>6, <1>7 DEF Admin

LEMMA InitLedger == Init => Ledger!Init
<1> SUFFICES ASSUME Init PROVE Ledger!Init
  OBVIOUS
<1> DEFINE limit == MaxAttempts[DefaultStrategy]
<1>1. limit \in {MaxAttempts[s] : s \in Strategies}
  BY StrategyAssumption
<1>2. EntryOf(Blank) = [status |-> "none", spent |-> 0, limit |-> limit, deferred |-> FALSE,
                        due |-> TRUE]
  BY DEF EntryOf, Blank, StrategyOf
<1>3. \A id \in Ids : EntryOf(rows[id]) = EntryOf(Blank)
  BY DEF Init
<1> HIDE DEF limit
<1> QED
  BY <1>1, <1>2, <1>3 DEF Ledger!Init, Ledger!Entry

LEMMA StepLedger ==
  IInv /\ IInv' /\ Fresh /\ [Next]_vars => [Ledger!Next]_(Entries)
<1> SUFFICES ASSUME IInv, IInv', Fresh, [Next]_vars
             PROVE  [Ledger!Next]_(Entries)
  OBVIOUS
<1>1. CASE UNCHANGED rows
  BY <1>1 DEF Entries
<1>2. CASE Tick
  BY <1>2, TickIsSeen
<1>3. ASSUME NEW id \in Ids, NEW c \in Consumers, NEW s \in Strategies \cup {NoStrategy},
             NEW later \in BOOLEAN, NEW after \in RetryAfters, NEW e \in Errors,
             Add(id, c, s, later, after, e)
      PROVE  [Ledger!Next]_(Entries)
  BY <1>3, AddIsSeen
<1>4. ASSUME NEW i \in Instances, NEW id \in Ids, Answer(i, id)
      PROVE  [Ledger!Next]_(Entries)
  BY <1>4, AnswerIsSeen
<1>5. CASE Admin
  BY <1>5, AdminIsSeen
<1>6. CASE \/ UNCHANGED vars
           \/ \E i \in Instances : RunStart(i) \/ Crash(i)
           \/ \E i \in Instances, k \in Ids : Skip(i, k) \/ Send(i, k)
           \/ \E i \in Instances, c \in Consumers, b \in BagState : SetBag(i, c, b)
  BY <1>1, <1>6 DEF vars, RunStart, Crash, Skip, Send, SetBag
<1> QED
  BY <1>2, <1>3, <1>4, <1>5, <1>6 DEF Next, Job

\* With one bus instance the retry queue implements RepeatLedger: the job's SELECT, delivery
\* and UPDATE, which lock nothing, act on a row as one step (repeater.go, repository/repeater.go).
THEOREM QueueKeepsLedger ==
  ASSUME SingleInstance
  PROVE  Spec => ImplementsLedger
<1>1. Spec => [](IInv /\ Fresh)
  BY FreshInvariance
<1> QED
  BY <1>1, InitLedger, StepLedger, PTL DEF Spec, ImplementsLedger, Ledger!Spec, Entries

=============================================================================
