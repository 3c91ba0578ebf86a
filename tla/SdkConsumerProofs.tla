-------------------------- MODULE SdkConsumerProofs --------------------------
(***************************************************************************)
(* Theorems of SdkConsumer for any consumers, deliveries, messages and     *)
(* faults.                                                                 *)
(*                                                                         *)
(* In the Transactional mode the claim is what serializes handlers: of a   *)
(* message one handler at most has claimed, and none while the mark is in  *)
(* the inbox.  That an answer of success is true rests on the two places   *)
(* it can come from, the handler itself and the mark of another delivery.  *)
(***************************************************************************)
EXTENDS SdkConsumer, FiniteSetTheorems, TLAPS

\* The effect of a message is there, or there is nothing to do for it.
Done(m) == effects[m] > 0 \/ m \in invalid

\* What the claim guarantees.
ClaimInv ==
  inboxMode = "Transactional" =>
    /\ \A d \in Deliveries : step[d] # "mark"
    /\ \A d \in Deliveries : step[d] = "claimed" => MessageOf[d] \notin inbox
    /\ \A d, e \in Deliveries :
         step[d] = "claimed" /\ step[e] = "claimed" /\ MessageOf[d] = MessageOf[e] => d = e
    /\ \A m \in Messages : effects[m] \in {0, 1} /\ (m \notin inbox => effects[m] = 0)

\* What counts as success is done.
DoneInv ==
  /\ \A m \in inbox \union answered : Done(m)
  /\ \A d \in Deliveries :
       /\ step[d] = "mark" => Done(MessageOf[d])
       /\ outcome[d] = "ok" \/ result[d] = "ok" => Done(MessageOf[d])

SdkInv == TypeOK /\ ClaimInv /\ DoneInv

-----------------------------------------------------------------------------

LEMMA MessageTyped == \A d \in Deliveries : MessageOf[d] \in Messages
BY DEF Messages

LEMMA InitSdk == Init => SdkInv
BY MessageTyped, SdkAssumption DEF Init, SdkInv, TypeOK, ClaimInv, DoneInv, Done, Results

\* The part of the type that a handler's steps change.
HandlerTyped ==
  /\ step \in [Deliveries -> {"new", "check", "handle", "claimed", "mark", "end"}]
  /\ running \in [Consumers -> SUBSET Deliveries] /\ expired \subseteq Deliveries
  /\ outcome \in [Deliveries -> Results]

LEMMA EndsTyped ==
  ASSUME TypeOK, NEW d \in Deliveries, Ends(d, "ok") \/ Ends(d, "failed")
  PROVE  HandlerTyped'
BY DEF Ends, TypeOK, HandlerTyped, Results

LEMMA GoesTyped ==
  ASSUME TypeOK, NEW d \in Deliveries, NEW next \in {"handle", "claimed", "mark"}, Goes(d, next)
  PROVE  HandlerTyped'
BY DEF Goes, TypeOK, HandlerTyped

LEMMA TypeStep == TypeOK /\ [Next]_vars => TypeOK'
<1> SUFFICES ASSUME TypeOK, [Next]_vars PROVE TypeOK'
  OBVIOUS
<1> USE SdkAssumption, MessageTyped
<1> USE DEF settingVars, loopVars, handlerVars, returnVars, dbVars, historyVars
<1>1. ASSUME NEW c \in Consumers, Connect(c) PROVE TypeOK'
  BY <1>1 DEF Connect, TypeOK
<1>2. ASSUME NEW c \in Consumers, SendResults(c) PROVE TypeOK'
  BY <1>2 DEF SendResults, LeaveBatch, TypeOK, Results
<1>3. ASSUME NEW c \in Consumers, Stop(c) PROVE TypeOK'
  BY <1>3 DEF Stop, LeaveBatch, TypeOK, Results
<1>4. ASSUME NEW c \in Consumers, StreamBreaks(c) PROVE TypeOK'
  BY <1>4 DEF StreamBreaks, LeaveBatch, Fault, TypeOK, Results
<1>5. ASSUME NEW c \in Consumers, Cancel(c) PROVE TypeOK'
  <2>1. cancelled' \in [Consumers -> BOOLEAN] /\ faults' \in 0 .. MaxFaults
    BY <1>5 DEF Cancel, Fault, TypeOK
  <2>2. expired' \subseteq Deliveries
    BY <1>5 DEF Cancel, TypeOK
  <2> QED
    BY <1>5, <2>1, <2>2 DEF Cancel, TypeOK
<1>6. ASSUME NEW c \in Consumers, Crash(c) PROVE TypeOK'
  <2>1. \A m \in Messages :
          Cardinality({d \in running[c] : step[d] = "mark" /\ MessageOf[d] = m}) \in Nat
    BY FS_Subset, FS_CardinalityType DEF TypeOK
  <2>2. unmarked' \in [Messages -> Nat]
    BY <1>6, <2>1 DEF Crash, TypeOK
  <2>3. loop' \in [Consumers -> {"off", "away", "recv", "work"}] /\ batch' \in [Consumers -> SUBSET Deliveries]
    BY <1>6 DEF Crash, LeaveBatch, TypeOK
  <2>4. outcome' \in [Deliveries -> Results] /\ result' \in [Deliveries -> Results]
    BY <1>6 DEF Crash, LeaveBatch, TypeOK, Results
  <2>5. step' \in [Deliveries -> {"new", "check", "handle", "claimed", "mark", "end"}]
    BY <1>6 DEF Crash, TypeOK
  <2>6. cancelled' \in [Consumers -> BOOLEAN] /\ running' \in [Consumers -> SUBSET Deliveries]
    BY <1>6 DEF Crash, TypeOK
  <2>7. expired' \subseteq Deliveries
    BY <1>6 DEF Crash, TypeOK
  <2>8. faults' \in 0 .. MaxFaults
    BY <1>6 DEF Crash, Fault, TypeOK
  <2> QED
    BY <1>6, <2>2, <2>3, <2>4, <2>5, <2>6, <2>7, <2>8 DEF Crash, TypeOK
<1>7. ASSUME NEW c \in Consumers, NEW S \in SUBSET Deliveries, Receive(c, S) PROVE TypeOK'
  BY <1>7 DEF Receive, TypeOK
<1>8. ASSUME NEW d \in Deliveries, HandlerReturned(d) PROVE TypeOK'
  BY <1>8 DEF HandlerReturned, Return, TypeOK
<1>9. ASSUME NEW d \in Deliveries, TimedOut(d) PROVE TypeOK'
  BY <1>9 DEF TimedOut, Return, TypeOK, Results
<1>10. ASSUME NEW d \in Deliveries, Check(d) PROVE TypeOK'
  <2>1. HandlerTyped'
    BY <1>10, EndsTyped, GoesTyped DEF Check
  <2> QED
    BY <1>10, <2>1 DEF Check, HandlerTyped, TypeOK, AddOne
<1>11. ASSUME NEW d \in Deliveries, CheckFails(d) PROVE TypeOK'
  <2>1. HandlerTyped'
    BY <1>11, EndsTyped DEF CheckFails
  <2> QED
    BY <1>11, <2>1 DEF CheckFails, HandlerTyped, TypeOK, Fault
<1>12. ASSUME NEW d \in Deliveries, HandlerFails(d) PROVE TypeOK'
  <2>1. HandlerTyped'
    BY <1>12, EndsTyped DEF HandlerFails
  <2> QED
    BY <1>12, <2>1 DEF HandlerFails, HandlerTyped, TypeOK
<1>13. ASSUME NEW d \in Deliveries, Effect(d) PROVE TypeOK'
  <2>1. HandlerTyped'
    BY <1>13, EndsTyped, GoesTyped DEF Effect
  <2> QED
    BY <1>13, <2>1 DEF Effect, HandlerTyped, TypeOK, AddOne
<1>14. ASSUME NEW d \in Deliveries, Mark(d) PROVE TypeOK'
  <2>1. HandlerTyped'
    BY <1>14, EndsTyped DEF Mark
  <2> QED
    BY <1>14, <2>1 DEF Mark, HandlerTyped, TypeOK, AddOne, Fault
<1>15. ASSUME NEW d \in Deliveries, Claim(d) PROVE TypeOK'
  <2>1. HandlerTyped'
    BY <1>15, EndsTyped, GoesTyped DEF Claim
  <2> QED
    BY <1>15, <2>1 DEF Claim, HandlerTyped, TypeOK
<1>16. ASSUME NEW d \in Deliveries, CommitTx(d) PROVE TypeOK'
  <2>1. HandlerTyped'
    BY <1>16, EndsTyped DEF CommitTx
  <2> QED
    BY <1>16, <2>1 DEF CommitTx, HandlerTyped, TypeOK, AddOne, Fault
<1>17. CASE UNCHANGED vars
  BY <1>17 DEF vars, TypeOK
<1> QED
  BY <1>1, <1>2, <1>3, <1>4, <1>5, <1>6, <1>7, <1>8, <1>9, <1>10, <1>11, <1>12, <1>13, <1>14,
     <1>15, <1>16, <1>17
  DEF Next, Loop, Handler

-----------------------------------------------------------------------------

\* No step but these opens a claim, changes the inbox or has an effect.
LEMMA ClaimStep == TypeOK /\ ClaimInv /\ [Next]_vars => ClaimInv'
<1> SUFFICES ASSUME TypeOK, ClaimInv, [Next]_vars, inboxMode' = "Transactional" PROVE ClaimInv'
  BY DEF ClaimInv
<1> USE MessageTyped
<1> USE DEF settingVars, loopVars, handlerVars, returnVars, dbVars, historyVars
<1>1. inboxMode = "Transactional"
  BY DEF Next, vars, Loop, Handler, Connect, SendResults, Stop, StreamBreaks, Cancel, Crash, Receive,
         HandlerReturned, TimedOut, Return, Check, CheckFails, HandlerFails, Effect, Mark, Claim, CommitTx
<1>2. \A d \in Deliveries : step[d] # "mark"
  BY <1>1 DEF ClaimInv
<1>3. ASSUME UNCHANGED <<inboxMode, step, inbox, effects>> PROVE ClaimInv'
  BY <1>3 DEF ClaimInv
<1>4. ASSUME NEW c \in Consumers, Crash(c) PROVE ClaimInv'
  BY <1>4, <1>1 DEF Crash, ClaimInv, TypeOK
<1>5. ASSUME NEW c \in Consumers, NEW S \in SUBSET Deliveries, Receive(c, S) PROVE ClaimInv'
  BY <1>5, <1>1 DEF Receive, ClaimInv, TypeOK
<1>6. ASSUME NEW d \in Deliveries, Check(d) \/ CheckFails(d) \/ HandlerFails(d) PROVE ClaimInv'
  <2>1. \/ step' = [step EXCEPT ![d] = "end"] \/ step' = [step EXCEPT ![d] = "handle"]
    BY <1>1, <1>6 DEF Check, CheckFails, HandlerFails, Ends, Goes
  <2>2. UNCHANGED <<inboxMode, inbox, effects>>
    BY <1>6 DEF Check, CheckFails, HandlerFails
  <2> QED
    BY <1>1, <2>1, <2>2 DEF ClaimInv, TypeOK
<1>7. ASSUME NEW d \in Deliveries, Effect(d) \/ Mark(d) PROVE ClaimInv'
  BY <1>7, <1>1, <1>2 DEF Effect, Mark
<1>8. ASSUME NEW d \in Deliveries, Claim(d) PROVE ClaimInv'
  <2>1. CASE step' = [step EXCEPT ![d] = "claimed"] /\ MessageOf[d] \notin inbox
    BY <1>8, <1>1, <2>1 DEF Claim, Claimants, ClaimInv, TypeOK
  <2>2. CASE step' = [step EXCEPT ![d] = "end"]
    BY <1>8, <1>1, <2>2 DEF Claim, ClaimInv, TypeOK
  <2> QED
    BY <1>8, <2>1, <2>2 DEF Claim, Ends, Goes
<1>9. ASSUME NEW d \in Deliveries, CommitTx(d) PROVE ClaimInv'
  <2>1. step' = [step EXCEPT ![d] = "end"]
    BY <1>9 DEF CommitTx, Ends
  <2>2. effects[MessageOf[d]] = 0
    BY <1>1, <1>9 DEF CommitTx, ClaimInv
  <2>3. \A e \in Deliveries \ {d} : step[e] = "claimed" => MessageOf[e] # MessageOf[d]
    BY <1>1, <1>9 DEF CommitTx, ClaimInv
  <2>4. \A m \in Messages : effects'[m] \in {0, 1} /\ (m \notin inbox' => effects'[m] = 0)
    BY <1>1, <1>9, <2>2 DEF CommitTx, AddOne, ClaimInv, TypeOK
  <2> QED
    BY <1>1, <1>9, <2>1, <2>3, <2>4 DEF CommitTx, ClaimInv, TypeOK
<1>10. ASSUME NEW c \in Consumers, Connect(c) \/ SendResults(c) \/ Stop(c) \/ StreamBreaks(c) \/ Cancel(c)
       PROVE  ClaimInv'
  BY <1>3, <1>10 DEF Connect, SendResults, Stop, StreamBreaks, Cancel
<1>11. ASSUME NEW d \in Deliveries, HandlerReturned(d) \/ TimedOut(d) PROVE ClaimInv'
  BY <1>3, <1>11 DEF HandlerReturned, TimedOut, Return
<1>12. CASE UNCHANGED vars
  BY <1>3, <1>12 DEF vars
<1> QED
  BY <1>4, <1>5, <1>6, <1>7, <1>8, <1>9, <1>10, <1>11, <1>12 DEF Next, Loop, Handler

\* What is done stays done.
LEMMA DoneStays ==
  ASSUME NEW m \in Messages, invalid' = invalid, effects'[m] >= effects[m],
         effects[m] \in Nat, effects'[m] \in Nat, Done(m)
  PROVE  Done(m)'
BY DEF Done

LEMMA DoneStep == TypeOK /\ DoneInv /\ [Next]_vars => DoneInv'
<1> SUFFICES ASSUME TypeOK, DoneInv, [Next]_vars PROVE DoneInv'
  OBVIOUS
<1> USE MessageTyped
<1> USE DEF settingVars, loopVars, handlerVars, returnVars, dbVars, historyVars
<1>1. ASSUME NEW c \in Consumers, Connect(c) \/ Cancel(c) PROVE DoneInv'
  BY <1>1 DEF Connect, Cancel, DoneInv, Done
<1>2. ASSUME NEW c \in Consumers, Stop(c) \/ StreamBreaks(c) PROVE DoneInv'
  BY <1>2 DEF Stop, StreamBreaks, LeaveBatch, DoneInv, Done, TypeOK
<1>3. ASSUME NEW c \in Consumers, SendResults(c) PROVE DoneInv'
  <2>1. \A m \in answered' : Done(m)
    BY <1>3 DEF SendResults, DoneInv, TypeOK
  <2> QED
    BY <1>3, <2>1 DEF SendResults, LeaveBatch, DoneInv, Done, TypeOK
<1>4. ASSUME NEW c \in Consumers, Crash(c) PROVE DoneInv'
  BY <1>4 DEF Crash, LeaveBatch, DoneInv, Done, TypeOK
<1>5. ASSUME NEW c \in Consumers, NEW S \in SUBSET Deliveries, Receive(c, S) PROVE DoneInv'
  BY <1>5 DEF Receive, DoneInv, Done, TypeOK
<1>6. ASSUME NEW d \in Deliveries, HandlerReturned(d) \/ TimedOut(d) PROVE DoneInv'
  BY <1>6 DEF HandlerReturned, TimedOut, Return, DoneInv, Done, TypeOK
<1>7. ASSUME NEW d \in Deliveries, Check(d) PROVE DoneInv'
  <2>1. CASE Ends(d, "ok") /\ Done(MessageOf[d])
    BY <1>7, <2>1 DEF Check, Ends, DoneInv, Done, TypeOK
  <2>2. CASE Goes(d, "handle")
    BY <1>7, <2>2 DEF Check, Goes, DoneInv, Done, TypeOK
  <2>3. CASE Goes(d, "mark") /\ Done(MessageOf[d])
    BY <1>7, <2>3 DEF Check, Goes, DoneInv, Done, TypeOK
  <2> QED
    BY <1>7, <2>1, <2>2, <2>3 DEF Check, DoneInv, Done
<1>8. ASSUME NEW d \in Deliveries, CheckFails(d) \/ HandlerFails(d) PROVE DoneInv'
  BY <1>8 DEF CheckFails, HandlerFails, Ends, DoneInv, Done, TypeOK
<1>9. ASSUME NEW d \in Deliveries, Effect(d) PROVE DoneInv'
  <2>1. \A m \in Messages : effects'[m] \in Nat /\ effects'[m] >= effects[m]
    BY <1>9 DEF Effect, AddOne, TypeOK
  <2>2. effects'[MessageOf[d]] > 0
    BY <1>9 DEF Effect, AddOne, TypeOK
  <2>3. inbox' = inbox /\ answered' = answered /\ result' = result /\ invalid' = invalid
    BY <1>9 DEF Effect
  <2>4. CASE Goes(d, "mark")
    BY <2>1, <2>2, <2>3, <2>4 DEF Goes, DoneInv, Done, TypeOK
  <2>5. CASE Ends(d, "ok")
    BY <2>1, <2>2, <2>3, <2>5 DEF Ends, DoneInv, Done, TypeOK
  <2> QED
    BY <1>9, <2>4, <2>5 DEF Effect
<1>10. ASSUME NEW d \in Deliveries, Mark(d) PROVE DoneInv'
  BY <1>10 DEF Mark, Ends, DoneInv, Done, TypeOK
<1>11. ASSUME NEW d \in Deliveries, Claim(d) PROVE DoneInv'
  <2>1. CASE Ends(d, "ok") /\ Done(MessageOf[d])
    BY <1>11, <2>1 DEF Claim, Ends, DoneInv, Done, TypeOK
  <2>2. CASE Goes(d, "claimed")
    BY <1>11, <2>2 DEF Claim, Goes, DoneInv, Done, TypeOK
  <2> QED
    BY <1>11, <2>1, <2>2 DEF Claim, DoneInv, Done
<1>12. ASSUME NEW d \in Deliveries, CommitTx(d) PROVE DoneInv'
  <2>1. \A m \in Messages : effects'[m] \in Nat /\ effects'[m] >= effects[m]
    BY <1>12 DEF CommitTx, AddOne, TypeOK
  <2>2. effects'[MessageOf[d]] > 0
    BY <1>12 DEF CommitTx, AddOne, TypeOK
  <2>3. /\ inbox' = inbox \union {MessageOf[d]} /\ answered' = answered
        /\ result' = result /\ invalid' = invalid
    BY <1>12 DEF CommitTx
  <2>4. Ends(d, "ok") \/ Ends(d, "failed")
    BY <1>12 DEF CommitTx
  <2> QED
    BY <2>1, <2>2, <2>3, <2>4 DEF Ends, DoneInv, Done, TypeOK
<1>13. CASE UNCHANGED vars
  BY <1>13 DEF vars, DoneInv, Done
<1> QED
  BY <1>1, <1>2, <1>3, <1>4, <1>5, <1>6, <1>7, <1>8, <1>9, <1>10, <1>11, <1>12, <1>13
  DEF Next, Loop, Handler

-----------------------------------------------------------------------------
(* The OnlyOnce mode.  Every effect but the first is paid for: a handler    *)
(* that was let in while another one was in by overlaps, and one that was   *)
(* let in later by a mark that was not written.                             *)

Handling(m) == {d \in Deliveries : MessageOf[d] = m /\ step[d] = "handle"}

\* One effect is free as long as somebody is in or the mark is there.
Free(m) == IF Inside(m) = {} /\ m \notin inbox THEN 0 ELSE 1

CountsOf(m) == effects[m] + Cardinality(Handling(m)) <= unmarked[m] + overlaps[m] + Free(m)

CountInv ==
  inboxMode = "OnlyOnce" =>
    (\A d \in Deliveries : step[d] # "claimed") /\ \A m \in Messages : CountsOf(m)

LEMMA HandlingFinite == \A m : IsFiniteSet(Handling(m)) /\ Cardinality(Handling(m)) \in Nat
BY SdkAssumption, FS_Subset, FS_CardinalityType DEF Handling

LEMMA InitCount == Init => CountInv
<1> SUFFICES ASSUME Init PROVE CountInv
  OBVIOUS
<1>1. \A m \in Messages : Handling(m) = {} /\ Inside(m) = {}
  BY DEF Init, Handling, Inside
<1>2. \A m \in Messages : Cardinality(Handling(m)) = 0
  BY <1>1, FS_EmptySet
<1>3. \A m \in Messages : effects[m] = 0 /\ unmarked[m] = 0 /\ overlaps[m] = 0 /\ m \notin inbox
  BY DEF Init
<1>4. \A m \in Messages : CountsOf(m)
  BY <1>1, <1>2, <1>3 DEF CountsOf, Free
<1> QED
  BY <1>4 DEF Init, CountInv

\* A handler's step changes what is counted for its own message only.
LEMMA OthersKeepCount ==
  ASSUME TypeOK, NEW d \in Deliveries, NEW x, step' = [step EXCEPT ![d] = x],
         NEW m \in Messages, m # MessageOf[d]
  PROVE  Handling(m)' = Handling(m) /\ Inside(m)' = Inside(m)
BY DEF TypeOK, Handling, Inside

\* What a handler's step does to the count of its message.
LEMMA HandlingStep ==
  ASSUME TypeOK, NEW d \in Deliveries, step' = [step EXCEPT ![d] = step'[d]]
  PROVE  /\ Cardinality(Handling(MessageOf[d])) \in Nat
         /\ Cardinality(Handling(MessageOf[d])') \in Nat
         /\ step[d] # "handle" /\ step'[d] = "handle" =>
              Cardinality(Handling(MessageOf[d])') = Cardinality(Handling(MessageOf[d])) + 1
         /\ step[d] = "handle" /\ step'[d] # "handle" =>
              Cardinality(Handling(MessageOf[d])') = Cardinality(Handling(MessageOf[d])) - 1
         /\ step[d] # "handle" /\ step'[d] # "handle" =>
              Cardinality(Handling(MessageOf[d])') = Cardinality(Handling(MessageOf[d]))
<1> DEFINE m == MessageOf[d]
<1>1. IsFiniteSet(Handling(m)) /\ Cardinality(Handling(m)) \in Nat
  BY HandlingFinite
<1>2. CASE step[d] # "handle" /\ step'[d] = "handle"
  <2>1. Handling(m)' = Handling(m) \union {d} /\ d \notin Handling(m)
    BY <1>2 DEF Handling, TypeOK
  <2>2. Cardinality(Handling(m) \union {d}) = Cardinality(Handling(m)) + 1
    BY <1>1, <2>1, FS_AddElement
  <2> QED
    BY <1>1, <1>2, <2>1, <2>2
<1>3. CASE step[d] = "handle" /\ step'[d] # "handle"
  <2>1. Handling(m)' = Handling(m) \ {d} /\ d \in Handling(m)
    BY <1>3 DEF Handling, TypeOK
  <2>2. /\ IsFiniteSet(Handling(m) \ {d})
        /\ Cardinality(Handling(m) \ {d}) = Cardinality(Handling(m)) - 1
    BY <1>1, <2>1, FS_RemoveElement
  <2>3. Cardinality(Handling(m) \ {d}) \in Nat
    BY <2>2, FS_CardinalityType
  <2> QED
    BY <1>1, <1>3, <2>1, <2>2, <2>3
<1>4. CASE (step[d] = "handle") = (step'[d] = "handle")
  <2>1. Handling(m)' = Handling(m)
    BY <1>4 DEF Handling, TypeOK
  <2> QED
    BY <1>1, <1>4, <2>1
<1> QED
  BY <1>2, <1>3, <1>4

\* Nothing is counted anew.
LEMMA CountKept ==
  ASSUME TypeOK, CountInv, UNCHANGED <<inboxMode, step, inbox, effects, unmarked, overlaps>>
  PROVE  CountInv'
BY DEF CountInv, CountsOf, Free, Handling, Inside

LEMMA CountReceive ==
  ASSUME TypeOK, CountInv, NEW c \in Consumers, NEW S \in SUBSET Deliveries, Receive(c, S)
  PROVE  CountInv'
<1> SUFFICES ASSUME inboxMode = "OnlyOnce" PROVE CountInv'
  BY DEF CountInv, Receive, settingVars
<1>1. step' = [d \in Deliveries |-> IF d \in S THEN "check" ELSE step[d]] /\ \A d \in S : step[d] = "new"
  BY DEF Receive
<1>2. \A m \in Messages : Handling(m)' = Handling(m) /\ Inside(m)' = Inside(m)
  BY <1>1 DEF Handling, Inside, TypeOK
<1>3. UNCHANGED <<inboxMode, inbox, effects, unmarked, overlaps>>
  BY DEF Receive, settingVars, dbVars, historyVars
<1>4. \A m \in Messages : CountsOf(m)'
  BY <1>2, <1>3 DEF CountInv, CountsOf, Free
<1> QED
  BY <1>1, <1>3, <1>4 DEF CountInv, TypeOK

\* A handler that is through without an effect of its own.
LEMMA CountEnds ==
  ASSUME TypeOK, CountInv, inboxMode = "OnlyOnce", NEW d \in Deliveries,
         step[d] \in {"check", "handle"}, step' = [step EXCEPT ![d] = "end"],
         UNCHANGED <<inboxMode, inbox, effects, unmarked, overlaps>>
  PROVE  CountInv'
<1> DEFINE m == MessageOf[d]
<1>1. m \in Messages
  BY MessageTyped
<1>2. ASSUME NEW n \in Messages, n # m PROVE CountsOf(n)'
  BY <1>2, OthersKeepCount DEF CountInv, CountsOf, Free
<1>3. effects[m] \in Nat /\ unmarked[m] \in Nat /\ overlaps[m] \in Nat
  BY <1>1 DEF TypeOK
<1>e. step' = [step EXCEPT ![d] = step'[d]] /\ step'[d] = "end"
  BY DEF TypeOK
<1>4. ASSUME step[d] = "check" PROVE CountsOf(m)'
  <2>1. Inside(m)' = Inside(m)
    BY <1>4 DEF Inside, TypeOK
  <2>2. Cardinality(Handling(m)') = Cardinality(Handling(m))
    BY <1>e, <1>4, HandlingStep
  <2> QED
    BY <1>1, <2>1, <2>2 DEF CountInv, CountsOf, Free
<1>5. ASSUME step[d] = "handle" PROVE CountsOf(m)'
  <2>1. Cardinality(Handling(m)) \in Nat /\ Cardinality(Handling(m)') = Cardinality(Handling(m)) - 1
    BY <1>e, <1>5, HandlingStep
  <2>2. d \in Inside(m)
    BY <1>5 DEF Inside
  <2>3. Free(m) = 1 /\ Free(m)' \in {0, 1}
    BY <2>2 DEF Free
  <2> QED
    BY <1>1, <1>3, <2>1, <2>3 DEF CountInv, CountsOf
<1>6. CountsOf(m)'
  BY <1>4, <1>5
<1>7. \A e \in Deliveries : step'[e] # "claimed"
  BY DEF CountInv, TypeOK
<1> QED
  BY <1>2, <1>6, <1>7 DEF CountInv

LEMMA CountEnter ==
  ASSUME TypeOK, CountInv, inboxMode = "OnlyOnce", NEW d \in Deliveries,
         step[d] = "check", step' = [step EXCEPT ![d] = "handle"], MessageOf[d] \notin inbox,
         overlaps' = IF Inside(MessageOf[d]) = {} THEN overlaps ELSE AddOne(overlaps, MessageOf[d]),
         UNCHANGED <<inboxMode, inbox, effects, unmarked>>
  PROVE  CountInv'
<1> DEFINE m == MessageOf[d]
<1>1. m \in Messages
  BY MessageTyped
<1>2. ASSUME NEW n \in Messages, n # m PROVE CountsOf(n)'
  <2>1. overlaps'[n] = overlaps[n]
    BY <1>1, <1>2 DEF AddOne, TypeOK
  <2> QED
    BY <1>2, <2>1, OthersKeepCount DEF CountInv, CountsOf, Free
<1>3. effects[m] \in Nat /\ unmarked[m] \in Nat /\ overlaps[m] \in Nat
  BY <1>1 DEF TypeOK
<1>4. step' = [step EXCEPT ![d] = step'[d]] /\ step'[d] = "handle"
  BY DEF TypeOK
<1>5. /\ Cardinality(Handling(m)) \in Nat
      /\ Cardinality(Handling(m)') = Cardinality(Handling(m)) + 1
  BY <1>4, HandlingStep
<1>6. Free(m)' = 1
  <2>1. d \in Inside(m)'
    BY <1>4 DEF Inside
  <2> QED
    BY <2>1 DEF Free
<1>7. overlaps'[m] + Free(m)' = overlaps[m] + Free(m) + 1
  BY <1>1, <1>3, <1>6 DEF Free, AddOne, TypeOK
<1>8. CountsOf(m)'
  <2>1. CountsOf(m) /\ Free(m) \in {0, 1}
    BY <1>1 DEF CountInv, Free
  <2>2. overlaps'[m] \in Nat
    BY <1>1, <1>3 DEF AddOne, TypeOK
  <2> QED
    BY <1>3, <1>5, <1>6, <1>7, <2>1, <2>2 DEF CountsOf
<1>9. \A e \in Deliveries : step'[e] # "claimed"
  BY DEF CountInv, TypeOK
<1> QED
  BY <1>2, <1>8, <1>9 DEF CountInv

LEMMA CountEffect ==
  ASSUME TypeOK, CountInv, inboxMode = "OnlyOnce", NEW d \in Deliveries,
         step[d] = "handle", step' = [step EXCEPT ![d] = "mark"],
         effects' = AddOne(effects, MessageOf[d]),
         UNCHANGED <<inboxMode, inbox, unmarked, overlaps>>
  PROVE  CountInv'
<1> DEFINE m == MessageOf[d]
<1>1. m \in Messages
  BY MessageTyped
<1>2. ASSUME NEW n \in Messages, n # m PROVE CountsOf(n)'
  <2>1. effects'[n] = effects[n]
    BY <1>1, <1>2 DEF AddOne, TypeOK
  <2> QED
    BY <1>2, <2>1, OthersKeepCount DEF CountInv, CountsOf, Free
<1>3. effects[m] \in Nat /\ effects'[m] = effects[m] + 1 /\ unmarked[m] \in Nat /\ overlaps[m] \in Nat
  BY <1>1 DEF TypeOK, AddOne
<1>4. step' = [step EXCEPT ![d] = step'[d]] /\ step'[d] = "mark"
  BY DEF TypeOK
<1>5. /\ Cardinality(Handling(m)) \in Nat
      /\ Cardinality(Handling(m)') = Cardinality(Handling(m)) - 1
  BY <1>4, HandlingStep
<1>6. Free(m) = 1 /\ Free(m)' = 1
  <2>1. d \in Inside(m) /\ d \in Inside(m)'
    BY <1>4 DEF Inside
  <2> QED
    BY <2>1 DEF Free
<1>7. CountsOf(m)'
  BY <1>1, <1>3, <1>5, <1>6 DEF CountInv, CountsOf
<1>8. \A e \in Deliveries : step'[e] # "claimed"
  BY DEF CountInv, TypeOK
<1> QED
  BY <1>2, <1>7, <1>8 DEF CountInv

\* A message that cannot be decoded goes on to its mark without an effect.
LEMMA CountUndecoded ==
  ASSUME TypeOK, CountInv, inboxMode = "OnlyOnce", NEW d \in Deliveries,
         step[d] = "check", step' = [step EXCEPT ![d] = "mark"],
         UNCHANGED <<inboxMode, inbox, effects, unmarked, overlaps>>
  PROVE  CountInv'
<1> DEFINE m == MessageOf[d]
<1>1. m \in Messages
  BY MessageTyped
<1>2. ASSUME NEW n \in Messages, n # m PROVE CountsOf(n)'
  BY <1>2, OthersKeepCount DEF CountInv, CountsOf, Free
<1>3. effects[m] \in Nat /\ unmarked[m] \in Nat /\ overlaps[m] \in Nat
  BY <1>1 DEF TypeOK
<1>4. step' = [step EXCEPT ![d] = step'[d]] /\ step'[d] = "mark"
  BY DEF TypeOK
<1>5. /\ Cardinality(Handling(m)) \in Nat
      /\ Cardinality(Handling(m)') = Cardinality(Handling(m))
  BY <1>4, HandlingStep
<1>6. Free(m) \in {0, 1} /\ Free(m)' = 1
  <2>1. d \in Inside(m)'
    BY <1>4 DEF Inside
  <2> QED
    BY <2>1 DEF Free
<1>7. CountsOf(m)'
  BY <1>1, <1>3, <1>5, <1>6 DEF CountInv, CountsOf
<1>8. \A e \in Deliveries : step'[e] # "claimed"
  BY DEF CountInv, TypeOK
<1> QED
  BY <1>2, <1>7, <1>8 DEF CountInv

\* The mark is written, or the message pays for it.
LEMMA CountMark ==
  ASSUME TypeOK, CountInv, inboxMode = "OnlyOnce", NEW d \in Deliveries,
         step[d] = "mark", step' = [step EXCEPT ![d] = "end"],
         \/ inbox' = inbox \union {MessageOf[d]} /\ unmarked' = unmarked
         \/ inbox' = inbox /\ unmarked' = AddOne(unmarked, MessageOf[d]),
         UNCHANGED <<inboxMode, effects, overlaps>>
  PROVE  CountInv'
<1> DEFINE m == MessageOf[d]
<1>1. m \in Messages
  BY MessageTyped
<1>2. ASSUME NEW n \in Messages, n # m PROVE CountsOf(n)'
  <2>1. unmarked'[n] = unmarked[n] /\ (n \in inbox' <=> n \in inbox)
    BY <1>1, <1>2 DEF AddOne, TypeOK
  <2> QED
    BY <1>2, <2>1, OthersKeepCount DEF CountInv, CountsOf, Free
<1>3. effects[m] \in Nat /\ unmarked[m] \in Nat /\ overlaps[m] \in Nat
  BY <1>1 DEF TypeOK
<1>4. step' = [step EXCEPT ![d] = step'[d]] /\ step'[d] = "end"
  BY DEF TypeOK
<1>5. /\ Cardinality(Handling(m)) \in Nat
      /\ Cardinality(Handling(m)') = Cardinality(Handling(m))
  BY <1>4, HandlingStep
<1>6. Free(m) \in {0, 1} /\ unmarked'[m] + Free(m)' >= unmarked[m] + 1 /\ unmarked'[m] \in Nat
  BY <1>1, <1>3 DEF Free, AddOne, TypeOK
<1>7. CountsOf(m)'
  BY <1>1, <1>3, <1>5, <1>6 DEF CountInv, CountsOf, Free
<1>8. \A e \in Deliveries : step'[e] # "claimed"
  BY DEF CountInv, TypeOK
<1> QED
  BY <1>2, <1>7, <1>8 DEF CountInv

\* A crash takes handlers away, and their marks with them.
LEMMA CountCrash ==
  ASSUME TypeOK, CountInv, inboxMode = "OnlyOnce", NEW c \in Consumers, Crash(c)
  PROVE  CountInv'
<1>1. /\ step' = [d \in Deliveries |-> IF d \in running[c] THEN "end" ELSE step[d]]
      /\ UNCHANGED <<inboxMode, inbox, effects, overlaps>>
  BY DEF Crash, settingVars, dbVars
<1>2. ASSUME NEW m \in Messages PROVE CountsOf(m)'
  <2> DEFINE K == {d \in running[c] : step[d] = "mark" /\ MessageOf[d] = m}
  <2>1. K \in SUBSET Deliveries
    BY DEF TypeOK
  <2>2. IsFiniteSet(K) /\ Cardinality(K) \in Nat
    BY <2>1, SdkAssumption, FS_Subset, FS_CardinalityType
  <2>3. unmarked'[m] = unmarked[m] + Cardinality(K)
    BY DEF Crash
  <2>4. Handling(m)' \in SUBSET Handling(m)
    BY <1>1 DEF Handling, TypeOK
  <2>5. /\ IsFiniteSet(Handling(m)) /\ Cardinality(Handling(m)) \in Nat
        /\ IsFiniteSet(Handling(m)') /\ Cardinality(Handling(m)') \in Nat
        /\ Cardinality(Handling(m)') <= Cardinality(Handling(m))
    BY <2>4, HandlingFinite, FS_Subset, FS_CardinalityType
  <2>6. effects[m] \in Nat /\ unmarked[m] \in Nat /\ overlaps[m] \in Nat
    BY DEF TypeOK
  <2>7. CASE Free(m)' = Free(m)
    BY <1>1, <2>2, <2>3, <2>5, <2>6, <2>7 DEF CountInv, CountsOf, Free
  <2>8. CASE Free(m)' # Free(m)
    <3>1. Inside(m)' \subseteq Inside(m)
      BY <1>1 DEF Inside, TypeOK
    <3>2. Free(m) = 1 /\ Free(m)' = 0 /\ Inside(m) # {} /\ Inside(m)' = {}
      BY <1>1, <2>8, <3>1 DEF Free
    <3>3. PICK d \in Inside(m) : TRUE
      BY <3>2
    <3>4. d \in Deliveries /\ d \in running[c] /\ MessageOf[d] = m /\ step[d] \in {"handle", "mark"}
      BY <1>1, <3>2, <3>3 DEF Inside, CountInv, TypeOK
    <3>5. CASE step[d] = "handle"
      <4>1. d \in Handling(m) /\ d \notin Handling(m)'
        BY <1>1, <3>4, <3>5 DEF Handling, TypeOK
      <4>2. Cardinality(Handling(m)') # Cardinality(Handling(m))
        BY <2>4, <2>5, <4>1, FS_Subset
      <4> QED
        BY <1>1, <2>2, <2>3, <2>5, <2>6, <3>2, <4>2 DEF CountInv, CountsOf
    <3>6. CASE step[d] = "mark"
      <4>1. d \in K
        BY <3>4, <3>6
      <4>2. Cardinality(K) # 0
        BY <2>2, <4>1, FS_EmptySet
      <4> QED
        BY <1>1, <2>2, <2>3, <2>5, <2>6, <3>2, <4>2 DEF CountInv, CountsOf
    <3> QED
      BY <3>4, <3>5, <3>6
  <2> QED
    BY <2>7, <2>8
<1>3. \A d \in Deliveries : step'[d] # "claimed"
  BY <1>1 DEF CountInv, TypeOK
<1> QED
  BY <1>2, <1>3 DEF CountInv

LEMMA CountStep == TypeOK /\ CountInv /\ [Next]_vars => CountInv'
<1> SUFFICES ASSUME TypeOK, CountInv, [Next]_vars, inboxMode' = "OnlyOnce" PROVE CountInv'
  BY DEF CountInv
<1> USE DEF settingVars, loopVars, handlerVars, returnVars, dbVars, historyVars
<1>1. inboxMode = "OnlyOnce"
  BY DEF Next, vars, Loop, Handler, Connect, SendResults, Stop, StreamBreaks, Cancel, Crash, Receive,
         HandlerReturned, TimedOut, Return, Check, CheckFails, HandlerFails, Effect, Mark, Claim, CommitTx
<1>2. ASSUME NEW c \in Consumers, Connect(c) \/ SendResults(c) \/ Stop(c) \/ StreamBreaks(c) \/ Cancel(c)
      PROVE  CountInv'
  BY <1>2, CountKept DEF Connect, SendResults, Stop, StreamBreaks, Cancel
<1>3. ASSUME NEW d \in Deliveries, HandlerReturned(d) \/ TimedOut(d) PROVE CountInv'
  BY <1>3, CountKept DEF HandlerReturned, TimedOut, Return
<1>4. ASSUME NEW c \in Consumers, NEW S \in SUBSET Deliveries, Receive(c, S) PROVE CountInv'
  BY <1>4, CountReceive
<1>5. ASSUME NEW c \in Consumers, Crash(c) PROVE CountInv'
  BY <1>1, <1>5, CountCrash
<1>6. ASSUME NEW d \in Deliveries, Check(d) PROVE CountInv'
  <2>1. CASE Ends(d, "ok") /\ UNCHANGED overlaps
    BY <1>1, <1>6, <2>1, CountEnds DEF Check, Ends
  <2>2. CASE /\ Goes(d, "handle") /\ MessageOf[d] \notin inbox
             /\ overlaps' = IF Inside(MessageOf[d]) = {} THEN overlaps ELSE AddOne(overlaps, MessageOf[d])
    BY <1>1, <1>6, <2>2, CountEnter DEF Check, Goes
  <2>3. CASE Goes(d, "mark") /\ UNCHANGED overlaps
    BY <1>1, <1>6, <2>3, CountUndecoded DEF Check, Goes
  <2> QED
    BY <1>1, <1>6, <2>1, <2>2, <2>3 DEF Check
<1>7. ASSUME NEW d \in Deliveries, CheckFails(d) \/ HandlerFails(d) PROVE CountInv'
  <2>1. step[d] \in {"check", "handle"} /\ step' = [step EXCEPT ![d] = "end"]
    BY <1>1, <1>7 DEF CheckFails, HandlerFails, Ends, CountInv
  <2>2. UNCHANGED <<inboxMode, inbox, effects, unmarked, overlaps>>
    BY <1>7 DEF CheckFails, HandlerFails
  <2> QED
    BY <1>1, <2>1, <2>2, CountEnds
<1>8. ASSUME NEW d \in Deliveries, Effect(d) PROVE CountInv'
  BY <1>1, <1>8, CountEffect DEF Effect, Goes
<1>9. ASSUME NEW d \in Deliveries, Mark(d) PROVE CountInv'
  BY <1>1, <1>9, CountMark DEF Mark, Ends
<1>10. ASSUME NEW d \in Deliveries, Claim(d) \/ CommitTx(d) PROVE CountInv'
  BY <1>1, <1>10 DEF Claim, CommitTx, CountInv
<1>11. CASE UNCHANGED vars
  BY <1>11, CountKept DEF vars
<1> QED
  BY <1>2, <1>3, <1>4, <1>5, <1>6, <1>7, <1>8, <1>9, <1>10, <1>11 DEF Next, Loop, Handler

LEMMA SdkInductive == Spec => [](SdkInv /\ CountInv)
<1>1. SdkInv /\ CountInv /\ [Next]_vars => (SdkInv /\ CountInv)'
  BY TypeStep, ClaimStep, DoneStep, CountStep DEF SdkInv
<1> QED
  BY InitSdk, InitCount, <1>1, PTL DEF Spec

-----------------------------------------------------------------------------

\* Every reachable state has its type.
THEOREM TypeCorrect == Spec => []TypeOK
<1>1. SdkInv => TypeOK
  BY DEF SdkInv
<1> QED
  BY SdkInductive, <1>1, PTL

\* inbox.Guard: in the Transactional mode a message has one effect at most, for any number of
\* consumers, deliveries and faults.
THEOREM OneEffect == Spec => []EffectOnce
<1>1. SdkInv => EffectOnce
  BY DEF SdkInv, ClaimInv, EffectOnce
<1> QED
  BY SdkInductive, <1>1, PTL

\* processWithInbox, processMessage: the bus is told ok only for a message whose effect is committed
\* or that cannot be decoded, in every mode.
THEOREM OkMeansDone == Spec => []AnsweredIsDone
<1>1. SdkInv => AnsweredIsDone
  BY DEF SdkInv, DoneInv, Done, AnsweredIsDone
<1> QED
  BY SdkInductive, <1>1, PTL

\* processWithInbox: in the OnlyOnce mode every effect of a message but the first is explained by a
\* mark that was not written or by two deliveries that were handled at the same time.
THEOREM OnlyOnceRepeats == Spec => []RepeatsAreExplained
<1>1. SdkInv /\ CountInv => RepeatsAreExplained
  <2> SUFFICES ASSUME SdkInv, CountInv, inboxMode = "OnlyOnce", NEW m \in Messages
               PROVE  effects[m] <= 1 + unmarked[m] + overlaps[m]
    BY DEF RepeatsAreExplained
  <2>1. CountsOf(m)
    BY DEF CountInv
  <2>2. effects[m] \in Nat /\ unmarked[m] \in Nat /\ overlaps[m] \in Nat
    BY DEF SdkInv, TypeOK
  <2>3. Cardinality(Handling(m)) \in Nat
    BY HandlingFinite
  <2> QED
    BY <2>1, <2>2, <2>3 DEF CountsOf, Free
<1> QED
  BY SdkInductive, <1>1, PTL

-----------------------------------------------------------------------------
(* SdkConsumer implements MessageEffects.                                   *)

\* No handler of the application is in for a message that cannot be decoded, and the steps are
\* those of the mode.
ValidInv ==
  \A d \in Deliveries :
    /\ step[d] \in {"handle", "claimed"} => MessageOf[d] \notin invalid
    /\ step[d] = "claimed" => inboxMode = "Transactional"
    /\ step[d] = "mark" => inboxMode = "OnlyOnce"

LEMMA ValidStep == TypeOK /\ ValidInv /\ [Next]_vars => ValidInv'
<1> SUFFICES ASSUME TypeOK, ValidInv, [Next]_vars PROVE ValidInv'
  OBVIOUS
<1> USE DEF settingVars, loopVars, handlerVars, returnVars, dbVars, historyVars
<1>1. ASSUME UNCHANGED <<inboxMode, invalid, step>> PROVE ValidInv'
  BY <1>1 DEF ValidInv
<1>2. ASSUME NEW c \in Consumers, Connect(c) \/ SendResults(c) \/ Stop(c) \/ StreamBreaks(c) \/ Cancel(c)
      PROVE  ValidInv'
  BY <1>1, <1>2 DEF Connect, SendResults, Stop, StreamBreaks, Cancel
<1>3. ASSUME NEW c \in Consumers, Crash(c) PROVE ValidInv'
  BY <1>3 DEF Crash, ValidInv, TypeOK
<1>4. ASSUME NEW c \in Consumers, NEW S \in SUBSET Deliveries, Receive(c, S) PROVE ValidInv'
  BY <1>4 DEF Receive, ValidInv, TypeOK
<1>5. ASSUME NEW d \in Deliveries, HandlerReturned(d) \/ TimedOut(d) PROVE ValidInv'
  BY <1>1, <1>5 DEF HandlerReturned, TimedOut, Return
<1>6. ASSUME NEW d \in Deliveries, Handler(d) PROVE ValidInv'
  <2>1. UNCHANGED <<inboxMode, invalid>>
    BY <1>6 DEF Handler, Check, CheckFails, HandlerFails, Effect, Mark, Claim, CommitTx
  <2>2. \/ step' = [step EXCEPT ![d] = "end"]
        \/ \E next \in {"handle", "claimed", "mark"} :
             /\ step' = [step EXCEPT ![d] = next]
             /\ next \in {"handle", "claimed"} => MessageOf[d] \notin invalid
             /\ next = "claimed" => inboxMode = "Transactional"
             /\ next = "mark" => inboxMode = "OnlyOnce"
    BY <1>6 DEF Handler, Check, CheckFails, HandlerFails, Effect, Mark, Claim, CommitTx, Ends, Goes, ValidInv
  <2> QED
    BY <2>1, <2>2 DEF ValidInv, TypeOK
<1>7. CASE UNCHANGED vars
  BY <1>1, <1>7 DEF vars
<1> QED
  BY <1>2, <1>3, <1>4, <1>5, <1>6, <1>7 DEF Next, Loop

EffectsInv == SdkInv /\ CountInv /\ ValidInv

LEMMA EffectsInductive == Spec => []EffectsInv
<1>1. Init => ValidInv
  BY DEF Init, ValidInv
<1>2. (SdkInv /\ CountInv) /\ ValidInv /\ [Next]_vars => ValidInv'
  BY ValidStep DEF SdkInv
<1> QED
  BY <1>1, <1>2, SdkInductive, PTL DEF Spec, EffectsInv

\* What MessageEffects sees of a state.
promiseVars == <<inboxMode, invalid, effects, inbox, answered, Excuses>>

LEMMA ExcusesStay == UNCHANGED <<unmarked, overlaps>> => Excuses' = Excuses
BY DEF Excuses

LEMMA ExcusesGrow ==
  ASSUME TypeOK, TypeOK', \A m \in Messages : unmarked'[m] >= unmarked[m] /\ overlaps'[m] >= overlaps[m],
         UNCHANGED <<inboxMode, invalid, effects, inbox, answered>>
  PROVE  Promise!Excuse
<1>1. \A m \in Messages : /\ unmarked[m] \in Nat /\ overlaps[m] \in Nat
                         /\ unmarked'[m] \in Nat /\ overlaps'[m] \in Nat
  BY DEF TypeOK
<1>2. Excuses' = [m \in Messages |-> unmarked'[m] + overlaps'[m]]
  BY DEF Excuses
<1>3. Excuses' \in [Messages -> Nat]
  BY <1>1, <1>2
<1>4. \A m \in Messages : Excuses'[m] >= Excuses[m]
  BY <1>1, <1>2 DEF Excuses
<1> QED
  BY <1>3, <1>4 DEF Promise!Excuse

LEMMA EffectKeepsPromise ==
  ASSUME EffectsInv, EffectsInv', NEW d \in Deliveries, Effect(d)
  PROVE  Promise!Apply(MessageOf[d])
<1> DEFINE m == MessageOf[d]
<1>1. /\ m \in Messages /\ m \notin invalid /\ inboxMode # "Transactional"
      /\ effects' = AddOne(effects, m)
      /\ UNCHANGED <<inboxMode, invalid, inbox, answered, unmarked, overlaps>>
  BY MessageTyped DEF Effect, EffectsInv, ValidInv, settingVars, historyVars
<1>2. inboxMode = "OnlyOnce" => effects[m] <= Excuses[m]
  <2>1. SUFFICES ASSUME inboxMode = "OnlyOnce" PROVE effects[m] <= unmarked[m] + overlaps[m]
    BY <1>1 DEF Excuses
  <2>2. CountsOf(m) /\ d \in Handling(m)
    BY <1>1, <2>1 DEF EffectsInv, CountInv, Effect, Handling
  <2>3. Cardinality(Handling(m)) \in Nat /\ Cardinality(Handling(m)) # 0
    BY <2>2, HandlingFinite, FS_EmptySet
  <2>4. effects[m] \in Nat /\ unmarked[m] \in Nat /\ overlaps[m] \in Nat
    BY <1>1 DEF EffectsInv, SdkInv, TypeOK
  <2> QED
    BY <2>2, <2>3, <2>4 DEF CountsOf, Free
<1>3. Excuses' = Excuses
  BY <1>1, ExcusesStay
<1> QED
  BY <1>1, <1>2, <1>3 DEF Promise!Apply, Promise!AddEffect, AddOne

LEMMA CommitKeepsPromise ==
  ASSUME EffectsInv, NEW d \in Deliveries, CommitTx(d)
  PROVE  Promise!ApplyMarked(MessageOf[d])
<1>1. inboxMode = "Transactional"
  BY DEF CommitTx, EffectsInv, ValidInv
<1>2. /\ MessageOf[d] \notin inbox /\ MessageOf[d] \notin invalid
      /\ inbox' = inbox \union {MessageOf[d]} /\ effects' = AddOne(effects, MessageOf[d])
      /\ UNCHANGED <<inboxMode, invalid, answered, unmarked, overlaps>>
  BY <1>1 DEF CommitTx, EffectsInv, SdkInv, ClaimInv, ValidInv, settingVars, historyVars
<1> QED
  BY <1>1, <1>2, ExcusesStay DEF Promise!ApplyMarked, Promise!AddEffect, AddOne

LEMMA MarkKeepsPromise ==
  ASSUME EffectsInv, EffectsInv', NEW d \in Deliveries, Mark(d)
  PROVE  Promise!Mark(MessageOf[d]) \/ Promise!Excuse
<1> DEFINE m == MessageOf[d]
<1>1. /\ m \in Messages /\ (effects[m] > 0 \/ m \in invalid)
      /\ UNCHANGED <<inboxMode, invalid, effects, answered, overlaps>>
  BY MessageTyped DEF Mark, EffectsInv, SdkInv, DoneInv, Done, settingVars
<1>2. CASE inbox' = inbox \union {m} /\ UNCHANGED unmarked
  <2>1. inboxMode = "OnlyOnce"
    BY DEF Mark, EffectsInv, ValidInv
  <2> QED
    BY <1>1, <1>2, <2>1, ExcusesStay DEF Promise!Mark
<1>3. CASE unmarked' = AddOne(unmarked, m) /\ UNCHANGED inbox
  <2>1. \A n \in Messages : unmarked'[n] >= unmarked[n] /\ overlaps'[n] >= overlaps[n]
    BY <1>1, <1>3 DEF EffectsInv, SdkInv, TypeOK, AddOne
  <2> QED
    BY <1>1, <1>3, <2>1, ExcusesGrow DEF EffectsInv, SdkInv
<1> QED
  BY <1>2, <1>3 DEF Mark

LEMMA StepKeepsPromise ==
  EffectsInv /\ EffectsInv' /\ [Next]_vars => [Promise!Next]_promiseVars
<1> SUFFICES ASSUME EffectsInv, EffectsInv', [Next]_vars PROVE Promise!Next \/ UNCHANGED promiseVars
  OBVIOUS
<1> USE MessageTyped
<1> USE DEF settingVars, loopVars, handlerVars, returnVars, dbVars, historyVars
<1>0. TypeOK /\ TypeOK'
  BY DEF EffectsInv, SdkInv
<1>1. ASSUME UNCHANGED <<inboxMode, invalid, effects, inbox, answered, unmarked, overlaps>>
      PROVE  UNCHANGED promiseVars
  BY <1>1, ExcusesStay DEF promiseVars
<1>2. ASSUME NEW c \in Consumers, Connect(c) \/ Stop(c) \/ StreamBreaks(c) \/ Cancel(c)
      PROVE  UNCHANGED promiseVars
  BY <1>1, <1>2 DEF Connect, Stop, StreamBreaks, Cancel
<1>3. ASSUME NEW c \in Consumers, NEW S \in SUBSET Deliveries, Receive(c, S) PROVE UNCHANGED promiseVars
  BY <1>1, <1>3 DEF Receive
<1>4. ASSUME NEW d \in Deliveries,
             HandlerReturned(d) \/ TimedOut(d) \/ CheckFails(d) \/ HandlerFails(d) \/ Claim(d)
      PROVE  UNCHANGED promiseVars
  BY <1>1, <1>4 DEF HandlerReturned, TimedOut, Return, CheckFails, HandlerFails, Claim
<1>5. ASSUME NEW c \in Consumers, SendResults(c) PROVE Promise!Next
  <2> DEFINE some == {MessageOf[d] : d \in {e \in batch[c] : result[e] = "ok"}}
  <2>1. some \in SUBSET Messages
    BY <1>0 DEF TypeOK
  <2>2. \A m \in some : effects[m] > 0 \/ m \in invalid
    BY <1>0 DEF EffectsInv, SdkInv, DoneInv, Done, TypeOK
  <2>3. answered' = answered \union some /\ UNCHANGED <<inboxMode, invalid, effects, inbox, unmarked, overlaps>>
    BY <1>5 DEF SendResults
  <2> HIDE DEF some
  <2>4. Promise!Tell(some)
    BY <2>2, <2>3, ExcusesStay DEF Promise!Tell
  <2> QED
    BY <2>1, <2>4 DEF Promise!Next
<1>6. ASSUME NEW c \in Consumers, Crash(c) PROVE Promise!Next
  <2>1. ASSUME NEW m \in Messages PROVE unmarked'[m] >= unmarked[m]
    <3> DEFINE K == {d \in running[c] : step[d] = "mark" /\ MessageOf[d] = m}
    <3>1. K \in SUBSET Deliveries
      BY <1>0 DEF TypeOK
    <3>2. Cardinality(K) \in Nat
      BY <3>1, SdkAssumption, FS_Subset, FS_CardinalityType
    <3>3. unmarked'[m] = unmarked[m] + Cardinality(K) /\ unmarked[m] \in Nat
      BY <1>0, <1>6 DEF Crash, TypeOK
    <3> QED
      BY <3>2, <3>3
  <2>2. UNCHANGED <<inboxMode, invalid, effects, inbox, answered, overlaps>>
    BY <1>6 DEF Crash
  <2>3. \A m \in Messages : overlaps'[m] >= overlaps[m]
    BY <1>0, <2>2 DEF TypeOK
  <2> QED
    BY <1>0, <2>1, <2>2, <2>3, ExcusesGrow DEF Promise!Next
<1>7. ASSUME NEW d \in Deliveries, Check(d) PROVE Promise!Next
  <2>1. UNCHANGED <<inboxMode, invalid, effects, inbox, answered, unmarked>>
    BY <1>7 DEF Check
  <2>2. overlaps' = overlaps \/ overlaps' = AddOne(overlaps, MessageOf[d])
    BY <1>7 DEF Check
  <2>3. \A m \in Messages : unmarked'[m] >= unmarked[m] /\ overlaps'[m] >= overlaps[m]
    BY <1>0, <2>1, <2>2 DEF TypeOK, AddOne
  <2> QED
    BY <1>0, <2>1, <2>3, ExcusesGrow DEF Promise!Next
<1>8. ASSUME NEW d \in Deliveries, Effect(d) PROVE Promise!Next
  BY <1>8, EffectKeepsPromise DEF Promise!Next
<1>9. ASSUME NEW d \in Deliveries, Mark(d) PROVE Promise!Next
  BY <1>9, MarkKeepsPromise DEF Promise!Next
<1>10. ASSUME NEW d \in Deliveries, CommitTx(d) PROVE Promise!Next
  BY <1>10, CommitKeepsPromise DEF Promise!Next
<1>11. CASE UNCHANGED vars
  BY <1>1, <1>11 DEF vars
<1> QED
  BY <1>2, <1>3, <1>4, <1>5, <1>6, <1>7, <1>8, <1>9, <1>10, <1>11 DEF Next, Loop, Handler

LEMMA InitPromise == Init => Promise!Init
BY DEF Init, Promise!Init, Excuses

\* The consumers implement MessageEffects for any number of them, of deliveries and of faults: in
\* the Transactional mode effect and mark come together and once, in the OnlyOnce mode an effect
\* is repeated only with an excuse, and ok is answered only for what is done (processWithInbox,
\* processMessage, inbox.Guard).
THEOREM ConsumersKeepThePromise == Spec => ImplementsEffects
<1>1. EffectsInv /\ EffectsInv' /\ [Next]_vars =>
        [Promise!Next]_(<<inboxMode, invalid, effects, inbox, answered, Excuses>>)
  BY StepKeepsPromise DEF promiseVars
<1> QED
  BY <1>1, InitPromise, EffectsInductive, PTL DEF Spec, ImplementsEffects, Promise!Spec, Promise!vars

=============================================================================
