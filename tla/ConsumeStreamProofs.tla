------------------------- MODULE ConsumeStreamProofs -------------------------
(***************************************************************************)
(* Theorems of ConsumeStream for streams of any length and any client, and *)
(* the refinement of BatchExchange.                                        *)
(*                                                                         *)
(* With batch ids an answer names its batch.  Without them the stream has  *)
(* to be in step: whatever is under way is about the batch that is out,    *)
(* until a batch is lost, after which nothing is accepted any more.        *)
(***************************************************************************)
EXTENDS ConsumeStream, SequenceTheorems, TLAPS

Phases == {"off", "idle", "fetch", "ready", "wait", "handle", "broken", "closing", "stopped"}

\* The types the proofs need.
Typed ==
  /\ h \in {"accept", "greet", "serve", "finish", "done"}
  /\ status \in {"none", "ok", "error"}
  /\ errCh \in {"empty", "nil", "error"} /\ abortCh \in {"empty", "reason"}
  /\ pc \in [Writers -> Phases] /\ pc[Repeater] \in {"idle", "ready", "wait"}
  /\ batch \in [Writers -> Nat] /\ got \in [Writers -> Nat] /\ armed \in [Writers -> BOOLEAN]
  /\ seq \in Nat /\ reader \in {"none", "open", "closed"}
  /\ done \in BOOLEAN /\ limited \in BOOLEAN /\ legacy \in BOOLEAN
  /\ closed \in BOOLEAN /\ gone \in BOOLEAN /\ lost \in BOOLEAN
  /\ asked \subseteq Nat /\ given \subseteq Nat
  /\ up \in Seq([id : Nat, about : Nat])

\* Nothing has happened on the stream before it is served.
EarlyInv ==
  /\ h \in {"accept", "greet"} =>
       /\ reader = "none" /\ pc[Repeater] = "idle"
       /\ alarms = {} /\ asked = {} /\ given = {} /\ up = <<>>
       /\ ~lost
       /\ done => gone
  /\ reader = "none" => pc[Loop] = "off"

\* The batch that is out is the last one that was numbered.
TurnInv ==
  \A w \in Writers :
    /\ batch[w] <= seq
    /\ pc[w] = "wait" => batch[w] = seq /\ \A v \in Writers \ {w} : pc[v] # "wait" /\ batch[v] < seq

\* Answers are about batches that were numbered, and name them if the client knows ids.
AnswerInv ==
  /\ 0 \notin asked /\ 0 \notin given
  /\ \A i \in 1 .. Len(up) :
       up[i].about # 0 /\ up[i].id = IF legacy THEN NoId ELSE up[i].about

\* Without batch ids: question and answer are in step.
StepInv ==
  legacy /\ ~lost =>
    \/ Unlocked /\ asked = {} /\ up = <<>>
    \/ \E w \in Writers : pc[w] = "wait" /\ asked = {batch[w]} /\ up = <<>>
    \/ \E w \in Writers : pc[w] = "wait" /\ asked = {} /\ Len(up) = 1 /\ up[1].about = batch[w]

\* After a batch was lost nothing can be accepted.
DeadInv ==
  lost => \/ closed /\ up = <<>>
          \/ (h = "done" \/ gone) /\ Unlocked

\* An RPC that was serving is cancelled for a reason, and the reason reaches the status.
Reason == gone \/ abortCh = "reason" \/ errCh = "error"
TellInv ==
  /\ h \in {"serve", "finish"} /\ done => Reason
  /\ pc[Loop] = "closing" => errCh = "error" \/ done
  /\ pc[Loop] \notin {"closing", "stopped"} => errCh = "empty"
  /\ h = "finish" => gone \/ abortCh = "reason" \/ status = "error"

IInv ==
  /\ Typed /\ EarlyInv /\ TurnInv /\ AnswerInv /\ StepInv /\ DeadInv /\ TellInv
  /\ AnswersMatch /\ WaitIsGuarded /\ ClientIsTold

-----------------------------------------------------------------------------
(* The steps, by who takes them.                                           *)

\* What a writer does with the stream.
Exchanges == \E w \in Writers : Send(w) \/ SendFails(w) \/ Recv(w)

Watchdogs == (\E w \in Writers : WatchdogExpires(w)) \/ (\E b \in alarms : Abort(b))

Answers == (\E b \in asked : ClientAnswers(b)) \/ (\E b \in given : ClientRepeats(b))

Leaves == ClientCloses \/ ClientLeaves \/ DeadlinePasses

LEMMA Actors ==
  ASSUME Next
  PROVE  HandlerNext \/ LoopNext \/ RepeaterFinds \/ Exchanges \/ Watchdogs \/ Answers \/ Leaves
BY DEF Next, Exchanges, Watchdogs, Answers, Leaves

LEMMA InitInv == Init => IInv
<1> SUFFICES ASSUME Init PROVE IInv
  OBVIOUS
<1> USE WritersAssumption DEF Init
<1>1. Typed
  <2>1. up \in Seq([id : Nat, about : Nat])
    OBVIOUS
  <2>2. pc \in [Writers -> Phases] /\ pc[Repeater] \in {"idle", "ready", "wait"}
    BY DEF Writers, Phases
  <2> QED
    BY <2>1, <2>2 DEF Typed
<1>2. EarlyInv /\ DeadInv /\ TellInv
  BY DEF EarlyInv, DeadInv, TellInv, Writers
<1>3. TurnInv /\ AnswerInv /\ AnswersMatch /\ WaitIsGuarded /\ ClientIsTold
  BY DEF TurnInv, AnswerInv, AnswersMatch, WaitIsGuarded, ClientIsTold, Writers
<1>4. StepInv
  BY DEF StepInv, Unlocked, Writers
<1> QED
  BY <1>1, <1>2, <1>3, <1>4 DEF IInv

-----------------------------------------------------------------------------
(* Types.                                                                  *)

LEMMA HeadTail ==
  ASSUME NEW S, NEW q \in Seq(S), q # <<>>
  PROVE  Head(q) \in S /\ Tail(q) \in Seq(S)
OBVIOUS

LEMMA AppendOne ==
  ASSUME NEW S, NEW q \in Seq(S), NEW e \in S
  PROVE  Append(q, e) \in Seq(S)
OBVIOUS

LEMMA TypedKept == ASSUME Typed, Next PROVE Typed'
<1> USE WritersAssumption DEF Typed, Writers, Phases
<1>1. CASE HandlerNext
  <2>1. CASE \E lim, leg \in BOOLEAN : RecvConnect(lim, leg)
    BY <2>1 DEF RecvConnect, writerVars, watchVars, clientVars
  <2>2. CASE \E s \in {"ok", "error"} : RejectConnect(s)
    BY <2>2 DEF RejectConnect, writerVars, watchVars, clientVars, connectVars
  <2>3. CASE StartConsumer
    BY <2>3 DEF StartConsumer, watchVars, clientVars, connectVars
  <2>4. CASE CreateConsumerFails
    BY <2>4 DEF CreateConsumerFails, writerVars, watchVars, clientVars, connectVars
  <2>5. CASE GreetFails
    BY <2>5 DEF GreetFails, watchVars, clientVars, connectVars
  <2>6. CASE Wake
    BY <2>6 DEF Wake, writerVars, watchVars, clientVars, connectVars
  <2>7. CASE Return
    BY <2>7 DEF Return, writerVars, watchVars, clientVars, connectVars
  <2> QED
    BY <1>1, <2>1, <2>2, <2>3, <2>4, <2>5, <2>6, <2>7 DEF HandlerNext
<1>2. CASE LoopNext \/ RepeaterFinds
  <2>1. CASE LoopFetch
    BY <2>1 DEF LoopFetch, rpcVars, watchVars, clientVars, connectVars
  <2>2. CASE RepeaterFinds
    BY <2>2 DEF RepeaterFinds, rpcVars, watchVars, clientVars, connectVars
  <2>3. CASE LoopCommits
    BY <2>3 DEF LoopCommits, rpcVars, watchVars, clientVars, connectVars
  <2>4. CASE LoopBreaks
    BY <2>4 DEF LoopBreaks, rpcVars, watchVars, clientVars, connectVars
  <2>5. CASE LoopCancelled
    BY <2>5 DEF LoopCancelled, LoopReturns, watchVars, clientVars, connectVars
  <2>6. CASE LoopHandlerFails
    BY <2>6 DEF LoopHandlerFails, LoopReturns, watchVars, clientVars, connectVars
  <2>7. CASE LoopReconnects
    BY <2>7 DEF LoopReconnects, rpcVars, watchVars, clientVars, connectVars
  <2>8. CASE LoopReconnectFails
    <3>1. CASE done
      BY <2>8, <3>1 DEF LoopReconnectFails, LoopReturns, watchVars, clientVars, connectVars
    <3>2. CASE ~done
      <4>1. /\ reader' = "closed"
            /\ UNCHANGED <<rpcVars, pc, batch, got, seq, lost, watchVars, clientVars, connectVars>>
        BY <2>8, <3>2 DEF LoopReconnectFails
      <4> QED
        BY <4>1 DEF rpcVars, watchVars, clientVars, connectVars
    <3> QED
      BY <3>1, <3>2
  <2>9. CASE LoopCloses
    BY <2>9 DEF LoopCloses, watchVars, clientVars, connectVars
  <2> QED
    BY <1>2, <2>1, <2>2, <2>3, <2>4, <2>5, <2>6, <2>7, <2>8, <2>9 DEF LoopNext
<1>3. CASE Exchanges
  <2>1. PICK w \in Writers : Send(w) \/ SendFails(w) \/ DiscardForeign(w) \/ RecvResult(w) \/ RecvFails(w)
    BY <1>3 DEF Exchanges, Recv
  <2>2. CASE Send(w)
    BY <2>2 DEF Send, rpcVars, connectVars
  <2>3. CASE SendFails(w)
    BY <2>3 DEF SendFails, GiveUp, watchVars, clientVars, connectVars
  <2>4. CASE RecvFails(w)
    BY <2>4 DEF RecvFails, GiveUp, clientVars, connectVars
  <2>5. CASE DiscardForeign(w)
    <3>1. Tail(up) \in Seq([id : Nat, about : Nat])
      BY <2>5, HeadTail DEF DiscardForeign
    <3> QED
      BY <2>5, <3>1 DEF DiscardForeign, rpcVars, writerVars, watchVars, connectVars
  <2>6. CASE RecvResult(w)
    <3>1. Head(up) \in [id : Nat, about : Nat] /\ Tail(up) \in Seq([id : Nat, about : Nat])
      BY <2>6, HeadTail DEF RecvResult
    <3>2. got' \in [Writers -> Nat]
      BY <2>6, <3>1 DEF RecvResult
    <3> QED
      BY <2>6, <3>1, <3>2 DEF RecvResult, rpcVars, connectVars
  <2> QED
    BY <2>1, <2>2, <2>3, <2>4, <2>5, <2>6
<1>4. CASE Watchdogs
  <2>1. CASE \E w \in Writers : WatchdogExpires(w)
    BY <2>1 DEF WatchdogExpires, rpcVars, writerVars, clientVars, connectVars
  <2>2. CASE \E b \in alarms : Abort(b)
    BY <2>2 DEF Abort, writerVars, clientVars, connectVars
  <2> QED
    BY <1>4, <2>1, <2>2 DEF Watchdogs
<1>5. CASE Answers
  <2>1. PICK b \in asked \cup given : ClientAnswers(b) \/ ClientRepeats(b)
    BY <1>5 DEF Answers
  <2>2. Result(b) \in [id : Nat, about : Nat] /\ b \in Nat
    BY DEF Result, NoId
  <2>3. up' \in Seq([id : Nat, about : Nat])
    <3>1. Append(up, Result(b)) \in Seq([id : Nat, about : Nat])
      BY <2>2, AppendOne
    <3> QED
      BY <2>1, <3>1 DEF ClientAnswers, ClientRepeats
  <2>4. CASE ClientAnswers(b)
    BY <2>2, <2>3, <2>4 DEF ClientAnswers, rpcVars, writerVars, watchVars, connectVars
  <2>5. CASE ClientRepeats(b)
    BY <2>3, <2>5 DEF ClientRepeats, rpcVars, writerVars, watchVars, connectVars
  <2> QED
    BY <2>1, <2>4, <2>5
<1>6. CASE Leaves
  <2>1. CASE ClientCloses
    BY <2>1 DEF ClientCloses, rpcVars, writerVars, watchVars, connectVars
  <2>2. CASE ClientLeaves
    BY <2>2 DEF ClientLeaves, rpcVars, writerVars, watchVars, connectVars
  <2>3. CASE DeadlinePasses
    BY <2>3 DEF DeadlinePasses, rpcVars, writerVars, watchVars
  <2> QED
    BY <1>6, <2>1, <2>2, <2>3 DEF Leaves
<1> QED
  BY <1>1, <1>2, <1>3, <1>4, <1>5, <1>6, Actors

-----------------------------------------------------------------------------
(* How the RPC ends.                                                       *)

Told == EarlyInv /\ TellInv /\ ClientIsTold

LEMMA TellKept == ASSUME Typed, Told, Next PROVE Told'
<1> USE WritersAssumption DEF Typed, Told, EarlyInv, TellInv, ClientIsTold, Reason, Writers
<1>1. CASE HandlerNext
  <2>1. CASE \E lim, leg \in BOOLEAN : RecvConnect(lim, leg)
    BY <2>1 DEF RecvConnect, writerVars, watchVars, clientVars
  <2>2. CASE \E s \in {"ok", "error"} : RejectConnect(s)
    BY <2>2 DEF RejectConnect, writerVars, watchVars, clientVars, connectVars
  <2>3. CASE StartConsumer
    BY <2>3 DEF StartConsumer, watchVars, clientVars, connectVars
  <2>4. CASE CreateConsumerFails
    BY <2>4 DEF CreateConsumerFails, writerVars, watchVars, clientVars, connectVars
  <2>5. CASE GreetFails
    BY <2>5 DEF GreetFails, watchVars, clientVars, connectVars
  <2>6. CASE Wake
    BY <2>6 DEF Wake, writerVars, watchVars, clientVars, connectVars
  <2>7. CASE Return
    BY <2>7 DEF Return, writerVars, watchVars, clientVars, connectVars
  <2> QED
    BY <1>1, <2>1, <2>2, <2>3, <2>4, <2>5, <2>6, <2>7 DEF HandlerNext
<1>2. CASE LoopNext \/ RepeaterFinds
  <2>1. CASE LoopFetch
    BY <2>1 DEF LoopFetch, rpcVars, watchVars, clientVars, connectVars
  <2>2. CASE RepeaterFinds
    BY <2>2 DEF RepeaterFinds, rpcVars, watchVars, clientVars, connectVars
  <2>3. CASE LoopCommits
    BY <2>3 DEF LoopCommits, rpcVars, watchVars, clientVars, connectVars
  <2>4. CASE LoopBreaks
    BY <2>4 DEF LoopBreaks, rpcVars, watchVars, clientVars, connectVars
  <2>5. CASE LoopCancelled
    BY <2>5 DEF LoopCancelled, LoopReturns, watchVars, clientVars, connectVars
  <2>6. CASE LoopHandlerFails
    BY <2>6 DEF LoopHandlerFails, LoopReturns, watchVars, clientVars, connectVars
  <2>7. CASE LoopReconnects
    BY <2>7 DEF LoopReconnects, rpcVars, watchVars, clientVars, connectVars
  <2>8. CASE LoopReconnectFails
    <3>1. CASE done
      BY <2>8, <3>1 DEF LoopReconnectFails, LoopReturns, watchVars, clientVars, connectVars
    <3>2. CASE ~done
      <4>1. /\ reader' = "closed" /\ pc[Loop] = "broken"
            /\ UNCHANGED <<rpcVars, pc, batch, got, seq, lost, watchVars, clientVars, connectVars>>
        BY <2>8, <3>2 DEF LoopReconnectFails
      <4> QED
        BY <4>1 DEF rpcVars, watchVars, clientVars, connectVars
    <3> QED
      BY <3>1, <3>2
  <2>9. CASE LoopCloses
    BY <2>9 DEF LoopCloses, watchVars, clientVars, connectVars
  <2> QED
    BY <1>2, <2>1, <2>2, <2>3, <2>4, <2>5, <2>6, <2>7, <2>8, <2>9 DEF LoopNext
<1>3. CASE Exchanges
  <2>1. PICK w \in Writers : Send(w) \/ SendFails(w) \/ DiscardForeign(w) \/ RecvResult(w) \/ RecvFails(w)
    BY <1>3 DEF Exchanges, Recv
  <2>2. CASE Send(w)
    BY <2>2 DEF Send, rpcVars, connectVars
  <2>3. CASE SendFails(w)
    BY <2>3 DEF SendFails, GiveUp, watchVars, clientVars, connectVars
  <2>4. CASE RecvFails(w)
    BY <2>4 DEF RecvFails, GiveUp, clientVars, connectVars
  <2>5. CASE DiscardForeign(w)
    BY <2>5 DEF DiscardForeign, rpcVars, writerVars, watchVars, connectVars
  <2>6. CASE RecvResult(w)
    BY <2>6 DEF RecvResult, rpcVars, connectVars
  <2> QED
    BY <2>1, <2>2, <2>3, <2>4, <2>5, <2>6
<1>4. CASE Watchdogs
  <2>1. CASE \E w \in Writers : WatchdogExpires(w)
    BY <2>1 DEF WatchdogExpires, rpcVars, writerVars, clientVars, connectVars
  <2>2. CASE \E b \in alarms : Abort(b)
    BY <2>2 DEF Abort, writerVars, clientVars, connectVars
  <2> QED
    BY <1>4, <2>1, <2>2 DEF Watchdogs
<1>5. CASE Answers
  BY <1>5 DEF Answers, ClientAnswers, ClientRepeats, rpcVars, writerVars, watchVars, connectVars
<1>6. CASE Leaves
  <2>1. CASE ClientCloses
    BY <2>1 DEF ClientCloses, rpcVars, writerVars, watchVars, connectVars
  <2>2. CASE ClientLeaves
    BY <2>2 DEF ClientLeaves, rpcVars, writerVars, watchVars, connectVars
  <2>3. CASE DeadlinePasses
    BY <2>3 DEF DeadlinePasses, rpcVars, writerVars, watchVars
  <2> QED
    BY <1>6, <2>1, <2>2, <2>3 DEF Leaves
<1> QED
  BY <1>1, <1>2, <1>3, <1>4, <1>5, <1>6, Actors

-----------------------------------------------------------------------------
(* The exchange: what is asked, under way and accepted.                    *)

\* The handler, the loop and the repeat job outside an exchange leave the exchange alone.
LEMMA BystandersKeep ==
  ASSUME Typed, EarlyInv, HandlerNext \/ LoopNext \/ RepeaterFinds
  PROVE  /\ \A w \in Writers : pc'[w] = "wait" <=> pc[w] = "wait"
         /\ UNCHANGED <<batch, got, seq, lost, watchVars, clientVars>>
         /\ h = "done" => h' = "done"
         /\ done => done'
         /\ UNCHANGED connectVars \/ (Unlocked /\ up = <<>> /\ asked = {} /\ ~lost)
<1> USE WritersAssumption DEF Typed, Writers
<1>1. CASE HandlerNext
  <2>1. CASE \E lim, leg \in BOOLEAN : RecvConnect(lim, leg)
    BY <2>1 DEF RecvConnect, writerVars, watchVars, clientVars, EarlyInv, Unlocked
  <2>2. CASE \E s \in {"ok", "error"} : RejectConnect(s)
    BY <2>2 DEF RejectConnect, writerVars
  <2>3. CASE StartConsumer
    BY <2>3 DEF StartConsumer, EarlyInv
  <2>4. CASE CreateConsumerFails
    BY <2>4 DEF CreateConsumerFails, writerVars
  <2>5. CASE GreetFails
    BY <2>5 DEF GreetFails
  <2>6. CASE Wake
    BY <2>6 DEF Wake, writerVars
  <2>7. CASE Return
    BY <2>7 DEF Return, writerVars
  <2> QED
    BY <1>1, <2>1, <2>2, <2>3, <2>4, <2>5, <2>6, <2>7 DEF HandlerNext
<1>2. CASE LoopNext \/ RepeaterFinds
  <2>1. CASE LoopFetch
    BY <2>1 DEF LoopFetch, rpcVars
  <2>2. CASE LoopCancelled
    BY <2>2 DEF LoopCancelled, LoopReturns
  <2>3. CASE LoopReconnects
    BY <2>3 DEF LoopReconnects, rpcVars
  <2>4. CASE LoopReconnectFails
    BY <2>4 DEF LoopReconnectFails, LoopReturns, rpcVars
  <2>5. CASE LoopCloses
    BY <2>5 DEF LoopCloses
  <2>6. CASE LoopCommits
    BY <2>6 DEF LoopCommits, rpcVars
  <2>7. CASE LoopBreaks
    BY <2>7 DEF LoopBreaks, rpcVars
  <2>8. CASE RepeaterFinds
    BY <2>8 DEF RepeaterFinds, rpcVars
  <2>9. CASE LoopHandlerFails
    BY <2>9 DEF LoopHandlerFails, LoopReturns
  <2> QED
    BY <1>2, <2>1, <2>2, <2>3, <2>4, <2>5, <2>6, <2>7, <2>8, <2>9 DEF LoopNext
<1> QED
  BY <1>1, <1>2

\* What one writer, the watchdog or the client does in an exchange.
Exchanged == TurnInv /\ AnswerInv /\ StepInv /\ DeadInv /\ AnswersMatch /\ WaitIsGuarded

LEMMA ExchangedByBystanders ==
  ASSUME Typed, EarlyInv, Exchanged, HandlerNext \/ LoopNext \/ RepeaterFinds
  PROVE  Exchanged'
<1> USE BystandersKeep DEF Exchanged, watchVars, clientVars, connectVars
<1>1. TurnInv' /\ AnswersMatch'
  BY DEF TurnInv, AnswersMatch
<1>2. AnswerInv'
  BY DEF AnswerInv
<1>3. StepInv'
  BY DEF StepInv, Unlocked
<1>4. DeadInv'
  BY DEF DeadInv, Unlocked
<1>5. WaitIsGuarded'
  BY DEF WaitIsGuarded, Unlocked
<1> QED
  BY <1>1, <1>2, <1>3, <1>4, <1>5

LEMMA ExchangedByWatchdogs ==
  ASSUME Typed, Exchanged, Watchdogs
  PROVE  Exchanged'
<1> USE DEF Exchanged
<1>1. UNCHANGED <<pc, batch, got, seq, lost, h, clientVars, connectVars>>
  BY DEF Watchdogs, WatchdogExpires, Abort, rpcVars, writerVars
<1>2. TurnInv' /\ AnswersMatch'
  BY <1>1 DEF TurnInv, AnswersMatch
<1>3. AnswerInv' /\ StepInv' /\ DeadInv'
  BY <1>1 DEF AnswerInv, StepInv, DeadInv, Unlocked, clientVars, connectVars
<1>4. WaitIsGuarded'
  <2>1. CASE \E w \in Writers : WatchdogExpires(w)
    BY <2>1 DEF Typed, WatchdogExpires, WaitIsGuarded, rpcVars, writerVars, connectVars
  <2>2. CASE \E b \in alarms : Abort(b)
    BY <2>2 DEF Abort, WaitIsGuarded, writerVars, connectVars
  <2> QED
    BY <2>1, <2>2 DEF Watchdogs
<1> QED
  BY <1>2, <1>3, <1>4

LEMMA TailItems ==
  ASSUME NEW S, NEW q \in Seq(S), q # <<>>
  PROVE  /\ Head(q) = q[1] /\ 1 \in 1 .. Len(q) /\ Len(Tail(q)) = Len(q) - 1
         /\ \A i \in 1 .. Len(Tail(q)) : i + 1 \in 1 .. Len(q) /\ Tail(q)[i] = q[i + 1]
OBVIOUS

LEMMA NothingAfterOne ==
  ASSUME NEW S, NEW q \in Seq(S), Len(q) = 1
  PROVE  Tail(q) = <<>>
<1>1. q # <<>>
  OBVIOUS
<1>2. Tail(q) \in Seq(S) /\ Len(Tail(q)) = 0
  BY <1>1
<1> QED
  BY <1>2, EmptySeq

LEMMA AppendItems ==
  ASSUME NEW S, NEW q \in Seq(S), NEW e \in S
  PROVE  /\ Len(Append(q, e)) = Len(q) + 1
         /\ \A i \in 1 .. Len(Append(q, e)) :
              Append(q, e)[i] = IF i = Len(q) + 1 THEN e ELSE q[i]
OBVIOUS

LEMMA ExchangedBySend ==
  ASSUME Typed, Exchanged, NEW w \in Writers, Send(w)
  PROVE  Exchanged'
<1> USE DEF Exchanged, Send
<1>1. TurnInv'
  BY DEF TurnInv, Typed, Unlocked
<1>2. AnswerInv'
  BY DEF AnswerInv, Typed, connectVars
<1>3. StepInv'
  BY DEF StepInv, Typed, Unlocked, connectVars
<1>4. DeadInv'
  BY DEF DeadInv, Unlocked, rpcVars
<1>5. AnswersMatch' /\ WaitIsGuarded'
  BY DEF AnswersMatch, WaitIsGuarded, Typed, Unlocked, connectVars
<1> QED
  BY <1>1, <1>2, <1>3, <1>4, <1>5

\* A writer that fails to send, or to receive, leaves its question open.
LEMMA ExchangedByFailure ==
  ASSUME Typed, Exchanged, NEW w \in Writers, SendFails(w) \/ RecvFails(w)
  PROVE  Exchanged'
<1> USE DEF Exchanged
<1>1. CASE SendFails(w)
  <2> USE <1>1 DEF SendFails, GiveUp
  <2>1. \A v \in Writers : pc'[v] # "wait"
    BY DEF Typed, Unlocked
  <2>2. TurnInv' /\ AnswersMatch' /\ WaitIsGuarded'
    BY <2>1 DEF TurnInv, AnswersMatch, WaitIsGuarded, Typed
  <2>3. AnswerInv' /\ DeadInv'
    BY <2>1 DEF AnswerInv, DeadInv, Unlocked, clientVars, connectVars
  <2>4. StepInv'
    BY <2>1 DEF StepInv, Unlocked, clientVars, connectVars
  <2> QED
    BY <2>2, <2>3, <2>4
<1>2. CASE RecvFails(w)
  <2> USE <1>2 DEF RecvFails, GiveUp
  <2>1. \A v \in Writers : pc'[v] # "wait"
    BY DEF Typed, TurnInv
  <2>2. TurnInv' /\ AnswersMatch' /\ WaitIsGuarded'
    BY <2>1 DEF TurnInv, AnswersMatch, WaitIsGuarded, Typed
  <2>3. AnswerInv' /\ StepInv' /\ DeadInv'
    BY <2>1 DEF AnswerInv, StepInv, DeadInv, Unlocked, clientVars, connectVars
  <2> QED
    BY <2>2, <2>3
<1> QED
  BY <1>1, <1>2

\* An accepted answer is about the batch that is out.
LEMMA AnswerIsMine ==
  ASSUME Typed, Exchanged, NEW w \in Writers, pc[w] = "wait", up # <<>>,
         Head(up).id \in {NoId, batch[w]}
  PROVE  Head(up).about = batch[w] /\ ~lost
<1>1. ~lost
  BY DEF Exchanged, DeadInv, Unlocked
<1>2. Head(up) = up[1] /\ 1 \in 1 .. Len(up)
  BY TailItems DEF Typed
<1>3. CASE legacy
  BY <1>1, <1>2, <1>3 DEF Exchanged, StepInv, TurnInv, Unlocked
<1>4. CASE ~legacy
  <2>1. up[1].about # 0 /\ up[1].id = up[1].about
    BY <1>2, <1>4 DEF Exchanged, AnswerInv
  <2>2. up[1].id \in {0, batch[w]}
    BY <1>2 DEF NoId
  <2> QED
    BY <1>1, <1>2, <2>1, <2>2
<1> QED
  BY <1>1, <1>3, <1>4

LEMMA AnswersShrink ==
  ASSUME Typed, AnswerInv, up # <<>>, up' = Tail(up), UNCHANGED <<asked, given, legacy>>
  PROVE  AnswerInv'
BY TailItems DEF AnswerInv, Typed

LEMMA ExchangedByRecv ==
  ASSUME Typed, Exchanged, NEW w \in Writers, DiscardForeign(w) \/ RecvResult(w)
  PROVE  Exchanged'
<1>1. CASE DiscardForeign(w)
  <2> USE <1>1 DEF Exchanged, DiscardForeign
  <2>1. UNCHANGED <<pc, batch, got, seq, lost, h, done, gone, closed, asked, given, armed, alarms,
                    limited, legacy>>
    BY DEF rpcVars, writerVars, watchVars, connectVars
  <2>2. TurnInv' /\ AnswersMatch' /\ WaitIsGuarded'
    BY <2>1 DEF TurnInv, AnswersMatch, WaitIsGuarded
  <2>3. AnswerInv'
    BY <2>1, AnswersShrink
  <2>4. ~lost
    BY DEF DeadInv, Unlocked
  <2>5. ~legacy
    <3>1. Head(up) = up[1] /\ 1 \in 1 .. Len(up)
      BY TailItems DEF Typed
    <3>2. legacy => up[1].id = NoId
      BY <3>1 DEF AnswerInv
    <3> QED
      BY <3>1, <3>2
  <2> QED
    BY <2>1, <2>2, <2>3, <2>4, <2>5 DEF StepInv, DeadInv
<1>2. CASE RecvResult(w)
  <2> USE <1>2 DEF Exchanged, RecvResult
  <2>1. Head(up).about = batch[w] /\ ~lost
    BY AnswerIsMine
  <2>2. \A v \in Writers : pc'[v] # "wait"
    BY DEF Typed, TurnInv
  <2>3. TurnInv' /\ AnswersMatch' /\ WaitIsGuarded'
    BY <2>1, <2>2 DEF TurnInv, AnswersMatch, WaitIsGuarded, Typed
  <2>4. AnswerInv'
    BY AnswersShrink DEF connectVars
  <2>5. StepInv'
    <3>1. ASSUME legacy PROVE asked = {} /\ Tail(up) = <<>>
      <4>1. asked = {} /\ Len(up) = 1
        BY <2>1, <3>1 DEF StepInv, Unlocked
      <4>2. up \in Seq([id : Nat, about : Nat])
        BY DEF Typed
      <4> QED
        BY <4>1, <4>2, NothingAfterOne
    <3> QED
      BY <2>2, <3>1 DEF StepInv, Unlocked, connectVars
  <2>6. DeadInv'
    BY <2>1 DEF DeadInv
  <2> QED
    BY <2>3, <2>4, <2>5, <2>6
<1> QED
  BY <1>1, <1>2

LEMMA ExchangedByAnswers ==
  ASSUME Typed, Exchanged, Answers
  PROVE  Exchanged'
<1>1. PICK b \in asked \cup given : ClientAnswers(b) \/ ClientRepeats(b)
  BY DEF Answers
<1> USE DEF Exchanged
<1>2. UNCHANGED <<pc, batch, got, seq, lost, h, done, gone, closed, armed, alarms, limited, legacy>>
  BY <1>1 DEF ClientAnswers, ClientRepeats, rpcVars, writerVars, watchVars, connectVars
<1>3. up' = Append(up, Result(b)) /\ ~closed /\ ~gone /\ h # "done"
  BY <1>1 DEF ClientAnswers, ClientRepeats
<1>4. Result(b) \in [id : Nat, about : Nat] /\ b # 0
  BY DEF Result, NoId, Typed, AnswerInv
<1>5. TurnInv' /\ AnswersMatch' /\ WaitIsGuarded' /\ DeadInv'
  BY <1>2, <1>3 DEF TurnInv, AnswersMatch, WaitIsGuarded, DeadInv
<1>6. AnswerInv'
  <2>1. 0 \notin asked' /\ 0 \notin given'
    BY <1>1, <1>4 DEF ClientAnswers, ClientRepeats, AnswerInv
  <2>2. \A i \in 1 .. Len(up') : i # Len(up) + 1 => i \in 1 .. Len(up)
    BY <1>3, <1>4, AppendItems DEF Typed
  <2>3. \A i \in 1 .. Len(up') : up'[i] = IF i = Len(up) + 1 THEN Result(b) ELSE up[i]
    BY <1>3, <1>4, AppendItems DEF Typed
  <2> QED
    BY <1>2, <1>4, <2>1, <2>2, <2>3 DEF AnswerInv, Result
<1>7. StepInv'
  <2> SUFFICES ASSUME legacy, ~lost PROVE StepInv'
    BY <1>2 DEF StepInv
  <2>1. ClientAnswers(b) /\ b \in asked
    BY <1>1 DEF ClientAnswers, ClientRepeats
  <2>2. PICK w \in Writers : pc[w] = "wait" /\ asked = {batch[w]} /\ up = <<>>
    BY <2>1 DEF StepInv
  <2>3. asked' = {} /\ b = batch[w]
    BY <2>1, <2>2 DEF ClientAnswers
  <2>4. Len(up') = 1 /\ up'[1] = Result(b)
    BY <1>3, <1>4, <2>2, AppendItems DEF Typed
  <2> QED
    BY <1>2, <2>2, <2>3, <2>4 DEF StepInv, Result
<1> QED
  BY <1>5, <1>6, <1>7

LEMMA ExchangedByLeaving ==
  ASSUME Exchanged, Leaves
  PROVE  Exchanged'
<1>1. UNCHANGED <<pc, batch, got, seq, lost, h, asked, given, up, armed, alarms, limited, legacy>>
  BY DEF Leaves, ClientCloses, ClientLeaves, DeadlinePasses, rpcVars, writerVars, watchVars, connectVars
<1>2. (closed => closed') /\ (gone => gone') /\ (done => done')
  BY DEF Leaves, ClientCloses, ClientLeaves, DeadlinePasses, rpcVars
<1> QED
  BY <1>1, <1>2 DEF Exchanged, TurnInv, AnswerInv, StepInv, DeadInv, AnswersMatch, WaitIsGuarded, Unlocked

-----------------------------------------------------------------------------
(* The theorems.                                                           *)

LEMMA StepKeepsInv == IInv /\ [Next]_vars => IInv'
<1> SUFFICES ASSUME IInv, [Next]_vars PROVE IInv'
  OBVIOUS
<1> USE DEF IInv, Told, Exchanged
<1>1. CASE Next
  <2>1. Typed' /\ Told'
    BY <1>1, TypedKept, TellKept
  <2>2. CASE Exchanges
    <3>1. PICK w \in Writers : Send(w) \/ SendFails(w) \/ DiscardForeign(w) \/ RecvResult(w) \/ RecvFails(w)
      BY <2>2 DEF Exchanges, Recv
    <3> QED
      BY <2>1, <3>1, ExchangedBySend, ExchangedByFailure, ExchangedByRecv
  <2> QED
    BY <1>1, <2>1, <2>2, Actors, ExchangedByBystanders, ExchangedByWatchdogs, ExchangedByAnswers,
       ExchangedByLeaving
<1>2. CASE UNCHANGED vars
  <2> USE <1>2 DEF vars, rpcVars, writerVars, watchVars, clientVars, connectVars
  <2>1. Typed'
    BY DEF Typed
  <2>2. Told'
    BY DEF EarlyInv, TellInv, Reason, ClientIsTold
  <2>3. Exchanged'
    BY DEF TurnInv, AnswerInv, StepInv, DeadInv, Unlocked, AnswersMatch, WaitIsGuarded
  <2> QED
    BY <2>1, <2>2, <2>3
<1> QED
  BY <1>1, <1>2

LEMMA AlwaysInv == Spec => []IInv
BY InitInv, StepKeepsInv, PTL DEF Spec

\* stream/stream.go: an answer a writer accepts is the answer to the batch it sent, with and
\* without batch ids, for streams of any length and clients that repeat themselves at will.
THEOREM AnswersAreMatched == Spec => []AnswersMatch
<1>1. IInv => AnswersMatch
  BY DEF IInv
<1> QED
  BY <1>1, AlwaysInv, PTL

\* databus/consume.go: an RPC that was serving ends with OK only if it was the client that left.
THEOREM ClientsAreTold == Spec => []ClientIsTold
<1>1. IInv => ClientIsTold
  BY DEF IInv
<1> QED
  BY <1>1, AlwaysInv, PTL

\* stream/stream.go: one writer waits at a time, and under a budget its watchdog guards it.
THEOREM WaitsAreGuarded == Spec => []WaitIsGuarded
<1>1. IInv => WaitIsGuarded
  BY DEF IInv
<1> QED
  BY <1>1, AlwaysInv, PTL

-----------------------------------------------------------------------------
(* The refinement: Send asks, an accepted result answers, a failed wait    *)
(* loses the batch, and everything else is a stutter of BatchExchange.     *)

LEMMA AskerWaits ==
  ASSUME Typed, TurnInv, NEW w \in Writers, pc[w] = "wait"
  PROVE  Asker = w /\ LastWriter = w
<1>1. Asker = w
  BY DEF TurnInv, Asker
<1>2. LastWriter = w
  BY WritersAssumption DEF Typed, TurnInv, LastWriter, Writers
<1> QED
  BY <1>1, <1>2

LEMMA NobodyWaits ==
  ASSUME Unlocked
  PROVE  Asker = Nobody
BY DEF Unlocked, Asker

LEMMA InitMaps == Init => Exchange!Init
BY WritersAssumption DEF Init, Exchange!Init, Asker, LastWriter, Writers

\* What a step leaves alone is what BatchExchange sees.
LEMMA Stutters ==
  ASSUME UNCHANGED <<batch, got, lost>>, \A w \in Writers : pc'[w] = "wait" <=> pc[w] = "wait"
  PROVE  UNCHANGED Exchange!vars
BY DEF Exchange!vars, Asker, LastWriter, Writers

LEMMA SendAsks ==
  ASSUME Typed, TurnInv, Typed', TurnInv', NEW w \in Writers, Send(w)
  PROVE  Exchange!Ask(w)
<1>1. Asker = Nobody
  BY NobodyWaits DEF Send
<1>2. Asker' = w /\ LastWriter' = w
  BY WritersAssumption DEF Send, Typed, TurnInv, Asker, LastWriter, Writers
<1> QED
  BY <1>1, <1>2, WritersAssumption DEF Exchange!Ask, Send, Typed, TurnInv, LastWriter, Writers

LEMMA ResultAnswers ==
  ASSUME IInv, NEW w \in Writers, RecvResult(w)
  PROVE  Exchange!Answer
<1>1. Asker = w /\ LastWriter = w
  BY AskerWaits DEF IInv, RecvResult
<1>2. Head(up).about = batch[w] /\ ~lost
  BY AnswerIsMine DEF RecvResult, IInv, Exchanged
<1>3. Asker' = Nobody
  <2>1. \A v \in Writers : pc'[v] # "wait"
    BY DEF RecvResult, IInv, Typed, TurnInv
  <2> QED
    BY <2>1 DEF Asker
<1>4. LastWriter' = w /\ got'[w] = batch[w]
  BY <1>1, <1>2 DEF RecvResult, LastWriter, IInv, Typed
<1>5. w # Nobody
  BY WritersAssumption DEF Writers
<1> QED
  BY <1>1, <1>2, <1>3, <1>4, <1>5 DEF Exchange!Answer, RecvResult

LEMMA FailureLoses ==
  ASSUME IInv, NEW w \in Writers, RecvFails(w)
  PROVE  Exchange!Lose
<1>1. Asker = w
  BY AskerWaits DEF IInv, RecvFails
<1>2. Asker' = Nobody
  <2>1. \A v \in Writers : pc'[v] # "wait"
    BY DEF RecvFails, GiveUp, IInv, Typed, TurnInv
  <2> QED
    BY <2>1 DEF Asker
<1>3. UNCHANGED <<LastWriter, batch, got>>
  BY DEF RecvFails, LastWriter
<1>4. w # Nobody
  BY WritersAssumption DEF Writers
<1> QED
  BY <1>1, <1>2, <1>3, <1>4 DEF Exchange!Lose, RecvFails

LEMMA StepMaps == IInv /\ IInv' /\ [Next]_vars => [Exchange!Next]_(Exchange!vars)
<1> SUFFICES ASSUME IInv, IInv', [Next]_vars PROVE [Exchange!Next]_(Exchange!vars)
  OBVIOUS
<1>1. CASE HandlerNext \/ LoopNext \/ RepeaterFinds
  BY <1>1, BystandersKeep, Stutters DEF IInv
<1>2. CASE Exchanges
  <2>1. PICK w \in Writers : Send(w) \/ SendFails(w) \/ DiscardForeign(w) \/ RecvResult(w) \/ RecvFails(w)
    BY <1>2 DEF Exchanges, Recv
  <2>2. CASE Send(w)
    BY <2>2, SendAsks DEF IInv, Exchange!Next
  <2>3. CASE SendFails(w)
    BY <2>3, Stutters DEF SendFails, GiveUp, IInv, Typed
  <2>4. CASE DiscardForeign(w)
    BY <2>4, Stutters DEF DiscardForeign, writerVars
  <2>5. CASE RecvResult(w)
    BY <2>5, ResultAnswers DEF Exchange!Next
  <2>6. CASE RecvFails(w)
    BY <2>6, FailureLoses DEF Exchange!Next
  <2> QED
    BY <2>1, <2>2, <2>3, <2>4, <2>5, <2>6
<1>3. CASE Watchdogs
  BY <1>3, Stutters DEF Watchdogs, WatchdogExpires, Abort, writerVars
<1>4. CASE Answers
  BY <1>4, Stutters DEF Answers, ClientAnswers, ClientRepeats, writerVars
<1>5. CASE Leaves
  BY <1>5, Stutters DEF Leaves, ClientCloses, ClientLeaves, DeadlinePasses, writerVars
<1>6. CASE UNCHANGED vars
  BY <1>6, Stutters DEF vars, writerVars
<1> QED
  BY <1>1, <1>2, <1>3, <1>4, <1>5, <1>6, Actors

\* stream/stream.go implements BatchExchange: one batch at a time, answers that belong to it,
\* and no answer after a batch was lost.
THEOREM StreamExchanges == Spec => ImplementsExchange
BY InitMaps, StepMaps, AlwaysInv, PTL DEF Spec, ImplementsExchange, Exchange!Spec

=============================================================================
