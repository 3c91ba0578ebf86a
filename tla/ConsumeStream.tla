---------------------------- MODULE ConsumeStream ----------------------------
(***************************************************************************)
(* One Consume RPC of the bus, from its first message to its status:       *)
(*   - the gRPC handler (internal/app/grpcapi/consume.go),                 *)
(*   - the goroutine that reads Kafka (databus/consume.go, consumeLoop),   *)
(*   - the repeat job, which sends through the same stream,                *)
(*   - the exchange of a batch and its result, with the watchdog that ends *)
(*     the RPC of a client that does not answer (internal/pkg/stream).     *)
(*                                                                         *)
(* The client is left free: it may answer a batch late, again, or never,   *)
(* close its half of the stream, disconnect, or have given its RPC a       *)
(* deadline that passes.  An old client sends no batch id.  Batch numbers  *)
(* are those of one stream (batchSeq is shared by the process, so a stream *)
(* sees a growing subset of its values).                                   *)
(***************************************************************************)
EXTENDS Naturals, Sequences, FiniteSets

CONSTANTS
  Loop, Repeater,  \* the two writers of the stream
  Nobody,          \* no writer
  MaxBatch,        \* bound: batches of one stream
  MaxExtra,        \* bound: repeated answers of the client
  Deadlines        \* clients may give their RPC a deadline

ASSUME BoundsAssumption == MaxBatch \in Nat /\ MaxExtra \in Nat /\ Deadlines \in BOOLEAN

ASSUME WritersAssumption == Loop # Repeater /\ Nobody \notin {Loop, Repeater}

Writers == {Loop, Repeater}

VARIABLES
  h,        \* where the gRPC handler is
  status,   \* the status the RPC ends with
  done,     \* the handler's context is cancelled
  errCh,    \* errCh of processConsumer
  abortCh,  \* abortErrCh of the gRPC handler
  pc,       \* writer -> what it is doing
  batch,    \* writer -> the batch it sent last
  got,      \* writer -> the batch its accepted answer was about, 0 for none
  armed,    \* writer -> its result watchdog is running
  alarms,   \* batches whose watchdog went off and has not called abort yet
  reader,   \* the Kafka reader of the consumer
  seq,      \* the last batch number handed out
  limited,  \* a budget for the result of a batch is set
  legacy,   \* the client knows no batch ids
  expired,  \* its deadline is what ended the handler's context: DeadlineExceeded, not Canceled
  closed,   \* the client closed its half of the stream
  gone,     \* the client disconnected, or the server is shutting down
  asked,    \* batches the client has not answered
  given,    \* batches it has answered
  extra,    \* repeated answers so far
  up,       \* answers under way to the bus
  lost      \* history: a sent batch ended without its answer

rpcVars == <<h, status, done, errCh, abortCh>>
writerVars == <<pc, batch, got, seq, reader, lost>>
watchVars == <<armed, alarms>>
clientVars == <<closed, gone, asked, given, extra, up>>
connectVars == <<limited, legacy, expired>>

vars == <<rpcVars, writerVars, watchVars, clientVars, connectVars>>

\* Id of an answer that carries none.
NoId == 0

Init ==
  /\ h = "accept" /\ status = "none" /\ done = FALSE
  /\ errCh = "empty" /\ abortCh = "empty"
  /\ pc = [w \in Writers |-> IF w = Loop THEN "off" ELSE "idle"]
  /\ batch = [w \in Writers |-> 0]
  /\ got = [w \in Writers |-> 0]
  /\ armed = [w \in Writers |-> FALSE]
  /\ alarms = {} /\ reader = "none" /\ seq = 0
  /\ limited = FALSE /\ legacy = FALSE /\ expired = FALSE
  /\ closed = FALSE /\ gone = FALSE
  /\ asked = {} /\ given = {} /\ extra = 0 /\ up = <<>>
  /\ lost = FALSE

-----------------------------------------------------------------------------
(* The gRPC handler.                                                       *)

\* The first request carries connect data and, with the configuration, the budget.
RecvConnect(lim, leg) ==
  /\ h = "accept" /\ ~gone /\ ~closed
  /\ h' = "greet"
  /\ limited' = lim /\ legacy' = leg
  /\ UNCHANGED <<status, done, errCh, abortCh, writerVars, watchVars, clientVars, expired>>

\* Recv met the end of the stream (no error), a broken one, or no connect data.
RejectConnect(s) ==
  /\ h = "accept"
  /\ IF closed THEN s = "ok" ELSE s = "error"
  /\ h' = "done" /\ status' = s /\ done' = TRUE
  /\ UNCHANGED <<errCh, abortCh, writerVars, watchVars, clientVars, connectVars>>

\* CreateConsumer opened a reader, the client was told so, the loop was started.
StartConsumer ==
  /\ h = "greet" /\ ~gone
  /\ h' = "serve" /\ reader' = "open"
  /\ pc' = [pc EXCEPT ![Loop] = "fetch"]
  /\ UNCHANGED <<status, done, errCh, abortCh, batch, got, seq, lost,
                 watchVars, clientVars, connectVars>>

\* Kafka refused the consumer; the client is told and the RPC ends with the error.
CreateConsumerFails ==
  /\ h = "greet"
  /\ h' = "done" /\ status' = "error" /\ done' = TRUE
  /\ UNCHANGED <<errCh, abortCh, writerVars, watchVars, clientVars, connectVars>>

\* The reader was opened but the connect result could not be sent: an early return.
GreetFails ==
  /\ h = "greet" /\ gone
  /\ h' = "done" /\ status' = "error" /\ done' = TRUE
  /\ reader' = "open"
  /\ UNCHANGED <<errCh, abortCh, pc, batch, got, seq, lost, watchVars, clientVars,
                 connectVars>>

\* Mutant: the handler waits for the loop instead of looking whether it has ended.
WaitsForLoop ==
  /\ h = "serve" /\ done /\ errCh # "empty"
  /\ h' = "finish"
  /\ status' = IF errCh = "error" THEN "error" ELSE "ok"
  /\ UNCHANGED <<done, errCh, abortCh, writerVars, watchVars, clientVars, connectVars>>

\* processConsumer: <-ctx.Done(), then the loop's error if it is there already.
Wake ==
  /\ h = "serve" /\ done
  /\ h' = "finish"
  /\ status' = IF errCh = "error" THEN "error" ELSE "ok"
  /\ UNCHANGED <<done, errCh, abortCh, writerVars, watchVars, clientVars, connectVars>>

\* The consumer has left the stores; a reason given to abort becomes the status.
Return ==
  /\ h = "finish"
  /\ h' = "done"
  /\ status' = IF abortCh = "empty" THEN status ELSE "error"
  /\ UNCHANGED <<done, errCh, abortCh, writerVars, watchVars, clientVars, connectVars>>

-----------------------------------------------------------------------------
(* ProcessMessageList, for both writers.                                   *)

\* The mutex of the consumer: held from the Send to the end of the exchange.
Unlocked == \A w \in Writers : pc[w] # "wait"

\* What a writer that got no answer does: the loop ends with an error, the repeat
\* job leaves the row in the queue.
GiveUp(w) ==
  /\ pc' = [pc EXCEPT ![w] = IF w = Loop THEN "closing" ELSE "idle"]
  /\ errCh' = IF w = Loop THEN "error" ELSE errCh

Send(w) ==
  /\ pc[w] = "ready" /\ Unlocked
  /\ h # "done" /\ ~gone
  /\ seq' = seq + 1
  /\ batch' = [batch EXCEPT ![w] = seq + 1]
  /\ got' = [got EXCEPT ![w] = 0]
  /\ pc' = [pc EXCEPT ![w] = "wait"]
  /\ asked' = asked \cup {seq + 1}
  /\ armed' = [armed EXCEPT ![w] = limited]
  /\ UNCHANGED <<rpcVars, reader, lost, alarms, closed, gone, given, extra, up, connectVars>>

\* The transport refuses a message for a client that left or an RPC that ended.
SendFails(w) ==
  /\ pc[w] = "ready" /\ Unlocked
  /\ h = "done" \/ gone
  /\ seq' = seq + 1
  /\ GiveUp(w)
  /\ UNCHANGED <<h, status, done, abortCh, batch, got, reader, lost, watchVars,
                 clientVars, connectVars>>

\* A result of another batch is dropped and the wait goes on.
DiscardForeign(w) ==
  /\ pc[w] = "wait" /\ up # <<>>
  /\ Head(up).id \notin {NoId, batch[w]}
  /\ up' = Tail(up)
  /\ UNCHANGED <<rpcVars, writerVars, watchVars, closed, gone, asked, given, extra, connectVars>>

\* Mutant: whatever arrives is taken for the answer.
TakesAny(w) ==
  /\ pc[w] = "wait" /\ up # <<>>
  /\ up' = Tail(up)
  /\ got' = [got EXCEPT ![w] = Head(up).about]
  /\ pc' = [pc EXCEPT ![w] = IF w = Loop THEN "handle" ELSE "idle"]
  /\ armed' = [armed EXCEPT ![w] = FALSE]
  /\ UNCHANGED <<rpcVars, batch, seq, reader, lost, alarms, closed, gone, asked, given,
                 extra, connectVars>>

\* The result of the batch, or one without an id; the watchdog's timer is stopped.
RecvResult(w) ==
  /\ pc[w] = "wait" /\ up # <<>>
  /\ Head(up).id \in {NoId, batch[w]}
  /\ up' = Tail(up)
  /\ got' = [got EXCEPT ![w] = Head(up).about]
  /\ pc' = [pc EXCEPT ![w] = IF w = Loop THEN "handle" ELSE "idle"]
  /\ armed' = [armed EXCEPT ![w] = FALSE]
  /\ UNCHANGED <<rpcVars, batch, seq, reader, lost, alarms, closed, gone, asked, given,
                 extra, connectVars>>

\* Mutant: the expired watchdog lets the writer go while the RPC lives on.
GivesUpOnAlarm(w) ==
  /\ pc[w] = "wait"
  /\ h = "done" \/ gone \/ (closed /\ up = <<>>) \/ batch[w] \in alarms
  /\ GiveUp(w)
  /\ armed' = [armed EXCEPT ![w] = FALSE]
  /\ lost' = TRUE
  /\ UNCHANGED <<h, status, done, abortCh, batch, got, seq, reader, alarms, clientVars,
                 connectVars>>

\* Recv returns without a result: the client closed its half (EOF), or it
\* disconnected, or the RPC has ended.  Nothing else wakes a blocked Recv.
RecvFails(w) ==
  /\ pc[w] = "wait"
  /\ h = "done" \/ gone \/ (closed /\ up = <<>>)
  /\ GiveUp(w)
  /\ armed' = [armed EXCEPT ![w] = FALSE]
  /\ lost' = TRUE
  /\ UNCHANGED <<h, status, done, abortCh, batch, got, seq, reader, alarms, clientVars,
                 connectVars>>

Recv(w) == DiscardForeign(w) \/ RecvResult(w) \/ RecvFails(w)

\* The timer of startResultWatchdog goes off: its function runs in a goroutine of its
\* own, and a later stop() no longer holds it back.
WatchdogExpires(w) ==
  /\ pc[w] = "wait" /\ armed[w]
  /\ armed' = [armed EXCEPT ![w] = FALSE]
  /\ alarms' = alarms \cup {batch[w]}
  /\ UNCHANGED <<rpcVars, writerVars, clientVars, connectVars>>

\* Mutants: the reason is not kept; the context is not cancelled.
OnlyCancels(b) ==
  /\ b \in alarms
  /\ alarms' = alarms \ {b}
  /\ done' = TRUE
  /\ UNCHANGED <<h, status, errCh, abortCh, armed, writerVars, clientVars, connectVars>>
OnlyRemembers(b) ==
  /\ b \in alarms
  /\ alarms' = alarms \ {b}
  /\ abortCh' = "reason"
  /\ UNCHANGED <<h, status, done, errCh, armed, writerVars, clientVars, connectVars>>

\* AbortFn: the first reason is kept, then the handler's context is cancelled.
Abort(b) ==
  /\ b \in alarms
  /\ alarms' = alarms \ {b}
  /\ abortCh' = "reason"
  /\ done' = TRUE
  /\ UNCHANGED <<h, status, errCh, armed, writerVars, clientVars, connectVars>>

-----------------------------------------------------------------------------
(* The Kafka loop.                                                         *)

Ready == {w \in Writers : pc[w] = "ready"}

HasBudget == seq + Cardinality(Ready) < MaxBatch

\* A message may win over a context that is cancelled meanwhile.
LoopFetch ==
  /\ pc[Loop] = "fetch" /\ HasBudget
  /\ pc' = [pc EXCEPT ![Loop] = "ready"]
  /\ UNCHANGED <<rpcVars, batch, got, seq, reader, lost, watchVars, clientVars, connectVars>>

\* consumeLoop returns; the error (or nil) goes to the buffered channel.
LoopReturns(e) ==
  /\ pc' = [pc EXCEPT ![Loop] = "closing"]
  /\ errCh' = e
  /\ UNCHANGED <<h, status, done, abortCh, batch, got, seq, lost, watchVars, clientVars,
                 connectVars>>

\* FetchMessage, CommitMessages and the check after them see the cancelled context; nil and
\* context.Canceled end the loop.
LoopCancelled ==
  /\ pc[Loop] \in {"fetch", "handle"} /\ done /\ ~expired
  /\ LoopReturns("nil")
  /\ UNCHANGED reader

\* The results of the batch are handled and its offsets committed.
LoopCommits ==
  /\ pc[Loop] = "handle" /\ ~done
  /\ pc' = [pc EXCEPT ![Loop] = "fetch"]
  /\ UNCHANGED <<rpcVars, batch, got, seq, reader, lost, watchVars, clientVars, connectVars>>

\* No result matched the batch, or a failed message could not be stored.
LoopHandlerFails ==
  /\ pc[Loop] = "handle"
  /\ LoopReturns("error")
  /\ UNCHANGED reader

\* A Kafka error while fetching or committing.  So is context.DeadlineExceeded, which the same
\* calls return when the RPC's deadline has passed: the loop reconnects, again and again.
LoopBreaks ==
  /\ pc[Loop] \in {"fetch", "handle"}
  /\ pc' = [pc EXCEPT ![Loop] = "broken"]
  /\ UNCHANGED <<rpcVars, batch, got, seq, reader, lost, watchVars, clientVars, connectVars>>

\* Consumer.Reconnect takes the mutex that an exchange of the repeat job may hold.
LoopReconnects ==
  /\ pc[Loop] = "broken" /\ Unlocked
  /\ reader' = "open"
  /\ pc' = [pc EXCEPT ![Loop] = "fetch"]
  /\ UNCHANGED <<rpcVars, batch, got, seq, lost, watchVars, clientVars, connectVars>>

\* Close succeeds, connect does not: try again, unless the context is cancelled.
LoopReconnectFails ==
  /\ pc[Loop] = "broken" /\ Unlocked
  /\ reader' = "closed"
  /\ IF done THEN LoopReturns("nil")
             ELSE UNCHANGED <<rpcVars, pc, batch, got, seq, lost, watchVars, clientVars,
                              connectVars>>

\* The deferred calls of the goroutine: close the reader, then cancel.
LoopCloses ==
  /\ pc[Loop] = "closing"
  /\ pc' = [pc EXCEPT ![Loop] = "stopped"]
  /\ reader' = "closed"
  /\ done' = TRUE
  /\ UNCHANGED <<h, status, errCh, abortCh, batch, got, seq, lost, watchVars, clientVars,
                 connectVars>>

LoopNext ==
  \/ LoopFetch \/ LoopCancelled \/ LoopCommits \/ LoopHandlerFails
  \/ LoopBreaks \/ LoopReconnects \/ LoopReconnectFails \/ LoopCloses

\* The repeat job finds the consumer in the store, connected.
RepeaterFinds ==
  /\ pc[Repeater] = "idle" /\ HasBudget
  /\ h \in {"serve", "finish"}
  /\ pc' = [pc EXCEPT ![Repeater] = "ready"]
  /\ UNCHANGED <<rpcVars, batch, got, seq, reader, lost, watchVars, clientVars, connectVars>>

-----------------------------------------------------------------------------
(* The client.                                                             *)

Result(b) == [id |-> IF legacy THEN NoId ELSE b, about |-> b]

ClientAnswers(b) ==
  /\ b \in asked /\ ~closed /\ ~gone /\ h # "done"
  /\ asked' = asked \ {b}
  /\ given' = given \cup {b}
  /\ up' = Append(up, Result(b))
  /\ UNCHANGED <<rpcVars, writerVars, watchVars, closed, gone, extra, connectVars>>

\* An answer is sent again; positional clients are assumed to answer once.
ClientRepeats(b) ==
  /\ b \in given /\ ~legacy /\ ~closed /\ ~gone /\ h # "done"
  /\ extra < MaxExtra
  /\ extra' = extra + 1
  /\ up' = Append(up, Result(b))
  /\ UNCHANGED <<rpcVars, writerVars, watchVars, closed, gone, asked, given, connectVars>>

ClientCloses ==
  /\ ~closed /\ ~gone /\ h # "done"
  /\ closed' = TRUE
  /\ UNCHANGED <<rpcVars, writerVars, watchVars, gone, asked, given, extra, up, connectVars>>

ClientLeaves ==
  /\ ~gone /\ h # "done"
  /\ gone' = TRUE /\ done' = TRUE
  /\ UNCHANGED <<h, status, errCh, abortCh, writerVars, watchVars, closed, asked, given,
                 extra, up, connectVars>>

\* The deadline passes.  A context that is cancelled already stays so.
DeadlinePasses ==
  /\ Deadlines /\ ~gone /\ h # "done"
  /\ gone' = TRUE /\ done' = TRUE /\ expired' = ~done
  /\ UNCHANGED <<h, status, errCh, abortCh, writerVars, watchVars, closed, asked, given,
                 extra, up, limited, legacy>>

-----------------------------------------------------------------------------
HandlerNext ==
  \/ \E lim, leg \in BOOLEAN : RecvConnect(lim, leg)
  \/ \E s \in {"ok", "error"} : RejectConnect(s)
  \/ StartConsumer \/ CreateConsumerFails \/ GreetFails \/ Wake \/ Return

Next ==
  \/ HandlerNext
  \/ LoopNext
  \/ RepeaterFinds
  \/ \E w \in Writers : Send(w) \/ SendFails(w) \/ Recv(w) \/ WatchdogExpires(w)
  \/ \E b \in alarms : Abort(b)
  \/ \E b \in asked : ClientAnswers(b)
  \/ \E b \in given : ClientRepeats(b)
  \/ ClientCloses \/ ClientLeaves \/ DeadlinePasses

Spec == Init /\ [][Next]_vars

\* Goroutines that can run do run and timers go off.  Nothing is assumed of the
\* client, nor of Kafka except that a call returns once the context is cancelled, and
\* that such a call does not come back with a Kafka error instead time and again.
Fairness ==
  /\ WF_vars(Wake) /\ WF_vars(Return)
  /\ \A w \in Writers :
       /\ WF_vars(Send(w) \/ SendFails(w))
       /\ WF_vars(Recv(w))
       /\ WF_vars(WatchdogExpires(w))
  /\ WF_vars(\E b \in alarms : Abort(b))
  /\ WF_vars(LoopCommits \/ LoopHandlerFails)
  /\ SF_vars(LoopCancelled)
  /\ WF_vars(done /\ (LoopReconnects \/ LoopReconnectFails))
  /\ WF_vars(LoopCloses)

FairSpec == Spec /\ Fairness

-----------------------------------------------------------------------------
(* Properties.                                                             *)

Batches == 0 .. MaxBatch

TypeOK ==
  /\ h \in {"accept", "greet", "serve", "finish", "done"}
  /\ status \in {"none", "ok", "error"}
  /\ errCh \in {"empty", "nil", "error"} /\ abortCh \in {"empty", "reason"}
  /\ pc[Loop] \in {"off", "fetch", "ready", "wait", "handle", "broken", "closing", "stopped"}
  /\ pc[Repeater] \in {"idle", "ready", "wait"}
  /\ pc \in [Writers -> STRING]
  /\ batch \in [Writers -> Batches] /\ got \in [Writers -> Batches]
  /\ armed \in [Writers -> BOOLEAN] /\ alarms \subseteq Batches
  /\ reader \in {"none", "open", "closed"} /\ seq \in Batches
  /\ {done, limited, legacy, expired, closed, gone, lost} \subseteq BOOLEAN
  /\ asked \subseteq Batches /\ given \subseteq Batches /\ extra \in 0 .. MaxExtra
  /\ up \in Seq([id : Batches, about : Batches])

\* stream/ReadmeAI.md: an answer a writer accepts is the answer to the batch it sent,
\* with batch ids whatever the client repeats or delays, and for a positional client
\* because a batch that timed out takes the whole stream with it.
AnswersMatch == \A w \in Writers : got[w] \in {0, batch[w]}

\* databus/consume.go:59-61: the client learns that it is no longer served.  An RPC that
\* was serving ends with OK only if it was the client (or a shutdown) that left.
ClientIsTold == h = "done" /\ status = "ok" /\ reader # "none" => gone

\* While a batch is out its writer is the only one waiting, and with a budget it is
\* guarded: its watchdog runs, has gone off, or the RPC is already being ended.
WaitIsGuarded ==
  \A w \in Writers : pc[w] = "wait" =>
    /\ \A v \in Writers \ {w} : pc[v] # "wait"
    /\ limited => armed[w] \/ batch[w] \in alarms \/ done

\* stream/ReadmeAI.md, "ProcessMessageList does not wait forever": a writer whose
\* budget is set always gets out of its wait, even if the client stays silent.
WaitEnds == \A w \in Writers : limited /\ pc[w] = "wait" ~> pc[w] # "wait"

\* Once the context is cancelled the loop ends and its reader leaves the Kafka group,
\* although it may first have to wait for the repeat job's exchange with a silent client.
\* A context that ended with the deadline of the RPC is excepted: databus/consume.go:172 knows
\* only context.Canceled, and the loop opens one reader after the other.
LoopEnds ==
  done /\ ~expired /\ pc[Loop] # "off" ~> pc[Loop] = "stopped" /\ reader = "closed"

\* A consumer that ended keeps no partitions (model/consume_limits.go:7-9).
ReaderReleased == h = "done" ~> reader # "open"

\* The stream implements the exchange it promises.
Asker ==
  IF \E w \in Writers : pc[w] = "wait" THEN CHOOSE w \in Writers : pc[w] = "wait" ELSE Nobody

LastWriter == IF batch[Loop] > batch[Repeater] THEN Loop ELSE Repeater

Exchange == INSTANCE BatchExchange WITH
  asker <- Asker, out <- batch[LastWriter], answer <- got[LastWriter], broken <- lost

ImplementsExchange == Exchange!Spec

=============================================================================
