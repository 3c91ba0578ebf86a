----------------------------- MODULE SdkConsumer -----------------------------
(***************************************************************************)
(* The consumer of the Go SDK: the loop of ConsumeMessages that serves one *)
(* stream after the other (consumer/consumer.go), the handlers of a batch, *)
(* each in a goroutine of its own that may outlive its time limit, and the *)
(* inbox that keeps a redelivered message from being processed again       *)
(* (consumer/inbox.go, inbox/inbox.go).                                    *)
(*                                                                         *)
(* The bus is external: it may deliver a message any number of times, to   *)
(* any consumer, also while an earlier delivery is still being handled.    *)
(* The database is external too: an INSERT .. ON CONFLICT waits for a      *)
(* transaction that inserted the same key and has not ended.               *)
(***************************************************************************)
EXTENDS Naturals, FiniteSets

CONSTANTS
  Consumers,  \* consumers of the group, in one or several processes
  Deliveries, \* deliveries of messages by the bus, numbered in the order it makes them
  MessageOf,  \* delivery -> its message, which has one idempotency key
  MaxFaults   \* bound: crashes, cancellations, streams and statements that fail

ASSUME SdkAssumption == Deliveries \subseteq Nat /\ IsFiniteSet(Deliveries) /\ MaxFaults \in Nat

VARIABLES
  inboxMode, \* Disabled, OnlyOnce or Transactional
  invalid,   \* messages ConsumeProto cannot decode
  loop,      \* consumer -> off, away (connecting or pausing), recv, work
  cancelled, \* consumer -> its context is cancelled
  batch,     \* consumer -> deliveries of the batch it works on
  running,   \* consumer -> deliveries whose handlers run in its process
  step,      \* delivery -> new, check, handle, claimed, mark, end: its handler
  outcome,   \* delivery -> none, ok, failed: what the handler returned
  result,    \* delivery -> none, ok, failed: what processMessage returned
  expired,   \* running deliveries whose processCtx is over
  inbox,     \* messages whose mark is committed in redbus_inbox
  effects,   \* message -> committed effects of its handlers
  answered,  \* messages the bus was told ok for
  unmarked,  \* message -> successes of its handlers whose mark was not written
  overlaps,  \* message -> handlers let in while another one was in
  faults     \* faults so far

settingVars == <<inboxMode, invalid>>
loopVars == <<loop, cancelled, batch>>
handlerVars == <<step, running, expired>>
returnVars == <<outcome, result>>
dbVars == <<inbox, effects>>
historyVars == <<unmarked, overlaps>>
vars == <<settingVars, loopVars, handlerVars, returnVars, dbVars, answered, historyVars, faults>>

Messages == {MessageOf[d] : d \in Deliveries}
Results == {"none", "ok", "failed"}

Init ==
  /\ inboxMode \in {"Disabled", "OnlyOnce", "Transactional"}
  /\ invalid \in SUBSET Messages
  /\ loop = [c \in Consumers |-> "away"]
  /\ cancelled = [c \in Consumers |-> FALSE]
  /\ batch = [c \in Consumers |-> {}]
  /\ running = [c \in Consumers |-> {}]
  /\ step = [d \in Deliveries |-> "new"]
  /\ outcome = [d \in Deliveries |-> "none"] /\ result = [d \in Deliveries |-> "none"]
  /\ expired = {}
  /\ inbox = {} /\ answered = {}
  /\ effects = [m \in Messages |-> 0]
  /\ unmarked = [m \in Messages |-> 0] /\ overlaps = [m \in Messages |-> 0]
  /\ faults = 0

Fault == faults < MaxFaults /\ faults' = faults + 1
AddOne(count, m) == [count EXCEPT ![m] = @ + 1]

-----------------------------------------------------------------------------
(* The loop of ConsumeMessages.                                            *)

\* serve is done with the batch of c, and the loop goes on at next.
LeaveBatch(c, next) ==
  /\ loop' = [loop EXCEPT ![c] = next]
  /\ batch' = [batch EXCEPT ![c] = {}]
  /\ outcome' = [d \in Deliveries |-> IF d \in batch[c] THEN "none" ELSE outcome[d]]
  /\ result' = [d \in Deliveries |-> IF d \in batch[c] THEN "none" ELSE result[d]]

\* processMessageList is over.
AllReturned(c) == loop[c] = "work" /\ \A d \in batch[c] : result[d] # "none"

\* connectStream succeeds; until it does the loop pauses and tries again.
Connect(c) ==
  /\ loop[c] = "away" /\ ~cancelled[c]
  /\ loop' = [loop EXCEPT ![c] = "recv"]
  /\ UNCHANGED <<settingVars, cancelled, batch, handlerVars, returnVars, dbVars, answered,
                 historyVars, faults>>

\* serve receives a batch and starts a handler for each of its messages.
Receive(c, S) ==
  /\ loop[c] = "recv" /\ ~cancelled[c]
  /\ S # {} /\ \A d \in S : step[d] = "new"
  /\ \A d \in Deliveries \ S : step[d] = "new" => \A e \in S : e < d
  /\ loop' = [loop EXCEPT ![c] = "work"]
  /\ batch' = [batch EXCEPT ![c] = S]
  /\ running' = [running EXCEPT ![c] = @ \union S]
  /\ step' = [d \in Deliveries |-> IF d \in S THEN "check" ELSE step[d]]
  /\ UNCHANGED <<settingVars, cancelled, expired, returnVars, dbVars, answered, historyVars,
                 faults>>

\* processMessage returns: the handler has, or its time or the consumer's context is over.
Return(d, r) ==
  /\ \E c \in Consumers : d \in batch[c]
  /\ result[d] = "none"
  /\ result' = [result EXCEPT ![d] = r]
  /\ expired' = IF step[d] = "end" THEN expired ELSE expired \union {d}
  /\ UNCHANGED <<settingVars, loopVars, step, running, outcome, dbVars, answered, historyVars, faults>>

HandlerReturned(d) == outcome[d] # "none" /\ Return(d, outcome[d])
\* Mutant: processMessage waits for its handler.
NoTimeout(d) == HandlerReturned(d)

TimedOut(d) == Return(d, "failed")

\* All results are there: the batch result is sent on the stream it came from.
SendResults(c) ==
  /\ AllReturned(c)
  /\ LeaveBatch(c, "recv")
  /\ answered' = answered \union {MessageOf[d] : d \in {e \in batch[c] : result[e] = "ok"}}
  /\ UNCHANGED <<settingVars, cancelled, handlerVars, dbVars, historyVars, faults>>

\* The stream breaks: serve notices at its next receive or send, and the loop connects again.
StreamBreaks(c) ==
  /\ Fault
  /\ loop[c] = "recv" \/ AllReturned(c)
  /\ LeaveBatch(c, "away")
  /\ UNCHANGED <<settingVars, cancelled, handlerVars, dbVars, answered, historyVars>>

\* The application cancels the consumer, and with it the contexts of its handlers.
Cancel(c) ==
  /\ Fault
  /\ loop[c] # "off" /\ ~cancelled[c]
  /\ cancelled' = [cancelled EXCEPT ![c] = TRUE]
  /\ expired' = expired \union (batch[c] \intersect running[c])
  /\ UNCHANGED <<settingVars, loop, batch, step, running, returnVars, dbVars, answered, historyVars>>

\* ConsumeMessages returns; handlers that still run are not waited for.
Stop(c) ==
  /\ cancelled[c]
  /\ loop[c] \in {"away", "recv"} \/ AllReturned(c)
  /\ LeaveBatch(c, "off")
  /\ UNCHANGED <<settingVars, cancelled, handlerVars, dbVars, answered, historyVars, faults>>

\* The process of c dies with its handlers; their open transactions are rolled back.
Crash(c) ==
  /\ Fault
  /\ loop[c] # "off"
  /\ LeaveBatch(c, "away")
  /\ cancelled' = [cancelled EXCEPT ![c] = FALSE]
  /\ step' = [d \in Deliveries |-> IF d \in running[c] THEN "end" ELSE step[d]]
  /\ running' = [running EXCEPT ![c] = {}]
  /\ expired' = expired \ running[c]
  /\ unmarked' = [m \in Messages |->
       unmarked[m] + Cardinality({d \in running[c] : step[d] = "mark" /\ MessageOf[d] = m})]
  /\ UNCHANGED <<settingVars, dbVars, answered, overlaps>>

-----------------------------------------------------------------------------
(* The handler of delivery d: processWithInbox.                            *)

\* What the handler returns goes into a channel nobody reads once processMessage is back.
Ends(d, o) ==
  /\ step' = [step EXCEPT ![d] = "end"]
  /\ running' = [c \in Consumers |-> running[c] \ {d}]
  /\ expired' = expired \ {d}
  /\ outcome' = IF result[d] = "none" /\ \E c \in Consumers : d \in batch[c]
                THEN [outcome EXCEPT ![d] = o] ELSE outcome

\* It goes on.
Goes(d, next) ==
  /\ step' = [step EXCEPT ![d] = next]
  /\ UNCHANGED <<running, expired, outcome>>

\* Handlers of the message that are in: past the check, not yet at its end.
Inside(m) == {d \in Deliveries : MessageOf[d] = m /\ step[d] \in {"handle", "claimed", "mark"}}

\* Mutant: the mark is written before the handler runs.
MarkFirst(d) ==
  /\ step[d] = "check"
  /\ IF (inboxMode # "Disabled" /\ MessageOf[d] \in inbox) \/ MessageOf[d] \in invalid
     THEN Ends(d, "ok") /\ UNCHANGED inbox
     ELSE Goes(d, "handle") /\ inbox' = inbox \union {MessageOf[d]}
  /\ UNCHANGED <<settingVars, loopVars, result, effects, answered, historyVars, faults>>

\* isProcessed, then the handler is called, unless the message is marked.  That of ConsumeProto
\* returns without an error for a payload it cannot decode; OnlyOnce goes on to mark it.
Check(d) ==
  /\ step[d] = "check"
  /\ LET m == MessageOf[d]
         marked == inboxMode # "Disabled" /\ m \in inbox
     IN  \/ marked /\ Ends(d, "ok") /\ UNCHANGED overlaps
         \/ /\ ~marked /\ m \in invalid
            /\ IF inboxMode = "OnlyOnce" THEN Goes(d, "mark") ELSE Ends(d, "ok")
            /\ UNCHANGED overlaps
         \/ /\ ~marked /\ m \notin invalid
            /\ Goes(d, "handle")
            /\ overlaps' = IF Inside(m) = {} THEN overlaps ELSE AddOne(overlaps, m)
  /\ UNCHANGED <<settingVars, loopVars, result, dbVars, answered, unmarked, faults>>

\* The check fails: also when it starts after the context of the message is over.
CheckFails(d) ==
  /\ step[d] = "check" /\ inboxMode # "Disabled"
  /\ IF d \in expired THEN UNCHANGED faults ELSE Fault
  /\ Ends(d, "failed")
  /\ UNCHANGED <<settingVars, loopVars, result, dbVars, answered, historyVars>>

\* The handler of the application fails, panics or asks to be retried later; a transaction
\* it has open is rolled back.  Both are a failed result to the inbox.
HandlerFails(d) ==
  /\ step[d] \in {"handle", "claimed"}
  /\ Ends(d, "failed")
  /\ UNCHANGED <<settingVars, loopVars, result, dbVars, answered, historyVars, faults>>

\* Mutant: an effect that is not marked.
EffectUnmarked(d) ==
  /\ step[d] = "handle" /\ inboxMode # "Transactional"
  /\ effects' = AddOne(effects, MessageOf[d])
  /\ Ends(d, "ok")
  /\ UNCHANGED <<settingVars, loopVars, result, inbox, answered, historyVars, faults>>

\* A handler without a claim commits its own writes, perhaps after its time is over.
Effect(d) ==
  /\ step[d] = "handle" /\ inboxMode # "Transactional"
  /\ effects' = AddOne(effects, MessageOf[d])
  /\ IF inboxMode = "OnlyOnce"
     THEN Goes(d, "mark")
     ELSE Ends(d, "ok")
  /\ UNCHANGED <<settingVars, loopVars, result, inbox, answered, historyVars, faults>>

\* setProcessed after the handler succeeded; it fails with the context of the message, or for
\* another reason, and the message counts as processed all the same.
Mark(d) ==
  /\ step[d] = "mark"
  /\ Ends(d, "ok")
  /\ \/ /\ d \notin expired
        /\ inbox' = inbox \union {MessageOf[d]}
        /\ UNCHANGED <<unmarked, faults>>
     \/ /\ IF d \in expired THEN UNCHANGED faults ELSE Fault
        /\ unmarked' = AddOne(unmarked, MessageOf[d])
        /\ UNCHANGED inbox
  /\ UNCHANGED <<settingVars, loopVars, result, effects, answered, overlaps>>

\* Mutant: the claim of another transaction is not waited for.
NoClaimants(m) == {}

\* Transactions that have inserted the mark of m and not ended.
Claimants(m) == {d \in Deliveries : MessageOf[d] = m /\ step[d] = "claimed"}

\* Guard: the claim is the first statement of the handler's transaction.  It waits for the
\* claim of another one; if the mark is there then, the business writes are skipped.
Claim(d) ==
  /\ step[d] = "handle" /\ inboxMode = "Transactional"
  /\ Claimants(MessageOf[d]) = {}
  /\ IF MessageOf[d] \in inbox
     THEN Ends(d, "ok")
     ELSE Goes(d, "claimed")
  /\ UNCHANGED <<settingVars, loopVars, result, dbVars, answered, historyVars, faults>>

\* The transaction commits mark and business writes together; the handler may not learn it.
CommitTx(d) ==
  /\ step[d] = "claimed"
  /\ inbox' = inbox \union {MessageOf[d]}
  /\ effects' = AddOne(effects, MessageOf[d])
  /\ \/ Ends(d, "ok") /\ UNCHANGED faults
     \/ Ends(d, "failed") /\ Fault
  /\ UNCHANGED <<settingVars, loopVars, result, answered, historyVars>>

-----------------------------------------------------------------------------

Handler(d) ==
  \/ Check(d) \/ CheckFails(d) \/ HandlerFails(d) \/ Effect(d) \/ Mark(d) \/ Claim(d)
  \/ CommitTx(d)

Loop(c) == Connect(c) \/ SendResults(c) \/ Stop(c)

Next ==
  \/ \E c \in Consumers :
       Loop(c) \/ StreamBreaks(c) \/ Cancel(c) \/ Crash(c) \/ \E S \in SUBSET Deliveries : Receive(c, S)
  \/ \E d \in Deliveries : Handler(d) \/ HandlerReturned(d) \/ TimedOut(d)

\* The time limit of a message passes and the loop goes on.  Nothing is assumed of the
\* handlers: they may hang.
Spec ==
  /\ Init /\ [][Next]_vars
  /\ \A c \in Consumers : WF_vars(Loop(c))
  /\ \A d \in Deliveries : WF_vars(TimedOut(d))

-----------------------------------------------------------------------------

TypeOK ==
  /\ inboxMode \in {"Disabled", "OnlyOnce", "Transactional"} /\ invalid \subseteq Messages
  /\ loop \in [Consumers -> {"off", "away", "recv", "work"}]
  /\ cancelled \in [Consumers -> BOOLEAN]
  /\ batch \in [Consumers -> SUBSET Deliveries]
  /\ running \in [Consumers -> SUBSET Deliveries]
  /\ step \in [Deliveries -> {"new", "check", "handle", "claimed", "mark", "end"}]
  /\ outcome \in [Deliveries -> Results] /\ result \in [Deliveries -> Results]
  /\ expired \subseteq Deliveries
  /\ inbox \subseteq Messages /\ answered \subseteq Messages
  /\ effects \in [Messages -> Nat] /\ unmarked \in [Messages -> Nat]
  /\ overlaps \in [Messages -> Nat]
  /\ faults \in 0 .. MaxFaults

\* In the Transactional mode a message has one effect at most, however often it is delivered,
\* whatever crashes, and also when a handler that timed out is still at work (inbox.Guard).
EffectOnce == inboxMode = "Transactional" => \A m \in Messages : effects[m] <= 1

\* In the OnlyOnce mode an effect is repeated only for the two reasons inbox.go names: its mark
\* was not written, or two deliveries were handled at the same time.
RepeatsAreExplained ==
  inboxMode = "OnlyOnce" =>
    \A m \in Messages : effects[m] <= 1 + unmarked[m] + overlaps[m]

\* The bus is told ok only for a message whose effect is committed (or that cannot be decoded):
\* a skipped message was processed by another delivery.
AnsweredIsDone == \A m \in answered : effects[m] > 0 \/ m \in invalid

\* No batch keeps a consumer for good: there are finitely many deliveries, and time and
\* again every batch is answered or given up, also with handlers that hang (processMessage).
BatchesEnd == []<>(\A c \in Consumers : loop[c] # "work")

Excuses == [m \in Messages |-> unmarked[m] + overlaps[m]]

Promise == INSTANCE MessageEffects WITH
  mode <- inboxMode, marks <- inbox, told <- answered, excuses <- Excuses

\* The consumers implement MessageEffects: whatever times out, overlaps, hangs, crashes or is
\* delivered again, effects, marks and answers are those of the chosen mode.
ImplementsEffects == Promise!Spec

=============================================================================
