------------------------------- MODULE LokiSink -------------------------------
(***************************************************************************)
(* Logging of a bus or admin process (logger/logger.go, logger/loki.go):   *)
(* goroutines write lines to the console and into a bounded queue, one     *)
(* worker pushes batches of them to Loki, and the main goroutine flushes   *)
(* or stops the sink before the process exits.                             *)
(*                                                                         *)
(* Names have a prefix because MCParts checks several parts in one run.    *)
(***************************************************************************)
EXTENDS Integers, Sequences, SequencesExt, FiniteSets

CONSTANTS
  LokiLines,     \* log lines, each written by a goroutine of its own
  LokiLevel,     \* line -> rank of its level, 0 (debug) .. 4 (fatal)
  LokiQueueSize, \* lokiQueueSize
  LokiBatchSize, \* lokiBatchSize
  LokiErrorInterval, \* lokiErrorInterval
  LokiFailures,  \* bound: lines and dropped lines that are lost in pushes that fail
  LokiTime       \* bound: how far the clock runs

ASSUME LokiAssumption ==
  /\ IsFiniteSet(LokiLines)
  /\ LokiQueueSize \in Nat \ {0} /\ LokiBatchSize \in Nat \ {0}
  /\ LokiErrorInterval \in Nat \ {0} /\ LokiFailures \in Nat /\ LokiTime \in Nat

VARIABLES
  lokiMinLevel, \* MinLevel of the configuration
  lokiOn,       \* the global pointer holds the sink
  lokiCall,     \* line -> new, holds (has loaded the pointer), queued, dropped, silent
  lokiQueue,    \* lines in the channel
  lokiDropped,  \* the counter of dropped lines
  lokiBatch,    \* lines of the worker's batch
  lokiNote,     \* dropped lines its overflow warning tells of
  lokiWorker,   \* select, drain, push, ack, done
  lokiNext,     \* where the worker goes on after a push: select, drain or ack
  lokiPushed, lokiLost, \* lines Loki took, lines of pushes that failed
  lokiTold, lokiUntold, \* dropped lines told of by a push that succeeded, that failed
  lokiClock,       \* time
  lokiLastErrorAt, \* lastErrorAt: when the standard logger was last told of a push that failed
  lokiReports, lokiSilences, \* times of failed pushes it was told of, and of the others
  lokiMain,     \* run, flush, stop, asked, finished, late, exit: the main goroutine
  lokiClosed,   \* flushCh is closed
  lokiAsked     \* lines that were queued or in the batch when main asked

lokiWorkerVars == <<lokiBatch, lokiNote, lokiWorker, lokiNext, lokiPushed, lokiLost, lokiTold, lokiUntold>>
lokiErrorVars == <<lokiLastErrorAt, lokiReports, lokiSilences>>
lokiTimeVars == <<lokiClock, lokiErrorVars>>
lokiMainVars == <<lokiOn, lokiMain, lokiClosed, lokiAsked>>
lokiVars ==
  <<lokiMinLevel, lokiCall, lokiQueue, lokiDropped, lokiWorkerVars, lokiTimeVars, lokiMainVars>>

LokiInit ==
  /\ lokiMinLevel \in 0 .. 3 /\ lokiOn = TRUE
  /\ lokiCall = [l \in LokiLines |-> "new"]
  /\ lokiQueue = <<>> /\ lokiBatch = {}
  /\ lokiDropped = 0 /\ lokiNote = 0
  /\ lokiWorker = "select" /\ lokiNext = "select"
  /\ lokiPushed = {} /\ lokiLost = {}
  /\ lokiTold = 0 /\ lokiUntold = 0
  /\ lokiClock = 0 /\ lokiLastErrorAt = -LokiErrorInterval
  /\ lokiReports = {} /\ lokiSilences = {}
  /\ lokiMain = "run" /\ lokiClosed = FALSE /\ lokiAsked = {}

LokiRunning == lokiMain # "exit"

-----------------------------------------------------------------------------
(* The goroutines that log.                                                *)

\* Log, sendToLoki: the pointer is loaded; without a sink the line is on the console only.
LokiLoad(l) ==
  /\ lokiCall[l] = "new"
  /\ lokiCall' = [lokiCall EXCEPT ![l] = IF lokiOn THEN "holds" ELSE "silent"]
  /\ UNCHANGED <<lokiMinLevel, lokiTimeVars, lokiQueue, lokiDropped, lokiWorkerVars, lokiMainVars>>

\* add: the sink may have been stopped since.
LokiAdd(l) ==
  /\ lokiCall[l] = "holds"
  /\ UNCHANGED <<lokiMinLevel, lokiTimeVars, lokiWorkerVars, lokiMainVars>>
  /\ \/ /\ LokiLevel[l] < lokiMinLevel
        /\ lokiCall' = [lokiCall EXCEPT ![l] = "silent"]
        /\ UNCHANGED <<lokiQueue, lokiDropped>>
     \/ /\ LokiLevel[l] >= lokiMinLevel /\ Len(lokiQueue) < LokiQueueSize
        /\ lokiCall' = [lokiCall EXCEPT ![l] = "queued"]
        /\ lokiQueue' = Append(lokiQueue, l)
        /\ UNCHANGED lokiDropped
     \/ /\ LokiLevel[l] >= lokiMinLevel /\ Len(lokiQueue) = LokiQueueSize
        /\ lokiCall' = [lokiCall EXCEPT ![l] = "dropped"]
        /\ lokiDropped' = lokiDropped + 1
        /\ UNCHANGED lokiQueue

-----------------------------------------------------------------------------
(* The worker: run.                                                        *)

\* Mutant: the counter is read and not reset.
LokiReadsCounter(batch, next) ==
  /\ lokiBatch' = batch
  /\ lokiNote' = lokiDropped /\ UNCHANGED lokiDropped
  /\ IF batch = {} /\ lokiDropped = 0
     THEN lokiWorker' = next /\ UNCHANGED lokiNext
     ELSE lokiWorker' = "push" /\ lokiNext' = next
  /\ UNCHANGED <<lokiPushed, lokiLost, lokiTold, lokiUntold>>

\* push takes the counter and sends, unless there is nothing to send.
LokiPush(batch, next) ==
  /\ lokiBatch' = batch
  /\ lokiNote' = lokiDropped /\ lokiDropped' = 0
  /\ IF batch = {} /\ lokiDropped = 0
     THEN lokiWorker' = next /\ UNCHANGED lokiNext
     ELSE lokiWorker' = "push" /\ lokiNext' = next
  /\ UNCHANGED <<lokiPushed, lokiLost, lokiTold, lokiUntold>>

\* A line is taken from the queue; a full batch is pushed.
LokiTake ==
  /\ lokiWorker \in {"select", "drain"} /\ lokiQueue # <<>>
  /\ lokiQueue' = Tail(lokiQueue)
  /\ LET batch == lokiBatch \union {Head(lokiQueue)}
     IN  IF Cardinality(batch) >= LokiBatchSize
         THEN LokiPush(batch, lokiWorker)
         ELSE /\ lokiBatch' = batch
              /\ UNCHANGED <<lokiDropped, lokiNote, lokiWorker, lokiNext, lokiPushed, lokiLost,
                             lokiTold, lokiUntold>>
  /\ UNCHANGED <<lokiMinLevel, lokiTimeVars, lokiCall, lokiMainVars>>

LokiTick ==
  /\ lokiWorker = "select"
  /\ LokiPush(lokiBatch, "select")
  /\ UNCHANGED <<lokiMinLevel, lokiTimeVars, lokiCall, lokiQueue, lokiMainVars>>

\* Mutant: the time is noted also when nothing is said.
LokiReportAlways ==
  /\ lokiLastErrorAt' = lokiClock
  /\ IF lokiClock - lokiLastErrorAt < LokiErrorInterval
     THEN lokiSilences' = lokiSilences \union {lokiClock} /\ UNCHANGED lokiReports
     ELSE lokiReports' = lokiReports \union {lokiClock} /\ UNCHANGED lokiSilences

\* reportError tells the standard logger, unless it did so less than a minute ago.
LokiReport ==
  \/ /\ lokiClock - lokiLastErrorAt < LokiErrorInterval
     /\ lokiSilences' = lokiSilences \union {lokiClock}
     /\ UNCHANGED <<lokiLastErrorAt, lokiReports>>
  \/ /\ lokiClock - lokiLastErrorAt >= LokiErrorInterval
     /\ lokiLastErrorAt' = lokiClock /\ lokiReports' = lokiReports \union {lokiClock}
     /\ UNCHANGED lokiSilences

\* send: when it fails the lines of the batch are lost, its warning with them.
LokiSend ==
  /\ lokiWorker = "push"
  /\ lokiWorker' = lokiNext
  /\ lokiBatch' = {} /\ lokiNote' = 0
  /\ \/ /\ lokiPushed' = lokiPushed \union lokiBatch /\ lokiTold' = lokiTold + lokiNote
        /\ UNCHANGED <<lokiLost, lokiUntold, lokiErrorVars>>
     \/ /\ Cardinality(lokiLost) + lokiUntold < LokiFailures
        /\ lokiLost' = lokiLost \union lokiBatch /\ lokiUntold' = lokiUntold + lokiNote
        /\ LokiReport
        /\ UNCHANGED <<lokiPushed, lokiTold>>
  /\ UNCHANGED <<lokiMinLevel, lokiCall, lokiQueue, lokiDropped, lokiNext, lokiClock, lokiMainVars>>

\* drain: the queue is empty, what is left of the batch is pushed.
LokiDrained ==
  /\ lokiWorker = "drain" /\ lokiQueue = <<>>
  /\ LokiPush(lokiBatch, "ack")
  /\ UNCHANGED <<lokiMinLevel, lokiTimeVars, lokiCall, lokiQueue, lokiMainVars>>

\* The worker sees the request of main: a flush, or the closed channel.
LokiSees ==
  /\ lokiWorker = "select"
  /\ lokiMain = "flush" \/ lokiClosed
  /\ lokiWorker' = "drain"
  /\ lokiMain' = IF lokiMain \in {"flush", "stop"} THEN "asked" ELSE lokiMain
  /\ UNCHANGED <<lokiMinLevel, lokiTimeVars, lokiOn, lokiCall, lokiQueue, lokiDropped, lokiBatch, lokiNote, lokiNext,
                 lokiPushed, lokiLost, lokiTold, lokiUntold, lokiClosed, lokiAsked>>

\* It acknowledges a flush and goes on, or ends.
LokiAck ==
  /\ lokiWorker = "ack"
  /\ lokiWorker' = IF lokiClosed THEN "done" ELSE "select"
  /\ lokiMain' = IF lokiMain = "asked" THEN "finished" ELSE lokiMain
  /\ UNCHANGED <<lokiMinLevel, lokiTimeVars, lokiOn, lokiCall, lokiQueue, lokiDropped, lokiBatch, lokiNote, lokiNext,
                 lokiPushed, lokiLost, lokiTold, lokiUntold, lokiClosed, lokiAsked>>

-----------------------------------------------------------------------------
(* The main goroutine: Fatal calls flushLoki, the end of main stopLogs.    *)

LokiAsk ==
  /\ lokiAsked' = lokiBatch \union ToSet(lokiQueue)
  /\ UNCHANGED <<lokiMinLevel, lokiTimeVars, lokiCall, lokiQueue, lokiDropped, lokiWorkerVars>>

LokiFatal == lokiMain = "run" /\ lokiMain' = "flush" /\ LokiAsk /\ UNCHANGED <<lokiOn, lokiClosed>>

\* stop takes the sink out of the pointer and closes the channel.
LokiStop == lokiMain = "run" /\ lokiMain' = "stop" /\ lokiOn' = FALSE /\ lokiClosed' = TRUE /\ LokiAsk

\* Main was waiting for the worker for as long as its context allows, and exits.
LokiGivesUp ==
  /\ lokiMain \in {"flush", "stop", "asked"}
  /\ lokiMain' = "late"
  /\ UNCHANGED <<lokiMinLevel, lokiTimeVars, lokiOn, lokiCall, lokiQueue, lokiDropped, lokiWorkerVars, lokiClosed, lokiAsked>>

LokiExit ==
  /\ lokiMain \in {"finished", "late"}
  /\ lokiMain' = "exit"
  /\ UNCHANGED <<lokiMinLevel, lokiTimeVars, lokiOn, lokiCall, lokiQueue, lokiDropped, lokiWorkerVars, lokiClosed, lokiAsked>>

\* Time passes.
LokiTimePasses ==
  /\ lokiClock < LokiTime
  /\ lokiClock' = lokiClock + 1
  /\ UNCHANGED <<lokiMinLevel, lokiErrorVars, lokiCall, lokiQueue, lokiDropped, lokiWorkerVars, lokiMainVars>>

LokiWorks == LokiRunning /\ (LokiTake \/ LokiTick \/ LokiSend \/ LokiDrained \/ LokiSees \/ LokiAck)

LokiSteps ==
  \/ LokiWorks
  \/ /\ LokiRunning
     /\ \/ \E l \in LokiLines : LokiLoad(l) \/ LokiAdd(l)
        \/ LokiFatal \/ LokiStop \/ LokiGivesUp \/ LokiExit \/ LokiTimePasses

LokiSpec == LokiInit /\ [][LokiSteps]_lokiVars

-----------------------------------------------------------------------------

\* Every line is accounted for.  A line the sink accepted is in the queue (for good, if it came
\* after the last drain), in the batch, pushed, or in a push that failed; one it turned away is
\* counted, announced, told, or lost with its warning.  After a flush or stop that was not cut off
\* by its five seconds (flushLoki, stopLogs) nothing that had been queued before is still waiting,
\* although other goroutines went on logging.  Lines of pushes that fail are lost, most of them
\* without a word (reportError): the standard logger is told at most once a minute, but a push
\* that fails in silence does so less than a minute after one that was reported.
LokiLinesAreAccounted ==
  LET queued == {l \in LokiLines : lokiCall[l] = "queued"}
      dropped == {l \in LokiLines : lokiCall[l] = "dropped"}
  IN  /\ queued = ToSet(lokiQueue) \union lokiBatch \union lokiPushed \union lokiLost
      /\ Cardinality(dropped) = lokiDropped + lokiNote + lokiTold + lokiUntold
      /\ lokiMain = "finished" => lokiAsked \subseteq lokiPushed \union lokiLost
      /\ lokiLost # {} \/ lokiUntold > 0 => lokiReports # {}
      /\ \A t \in lokiSilences : \E r \in lokiReports : r <= t /\ t < r + LokiErrorInterval
      /\ \A q, r \in lokiReports : q < r => q + LokiErrorInterval <= r

=============================================================================
