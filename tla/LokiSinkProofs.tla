---------------------------- MODULE LokiSinkProofs ----------------------------
(***************************************************************************)
(* Theorem of LokiSink for any finite set of lines and any sizes.          *)
(*                                                                         *)
(* That nothing is lost between the goroutines is an account of lines and  *)
(* an account of dropped lines.  That a flush delivers what was queued     *)
(* before follows the lines main asked for through the queue, the batch    *)
(* and the push in which the drain ends.  That no outage goes unnoticed    *)
(* rests on lastErrorAt being the time of the last report.                 *)
(***************************************************************************)
EXTENDS LokiSink, FiniteSetTheorems, TLAPS

LokiQueued == {l \in LokiLines : lokiCall[l] = "queued"}
LokiTurnedAway == {l \in LokiLines : lokiCall[l] = "dropped"}

LokiTyped ==
  /\ lokiCall \in [LokiLines -> {"new", "holds", "queued", "dropped", "silent"}]
  /\ lokiQueue \in Seq(LokiLines)
  /\ lokiDropped \in Nat /\ lokiNote \in Nat /\ lokiTold \in Nat /\ lokiUntold \in Nat
  /\ lokiMain \in {"run", "flush", "stop", "asked", "finished", "late", "exit"}
  /\ lokiWorker \in {"select", "drain", "push", "ack", "done"}
  /\ lokiNext \in {"select", "drain", "ack"}

\* Lines, and dropped lines.
LokiLineInv == LokiQueued = ToSet(lokiQueue) \union lokiBatch \union lokiPushed \union lokiLost
LokiDropInv == Cardinality(LokiTurnedAway) = lokiDropped + lokiNote + lokiTold + lokiUntold

\* A note is one of a push under way.
LokiNoteInv == lokiWorker # "push" => lokiNote = 0

\* Before the worker has seen the request of main it does not drain; after that it does until
\* it has acknowledged it.
LokiTurnInv ==
  /\ lokiMain = "run" => ~lokiClosed
  /\ lokiMain \in {"run", "flush", "stop"} =>
       lokiWorker = "select" \/ (lokiWorker = "push" /\ lokiNext = "select")
  /\ lokiMain = "asked" =>
       lokiWorker \in {"drain", "ack"} \/ (lokiWorker = "push" /\ lokiNext \in {"drain", "ack"})

\* Where the lines are that main asked for.
LokiAskInv ==
  LET gone == lokiPushed \union lokiLost
  IN  /\ lokiMain \in {"flush", "stop", "asked"} =>
           lokiAsked \subseteq ToSet(lokiQueue) \union lokiBatch \union gone
      /\ lokiMain = "asked" /\ lokiWorker = "push" /\ lokiNext = "ack" =>
           lokiAsked \subseteq lokiBatch \union gone
      /\ lokiMain = "asked" /\ lokiWorker = "ack" => lokiAsked \subseteq gone
      /\ lokiMain = "finished" => lokiAsked \subseteq gone

\* lastErrorAt is the time of the latest report, and nothing was silent before the first one.
LokiErrorInv ==
  /\ lokiClock \in Nat /\ lokiLastErrorAt \in Int /\ lokiReports \subseteq Nat
  /\ lokiReports = {} => lokiLastErrorAt = -LokiErrorInterval /\ lokiLost = {} /\ lokiUntold = 0
  /\ lokiReports # {} => lokiLastErrorAt \in lokiReports
  /\ \A r \in lokiReports : r <= lokiLastErrorAt /\ lokiLastErrorAt <= lokiClock
  /\ \A t \in lokiSilences : \E r \in lokiReports : r <= t /\ t < r + LokiErrorInterval
  /\ \A q, r \in lokiReports : q < r => q + LokiErrorInterval <= r

LokiInv ==
  LokiTyped /\ LokiLineInv /\ LokiDropInv /\ LokiNoteInv /\ LokiTurnInv /\ LokiAskInv /\ LokiErrorInv

-----------------------------------------------------------------------------

LEMMA LokiHeadAndTail ==
  ASSUME NEW q \in Seq(LokiLines), q # <<>>
  PROVE  /\ Tail(q) \in Seq(LokiLines)
         /\ ToSet(q) = {Head(q)} \union ToSet(Tail(q))
<1>1. Head(q) = q[1] /\ 1 \in 1 .. Len(q) /\ Tail(q) \in Seq(LokiLines)
  OBVIOUS
<1>2. \A i \in 1 .. Len(Tail(q)) : i + 1 \in 1 .. Len(q) /\ Tail(q)[i] = q[i + 1]
  OBVIOUS
<1>3. \A i \in 1 .. Len(q) : i = 1 \/ (i - 1 \in 1 .. Len(Tail(q)) /\ q[i] = Tail(q)[i - 1])
  OBVIOUS
<1>4. \A x \in ToSet(q) : x \in {Head(q)} \union ToSet(Tail(q))
  <2>1. ASSUME NEW i \in 1 .. Len(q) PROVE q[i] \in {Head(q)} \union ToSet(Tail(q))
    <3>1. CASE i = 1
      BY <1>1, <3>1
    <3>2. CASE i - 1 \in DOMAIN Tail(q) /\ q[i] = Tail(q)[i - 1]
      BY <3>2 DEF ToSet
    <3> QED
      BY <1>1, <1>3, <3>1, <3>2
  <2> QED
    BY <2>1 DEF ToSet
<1>5. \A x \in {Head(q)} \union ToSet(Tail(q)) : x \in ToSet(q)
  BY <1>1, <1>2 DEF ToSet
<1> QED
  BY <1>1, <1>4, <1>5

LEMMA LokiAppended ==
  ASSUME NEW q \in Seq(LokiLines), NEW l \in LokiLines
  PROVE  /\ Append(q, l) \in Seq(LokiLines)
         /\ ToSet(Append(q, l)) = ToSet(q) \union {l}
<1>1. Append(q, l) \in Seq(LokiLines) /\ Len(Append(q, l)) = Len(q) + 1
  OBVIOUS
<1>2. \A i \in 1 .. Len(q) : i \in 1 .. Len(q) + 1 /\ Append(q, l)[i] = q[i]
  OBVIOUS
<1>3. Append(q, l)[Len(q) + 1] = l /\ Len(q) + 1 \in 1 .. Len(q) + 1
  OBVIOUS
<1>4. \A i \in 1 .. Len(q) + 1 : i \in 1 .. Len(q) \/ i = Len(q) + 1
  OBVIOUS
<1>5. \A x \in ToSet(Append(q, l)) : x \in ToSet(q) \union {l}
  BY <1>1, <1>2, <1>3, <1>4 DEF ToSet
<1>6. \A x \in ToSet(q) \union {l} : x \in ToSet(Append(q, l))
  BY <1>1, <1>2, <1>3 DEF ToSet
<1> QED
  BY <1>1, <1>5, <1>6

LEMMA LokiEmpty == ToSet(<<>>) = {}
BY DEF ToSet

LEMMA LokiInitInv == LokiInit => LokiInv
<1> SUFFICES ASSUME LokiInit PROVE LokiInv
  OBVIOUS
<1> USE DEF LokiInit
<1>1. LokiTyped /\ LokiNoteInv /\ LokiTurnInv
  BY DEF LokiTyped, LokiNoteInv, LokiTurnInv
<1>2. LokiLineInv /\ LokiAskInv
  BY LokiEmpty DEF LokiLineInv, LokiAskInv, LokiQueued
<1>3. LokiDropInv
  <2>1. LokiTurnedAway = {}
    BY DEF LokiTurnedAway
  <2> QED
    BY <2>1, FS_EmptySet DEF LokiDropInv
<1>4. LokiErrorInv
  BY LokiAssumption DEF LokiErrorInv
<1> QED
  BY <1>1, <1>2, <1>3, <1>4 DEF LokiInv

\* One more line is turned away.
LEMMA LokiOneMore ==
  ASSUME LokiTyped, NEW l \in LokiLines, lokiCall[l] = "holds",
         lokiCall' = [lokiCall EXCEPT ![l] = "dropped"]
  PROVE  Cardinality(LokiTurnedAway') = Cardinality(LokiTurnedAway) + 1
         /\ Cardinality(LokiTurnedAway) \in Nat
<1>1. LokiTurnedAway' = LokiTurnedAway \union {l} /\ l \notin LokiTurnedAway
  BY DEF LokiTurnedAway, LokiTyped
<1>2. IsFiniteSet(LokiTurnedAway)
  BY LokiAssumption, FS_Subset DEF LokiTurnedAway
<1> QED
  BY <1>1, <1>2, FS_AddElement, FS_CardinalityType

LEMMA LokiErrorKept ==
  ASSUME LokiErrorInv, UNCHANGED <<lokiLost, lokiUntold, lokiTimeVars>> PROVE LokiErrorInv'
BY DEF LokiErrorInv, lokiTimeVars, lokiErrorVars

\* A line is below the level, queued, or turned away.
LEMMA LokiAddKeeps ==
  ASSUME LokiInv, NEW l \in LokiLines, LokiAdd(l) PROVE LokiInv'
<1> USE DEF LokiInv, LokiAdd, lokiWorkerVars, lokiMainVars
<1>0. LokiErrorInv'
  BY LokiErrorKept
<1>1. CASE lokiCall' = [lokiCall EXCEPT ![l] = "silent"] /\ UNCHANGED <<lokiQueue, lokiDropped>>
  <2>1. LokiQueued' = LokiQueued /\ LokiTurnedAway' = LokiTurnedAway
    BY <1>1 DEF LokiQueued, LokiTurnedAway, LokiTyped
  <2> QED
    BY <1>0, <1>1, <2>1 DEF LokiTyped, LokiLineInv, LokiDropInv, LokiNoteInv, LokiTurnInv, LokiAskInv
<1>2. CASE lokiCall' = [lokiCall EXCEPT ![l] = "queued"] /\ lokiQueue' = Append(lokiQueue, l)
           /\ UNCHANGED lokiDropped
  <2>1. LokiQueued' = LokiQueued \union {l} /\ LokiTurnedAway' = LokiTurnedAway
    BY <1>2 DEF LokiQueued, LokiTurnedAway, LokiTyped
  <2>2. lokiQueue' \in Seq(LokiLines) /\ ToSet(lokiQueue') = ToSet(lokiQueue) \union {l}
    BY <1>2, LokiAppended DEF LokiTyped
  <2>3. LokiTyped' /\ LokiNoteInv' /\ LokiTurnInv'
    BY <1>2, <2>2 DEF LokiTyped, LokiNoteInv, LokiTurnInv
  <2>4. LokiLineInv' /\ LokiDropInv' /\ LokiAskInv'
    BY <1>2, <2>1, <2>2 DEF LokiLineInv, LokiDropInv, LokiAskInv
  <2> QED
    BY <1>0, <2>3, <2>4
<1>3. CASE lokiCall' = [lokiCall EXCEPT ![l] = "dropped"] /\ lokiDropped' = lokiDropped + 1
           /\ UNCHANGED lokiQueue
  <2>1. LokiQueued' = LokiQueued
    BY <1>3 DEF LokiQueued, LokiTyped
  <2>2. LokiDropInv'
    <3>1. Cardinality(LokiTurnedAway') = Cardinality(LokiTurnedAway) + 1
      BY <1>3, LokiOneMore
    <3>2. UNCHANGED <<lokiNote, lokiTold, lokiUntold>>
      OBVIOUS
    <3>3. LokiTyped /\ LokiDropInv
      OBVIOUS
    <3> HIDE DEF LokiAdd, LokiInv
    <3> QED
      BY <1>3, <3>1, <3>2, <3>3 DEF LokiDropInv, LokiTyped
  <2> QED
    BY <1>0, <1>3, <2>1, <2>2 DEF LokiTyped, LokiLineInv, LokiNoteInv, LokiTurnInv, LokiAskInv
<1> QED
  BY <1>1, <1>2, <1>3

LEMMA LokiTakeKeeps ==
  ASSUME LokiInv, LokiTake PROVE LokiInv'
<1> DEFINE batch == lokiBatch \union {Head(lokiQueue)}
<1> USE DEF LokiInv
<1>1. /\ lokiQueue # <<>> /\ lokiQueue' = Tail(lokiQueue) /\ lokiBatch' = batch
      /\ lokiWorker \in {"select", "drain"} /\ lokiNote = 0
      /\ UNCHANGED <<lokiCall, lokiPushed, lokiLost, lokiTold, lokiUntold, lokiMain, lokiAsked,
                     lokiClosed>>
  BY DEF LokiTake, LokiPush, lokiMainVars, LokiNoteInv
<1>2. lokiQueue' \in Seq(LokiLines) /\ ToSet(lokiQueue) = {Head(lokiQueue)} \union ToSet(lokiQueue')
  BY <1>1, LokiHeadAndTail DEF LokiTyped
<1>3. \/ lokiWorker' = lokiWorker /\ UNCHANGED <<lokiDropped, lokiNote, lokiNext>>
      \/ /\ lokiWorker' = "push" /\ lokiNext' = lokiWorker
         /\ lokiNote' = lokiDropped /\ lokiDropped' = 0
  BY DEF LokiTake, LokiPush
<1> HIDE DEF batch
<1>4. LokiTyped' /\ LokiNoteInv' /\ LokiTurnInv'
  BY <1>1, <1>2, <1>3 DEF LokiTyped, LokiNoteInv, LokiTurnInv
<1>5. LokiDropInv'
  <2>1. LokiTurnedAway' = LokiTurnedAway
    BY <1>1 DEF LokiTurnedAway
  <2> QED
    BY <1>1, <1>3, <2>1 DEF LokiDropInv, LokiTyped
<1>6. LokiLineInv' /\ LokiAskInv'
  <2>1. LokiQueued' = LokiQueued
    BY <1>1 DEF LokiQueued
  <2>2. ToSet(lokiQueue') \union batch = ToSet(lokiQueue) \union lokiBatch
    BY <1>2 DEF batch
  <2>3. LokiLineInv'
    BY <1>1, <2>1, <2>2 DEF LokiLineInv
  <2>4. LokiAskInv'
    BY <1>1, <1>3, <2>2 DEF LokiAskInv, LokiTurnInv
  <2> QED
    BY <2>3, <2>4
<1>7. LokiErrorInv'
  <2>1. UNCHANGED lokiTimeVars
    BY DEF LokiTake
  <2> QED
    BY <1>1, <2>1, LokiErrorKept
<1> QED
  BY <1>4, <1>5, <1>6, <1>7

\* A push of what is in the batch: the worker goes on, or sends first.
LEMMA LokiPushKeeps ==
  ASSUME LokiInv, LokiTick \/ LokiDrained PROVE LokiInv'
<1> USE DEF LokiInv, LokiTick, LokiDrained, LokiPush, lokiMainVars
<1>1. LokiTyped' /\ LokiNoteInv' /\ LokiTurnInv'
  BY DEF LokiTyped, LokiNoteInv, LokiTurnInv
<1>2. LokiDropInv'
  <2>1. LokiTurnedAway' = LokiTurnedAway /\ lokiNote = 0
    BY DEF LokiTurnedAway, LokiNoteInv
  <2> QED
    BY <2>1 DEF LokiDropInv, LokiTyped
<1>3. LokiLineInv' /\ LokiAskInv'
  BY LokiEmpty DEF LokiLineInv, LokiAskInv, LokiQueued, LokiTurnInv
<1>4. LokiErrorInv'
  BY LokiErrorKept
<1> QED
  BY <1>1, <1>2, <1>3, <1>4

LEMMA LokiSendKeeps ==
  ASSUME LokiInv, LokiSend PROVE LokiInv'
<1> USE DEF LokiInv, LokiSend, lokiMainVars
<1>1. LokiTyped' /\ LokiNoteInv' /\ LokiTurnInv'
  BY DEF LokiTyped, LokiNoteInv, LokiTurnInv
<1>2. LokiDropInv'
  BY DEF LokiDropInv, LokiTyped, LokiTurnedAway
<1>3. LokiLineInv' /\ LokiAskInv'
  BY DEF LokiLineInv, LokiAskInv, LokiQueued
<1>4. LokiErrorInv'
  <2>1. CASE UNCHANGED <<lokiLost, lokiUntold, lokiErrorVars>>
    BY <2>1, LokiErrorKept DEF lokiTimeVars
  <2>2. CASE LokiReport
    <3>1. lokiClock' = lokiClock /\ LokiErrorInterval \in Nat \ {0}
      BY LokiAssumption
    <3>2. CASE lokiClock - lokiLastErrorAt < LokiErrorInterval
      <4>1. /\ lokiSilences' = lokiSilences \union {lokiClock}
            /\ UNCHANGED <<lokiLastErrorAt, lokiReports>>
        BY <2>2, <3>1, <3>2 DEF LokiReport, LokiErrorInv
      <4>2. lokiReports # {}
        BY <3>1, <3>2 DEF LokiErrorInv
      <4>3. lokiLastErrorAt \in lokiReports /\ lokiLastErrorAt <= lokiClock
            /\ lokiClock < lokiLastErrorAt + LokiErrorInterval
        BY <3>1, <3>2, <4>2 DEF LokiErrorInv
      <4> QED
        BY <3>1, <4>1, <4>2, <4>3 DEF LokiErrorInv
    <3>3. CASE lokiClock - lokiLastErrorAt >= LokiErrorInterval
      <4>1. /\ lokiLastErrorAt' = lokiClock /\ lokiReports' = lokiReports \union {lokiClock}
            /\ UNCHANGED lokiSilences
        BY <2>2, <3>1, <3>3 DEF LokiReport, LokiErrorInv
      <4>2. \A q \in lokiReports : q \in Nat /\ q + LokiErrorInterval <= lokiClock
        BY <3>1, <3>3 DEF LokiErrorInv
      <4> QED
        BY <3>1, <4>1, <4>2 DEF LokiErrorInv
    <3> QED
      BY <3>1, <3>2, <3>3 DEF LokiErrorInv
  <2> QED
    BY <2>1, <2>2
<1> QED
  BY <1>1, <1>2, <1>3, <1>4

\* Time moves away from the reports.
LEMMA LokiTimeKeeps ==
  ASSUME LokiInv, LokiTimePasses PROVE LokiInv'
<1> USE DEF LokiInv, LokiTimePasses, lokiWorkerVars, lokiErrorVars, lokiMainVars
<1>1. LokiTyped' /\ LokiLineInv' /\ LokiDropInv' /\ LokiNoteInv' /\ LokiTurnInv' /\ LokiAskInv'
  BY DEF LokiTyped, LokiLineInv, LokiDropInv, LokiNoteInv, LokiTurnInv, LokiAskInv, LokiQueued, LokiTurnedAway
<1>2. LokiErrorInv'
  BY DEF LokiErrorInv
<1> QED
  BY <1>1, <1>2

\* Worker and main talk to each other; no line moves.
LEMMA LokiTalkKeeps ==
  ASSUME LokiInv, LokiSees \/ LokiAck \/ LokiFatal \/ LokiStop \/ LokiGivesUp \/ LokiExit
  PROVE  LokiInv'
<1> USE DEF LokiInv
<1>1. UNCHANGED <<lokiCall, lokiQueue, lokiDropped, lokiBatch, lokiNote, lokiNext, lokiPushed, lokiLost,
                  lokiTold, lokiUntold, lokiTimeVars>>
  BY DEF LokiSees, LokiAck, LokiFatal, LokiStop, LokiAsk, LokiGivesUp, LokiExit, lokiWorkerVars
<1>2. LokiLineInv' /\ LokiDropInv' /\ LokiErrorInv'
  BY <1>1, LokiErrorKept DEF LokiLineInv, LokiDropInv, LokiQueued, LokiTurnedAway
<1>3. CASE LokiSees
  BY <1>1, <1>2, <1>3 DEF LokiSees, LokiTyped, LokiNoteInv, LokiTurnInv, LokiAskInv
<1>4. CASE LokiAck
  BY <1>1, <1>2, <1>4 DEF LokiAck, LokiTyped, LokiNoteInv, LokiTurnInv, LokiAskInv
<1>5. CASE LokiFatal \/ LokiStop \/ LokiGivesUp \/ LokiExit
  BY <1>1, <1>2, <1>5 DEF LokiFatal, LokiStop, LokiAsk, LokiGivesUp, LokiExit, lokiWorkerVars,
     LokiTyped, LokiNoteInv, LokiTurnInv, LokiAskInv
<1> QED
  BY <1>3, <1>4, <1>5

LEMMA LokiLoadKeeps ==
  ASSUME LokiInv, NEW l \in LokiLines, LokiLoad(l) PROVE LokiInv'
<1> USE DEF LokiInv, LokiLoad, lokiWorkerVars, lokiMainVars
<1>1. LokiQueued' = LokiQueued /\ LokiTurnedAway' = LokiTurnedAway
  BY DEF LokiQueued, LokiTurnedAway, LokiTyped
<1> QED
  BY <1>1, LokiErrorKept DEF LokiTyped, LokiLineInv, LokiDropInv, LokiNoteInv, LokiTurnInv, LokiAskInv

LEMMA LokiStepInv == LokiInv /\ [LokiSteps]_lokiVars => LokiInv'
<1> SUFFICES ASSUME LokiInv, [LokiSteps]_lokiVars PROVE LokiInv'
  OBVIOUS
<1>1. CASE LokiSteps
  BY <1>1, LokiLoadKeeps, LokiAddKeeps, LokiTakeKeeps, LokiPushKeeps, LokiSendKeeps, LokiTalkKeeps,
     LokiTimeKeeps
     DEF LokiSteps, LokiWorks
<1>2. CASE UNCHANGED lokiVars
  BY <1>2, LokiErrorKept DEF lokiVars, lokiWorkerVars, lokiMainVars, LokiInv, LokiTyped, LokiLineInv, LokiDropInv,
     LokiNoteInv, LokiTurnInv, LokiAskInv, LokiQueued, LokiTurnedAway
<1> QED
  BY <1>1, <1>2

\* logger/loki.go: no line and no dropped line is unaccounted for, a flush or stop that was not cut
\* off has pushed everything that was queued before it or failed to, and a push whose failure is
\* not reported failed less than a minute after one whose failure was.
THEOREM LokiAccounts == LokiSpec => []LokiLinesAreAccounted
<1>1. LokiInv => LokiLinesAreAccounted
  <2> SUFFICES ASSUME LokiInv PROVE LokiLinesAreAccounted
    OBVIOUS
  <2>1. lokiLost # {} \/ lokiUntold > 0 => lokiReports # {}
    BY DEF LokiInv, LokiErrorInv
  <2> QED
    BY <2>1 DEF LokiInv, LokiLinesAreAccounted, LokiLineInv, LokiDropInv, LokiAskInv, LokiErrorInv,
       LokiQueued, LokiTurnedAway
<1> QED
  BY <1>1, LokiInitInv, LokiStepInv, PTL DEF LokiSpec

=============================================================================
