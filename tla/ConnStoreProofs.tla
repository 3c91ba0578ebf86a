--------------------------- MODULE ConnStoreProofs ---------------------------
(***************************************************************************)
(* Theorems of ConnStore for any streams and any finite set of ids.        *)
(*                                                                         *)
(* Store and metrics are written by key, by streams that share keys.  What *)
(* holds whatever they do is that an entry belongs to a stream of its key  *)
(* that has not removed it; what a stream can rely on for itself holds as  *)
(* long as no other stream has its id.                                     *)
(***************************************************************************)
EXTENDS ConnStore, FiniteSetTheorems, TLAPS

\* The types the proofs need; what the gauge counts is GaugeInv.
Typed ==
  /\ id \in [Streams -> Ids]
  /\ phase \in [Streams -> {"new", "stored", "serving", "cancelled", "unlisted", "ended"}]
  /\ loop \in [Streams -> {"off", "between", "reading", "over"}]
  /\ marked \in [Streams -> BOOLEAN]
  /\ timer \in [Streams -> {"off", "armed", "ringing", "late"}]
  /\ state \in [Streams -> States]
  /\ store \in [Ids -> Streams \cup {None}]
  /\ series \in [Ids -> States \cup {"none"}]
  /\ gauge \in [States -> Nat]
  /\ DOMAIN found = Streams

\* Nothing reads before the RPC is served, and a timer that can still mark belongs to a run.
LoopInv ==
  \A s \in Streams :
    /\ phase[s] \in {"new", "stored"} => loop[s] = "off" /\ timer[s] = "off" /\ found[s] = Nothing
    /\ timer[s] \in {"armed", "ringing"} => loop[s] = "reading"
    /\ loop[s] = "off" => timer[s] = "off"

\* A bag is stored under its own key, by an RPC that is neither new nor over.
BagInv ==
  \A i \in Ids : store[i] # None => id[store[i]] = i /\ phase[store[i]] \notin {"new", "ended"}

\* What a stream without a rival for its id finds.
AloneInv ==
  \A s \in Streams : Alone(s) =>
    /\ phase[s] \in {"stored", "serving", "cancelled", "unlisted"} => store[id[s]] = s
    /\ phase[s] \in {"serving", "cancelled"} => series[id[s]] = state[s]

\* A strategy that was looked up is another stream's only if one shares the id.
FoundInv ==
  \A s \in Streams :
    found[s] # Nothing /\ phase[s] = "serving" /\ found[s] # s =>
      \E t \in Streams \ {s} : id[t] = id[s]

IInv ==
  /\ Typed /\ LoopInv /\ BagInv /\ NoGhostSeries /\ GaugeCounts /\ ConnectedMeansReading
  /\ AloneInv /\ FoundInv /\ OthersKeepTheirStrategy

-----------------------------------------------------------------------------
(* The metrics.                                                            *)

\* One key goes from its state to the state y, or to none: the gauge goes along.
LEMMA Recount ==
  ASSUME Typed, GaugeCounts, NEW i \in Ids, NEW y \in States \cup {"none"},
         gauge' = Moved(series[i], y), series' = [series EXCEPT ![i] = y]
  PROVE  /\ gauge' \in [States -> Nat] /\ series' \in [Ids -> States \cup {"none"}]
         /\ GaugeCounts'
<1>1. series' \in [Ids -> States \cup {"none"}]
  BY DEF Typed
<1>2. ASSUME NEW z \in States
      PROVE  gauge'[z] \in Nat /\ gauge'[z] = Cardinality({j \in Ids : series'[j] = z})
  <2> DEFINE A == {j \in Ids : series[j] = z}
  <2> DEFINE B == {j \in Ids : series'[j] = z}
  <2>1. IsFiniteSet(A) /\ Cardinality(A) \in Nat /\ gauge[z] = Cardinality(A)
    BY IdsAssumption, FS_Subset, FS_CardinalityType DEF GaugeCounts
  <2>2. gauge'[z] = (Cardinality(A) + (IF z = y THEN 1 ELSE 0)) - (IF z = series[i] THEN 1 ELSE 0)
    BY <2>1 DEF Moved
  <2>3. CASE (z = y) = (z = series[i])
    <3>1. B = A
      BY <2>3 DEF Typed
    <3> QED
      <4>1. gauge'[z] = Cardinality(A)
        BY <2>1, <2>2, <2>3
      <4> HIDE DEF A, B
      <4>2. gauge'[z] \in Nat /\ gauge'[z] = Cardinality(B)
        BY <2>1, <3>1, <4>1
      <4> QED
        BY <4>2 DEF B
  <2>4. CASE z = y /\ z # series[i]
    <3>1. B = A \cup {i} /\ i \notin A
      BY <2>4 DEF Typed
    <3>2. Cardinality(B) = Cardinality(A) + 1
      BY <2>1, <3>1, FS_AddElement
    <3> QED
      BY <2>1, <2>2, <2>4, <3>2
  <2>5. CASE z # y /\ z = series[i]
    <3>1. B = A \ {i} /\ i \in A
      BY <2>5 DEF Typed
    <3>2. Cardinality(B) = Cardinality(A) - 1
      BY <2>1, <3>1, FS_RemoveElement
    <3>3. Cardinality(A) # 0
      BY <2>1, <3>1, FS_EmptySet
    <3> QED
      BY <2>1, <2>2, <2>5, <3>2, <3>3
  <2> QED
    BY <2>3, <2>4, <2>5
<1>3. gauge' \in [States -> Nat]
  BY <1>2 DEF Moved
<1> QED
  BY <1>1, <1>2, <1>3 DEF GaugeCounts

\* The metrics after a step: they are as they were, or one key was moved on.
MetricsStep(s) ==
  \/ UNCHANGED <<series, gauge>>
  \/ \E y \in States \cup {"none"} :
       /\ gauge' = Moved(series[id[s]], y) /\ series' = [series EXCEPT ![id[s]] = y]
       /\ y # "none" => phase'[s] = "serving" \/ series[id[s]] # "none"

LEMMA SetStateMoves ==
  ASSUME Typed, NEW s \in Streams, NEW x \in States, SetState(s, x)
  PROVE  MetricsStep(s) /\ state' = [state EXCEPT ![s] = x]
BY DEF SetState, ChangeConsumerState, KeyOf, MetricsStep

LEMMA MetricsMove ==
  ASSUME Typed, NEW s \in Streams, Rpc(s) \/ Reading(s)
  PROVE  MetricsStep(s)
<1>1. CASE AddBag(s) \/ Cancel(s) \/ RemoveBag(s) \/ StartReading(s) \/ TimerRings(s)
           \/ FindRepeatStrategy(s) \/ StoreRow(s)
  BY <1>1 DEF AddBag, Cancel, RemoveBag, StartReading, TimerRings, FindRepeatStrategy, StoreRow,
              MetricsStep
<1>2. CASE AddSeries(s)
  BY <1>2 DEF AddSeries, KeyOf, MetricsStep, Typed
<1>3. CASE RemoveSeries(s)
  BY <1>3 DEF RemoveSeries, KeyOf, MetricsStep
<1>4. CASE FirstBatch(s) \/ TimerMarks(s) \/ StopReading(s)
  <2>1. "connected" \in States /\ "reconnecting" \in States
    BY DEF States
  <2>2. UNCHANGED <<series, gauge>> \/ SetState(s, "connected") \/ SetState(s, "reconnecting")
    BY <1>4 DEF FirstBatch, TimerMarks, StopReading
  <2> QED
    BY <2>1, <2>2, SetStateMoves DEF MetricsStep
<1> QED
  BY <1>1, <1>2, <1>3, <1>4 DEF Rpc, Reading

LEMMA StepKeepsMetrics ==
  ASSUME Typed, GaugeCounts, NEW s \in Streams, Rpc(s) \/ Reading(s)
  PROVE  /\ gauge' \in [States -> Nat] /\ series' \in [Ids -> States \cup {"none"}]
         /\ GaugeCounts'
<1>1. CASE UNCHANGED <<series, gauge>>
  BY <1>1 DEF Typed, GaugeCounts
<1>2. ASSUME NEW y \in States \cup {"none"},
             gauge' = Moved(series[id[s]], y), series' = [series EXCEPT ![id[s]] = y]
      PROVE  /\ gauge' \in [States -> Nat] /\ series' \in [Ids -> States \cup {"none"}]
             /\ GaugeCounts'
  <2>1. id[s] \in Ids
    BY DEF Typed
  <2> QED
    BY <1>2, <2>1, Recount
<1> QED
  BY <1>1, <1>2, MetricsMove DEF MetricsStep

-----------------------------------------------------------------------------
(* The types and the goroutines of a stream.                               *)

\* A step of s leaves what belongs to another stream alone.
LEMMA OthersStay ==
  ASSUME Typed, NEW s \in Streams, Rpc(s) \/ Reading(s), NEW t \in Streams, t # s
  PROVE  /\ phase'[t] = phase[t] /\ loop'[t] = loop[t] /\ marked'[t] = marked[t]
         /\ timer'[t] = timer[t] /\ state'[t] = state[t] /\ found'[t] = found[t]
BY DEF Typed, Rpc, Reading, AddBag, AddSeries, Cancel, RemoveSeries, RemoveBag, StartReading,
       FirstBatch, TimerRings, TimerMarks, StopReading, FindRepeatStrategy, StoreRow, SetState,
       streamVars

LEMMA StreamTyped ==
  ASSUME Typed, NEW s \in Streams, Rpc(s) \/ Reading(s)
  PROVE  /\ phase' \in [Streams -> {"new", "stored", "serving", "cancelled", "unlisted", "ended"}]
         /\ loop' \in [Streams -> {"off", "between", "reading", "over"}]
         /\ marked' \in [Streams -> BOOLEAN]
         /\ timer' \in [Streams -> {"off", "armed", "ringing", "late"}]
         /\ state' \in [Streams -> States]
         /\ DOMAIN found' = Streams
<1>1. CASE AddBag(s) \/ Cancel(s) \/ RemoveSeries(s) \/ RemoveBag(s)
  BY <1>1 DEF Typed, AddBag, Cancel, RemoveSeries, RemoveBag
<1>2. CASE AddSeries(s)
  BY <1>2 DEF Typed, AddSeries
<1>3. CASE StartReading(s)
  BY <1>3 DEF Typed, StartReading
<1>4. CASE TimerRings(s)
  BY <1>4 DEF Typed, TimerRings
<1>5. CASE FindRepeatStrategy(s)
  BY <1>5 DEF Typed, FindRepeatStrategy, streamVars
<1>6. CASE StoreRow(s)
  BY <1>6 DEF Typed, StoreRow, streamVars
<1>7. CASE FirstBatch(s)
  BY <1>7 DEF Typed, FirstBatch, SetState, States
<1>8. CASE TimerMarks(s)
  BY <1>8 DEF Typed, TimerMarks, SetState, States
<1>9. CASE StopReading(s)
  BY <1>9 DEF Typed, StopReading, SetState, States
<1> QED
  BY <1>1, <1>2, <1>3, <1>4, <1>5, <1>6, <1>7, <1>8, <1>9 DEF Rpc, Reading

\* The store after a step: only AddBag and RemoveBag write it.
LEMMA StoreMoves ==
  ASSUME Typed, NEW s \in Streams, Rpc(s) \/ Reading(s)
  PROVE  \/ UNCHANGED store
         \/ AddBag(s) /\ store' = [store EXCEPT ![id[s]] = s]
         \/ RemoveBag(s) /\ store' = [store EXCEPT ![id[s]] = None]
BY DEF Rpc, Reading, AddBag, AddSeries, Cancel, RemoveSeries, RemoveBag, StartReading, FirstBatch,
       TimerRings, TimerMarks, StopReading, FindRepeatStrategy, StoreRow, KeyOf, streamVars

LEMMA StepKeepsTyped ==
  ASSUME Typed, GaugeCounts, NEW s \in Streams, Rpc(s) \/ Reading(s), UNCHANGED id
  PROVE  Typed'
<1>1. store' \in [Ids -> Streams \cup {None}]
  BY StoreMoves DEF Typed
<1>2. gauge' \in [States -> Nat] /\ series' \in [Ids -> States \cup {"none"}]
  BY StepKeepsMetrics
<1>3. id' \in [Streams -> Ids]
  BY DEF Typed
<1> QED
  BY <1>1, <1>2, <1>3, StreamTyped DEF Typed

LEMMA StepKeepsLoop ==
  ASSUME Typed, Typed', LoopInv, ConnectedMeansReading, NEW s \in Streams, Rpc(s) \/ Reading(s)
  PROVE  LoopInv' /\ ConnectedMeansReading'
<1> USE DEF LoopInv, ConnectedMeansReading
<1> SUFFICES ASSUME NEW t \in Streams
             PROVE  /\ phase'[t] \in {"new", "stored"} => loop'[t] = "off" /\ timer'[t] = "off" /\ found'[t] = Nothing
                    /\ timer'[t] \in {"armed", "ringing"} => loop'[t] = "reading"
                    /\ loop'[t] = "off" => timer'[t] = "off"
                    /\ state'[t] = "connected" => loop'[t] = "reading" /\ marked'[t]
  OBVIOUS
<1>1. CASE t # s
  BY <1>1, OthersStay
<1>2. CASE t = s
  <2>1. CASE Rpc(s)
    BY <1>2, <2>1 DEF Rpc, AddBag, AddSeries, Cancel, RemoveSeries, RemoveBag, Typed
  <2>2. CASE StartReading(s) \/ TimerRings(s)
    BY <1>2, <2>2 DEF StartReading, TimerRings, Typed
  <2>3. CASE FindRepeatStrategy(s) \/ StoreRow(s)
    BY <1>2, <2>3 DEF FindRepeatStrategy, StoreRow, streamVars, Typed
  <2>4. CASE FirstBatch(s)
    BY <1>2, <2>4 DEF FirstBatch, SetState, Typed
  <2>5. CASE TimerMarks(s)
    BY <1>2, <2>5 DEF TimerMarks, SetState, Typed
  <2>6. CASE StopReading(s)
    BY <1>2, <2>6 DEF StopReading, SetState, Typed
  <2> QED
    BY <2>1, <2>2, <2>3, <2>4, <2>5, <2>6 DEF Reading
<1> QED
  BY <1>1, <1>2

-----------------------------------------------------------------------------
(* What is stored under a key.                                             *)

\* The phases follow each other, one by one.
LEMMA PhaseMoves ==
  ASSUME Typed, NEW s \in Streams, Rpc(s) \/ Reading(s)
  PROVE  \/ AddBag(s) /\ phase[s] = "new" /\ phase'[s] = "stored"
         \/ AddSeries(s) /\ phase[s] = "stored" /\ phase'[s] = "serving"
         \/ Cancel(s) /\ phase[s] = "serving" /\ phase'[s] = "cancelled"
         \/ RemoveSeries(s) /\ phase[s] = "cancelled" /\ phase'[s] = "unlisted"
         \/ RemoveBag(s) /\ phase[s] = "unlisted" /\ phase'[s] = "ended"
         \/ Reading(s) /\ phase'[s] = phase[s]
BY DEF Typed, Rpc, Reading, AddBag, AddSeries, Cancel, RemoveSeries, RemoveBag, StartReading,
       FirstBatch, TimerRings, TimerMarks, StopReading, FindRepeatStrategy, StoreRow, streamVars

LEMMA StepKeepsBag ==
  ASSUME Typed, Typed', BagInv, NEW s \in Streams, Rpc(s) \/ Reading(s), UNCHANGED id
  PROVE  BagInv'
<1> SUFFICES ASSUME NEW i \in Ids, store'[i] # None
             PROVE  id[store'[i]] = i /\ phase'[store'[i]] \notin {"new", "ended"}
  BY DEF BagInv
<1>1. CASE AddBag(s) /\ i = id[s]
  <2>1. store'[i] = s /\ phase'[s] = "stored"
    BY <1>1 DEF AddBag, KeyOf, Typed
  <2> QED
    BY <1>1, <2>1
<1>2. CASE ~(AddBag(s) /\ i = id[s])
  <2>1. store'[i] = store[i]
    BY <1>2, StoreMoves DEF Typed
  <2>2. store[i] \in Streams /\ id[store[i]] = i /\ phase[store[i]] \notin {"new", "ended"}
    BY <2>1 DEF BagInv, Typed
  <2>3. ~RemoveBag(s) \/ store[i] # s
    <3>1. RemoveBag(s) => store'[id[s]] = None
      BY DEF RemoveBag, KeyOf, Typed
    <3> QED
      BY <2>2, <3>1
  <2>4. phase'[store[i]] \notin {"new", "ended"}
    BY <2>2, <2>3, PhaseMoves, OthersStay
  <2> QED
    BY <2>1, <2>2, <2>4
<1> QED
  BY <1>1, <1>2

LEMMA StepKeepsSeries ==
  ASSUME Typed, Typed', NoGhostSeries, NEW s \in Streams, Rpc(s) \/ Reading(s), UNCHANGED id
  PROVE  NoGhostSeries'
<1> SUFFICES ASSUME NEW i \in Ids, series'[i] # "none"
             PROVE  \E t \in Streams : id[t] = i /\ phase'[t] \in {"serving", "cancelled"}
  BY DEF NoGhostSeries
<1>1. CASE phase'[s] = "serving" /\ id[s] = i
  BY <1>1
<1>2. CASE ~(phase'[s] = "serving" /\ id[s] = i)
  <2>1. series[i] # "none"
    BY <1>2, MetricsMove DEF MetricsStep, Typed
  <2>2. PICK t \in Streams : id[t] = i /\ phase[t] \in {"serving", "cancelled"}
    BY <2>1 DEF NoGhostSeries
  <2>3. CASE t # s
    BY <2>2, <2>3, OthersStay
  <2>4. CASE t = s
    <3>1. RemoveSeries(s) => series'[id[s]] = "none"
      BY DEF RemoveSeries, KeyOf, Typed
    <3>2. phase'[s] \in {"serving", "cancelled"}
      BY <2>2, <2>4, <3>1, PhaseMoves
    <3> QED
      BY <2>2, <2>4, <3>2
  <2> QED
    BY <2>3, <2>4
<1> QED
  BY <1>1, <1>2

\* The state of a stream and the metrics of its key change together, unless its RPC does.
LEMMA StateAndSeries ==
  ASSUME Typed, NEW s \in Streams, Reading(s), series[id[s]] = state[s]
  PROVE  series'[id[s]] = state'[s]
<1>0. series[id[s]] # "none" /\ id[s] \in Ids
  BY DEF Typed, States
<1>1. ASSUME NEW x \in States, SetState(s, x) PROVE series'[id[s]] = state'[s]
  BY <1>0, <1>1 DEF SetState, ChangeConsumerState, KeyOf, Typed
<1>2. UNCHANGED <<state, series>> \/ SetState(s, "connected") \/ SetState(s, "reconnecting")
  BY DEF Reading, StartReading, FirstBatch, TimerRings, TimerMarks, StopReading, FindRepeatStrategy,
         StoreRow, streamVars
<1> QED
  BY <1>1, <1>2 DEF States

LEMMA StepKeepsAlone ==
  ASSUME Typed, Typed', LoopInv, AloneInv, NEW s \in Streams, Rpc(s) \/ Reading(s), UNCHANGED id
  PROVE  AloneInv'
<1> SUFFICES ASSUME NEW t \in Streams, Alone(t)'
             PROVE  /\ phase'[t] \in {"stored", "serving", "cancelled", "unlisted"} => store'[id[t]] = t
                    /\ phase'[t] \in {"serving", "cancelled"} => series'[id[t]] = state'[t]
  BY DEF AloneInv
<1>1. CASE t = s
  <2>1. Alone(s)
    BY <1>1, OthersStay DEF Alone
  <2>2. CASE AddBag(s)
    BY <1>1, <2>2 DEF AddBag, KeyOf, Typed
  <2>3. CASE AddSeries(s)
    BY <1>1, <2>1, <2>3 DEF AddSeries, KeyOf, Typed, AloneInv
  <2>4. CASE Cancel(s)
    BY <1>1, <2>1, <2>4 DEF Cancel, Typed, AloneInv
  <2>5. CASE RemoveSeries(s)
    BY <1>1, <2>1, <2>5 DEF RemoveSeries, Typed, AloneInv
  <2>6. CASE RemoveBag(s)
    BY <1>1, <2>6 DEF RemoveBag, Typed
  <2>7. CASE Reading(s)
    <3>1. phase'[s] = phase[s] /\ UNCHANGED store
      BY <2>7 DEF Reading, StartReading, FirstBatch, TimerRings, TimerMarks, StopReading,
                  FindRepeatStrategy, StoreRow, streamVars
    <3> QED
      BY <1>1, <2>1, <2>7, <3>1, StateAndSeries DEF AloneInv
  <2> QED
    BY <2>2, <2>3, <2>4, <2>5, <2>6, <2>7 DEF Rpc
<1>2. CASE t # s
  <2>1. phase'[t] = phase[t] /\ state'[t] = state[t]
    BY <1>2, OthersStay
  <2>2. Alone(t)
    BY <1>2, OthersStay, PhaseMoves DEF Alone
  <2>3. CASE id[s] # id[t]
    <3>1. store'[id[t]] = store[id[t]] /\ series'[id[t]] = series[id[t]]
      BY <2>3, StoreMoves, MetricsMove DEF MetricsStep, Typed
    <3> QED
      BY <2>1, <2>2, <3>1 DEF AloneInv
  <2>4. CASE id[s] = id[t]
    <3>1. phase'[s] = "new"
      BY <1>2, <2>4 DEF Alone
    <3>2. phase[s] = "new" /\ Reading(s)
      BY <3>1, PhaseMoves
    <3>3. loop[s] = "off" /\ timer[s] = "off" /\ found[s] = Nothing
      BY <3>2 DEF LoopInv
    <3>4. FALSE
      BY <3>2, <3>3 DEF Reading, StartReading, FirstBatch, TimerRings, TimerMarks, StopReading,
                        FindRepeatStrategy, StoreRow
    <3> QED
      BY <3>4
  <2> QED
    BY <2>3, <2>4
<1> QED
  BY <1>1, <1>2

-----------------------------------------------------------------------------
(* The strategy of a failed message.                                       *)

LEMMA StepKeepsFound ==
  ASSUME Typed, Typed', LoopInv, AloneInv, FoundInv, NEW s \in Streams, Rpc(s) \/ Reading(s),
         UNCHANGED id
  PROVE  FoundInv'
<1> SUFFICES ASSUME NEW t \in Streams, found'[t] # Nothing, phase'[t] = "serving", found'[t] # t
             PROVE  \E u \in Streams \ {t} : id[u] = id[t]
  BY DEF FoundInv
<1>1. CASE t # s
  BY <1>1, OthersStay DEF FoundInv
<1>2. CASE t = s
  <2>1. CASE FindRepeatStrategy(s)
    <3>1. phase[s] = "serving" /\ found'[s] \in FindBest(id[s])
      BY <1>2, <2>1 DEF FindRepeatStrategy, streamVars, KeyOf, Typed
    <3>2. CASE Alone(s)
      <4>1. store[id[s]] = s
        BY <3>1, <3>2 DEF AloneInv
      <4>2. FindBest(id[s]) = {s}
        BY <4>1, NoneAssumption DEF FindBest
      <4> QED
        BY <1>2, <3>1, <4>2
    <3>3. CASE ~Alone(s)
      BY <1>2, <3>3 DEF Alone
    <3> QED
      BY <3>2, <3>3
  <2>2. CASE StoreRow(s)
    BY <1>2, <2>2 DEF StoreRow, Typed
  <2>3. CASE ~FindRepeatStrategy(s) /\ ~StoreRow(s)
    <3>1. UNCHANGED found
      BY <2>3 DEF Rpc, Reading, AddBag, AddSeries, Cancel, RemoveSeries, RemoveBag, StartReading,
                  FirstBatch, TimerRings, TimerMarks, StopReading
    <3>2. phase[s] = "serving"
      BY <1>2, <3>1, PhaseMoves DEF LoopInv
    <3> QED
      BY <1>2, <3>1, <3>2 DEF FoundInv
  <2> QED
    BY <2>1, <2>2, <2>3
<1> QED
  BY <1>1, <1>2

LEMMA StepKeepsRows ==
  ASSUME FoundInv, OthersKeepTheirStrategy, NEW s \in Streams, Rpc(s) \/ Reading(s), UNCHANGED id
  PROVE  OthersKeepTheirStrategy'
<1>1. CASE StoreRow(s)
  BY <1>1 DEF StoreRow, FoundInv, OthersKeepTheirStrategy
<1>2. CASE ~StoreRow(s)
  <2>1. UNCHANGED rows
    BY <1>2 DEF Rpc, Reading, AddBag, AddSeries, Cancel, RemoveSeries, RemoveBag, StartReading,
                FirstBatch, TimerRings, TimerMarks, StopReading, FindRepeatStrategy
  <2> QED
    BY <2>1 DEF OthersKeepTheirStrategy
<1> QED
  BY <1>1, <1>2

-----------------------------------------------------------------------------

LEMMA InitInv == Init => IInv
<1> SUFFICES ASSUME Init PROVE IInv
  OBVIOUS
<1>1. Typed
  BY DEF Init, Typed, States
<1>2. LoopInv /\ BagInv /\ NoGhostSeries /\ ConnectedMeansReading
  BY DEF Init, LoopInv, BagInv, NoGhostSeries, ConnectedMeansReading
<1>3. GaugeCounts
  <2>1. ASSUME NEW x \in States PROVE {i \in Ids : series[i] = x} = {}
    BY <2>1 DEF Init, States
  <2> QED
    BY <2>1, FS_EmptySet DEF Init, GaugeCounts
<1>4. AloneInv /\ FoundInv /\ OthersKeepTheirStrategy
  BY DEF Init, AloneInv, FoundInv, OthersKeepTheirStrategy
<1> QED
  BY <1>1, <1>2, <1>3, <1>4 DEF IInv

LEMMA StutterKeepsInv == IInv /\ UNCHANGED vars => IInv'
BY DEF IInv, Typed, LoopInv, BagInv, NoGhostSeries, GaugeCounts, ConnectedMeansReading, AloneInv, Alone,
       FoundInv, OthersKeepTheirStrategy, vars, streamVars

LEMMA StepKeepsInv == IInv /\ [Next]_vars => IInv'
<1> SUFFICES ASSUME IInv, [Next]_vars PROVE IInv'
  OBVIOUS
<1>1. ASSUME NEW s \in Streams, Rpc(s) \/ Reading(s), UNCHANGED id PROVE IInv'
  <2>1. Typed'
    BY <1>1, StepKeepsTyped DEF IInv
  <2>2. LoopInv' /\ ConnectedMeansReading'
    BY <1>1, <2>1, StepKeepsLoop DEF IInv
  <2>3. BagInv' /\ NoGhostSeries'
    BY <1>1, <2>1, StepKeepsBag, StepKeepsSeries DEF IInv
  <2>4. GaugeCounts'
    BY <1>1, StepKeepsMetrics DEF IInv
  <2>5. AloneInv' /\ FoundInv'
    BY <1>1, <2>1, StepKeepsAlone, StepKeepsFound DEF IInv
  <2>6. OthersKeepTheirStrategy'
    BY <1>1, StepKeepsRows DEF IInv
  <2> QED
    BY <2>1, <2>2, <2>3, <2>4, <2>5, <2>6 DEF IInv
<1> QED
  BY <1>1, StutterKeepsInv DEF Next

LEMMA AlwaysInv == Spec => []IInv
BY InitInv, StepKeepsInv, PTL DEF Spec

\* The bag of a stream that has ended is not in the store, whatever the order in which any
\* number of streams add and remove by key (consumer_store.go).
THEOREM BagsAreGone == Spec => []NoGhostBag
<1>1. IInv => NoGhostBag
  BY DEF IInv, BagInv, NoGhostBag
<1> QED
  BY <1>1, AlwaysInv, PTL

\* A series exists only while a stream of its id has not removed it (ChangeConsumerState).
THEOREM SeriesAreGone == Spec => []NoGhostSeries
<1>1. IInv => NoGhostSeries
  BY DEF IInv
<1> QED
  BY <1>1, AlwaysInv, PTL

\* The gauge is the number of consumers in each state, for any number of ids (metrics.go).
THEOREM GaugeIsExact == Spec => []GaugeCounts
<1>1. IInv => GaugeCounts
  BY DEF IInv
<1> QED
  BY <1>1, AlwaysInv, PTL

\* Connected means that the current run has read: a late timer marks nothing (consumeOnce).
THEOREM ConnectedReads == Spec => []ConnectedMeansReading
<1>1. IInv => ConnectedMeansReading
  BY DEF IInv
<1> QED
  BY <1>1, AlwaysInv, PTL

\* A served stream without a rival for its id is found, and shown in its state.
THEOREM ServedAreVisible == Spec => []ServedIsVisible
<1>1. IInv => ServedIsVisible
  BY DEF IInv, AloneInv, ServedIsVisible
<1> QED
  BY <1>1, AlwaysInv, PTL

\* Only streams that share an id take each other's retry strategy.
THEOREM StrategiesStayApart == Spec => []OthersKeepTheirStrategy
<1>1. IInv => OthersKeepTheirStrategy
  BY DEF IInv
<1> QED
  BY <1>1, AlwaysInv, PTL

=============================================================================
