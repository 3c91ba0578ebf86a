------------------------------ MODULE ConnStore ------------------------------
(***************************************************************************)
(* What one bus process knows of the consumers connected to it: the store  *)
(* of consumer bags (service/connstore/consumer_store.go), the gauge of    *)
(* active consumers (pkg/metrics/metrics.go) and the streams that write    *)
(* both (service/databus/consume.go).  Both are maps keyed by topic, group *)
(* and consumer id, while a stream's goroutines live on for a while after  *)
(* the client has opened the next one, and both SDKs connect again with    *)
(* the id they had.                                                        *)
(*                                                                         *)
(* One (topic, group): the key is the consumer id.  A stream stands for    *)
(* its bag, its consumer and the retry strategy it connected with.         *)
(***************************************************************************)
EXTENDS Naturals, FiniteSets, Functions

CONSTANTS
  Streams,  \* consume RPCs of the process
  Ids,      \* consumer ids of the group
  None      \* no stream

ASSUME NoneAssumption == None \notin Streams
ASSUME IdsAssumption == IsFiniteSet(Ids)

VARIABLES
  id,      \* stream -> the id its client sent
  phase,   \* stream -> where its RPC is
  loop,    \* stream -> where the goroutine that reads Kafka is
  marked,  \* stream -> this run of consumeOnce has reported connected
  timer,   \* stream -> the stableAfter timer of the run
  state,   \* stream -> Consumer.state
  store,   \* id -> the stream whose bag is stored, or None
  series,  \* id -> state the metrics hold for it, or "none"
  gauge,   \* state -> redbus_active_consumers
  found,   \* stream -> the strategy its handler looked up for a failed message
  rows     \* history: <<stream of the message, stream of the strategy>>

streamVars == <<phase, loop, marked, timer, state>>
vars == <<id, streamVars, store, series, gauge, found, rows>>

States == {"connecting", "connected", "reconnecting"}

\* The handler has looked nothing up; a lookup without a result is None.
Nothing == "nothing"

Init ==
  /\ id \in [Streams -> Ids]
  /\ phase = [s \in Streams |-> "new"]
  /\ loop = [s \in Streams |-> "off"]
  /\ marked = [s \in Streams |-> FALSE]
  /\ timer = [s \in Streams |-> "off"]
  /\ state = [s \in Streams |-> "connecting"]
  /\ store = [i \in Ids |-> None]
  /\ series = [i \in Ids |-> "none"]
  /\ gauge = [x \in States |-> 0]
  /\ found = [s \in Streams |-> Nothing]
  /\ rows = {}

-----------------------------------------------------------------------------
(* The store and the metrics.                                              *)

\* Mutant: the key lacks the consumer id.
GroupKey(s) == CHOOSE i \in Ids : TRUE

\* getKey, and the consumerKey of the metrics.
KeyOf(s) == id[s]

\* Mutant: any bag of the group will do.
AnyBag(i) == IF Range(store) = {None} THEN {None} ELSE Range(store) \ {None}

\* ConsumerStore.findBest: the bag of the id, else any bag of the group.
FindBest(i) ==
  IF store[i] # None THEN {store[i]}
  ELSE IF Range(store) = {None} THEN {None} ELSE Range(store) \ {None}

\* The gauge after one key went from state x to state y ("none": no series).
Moved(x, y) ==
  [z \in States |-> (gauge[z] + (IF z = y THEN 1 ELSE 0)) - (IF z = x THEN 1 ELSE 0)]

\* Mutant: the series of a removed consumer comes back.
Restores(i, x) ==
  /\ gauge' = Moved(series[i], x)
  /\ series' = [series EXCEPT ![i] = x]

\* Metrics.ChangeConsumerState: nothing for a key that is not there.
ChangeConsumerState(i, x) ==
  IF series[i] = "none"
  THEN UNCHANGED <<series, gauge>>
  ELSE /\ gauge' = Moved(series[i], x)
       /\ series' = [series EXCEPT ![i] = x]

-----------------------------------------------------------------------------
(* The RPC.                                                                *)

\* startConsumer stores the bag, then adds the series.
AddBag(s) ==
  /\ phase[s] = "new"
  /\ phase' = [phase EXCEPT ![s] = "stored"]
  /\ store' = [store EXCEPT ![KeyOf(s)] = s]
  /\ UNCHANGED <<loop, marked, timer, state, series, gauge, found, rows>>

\* Mutant: the series that is replaced is not taken off the gauge.
AddsOnly(s) ==
  /\ phase[s] = "stored"
  /\ phase' = [phase EXCEPT ![s] = "serving"]
  /\ gauge' = Moved("none", state[s])
  /\ series' = [series EXCEPT ![KeyOf(s)] = state[s]]
  /\ loop' = [loop EXCEPT ![s] = "between"]
  /\ UNCHANGED <<marked, timer, state, store, found, rows>>

\* Metrics.AddConsumer; then the goroutine that reads Kafka is started.
AddSeries(s) ==
  /\ phase[s] = "stored"
  /\ phase' = [phase EXCEPT ![s] = "serving"]
  /\ gauge' = Moved(series[KeyOf(s)], state[s])
  /\ series' = [series EXCEPT ![KeyOf(s)] = state[s]]
  /\ loop' = [loop EXCEPT ![s] = "between"]
  /\ UNCHANGED <<marked, timer, state, store, found, rows>>

\* The context is cancelled: by the client, the watchdog or the loop.
Cancel(s) ==
  /\ phase[s] = "serving"
  /\ phase' = [phase EXCEPT ![s] = "cancelled"]
  /\ UNCHANGED <<loop, marked, timer, state, store, series, gauge, found, rows>>

\* finishConsumer removes the series, then the bag, each by key.
RemoveSeries(s) ==
  /\ phase[s] = "cancelled"
  /\ phase' = [phase EXCEPT ![s] = "unlisted"]
  /\ series' = [series EXCEPT ![KeyOf(s)] = "none"]
  /\ gauge' = Moved(series[KeyOf(s)], "none")
  /\ UNCHANGED <<loop, marked, timer, state, store, found, rows>>

\* Mutant: the bag is left where it is.
KeepsBag(s) ==
  /\ phase[s] = "unlisted"
  /\ phase' = [phase EXCEPT ![s] = "ended"]
  /\ UNCHANGED <<loop, marked, timer, state, store, series, gauge, found, rows>>

RemoveBag(s) ==
  /\ phase[s] = "unlisted"
  /\ phase' = [phase EXCEPT ![s] = "ended"]
  /\ store' = [store EXCEPT ![KeyOf(s)] = None]
  /\ UNCHANGED <<loop, marked, timer, state, series, gauge, found, rows>>

-----------------------------------------------------------------------------
(* The goroutine that reads Kafka: consumeLoop and consumeOnce.            *)

StartReading(s) ==
  /\ loop[s] = "between"
  /\ loop' = [loop EXCEPT ![s] = "reading"]
  /\ marked' = [marked EXCEPT ![s] = FALSE]
  /\ timer' = [timer EXCEPT ![s] = "armed"]
  /\ UNCHANGED <<phase, state, store, series, gauge, found, rows>>

\* setState: the consumer's state and the metric's, under the mutex of consumeOnce.
SetState(s, x) ==
  /\ state' = [state EXCEPT ![s] = x]
  /\ ChangeConsumerState(KeyOf(s), x)

\* markConnected for the first batch.
FirstBatch(s) ==
  /\ loop[s] = "reading" /\ ~marked[s]
  /\ marked' = [marked EXCEPT ![s] = TRUE]
  /\ SetState(s, "connected")
  /\ UNCHANGED <<phase, loop, timer, store, found, rows>>

\* The timer goes off and its goroutine is on the way to the mutex.
TimerRings(s) ==
  /\ timer[s] = "armed"
  /\ timer' = [timer EXCEPT ![s] = "ringing"]
  /\ UNCHANGED <<phase, loop, marked, state, store, series, gauge, found, rows>>

\* Mutant: the timer does not look whether its run is still active.
MarksAnyway(s) ==
  /\ timer[s] \in {"ringing", "late"}
  /\ timer' = [timer EXCEPT ![s] = "off"]
  /\ marked' = [marked EXCEPT ![s] = TRUE]
  /\ IF marked[s] THEN UNCHANGED <<state, series, gauge>> ELSE SetState(s, "connected")
  /\ UNCHANGED <<phase, loop, store, found, rows>>

\* markConnected from the timer: nothing if the run has ended or is marked already.
TimerMarks(s) ==
  /\ timer[s] \in {"ringing", "late"}
  /\ timer' = [timer EXCEPT ![s] = "off"]
  /\ IF timer[s] = "late" \/ marked[s]
     THEN UNCHANGED <<marked, state, series, gauge>>
     ELSE /\ marked' = [marked EXCEPT ![s] = TRUE]
          /\ SetState(s, "connected")
  /\ UNCHANGED <<phase, loop, store, found, rows>>

\* Consume returned: the timer is stopped, or is late, and the state is reconnecting.
StopReading(s) ==
  /\ loop[s] = "reading"
  /\ found[s] = Nothing
  /\ \E next \in {"between", "over"} : loop' = [loop EXCEPT ![s] = next]
  /\ timer' = [timer EXCEPT ![s] = IF @ = "ringing" THEN "late" ELSE "off"]
  /\ SetState(s, "reconnecting")
  /\ UNCHANGED <<phase, marked, store, found, rows>>

\* A message failed: the handler looks up its strategy, then stores the row.
FindRepeatStrategy(s) ==
  /\ loop[s] = "reading" /\ marked[s] /\ found[s] = Nothing
  /\ \E b \in FindBest(KeyOf(s)) : found' = [found EXCEPT ![s] = b]
  /\ UNCHANGED <<streamVars, store, series, gauge, rows>>

\* Repeater.Add succeeds only under a context that is not cancelled.
StoreRow(s) ==
  /\ found[s] # Nothing
  /\ rows' = IF phase[s] = "serving" THEN rows \cup {<<s, found[s]>>} ELSE rows
  /\ found' = [found EXCEPT ![s] = Nothing]
  /\ UNCHANGED <<streamVars, store, series, gauge>>

-----------------------------------------------------------------------------
Rpc(s) == AddBag(s) \/ AddSeries(s) \/ Cancel(s) \/ RemoveSeries(s) \/ RemoveBag(s)

Reading(s) ==
  \/ StartReading(s) \/ FirstBatch(s) \/ TimerRings(s) \/ TimerMarks(s)
  \/ StopReading(s) \/ FindRepeatStrategy(s) \/ StoreRow(s)

Next == (\E s \in Streams : Rpc(s) \/ Reading(s)) /\ UNCHANGED id

Spec == Init /\ [][Next]_vars

-----------------------------------------------------------------------------
(* Properties.                                                             *)

TypeOK ==
  /\ id \in [Streams -> Ids]
  /\ phase \in [Streams -> {"new", "stored", "serving", "cancelled", "unlisted", "ended"}]
  /\ loop \in [Streams -> {"off", "between", "reading", "over"}]
  /\ marked \in [Streams -> BOOLEAN]
  /\ timer \in [Streams -> {"off", "armed", "ringing", "late"}]
  /\ state \in [Streams -> States]
  /\ store \in [Ids -> Streams \cup {None}]
  /\ series \in [Ids -> States \cup {"none"}]
  /\ gauge \in [States -> Nat]
  /\ \A s \in Streams : found[s] \in Streams \cup {None, Nothing}
  /\ rows \subseteq Streams \X (Streams \cup {None})

\* The store holds no bag of a stream whose RPC is over, in whatever order streams of one id come
\* and go, so that no lookup finds it.  The repeat job may have found it before: one that took the
\* bag (repeater.go:151) and waits for the stream's mutex (stream.go:86) gets an error then.
NoGhostBag == \A i \in Ids : store[i] # None => phase[store[i]] # "ended"

\* metrics_test.go:42-60: a late state change does not bring back a consumer that was
\* removed.  A series exists only while a stream with its id has not removed it.
NoGhostSeries ==
  \A i \in Ids : series[i] # "none" =>
    \E s \in Streams : id[s] = i /\ phase[s] \in {"serving", "cancelled"}

\* The gauge counts the consumers of each state, although every stream of an id moves it.
GaugeCounts == \A x \in States : gauge[x] = Cardinality({i \in Ids : series[i] = x})

\* databus/consume.go:178-187: a consumer is connected only in a run of reading Kafka
\* that brought a batch or stayed free of errors; a timer that is late changes nothing.
ConnectedMeansReading ==
  \A s \in Streams : state[s] = "connected" => loop[s] = "reading" /\ marked[s]

\* No other stream has connected with the id of stream s.
Alone(s) == \A t \in Streams \ {s} : id[t] = id[s] => phase[t] = "new"

\* A stream that is being served, the only one with its id so far, is in the store under
\* its key and the metric shows the state of its consumer, whatever other ids do.
ServedIsVisible ==
  \A s \in Streams : phase[s] = "serving" /\ Alone(s) =>
    store[id[s]] = s /\ series[id[s]] = state[s]

\* A failed message gets a strategy other than its stream's only if another stream shares
\* the id: the lookup in the store never falls through to another consumer of the group.
OthersKeepTheirStrategy ==
  \A r \in rows : r[2] # r[1] => \E t \in Streams \ {r[1]} : id[t] = id[r[1]]

\* README.md:7-8, "You can set a retry strategy for each consumer": the row of a failed
\* message carries the strategy its consumer connected with (a client that connects
\* again sends the same id and strategy), never the default or another consumer's.
OwnStrategy == \A r \in rows : r[2] # None /\ id[r[2]] = id[r[1]]

=============================================================================
