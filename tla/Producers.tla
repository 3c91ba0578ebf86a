------------------------------ MODULE Producers ------------------------------
(***************************************************************************)
(* Publishing: the producer of the Go SDK (producer/producer.go, limit.go),*)
(* the RPCs Produce and ProduceBatch (grpcapi/produce.go,                  *)
(* databus/produce.go), the store that holds one Kafka producer per topic  *)
(* and creates it under one mutex for all topics                           *)
(* (connstore/producer_store.go), and the producer over a Kafka writer     *)
(* (kafka/producer/producer.go).                                           *)
(*                                                                         *)
(* Kafka is external: a topic may be impossible to create for a while, and *)
(* the writer writes the partitions of a request separately.               *)
(***************************************************************************)
EXTENDS Naturals, FiniteSets

CONSTANTS
  ProdCalls,  \* calls of the SDK
  ProdTopics,
  ProdSizes,  \* numbers of messages of a request
  ProdParts,  \* partitions of a topic
  ProdFaults  \* bound: failures of Kafka and callers that go away

VARIABLES
  prodCall,    \* call -> its request, or NoRequest before it is made
  prodStep,    \* call -> new, sent, wait, get, create, write, end
  prodAnswer,  \* call -> none, ok, error, rejected: what the caller was told
  prodLock,    \* the call that holds the mutex of the store, or NoCall
  prodStore,   \* topics with a producer in the store
  prodWriters, \* topic -> writers that were opened
  prodNext,    \* topic -> partition the balancer takes next
  prodWritten, \* messages <<call, number>> in the log
  prodPending, \* messages a writer still holds after its call has ended
  prodFaults

prodVars == <<prodCall, prodStep, prodAnswer, prodLock, prodStore, prodWriters, prodNext,
              prodWritten, prodPending, prodFaults>>
prodKafkaVars == <<prodNext, prodWritten, prodPending>>
prodStoreVars == <<prodStore, prodWriters>>

NoRequest == [count |-> 0]
NoCall == "NoCall"

ASSUME ProdAssumption ==
  /\ ProdSizes \subseteq Nat /\ ProdParts \in Nat \ {0} /\ ProdFaults \in Nat
  /\ NoCall \notin ProdCalls

\* A request: batches come from the outbox flusher, which checked the sizes when it wrote the
\* rows; large is a payload above the limit, valid a timestamp the bus can parse.
ProdRequests ==
  {r \in [topic : ProdTopics, count : ProdSizes, single : BOOLEAN, large : BOOLEAN, valid : BOOLEAN] :
     /\ r.single => r.count = 1
     /\ r.large => r.single /\ r.valid}

ProdTopic(c) == prodCall[c].topic

ProdInit ==
  /\ prodCall = [c \in ProdCalls |-> NoRequest]
  /\ prodStep = [c \in ProdCalls |-> "new"]
  /\ prodAnswer = [c \in ProdCalls |-> "none"]
  /\ prodLock = NoCall
  /\ prodStore = {} /\ prodWriters = [t \in ProdTopics |-> 0]
  /\ prodNext = [t \in ProdTopics |-> 0]
  /\ prodWritten = {} /\ prodPending = {}
  /\ prodFaults = 0

ProdFault == prodFaults < ProdFaults /\ prodFaults' = prodFaults + 1

\* The handler of c ends; a caller that has gone away is not told.
ProdEnd(c, answer) ==
  /\ prodStep' = [prodStep EXCEPT ![c] = "end"]
  /\ prodAnswer' = [prodAnswer EXCEPT ![c] = IF @ = "none" THEN answer ELSE @]

ProdGo(c, step) ==
  /\ prodStep' = [prodStep EXCEPT ![c] = step]
  /\ UNCHANGED prodAnswer

-----------------------------------------------------------------------------

\* Produce checks the payload before it calls the bus; ProduceBatch does not.
ProdRequest(c, r) ==
  /\ prodStep[c] = "new"
  /\ prodCall' = [prodCall EXCEPT ![c] = r]
  /\ IF r.large THEN ProdEnd(c, "rejected") ELSE ProdGo(c, "sent")
  /\ UNCHANGED <<prodLock, prodStoreVars, prodKafkaVars, prodFaults>>

\* The RPC: every timestamp is parsed before anything is produced, and an empty batch is an error.
ProdCheck(c) ==
  /\ prodStep[c] = "sent"
  /\ IF ~prodCall[c].valid \/ prodCall[c].count = 0
     THEN ProdEnd(c, "rejected")
     ELSE ProdGo(c, "wait")
  /\ UNCHANGED <<prodCall, prodLock, prodStoreVars, prodKafkaVars, prodFaults>>

\* The caller's context ends, and with it that of the handler, which notices when it can.
ProdGoneAway(c) ==
  /\ ProdFault
  /\ prodStep[c] \notin {"new", "end"} /\ prodAnswer[c] = "none"
  /\ prodAnswer' = [prodAnswer EXCEPT ![c] = "error"]
  /\ UNCHANGED <<prodCall, prodStep, prodLock, prodStoreVars, prodKafkaVars>>

\* get: the mutex is waited for whatever becomes of the context.
ProdAcquire(c) ==
  /\ prodStep[c] = "wait" /\ prodLock = NoCall
  /\ prodLock' = c
  /\ ProdGo(c, "get")
  /\ UNCHANGED <<prodCall, prodStoreVars, prodKafkaVars, prodFaults>>

ProdGet(c) ==
  /\ prodStep[c] = "get"
  /\ IF ProdTopic(c) \in prodStore
     THEN prodLock' = NoCall /\ ProdGo(c, "write")
     ELSE UNCHANGED prodLock /\ ProdGo(c, "create")
  /\ UNCHANGED <<prodCall, prodStoreVars, prodKafkaVars, prodFaults>>

\* createFn: the topic is created if that is configured, and the writer opened.
ProdCreate(c) ==
  /\ prodStep[c] = "create"
  /\ prodStore' = prodStore \union {ProdTopic(c)}
  /\ prodWriters' = [prodWriters EXCEPT ![ProdTopic(c)] = @ + 1]
  /\ prodLock' = NoCall
  /\ ProdGo(c, "write")
  /\ UNCHANGED <<prodCall, prodKafkaVars, prodFaults>>

\* Mutant: the mutex is not released on the way out with an error.
ProdCreateKeepsLock(c) ==
  /\ prodStep[c] = "create"
  /\ ProdFault
  /\ ProdEnd(c, "error")
  /\ UNCHANGED <<prodCall, prodLock, prodStoreVars, prodKafkaVars>>

\* It fails, panics or finds the context over: nothing is kept, and the next call tries again.
\* A panic is recovered into an empty answer, which the SDK takes for a rejection.
ProdCreateFails(c) ==
  /\ prodStep[c] = "create"
  /\ IF prodAnswer[c] = "error" THEN UNCHANGED prodFaults ELSE ProdFault
  /\ prodLock' = NoCall
  /\ \E answer \in {"error", "rejected"} : ProdEnd(c, answer)
  /\ UNCHANGED <<prodCall, prodStoreVars, prodKafkaVars>>

\* RoundRobin: message i of a request goes to the partition after that of message i - 1.
ProdPartition(c, i) == (prodNext[ProdTopic(c)] + i) % ProdParts
ProdMessages(c) == {<<c, i>> : i \in 1 .. prodCall[c].count}
ProdShare(c, S) == {m \in ProdMessages(c) : ProdPartition(c, m[2]) \in S}

ProdAdvance(c) ==
  prodNext' = [prodNext EXCEPT ![ProdTopic(c)] = (@ + prodCall[c].count) % ProdParts]

\* WriteMessages returns when every partition has its share.
ProdWrite(c) ==
  /\ prodStep[c] = "write"
  /\ prodWritten' = prodWritten \union ProdMessages(c)
  /\ ProdAdvance(c)
  /\ ProdEnd(c, "ok")
  /\ UNCHANGED <<prodCall, prodLock, prodStoreVars, prodPending, prodFaults>>

\* Mutant: the error of the partitions that failed is lost.
ProdWriteIgnores(c, S) ==
  /\ prodStep[c] = "write" /\ ProdFault
  /\ prodWritten' = prodWritten \union ProdShare(c, S)
  /\ ProdAdvance(c)
  /\ ProdEnd(c, "ok")
  /\ UNCHANGED <<prodCall, prodLock, prodStoreVars, prodPending>>

\* The shares of the partitions in S are written, others fail: an error for the whole request.
ProdWriteFails(c, S) ==
  /\ prodStep[c] = "write" /\ ProdFault
  /\ ProdShare(c, S) # ProdMessages(c)
  /\ prodWritten' = prodWritten \union ProdShare(c, S)
  /\ ProdAdvance(c)
  /\ ProdEnd(c, "error")
  /\ UNCHANGED <<prodCall, prodLock, prodStoreVars, prodPending>>

\* The context is over: the call returns, the writer keeps its messages.
ProdWriteLeft(c) ==
  /\ prodStep[c] = "write" /\ prodAnswer[c] = "error"
  /\ prodPending' = prodPending \union ProdMessages(c)
  /\ ProdAdvance(c)
  /\ ProdEnd(c, "error")
  /\ UNCHANGED <<prodCall, prodLock, prodStoreVars, prodWritten, prodFaults>>

\* It writes one of them after all.
ProdLateWrite(m) ==
  /\ m \in prodPending
  /\ prodPending' = prodPending \ {m}
  /\ prodWritten' = prodWritten \union {m}
  /\ UNCHANGED <<prodCall, prodStep, prodAnswer, prodLock, prodStoreVars, prodNext, prodFaults>>

ProdHandler(c) ==
  \/ ProdCheck(c) \/ ProdAcquire(c) \/ ProdGet(c) \/ ProdCreate(c) \/ ProdCreateFails(c)
  \/ ProdWrite(c) \/ ProdWriteLeft(c)

ProdSteps ==
  \/ \E c \in ProdCalls :
       \/ ProdHandler(c) \/ ProdGoneAway(c)
       \/ \E r \in ProdRequests : ProdRequest(c, r)
       \/ \E S \in SUBSET (0 .. ProdParts - 1) : ProdWriteFails(c, S)
  \/ \E m \in prodPending : ProdLateWrite(m)

\* As long as some handler can go on, one does; Kafka answers in the end.
ProdWorks == \E c \in ProdCalls : ProdHandler(c)

ProdSpec == ProdInit /\ [][ProdSteps]_prodVars /\ WF_prodVars(ProdWorks)

-----------------------------------------------------------------------------

\* However many calls for a new topic come at once and whatever fails meanwhile, a topic has one
\* writer, and exactly if it is in the store (ProducerStore.get): a second one would share the
\* topic with the first and never be closed.
ProdOneWriter ==
  \A t \in ProdTopics : prodWriters[t] = IF t \in prodStore THEN 1 ELSE 0

\* ProduceBatch: a caller told ok has its whole request in the log, one that was rejected nothing.
ProdWholeOrNothing ==
  \A c \in ProdCalls :
    /\ prodAnswer[c] = "ok" => ProdMessages(c) \subseteq prodWritten
    /\ prodAnswer[c] = "rejected" => ProdMessages(c) \intersect (prodWritten \union prodPending) = {}

\* A producer that cannot be created holds nobody up for good: every handler that was called ends.
ProdEnds == <>[](\A c \in ProdCalls : prodStep[c] \in {"new", "end"})

=============================================================================
