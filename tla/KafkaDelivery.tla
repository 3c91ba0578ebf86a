---------------------------- MODULE KafkaDelivery ----------------------------
(***************************************************************************)
(* The way of a message from Kafka to the client: the read, process and    *)
(* commit cycle of internal/pkg/kafka/consumer/consumer.go, the loop that  *)
(* reconnects it (databus/consume.go) and the handler that sends a batch   *)
(* and deals with its results (grpcapi/consume.go).                        *)
(*                                                                         *)
(* The members are the consume streams of one group, on any bus instances. *)
(* Kafka itself is external and modelled as kafka-go shows it: a reader    *)
(* joins a generation, starts at the committed offset of its partitions,   *)
(* reads ahead of what it commits, and may learn late that the partitions  *)
(* were handed to another member.  A commit made in a generation that is   *)
(* over is refused; an old batch committed after joining again is not.     *)
(***************************************************************************)
EXTENDS Naturals, Sequences, FiniteSets, SequencesExt, FiniteSetsExt

CONSTANTS
  Members,     \* consume streams of the group
  Partitions,  \* partitions of the topic
  Nobody,      \* the owner of a partition without a member
  LogSize,     \* bound: messages of a partition
  BatchSize,   \* the batch size the consumers connected with
  MaxFaults    \* bound: faults (errors, rebalances, crashes)

ASSUME NobodyAssumption == Nobody \notin Members

ASSUME SizeAssumption == LogSize \in Nat /\ BatchSize \in Nat \ {0} /\ MaxFaults \in Nat

VARIABLES
  committed,  \* partition -> the group's committed offset: the next message to read
  owner,      \* partition -> the member it is assigned to
  gen,        \* the current generation of the group
  joined,     \* member -> the generation its reader has joined, 0 for none
  pos,        \* member -> partition -> the next offset its reader returns
  mode,       \* member -> where its loop is
  list,       \* member -> mList, the messages it has fetched
  left,       \* member -> messages of the batch without a result so far
  handled,    \* messages processed by a client or stored in the retry queue
  omitted,    \* messages a client gave no result for (missing_result)
  delivered,  \* message -> how often it was sent to a client from here
  faults      \* faults so far

kafkaVars == <<committed, owner, gen>>
readerVars == <<joined, pos>>
batchVars == <<list, left>>
historyVars == <<handled, omitted, delivered>>
vars == <<kafkaVars, readerVars, mode, batchVars, historyVars, faults>>

Offsets == 0 .. LogSize - 1
Messages == Partitions \X Offsets

\* The messages of mList.
Batch(m) == ToSet(list[m])

Fault == faults < MaxFaults /\ faults' = faults + 1

Init ==
  /\ committed = [p \in Partitions |-> 0]
  /\ owner = [p \in Partitions |-> Nobody]
  /\ gen = 1
  /\ joined = [m \in Members |-> 0]
  /\ pos = [m \in Members |-> [p \in Partitions |-> 0]]
  /\ mode = [m \in Members |-> "off"]
  /\ list = [m \in Members |-> <<>>]
  /\ left = [m \in Members |-> {}]
  /\ handled = {} /\ omitted = {}
  /\ delivered = [x \in Messages |-> 0]
  /\ faults = 0

-----------------------------------------------------------------------------
(* Kafka and the reader (kafka-go).                                        *)

\* A generation of the group: every partition has a member that is there.
Generation(o) ==
  /\ \A p \in Partitions : mode[o[p]] # "off"
  /\ owner' = o
  /\ gen' = gen + 1
  /\ UNCHANGED <<committed, readerVars, mode, batchVars, historyVars>>

\* The first members of the group have joined.
Assign(o) ==
  /\ \A p \in Partitions : owner[p] = Nobody
  /\ Generation(o)
  /\ UNCHANGED faults

\* Members come or go, or are thought to: partitions move between those that are there.
Rebalance(o) ==
  /\ \A p \in Partitions : owner[p] # Nobody
  /\ Fault
  /\ Generation(o)

\* The reader enters the current generation at the committed offsets.  Messages of the
\* previous one it had not returned are dropped; a batch already returned stays.
Join(m) ==
  /\ mode[m] # "off" /\ joined[m] # gen
  /\ joined' = [joined EXCEPT ![m] = gen]
  /\ pos' = [pos EXCEPT ![m] = [p \in Partitions |->
                                  IF owner[p] = m THEN committed[p] ELSE LogSize]]
  /\ UNCHANGED <<kafkaVars, mode, batchVars, historyVars, faults>>

\* The offsets of mList go to Kafka: per partition the highest one plus one.
CommittedBy(m) ==
  [p \in Partitions |->
     LET own == {o \in Offsets : <<p, o>> \in Batch(m)}
     IN  IF own = {} THEN committed[p] ELSE Max(own) + 1]

-----------------------------------------------------------------------------
(* The loop of member m.                                                   *)

\* The reader is closed, or new and still to join: it has nothing to return.
NewReader(m) ==
  /\ joined' = [joined EXCEPT ![m] = 0]
  /\ pos' = [pos EXCEPT ![m] = [p \in Partitions |-> LogSize]]

\* A client opens its stream and the bus a reader: CreateConsumer, startConsumer.
Connect(m) ==
  /\ mode[m] = "off"
  /\ mode' = [mode EXCEPT ![m] = "fetch"]
  /\ NewReader(m)
  /\ UNCHANGED <<kafkaVars, batchVars, historyVars, faults>>

\* FetchMessage, also while a batch is being filled up.
Fetch(m, p) ==
  /\ mode[m] = "fetch" /\ joined[m] # 0
  /\ Len(list[m]) < BatchSize
  /\ pos[m][p] < LogSize
  /\ list' = [list EXCEPT ![m] = Append(@, <<p, pos[m][p]>>)]
  /\ pos' = [pos EXCEPT ![m][p] = @ + 1]
  /\ UNCHANGED <<kafkaVars, joined, mode, left, historyVars, faults>>

\* Mutant: the loop does not wait for the handler before it commits.
DeliversAside(m) ==
  /\ mode[m] = "fetch" /\ list[m] # <<>>
  /\ mode' = [mode EXCEPT ![m] = "commit"]
  /\ delivered' = [x \in Messages |->
                     IF x \in Batch(m) THEN delivered[x] + 1 ELSE delivered[x]]
  /\ UNCHANGED <<kafkaVars, readerVars, batchVars, handled, omitted, faults>>

\* The batch is full or the 100 ms to fill it are over: it goes to the client.
Deliver(m) ==
  /\ mode[m] = "fetch" /\ list[m] # <<>>
  /\ mode' = [mode EXCEPT ![m] = "handle"]
  /\ left' = [left EXCEPT ![m] = Batch(m)]
  /\ delivered' = [x \in Messages |->
                     IF x \in Batch(m) THEN delivered[x] + 1 ELSE delivered[x]]
  /\ UNCHANGED <<kafkaVars, readerVars, list, handled, omitted, faults>>

\* Consume returns an error and what was fetched is forgotten.
Break(m) ==
  /\ mode' = [mode EXCEPT ![m] = "broken"]
  /\ list' = [list EXCEPT ![m] = <<>>]
  /\ left' = [left EXCEPT ![m] = {}]

FetchFails(m) ==
  /\ mode[m] = "fetch" /\ Fault
  /\ Break(m)
  /\ UNCHANGED <<kafkaVars, readerVars, historyVars>>

\* The result of message x says ok, or it says failed and Repeater.Add stored the message.
ResultHandled(m, x) ==
  /\ mode[m] = "handle" /\ x \in left[m]
  /\ left' = [left EXCEPT ![m] = @ \ {x}]
  /\ handled' = handled \cup {x}
  /\ UNCHANGED <<kafkaVars, readerVars, mode, list, omitted, delivered, faults>>

\* ErrHandler: the loop ends, the reader is closed, the stream ends with the error.
Stop(m) ==
  /\ mode' = [mode EXCEPT ![m] = "off"]
  /\ list' = [list EXCEPT ![m] = <<>>]
  /\ left' = [left EXCEPT ![m] = {}]
  /\ NewReader(m)

\* No answer, or Repeater.Add failed on one of the results after others were handled.
HandlerFails(m) ==
  /\ mode[m] = "handle" /\ Fault
  /\ Stop(m)
  /\ UNCHANGED <<kafkaVars, historyVars>>

\* An answer of which no result belongs to the batch is an error as well.
NoResultMatches(m) ==
  /\ mode[m] = "handle" /\ Fault
  /\ left[m] = Batch(m)
  /\ Stop(m)
  /\ UNCHANGED <<kafkaVars, historyVars>>

\* The handler returns nil; messages without a result are only counted.
HandlerReturns(m) ==
  /\ mode[m] = "handle"
  /\ left[m] # Batch(m)
  /\ mode' = [mode EXCEPT ![m] = "commit"]
  /\ omitted' = omitted \cup left[m]
  /\ left' = [left EXCEPT ![m] = {}]
  /\ UNCHANGED <<kafkaVars, readerVars, list, handled, delivered, faults>>

\* Mutant: mList survives the turn of the loop.
KeepsList(m) ==
  /\ mode[m] = "commit" /\ joined[m] = gen
  /\ committed' = CommittedBy(m)
  /\ mode' = [mode EXCEPT ![m] = "fetch"]
  /\ UNCHANGED <<owner, gen, readerVars, list, left, historyVars, faults>>

\* CommitMessages succeeds and the loop goes on.
Commit(m) ==
  /\ mode[m] = "commit" /\ joined[m] = gen
  /\ committed' = CommittedBy(m)
  /\ mode' = [mode EXCEPT ![m] = "fetch"]
  /\ list' = [list EXCEPT ![m] = <<>>]
  /\ UNCHANGED <<owner, gen, readerVars, left, historyVars, faults>>

\* CommitMessages fails: refused because the generation is over, or lost on the way,
\* and then Kafka may have taken it all the same.
CommitRefused(m) ==
  /\ mode[m] = "commit" /\ joined[m] # gen
  /\ Break(m)
  /\ UNCHANGED <<kafkaVars, readerVars, historyVars, faults>>

CommitLost(m, taken) ==
  /\ mode[m] = "commit" /\ joined[m] = gen /\ Fault
  /\ committed' = IF taken THEN CommittedBy(m) ELSE committed
  /\ Break(m)
  /\ UNCHANGED <<owner, gen, readerVars, historyVars>>

\* Mutant: the reader is kept and goes on where it stands.
KeepsReader(m) ==
  /\ mode[m] = "broken"
  /\ mode' = [mode EXCEPT ![m] = "fetch"]
  /\ UNCHANGED <<kafkaVars, readerVars, batchVars, historyVars, faults>>

\* Mutant: the loop ends after an error and leaves the stream open.
GivesUp(m) ==
  /\ mode[m] = "broken"
  /\ mode' = [mode EXCEPT ![m] = "over"]
  /\ NewReader(m)
  /\ UNCHANGED <<kafkaVars, batchVars, historyVars, faults>>

\* Consumer.Reconnect: a new reader that has to join and starts at the committed offsets.
Reconnect(m) ==
  /\ mode[m] = "broken"
  /\ mode' = [mode EXCEPT ![m] = "fetch"]
  /\ NewReader(m)
  /\ UNCHANGED <<kafkaVars, batchVars, historyVars, faults>>

\* The client disconnects or the bus dies, at any point of the cycle.
Leave(m) ==
  /\ mode[m] # "off" /\ Fault
  /\ Stop(m)
  /\ UNCHANGED <<kafkaVars, historyVars>>

-----------------------------------------------------------------------------
Handle(m) ==
  \/ \E x \in left[m] : ResultHandled(m, x)
  \/ HandlerReturns(m) \/ HandlerFails(m) \/ NoResultMatches(m)

EndBatch(m) ==
  Commit(m) \/ CommitRefused(m) \/ \E taken \in BOOLEAN : CommitLost(m, taken)

Next ==
  \/ \E o \in [Partitions -> Members] : Assign(o) \/ Rebalance(o)
  \/ \E m \in Members :
       \/ \E p \in Partitions : Fetch(m, p)
       \/ Join(m) \/ Connect(m) \/ Deliver(m) \/ FetchFails(m)
       \/ Handle(m) \/ EndBatch(m) \/ Reconnect(m) \/ Leave(m)

Spec == Init /\ [][Next]_vars

\* Loops run on, the client answers or is cut off by the watchdog, the SDK opens a new
\* stream for one that ended, and Kafka serves the group.
Fairness ==
  /\ \A m \in Members :
       /\ WF_vars(Connect(m)) /\ WF_vars(Join(m))
       /\ WF_vars(\E p \in Partitions : Fetch(m, p))
       /\ WF_vars(Deliver(m)) /\ WF_vars(Handle(m)) /\ WF_vars(EndBatch(m))
       /\ WF_vars(Reconnect(m))
  /\ WF_vars(\E o \in [Partitions -> Members] : Assign(o))

FairSpec == Spec /\ Fairness

-----------------------------------------------------------------------------
(* Properties.                                                             *)

Positions == 0 .. LogSize

TypeOK ==
  /\ committed \in [Partitions -> Positions]
  /\ owner \in [Partitions -> Members \cup {Nobody}]
  /\ gen \in Nat /\ joined \in [Members -> 0 .. gen]
  /\ pos \in [Members -> [Partitions -> Positions]]
  /\ mode \in [Members -> {"off", "fetch", "handle", "commit", "broken"}]
  /\ list \in [Members -> Seq(Messages)]
  /\ left \in [Members -> SUBSET Messages]
  /\ \A m \in Members : Len(list[m]) <= BatchSize
  /\ handled \subseteq Messages /\ omitted \subseteq Messages
  /\ delivered \in [Messages -> Nat]
  /\ faults \in 0 .. MaxFaults

\* kafka/consumer/ReadmeAI.md, "Processing completes before CommitMessages": no offset is
\* committed before every message below it was processed or stored for retry, except one
\* for which the client gave no result in an answer that had others.  It holds across
\* batches cut short, refused and late commits, reconnects and moved partitions.
CommittedIsHandled ==
  \A x \in Messages : x[2] < committed[x[1]] => x \in handled \cup omitted

\* The first delivery of a partition's messages is in order: nothing is overtaken by a
\* later message, in whatever way batches fail and readers come and go.
FirstDeliveryInOrder ==
  \A x, y \in Messages :
    x[1] = y[1] /\ x[2] < y[2] /\ delivered[y] > 0 => delivered[x] > 0

\* Without a fault Kafka's messages are delivered once, and each fault repeats a message
\* at most once.  The generation that a reconnect causes counts as a fault of its own.
RepeatsNeedFaults == \A x \in Messages : delivered[x] <= 1 + faults

\* Once the group comes to rest every message is dealt with in the end: no error path
\* leaves the group behind a message it has skipped (the comment of consumeLoop, databus/consume.go:148-150).
EveryMessageHandled == <>(\A x \in Messages : x \in handled \cup omitted)

\* What the group shows of itself to the outside.
Contract == INSTANCE AtLeastOnce WITH
  sent <- delivered, settled <- handled \cup omitted, offset <- committed

\* The read, process and commit cycles of all members together (kafka/consumer/consumer.go,
\* databus/consume.go, grpcapi/consume.go) are one delivery of the topic, at least once and
\* in order: members, generations, reconnects and old batches are not seen from outside.
ImplementsAtLeastOnce == Contract!Spec

=============================================================================
