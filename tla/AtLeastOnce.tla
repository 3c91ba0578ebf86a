----------------------------- MODULE AtLeastOnce -----------------------------
(***************************************************************************)
(* What the bus promises a consumer group about the messages of a topic,   *)
(* seen from outside: there are no members, readers, generations or        *)
(* batches, only messages that are sent, settled and committed.  A message *)
(* is sent again only at the cost of a fault, the first time never ahead   *)
(* of an earlier one of its partition; it is settled only after it was     *)
(* sent, and committed only after it and all before it are settled.        *)
(*                                                                         *)
(* KafkaDelivery implements this for a whole group.                        *)
(***************************************************************************)
EXTENDS Naturals

CONSTANTS
  Partitions,  \* partitions of the topic
  LogSize,     \* messages of a partition
  MaxFaults    \* faults there may be

VARIABLES
  sent,     \* message -> how often a client got it
  settled,  \* messages that need no further delivery
  offset,   \* partition -> the committed offset
  faults    \* faults so far

vars == <<sent, settled, offset, faults>>

Messages == Partitions \X (0 .. LogSize - 1)

Earlier(x, y) == x[1] = y[1] /\ x[2] < y[2]

Init ==
  /\ sent = [x \in Messages |-> 0]
  /\ settled = {}
  /\ offset = [p \in Partitions |-> 0]
  /\ faults = 0

\* A batch goes to a client.
Send(batch) ==
  /\ \A x \in batch : sent[x] <= faults
  /\ \A x \in Messages, y \in batch : Earlier(x, y) => sent[x] > 0 \/ x \in batch
  /\ sent' = [x \in Messages |-> IF x \in batch THEN sent[x] + 1 ELSE sent[x]]
  /\ UNCHANGED <<settled, offset, faults>>

Settle(some) ==
  /\ \A x \in some : sent[x] > 0
  /\ settled' = settled \cup some
  /\ UNCHANGED <<sent, offset, faults>>

\* An offset that may be committed.  It may also lie behind the one that is.
Safe(o) == \A x \in Messages : x[2] < o[x[1]] => x \in settled

Commit(o) ==
  /\ Safe(o)
  /\ offset' = o
  /\ UNCHANGED <<sent, settled, faults>>

\* Something fails: at most a commit that is reported as lost has an effect.
Fault(o) ==
  /\ faults < MaxFaults
  /\ faults' = faults + 1
  /\ Safe(o)
  /\ offset' = o
  /\ UNCHANGED <<sent, settled>>

Next ==
  \/ \E some \in SUBSET Messages : Send(some) \/ Settle(some)
  \/ \E o \in [Partitions -> 0 .. LogSize] : Commit(o) \/ Fault(o)

Spec == Init /\ [][Next]_vars

=============================================================================
