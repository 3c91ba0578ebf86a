------------------------- MODULE KafkaDeliveryProofs -------------------------
(***************************************************************************)
(* Theorems of KafkaDelivery for every number of members and partitions,   *)
(* every log and batch size and every number of faults.                    *)
(*                                                                         *)
(* The committed offset alone is not inductive: what a member is about to  *)
(* commit comes from its reader, which runs ahead.  The invariant that     *)
(* carries the theorems says of every member that below each message of    *)
(* its batch, and below the position of its reader, a message is settled   *)
(* or in that batch.  A reader whose batch was dropped breaks this (Break) *)
(* until it is replaced, which is what Reconnect is for.                   *)
(***************************************************************************)
EXTENDS KafkaDelivery, WellFoundedInduction, FiniteSetTheorems, TLAPS

Settled == handled \cup omitted

Below(x, y) == x[1] = y[1] /\ x[2] < y[2]

\* What lies below a message of the batch is settled or in the batch.
ListClosed(m) ==
  \A y \in Batch(m), x \in Messages : Below(x, y) => x \in Settled \cup Batch(m)

\* What lies below the reader's position is settled or in the batch.
ReaderClosed(m) ==
  mode[m] # "broken" =>
    \A x \in Messages :
      pos[m][x[1]] < LogSize /\ x[2] < pos[m][x[1]] => x \in Settled \cup Batch(m)

\* The phases of the cycle: nothing is held outside it, and a batch is settled
\* before it is committed.
PhaseOK(m) ==
  /\ mode[m] \in {"off", "broken"} => list[m] = <<>>
  /\ mode[m] = "handle" =>
       left[m] \subseteq Batch(m) /\ Batch(m) \ left[m] \subseteq Settled
  /\ mode[m] = "commit" => Batch(m) \subseteq Settled
  /\ mode[m] \in {"handle", "commit"} => \A x \in Batch(m) : delivered[x] > 0

MemberInv(m) == ListClosed(m) /\ ReaderClosed(m) /\ PhaseOK(m)

SettledIsDelivered == \A x \in Settled : delivered[x] > 0

IInv ==
  /\ TypeOK
  /\ CommittedIsHandled
  /\ \A m \in Members : MemberInv(m)
  /\ SettledIsDelivered
  /\ FirstDeliveryInOrder

-----------------------------------------------------------------------------
(* The largest element of a bounded set of numbers exists.                 *)

LEMMA MaxIsLargest ==
  ASSUME NEW S \in SUBSET Nat, S # {}, NEW b \in Nat, \A x \in S : x <= b
  PROVE  Max(S) \in S /\ \A x \in S : x <= Max(S)
<1> DEFINE T == {b - x : x \in S}
<1> DEFINE R == OpToRel(<, Nat)
<1>1. T \subseteq Nat /\ T # {}
  <2>1. \A x \in S : b - x \in Nat
    OBVIOUS
  <2>2. PICK x \in S : TRUE
    OBVIOUS
  <2>3. b - x \in T
    OBVIOUS
  <2> QED
    BY <2>1, <2>3
<1>2. IsWellFoundedOn(R, Nat)
  BY NatLessThanWellFounded
<1>3. PICK t \in T : \A y \in T : ~ (<<y, t>> \in R)
  <2> HIDE DEF T, R
  <2> QED
    BY <1>1, <1>2, WFMin
<1>4. \A y \in T : t <= y
  <2> SUFFICES ASSUME NEW y \in T PROVE t <= y
    OBVIOUS
  <2>1. t \in Nat /\ y \in Nat
    BY <1>1
  <2>2. ~ (<<y, t>> \in {ss \in Nat \X Nat : ss[1] < ss[2]})
    BY <1>3 DEF OpToRel
  <2> QED
    BY <2>1, <2>2
<1>5. PICK x \in S : t = b - x
  OBVIOUS
<1>6. \A y \in S : x >= y
  BY <1>4, <1>5
<1> HIDE DEF T, R
<1>7. \E z \in S : \A y \in S : z >= y
  BY <1>6
<1> QED
  BY <1>7 DEF Max

(* Sets of messages behind a list. *)

LEMMA EmptyBatch == ToSet(<<>>) = {}
  BY DEF ToSet

LEMMA AppendBatch ==
  ASSUME NEW S, NEW s \in Seq(S), NEW e \in S
  PROVE  ToSet(Append(s, e)) = ToSet(s) \cup {e}
<1>1. DOMAIN s = 1 .. Len(s) /\ Len(s) \in Nat
  OBVIOUS
<1>2. DOMAIN Append(s, e) = 1 .. Len(s) + 1
  OBVIOUS
<1>3. \A i \in 1 .. Len(s) : Append(s, e)[i] = s[i]
  OBVIOUS
<1>4. Append(s, e)[Len(s) + 1] = e
  OBVIOUS
<1> QED
  BY <1>1, <1>2, <1>3, <1>4 DEF ToSet

LEMMA BatchType ==
  ASSUME NEW S, NEW s \in Seq(S)
  PROVE  ToSet(s) \subseteq S
  BY DEF ToSet

-----------------------------------------------------------------------------
(* What a step must do to keep the invariant.                              *)

\* A member the step does not touch, while messages get settled or delivered.
LEMMA OtherMember ==
  ASSUME NEW m \in Members, MemberInv(m), Settled \subseteq Settled',
         list'[m] = list[m], left'[m] = left[m], mode'[m] = mode[m], pos'[m] = pos[m],
         \A x \in Messages : delivered[x] > 0 => delivered'[x] > 0,
         Batch(m) \subseteq Messages
  PROVE  MemberInv(m)'
<1>1. Batch(m)' = Batch(m)
  BY DEF Batch
<1>2. ListClosed(m)'
  BY <1>1 DEF MemberInv, ListClosed
<1>3. ReaderClosed(m)'
  BY <1>1 DEF MemberInv, ReaderClosed, Messages, Offsets
<1>4. PhaseOK(m)'
  BY <1>1 DEF MemberInv, PhaseOK
<1> QED
  BY <1>2, <1>3, <1>4 DEF MemberInv

\* What CommitMessages sends to Kafka is safe once the batch is settled.
LEMMA CommitIsSafe ==
  ASSUME IInv, NEW m \in Members, Batch(m) \subseteq Settled
  PROVE  /\ CommittedBy(m) \in [Partitions -> Positions]
         /\ \A x \in Messages : x[2] < CommittedBy(m)[x[1]] => x \in Settled
<1> DEFINE own(p) == {o \in Offsets : <<p, o>> \in Batch(m)}
<1>1. LogSize \in Nat
  BY SizeAssumption
<1>2. ASSUME NEW p \in Partitions, own(p) # {}
      PROVE  Max(own(p)) \in own(p) /\ \A o \in own(p) : o <= Max(own(p))
  <2>1. own(p) \in SUBSET Nat
    BY <1>1 DEF Offsets
  <2>2. \A o \in own(p) : o <= LogSize
    BY <1>1 DEF Offsets
  <2> HIDE DEF own
  <2> QED
    BY <2>1, <2>2, <1>1, <1>2, MaxIsLargest
<1>3. \A p \in Partitions :
        CommittedBy(m)[p] = IF own(p) = {} THEN committed[p] ELSE Max(own(p)) + 1
  BY DEF CommittedBy
<1>4. ASSUME NEW p \in Partitions
      PROVE  CommittedBy(m)[p] \in Positions
  <2>1. committed[p] \in Positions
    BY DEF IInv, TypeOK
  <2>2. own(p) \subseteq Offsets
    OBVIOUS
  <2> HIDE DEF own
  <2> QED
    BY <2>1, <2>2, <1>1, <1>2, <1>3 DEF Positions, Offsets
<1>5. ASSUME NEW p \in Partitions, NEW o \in Offsets, o < CommittedBy(m)[p]
      PROVE  <<p, o>> \in Settled
  <2>1. <<p, o>> \in Messages
    BY DEF Messages
  <2>2. CASE own(p) = {}
    BY <2>1, <2>2, <1>3, <1>5 DEF IInv, CommittedIsHandled, Settled
  <2>3. CASE own(p) # {}
    <3> DEFINE top == Max(own(p))
    <3>1. top \in Offsets /\ <<p, top>> \in Batch(m)
      BY <1>2, <2>3
    <3>2. o < top + 1
      BY <1>3, <1>5, <2>3
    <3> HIDE DEF top
    <3>3. o = top \/ o < top
      BY <3>1, <3>2, <1>1 DEF Offsets
    <3>4. CASE o = top
      BY <3>1, <3>4
    <3>5. CASE o < top
      BY <3>1, <3>5, <2>1 DEF IInv, MemberInv, ListClosed, Below
    <3> QED
      BY <3>3, <3>4, <3>5
  <2> QED
    BY <2>2, <2>3
<1>6. CommittedBy(m) = [p \in Partitions |-> CommittedBy(m)[p]]
  BY DEF CommittedBy
<1> HIDE DEF own
<1>7. CommittedBy(m) \in [Partitions -> Positions]
  BY <1>4, <1>6
<1> QED
  BY <1>5, <1>7 DEF Messages

\* What remains to be shown of a step that touches at most member m.
LEMMA StepOfMember ==
  ASSUME IInv, NEW m \in Members, TypeOK', MemberInv(m)',
         CommittedIsHandled', SettledIsDelivered', FirstDeliveryInOrder',
         Settled \subseteq Settled',
         \A x \in Messages : delivered[x] > 0 => delivered'[x] > 0,
         \A n \in Members \ {m} : /\ list'[n] = list[n] /\ left'[n] = left[n]
                                  /\ mode'[n] = mode[n] /\ pos'[n] = pos[n]
  PROVE  IInv'
<1>1. ASSUME NEW n \in Members PROVE MemberInv(n)'
  <2>1. CASE n = m
    BY <2>1
  <2>2. CASE n # m
    <3>1. Batch(n) \subseteq Messages
      BY BatchType DEF Batch, IInv, TypeOK
    <3> QED
      BY <2>2, <3>1, OtherMember DEF IInv
  <2> QED
    BY <2>1, <2>2
<1> QED
  BY <1>1 DEF IInv

\* The parts of the invariant that a step without results or commits leaves alone.
LEMMA HistoryKept ==
  ASSUME IInv, UNCHANGED <<committed, historyVars>>
  PROVE  /\ CommittedIsHandled' /\ SettledIsDelivered' /\ FirstDeliveryInOrder'
         /\ Settled' = Settled
         /\ \A x \in Messages : delivered[x] > 0 => delivered'[x] > 0
  BY DEF IInv, CommittedIsHandled, SettledIsDelivered, FirstDeliveryInOrder, Settled,
         historyVars

\* A member that holds nothing, with a reader that has still to join.
LEMMA EmptyHanded ==
  ASSUME IInv, TypeOK', NEW m \in Members, NewReader(m),
         list'[m] = <<>>, mode'[m] \in {"off", "fetch"},
         UNCHANGED <<committed, historyVars>>,
         \A n \in Members \ {m} : /\ list'[n] = list[n] /\ left'[n] = left[n]
                                  /\ mode'[n] = mode[n]
  PROVE  IInv'
<1>1. LogSize \in Nat
  BY SizeAssumption
<1>2. Batch(m)' = {}
  BY EmptyBatch DEF Batch
<1>3. \A p \in Partitions : pos'[m][p] = LogSize
  BY DEF NewReader, IInv, TypeOK
<1>4. ListClosed(m)'
  BY <1>2 DEF ListClosed
<1>5. ReaderClosed(m)'
  BY <1>1, <1>3 DEF ReaderClosed, Messages
<1>6. PhaseOK(m)'
  BY <1>2 DEF PhaseOK
<1>7. \A n \in Members \ {m} : pos'[n] = pos[n]
  BY DEF NewReader, IInv, TypeOK
<1> QED
  BY <1>4, <1>5, <1>6, <1>7, HistoryKept, StepOfMember DEF MemberInv

-----------------------------------------------------------------------------
(* The steps of Next, one lemma for each kind.                             *)

LEMMA InitIInv == Init => IInv
<1> SUFFICES ASSUME Init PROVE IInv
  OBVIOUS
<1>1. LogSize \in Nat /\ BatchSize \in Nat /\ MaxFaults \in Nat
  BY SizeAssumption
<1>2. TypeOK
  BY <1>1 DEF Init, TypeOK, Positions
<1>3. \A m \in Members : Batch(m) = {}
  BY EmptyBatch DEF Init, Batch
<1>4. \A m \in Members : MemberInv(m)
  BY <1>1, <1>3 DEF Init, MemberInv, ListClosed, ReaderClosed, PhaseOK, Messages, Offsets
<1>5. CommittedIsHandled /\ SettledIsDelivered /\ FirstDeliveryInOrder
  BY <1>1 DEF Init, CommittedIsHandled, SettledIsDelivered, FirstDeliveryInOrder, Settled,
         Messages, Offsets
<1> QED
  BY <1>2, <1>4, <1>5 DEF IInv

\* Kafka hands partitions to members.
LEMMA AssignmentIInv ==
  ASSUME IInv, UNCHANGED <<committed, readerVars, mode, batchVars, historyVars>>, TypeOK'
  PROVE  IInv'
<1>1. \A m \in Members : MemberInv(m)'
  <2> TAKE m \in Members
  <2>1. Batch(m) \subseteq Messages
    BY BatchType DEF Batch, IInv, TypeOK
  <2> QED
    BY <2>1, OtherMember, HistoryKept DEF IInv, readerVars, batchVars
<1> QED
  BY <1>1, HistoryKept DEF IInv

LEMMA GenerationIInv ==
  ASSUME IInv, NEW o \in [Partitions -> Members], Assign(o) \/ Rebalance(o)
  PROVE  IInv'
<1>1. TypeOK'
  BY SizeAssumption
     DEF IInv, TypeOK, Assign, Rebalance, Generation, Fault, readerVars, batchVars, historyVars
<1> QED
  BY <1>1, AssignmentIInv DEF Assign, Rebalance, Generation

\* A reader that joins starts below what it has to read.
LEMMA JoinIInv ==
  ASSUME IInv, NEW m \in Members, Join(m)
  PROVE  IInv'
<1>1. LogSize \in Nat
  BY SizeAssumption
<1>2. TypeOK'
  BY <1>1 DEF IInv, TypeOK, Join, Positions, kafkaVars, batchVars, historyVars
<1>3. Batch(m)' = Batch(m)
  BY DEF Join, batchVars, Batch
<1>4. UNCHANGED <<committed, list, left, mode, historyVars>>
  BY DEF Join, kafkaVars, batchVars
<1>5. \A p \in Partitions : pos'[m][p] \in {committed[p], LogSize}
  BY DEF Join, IInv, TypeOK
<1>6. ListClosed(m)' /\ PhaseOK(m)'
  BY <1>3, <1>4, HistoryKept DEF IInv, MemberInv, ListClosed, PhaseOK, historyVars
<1>7. ReaderClosed(m)'
  <2> SUFFICES ASSUME NEW x \in Messages, pos'[m][x[1]] < LogSize, x[2] < pos'[m][x[1]]
               PROVE  x \in Settled'
    BY DEF ReaderClosed
  <2>1. x[1] \in Partitions
    BY DEF Messages
  <2>2. x[2] < committed[x[1]]
    BY <2>1, <1>1, <1>5
  <2> QED
    BY <2>2, <1>4, HistoryKept DEF IInv, CommittedIsHandled, Settled
<1>8. \A n \in Members \ {m} : pos'[n] = pos[n]
  BY DEF Join, IInv, TypeOK
<1> QED
  BY <1>2, <1>4, <1>6, <1>7, <1>8, HistoryKept, StepOfMember DEF MemberInv

LEMMA ConnectIInv ==
  ASSUME IInv, NEW m \in Members, Connect(m)
  PROVE  IInv'
<1>1. TypeOK'
  BY SizeAssumption DEF IInv, TypeOK, Connect, NewReader, Positions, kafkaVars, batchVars,
     historyVars
<1>2. list'[m] = <<>>
  BY DEF IInv, MemberInv, PhaseOK, Connect, batchVars
<1>3. mode'[m] = "fetch" /\ \A n \in Members \ {m} : mode'[n] = mode[n]
  BY DEF IInv, TypeOK, Connect
<1>4. NewReader(m) /\ UNCHANGED <<committed, list, left, historyVars>>
  BY DEF Connect, kafkaVars, batchVars
<1> QED
  BY <1>1, <1>2, <1>3, <1>4, EmptyHanded

LEMMA ReconnectIInv ==
  ASSUME IInv, NEW m \in Members, Reconnect(m)
  PROVE  IInv'
<1>1. TypeOK'
  BY SizeAssumption DEF IInv, TypeOK, Reconnect, NewReader, Positions, kafkaVars, batchVars,
     historyVars
<1>2. list'[m] = <<>>
  BY DEF IInv, MemberInv, PhaseOK, Reconnect, batchVars
<1>3. mode'[m] = "fetch" /\ \A n \in Members \ {m} : mode'[n] = mode[n]
  BY DEF IInv, TypeOK, Reconnect
<1>4. NewReader(m) /\ UNCHANGED <<committed, list, left, historyVars>>
  BY DEF Reconnect, kafkaVars, batchVars
<1> QED
  BY <1>1, <1>2, <1>3, <1>4, EmptyHanded

\* HandlerFails, NoResultMatches and Leave: the stream is over.
LEMMA StopIInv ==
  ASSUME IInv, NEW m \in Members, Stop(m), Fault, UNCHANGED <<kafkaVars, historyVars>>
  PROVE  IInv'
<1>1. TypeOK'
  BY SizeAssumption DEF IInv, TypeOK, Stop, NewReader, Fault, Positions, kafkaVars, historyVars
<1>2. list'[m] = <<>> /\ mode'[m] = "off"
  BY DEF IInv, TypeOK, Stop
<1>3. \A n \in Members \ {m} : /\ list'[n] = list[n] /\ left'[n] = left[n]
                               /\ mode'[n] = mode[n]
  BY DEF IInv, TypeOK, Stop
<1>4. NewReader(m) /\ UNCHANGED <<committed, historyVars>>
  BY DEF Stop, kafkaVars
<1> QED
  BY <1>1, <1>2, <1>3, <1>4, EmptyHanded

\* The reader goes on where the batch grows: nothing between is skipped.
LEMMA FetchIInv ==
  ASSUME IInv, NEW m \in Members, NEW p \in Partitions, Fetch(m, p)
  PROVE  IInv'
<1> DEFINE y == <<p, pos[m][p]>>
<1>1. LogSize \in Nat /\ BatchSize \in Nat
  BY SizeAssumption
<1>2. pos[m][p] \in Positions /\ pos[m][p] < LogSize /\ list[m] \in Seq(Messages)
  BY DEF IInv, TypeOK, Fetch
<1>3. y \in Messages
  BY <1>1, <1>2 DEF Messages, Offsets, Positions
<1>4. list' = [list EXCEPT ![m] = Append(list[m], y)] /\ pos' = [pos EXCEPT ![m][p] = @ + 1]
  BY DEF Fetch
<1>5. UNCHANGED <<committed, owner, gen, joined, mode, left, historyVars, faults>>
  BY DEF Fetch, kafkaVars
<1>6. list'[m] = Append(list[m], y) /\ \A n \in Members \ {m} : list'[n] = list[n]
  BY <1>4 DEF IInv, TypeOK
<1>7. /\ pos'[m][p] = pos[m][p] + 1
      /\ \A q \in Partitions \ {p} : pos'[m][q] = pos[m][q]
      /\ \A n \in Members \ {m} : pos'[n] = pos[n]
  BY <1>4 DEF IInv, TypeOK
<1>8. Batch(m)' = Batch(m) \cup {y}
  BY <1>2, <1>3, <1>6, AppendBatch DEF Batch
<1>9. TypeOK'
  <2>1. list' \in [Members -> Seq(Messages)]
    BY <1>2, <1>3, <1>4 DEF IInv, TypeOK
  <2>2. pos' \in [Members -> [Partitions -> Positions]]
    BY <1>1, <1>2, <1>4 DEF IInv, TypeOK, Positions
  <2>3. \A n \in Members : Len(list'[n]) <= BatchSize
    BY <1>1, <1>2, <1>3, <1>6 DEF IInv, TypeOK, Fetch
  <2> QED
    BY <1>5, <2>1, <2>2, <2>3 DEF IInv, TypeOK, historyVars
<1>10. mode[m] = "fetch"
  BY DEF Fetch
<1>11. \A x \in Messages : pos[m][x[1]] < LogSize /\ x[2] < pos[m][x[1]] =>
                             x \in Settled \cup Batch(m)
  BY <1>10 DEF IInv, MemberInv, ReaderClosed
<1>12. Settled' = Settled
  BY <1>5, HistoryKept
<1>13. ListClosed(m)'
  <2> SUFFICES ASSUME NEW z \in Batch(m)', NEW x \in Messages, Below(x, z)
               PROVE  x \in Settled \cup Batch(m)
    BY <1>8, <1>12 DEF ListClosed
  <2>1. CASE z \in Batch(m)
    BY <2>1 DEF IInv, MemberInv, ListClosed
  <2>2. CASE z = y
    BY <2>2, <1>2, <1>11 DEF Below
  <2> QED
    BY <1>8, <2>1, <2>2
<1>14. ReaderClosed(m)'
  <2> SUFFICES ASSUME NEW x \in Messages, pos'[m][x[1]] < LogSize, x[2] < pos'[m][x[1]]
               PROVE  x \in Settled \cup Batch(m) \cup {y}
    BY <1>8, <1>12 DEF ReaderClosed
  <2>1. x[1] \in Partitions /\ x[2] \in Nat /\ x = <<x[1], x[2]>>
    BY <1>1 DEF Messages, Offsets
  <2>2. CASE x[1] # p
    BY <2>1, <2>2, <1>7, <1>11
  <2>3. CASE x[1] = p
    <3>1. pos[m][p] \in Nat
      BY <1>1, <1>2 DEF Positions
    <3>2. x[2] = pos[m][p] \/ x[2] < pos[m][p]
      BY <2>1, <2>3, <3>1, <1>7
    <3>3. CASE x[2] = pos[m][p]
      BY <2>1, <2>3, <3>3
    <3>4. CASE x[2] < pos[m][p]
      BY <2>1, <2>3, <3>4, <1>2, <1>11
    <3> QED
      BY <3>2, <3>3, <3>4
  <2> QED
    BY <2>2, <2>3
<1>15. PhaseOK(m)'
  BY <1>5, <1>10 DEF PhaseOK
<1> QED
  BY <1>5, <1>6, <1>7, <1>9, <1>13, <1>14, <1>15, HistoryKept, StepOfMember DEF MemberInv

LEMMA DeliverIInv ==
  ASSUME IInv, NEW m \in Members, Deliver(m)
  PROVE  IInv'
<1>1. UNCHANGED <<committed, owner, gen, joined, pos, list, handled, omitted, faults>>
  BY DEF Deliver, kafkaVars, readerVars
<1>2. Batch(m)' = Batch(m) /\ Batch(m) \subseteq Messages
  BY <1>1, BatchType DEF Batch, IInv, TypeOK
<1>3. TypeOK'
  BY <1>1, <1>2 DEF IInv, TypeOK, Deliver
<1>4. mode'[m] = "handle" /\ left'[m] = Batch(m) /\ mode[m] = "fetch"
  BY DEF IInv, TypeOK, Deliver
<1>5. \A n \in Members \ {m} : mode'[n] = mode[n] /\ left'[n] = left[n]
  BY DEF IInv, TypeOK, Deliver
<1>6. Settled' = Settled /\ Settled \subseteq Messages
  BY <1>1 DEF Settled, IInv, TypeOK
<1>7. \A x \in Messages : /\ delivered[x] \in Nat
                          /\ delivered'[x] = IF x \in Batch(m) THEN delivered[x] + 1
                                                               ELSE delivered[x]
  BY DEF IInv, TypeOK, Deliver
<1>8. \A x \in Messages : delivered'[x] > 0 <=> delivered[x] > 0 \/ x \in Batch(m)
  BY <1>7
<1>9. ListClosed(m)' /\ ReaderClosed(m)'
  BY <1>1, <1>2, <1>4, <1>6 DEF IInv, MemberInv, ListClosed, ReaderClosed
<1>10. PhaseOK(m)'
  BY <1>2, <1>4, <1>8 DEF PhaseOK
<1>11. CommittedIsHandled' /\ SettledIsDelivered'
  BY <1>1, <1>6, <1>8 DEF IInv, CommittedIsHandled, SettledIsDelivered, Settled
<1>12. FirstDeliveryInOrder'
  <2> SUFFICES ASSUME NEW x \in Messages, NEW y \in Messages, Below(x, y),
                      delivered'[y] > 0
               PROVE  delivered'[x] > 0
    BY DEF FirstDeliveryInOrder, Below
  <2>1. CASE delivered[y] > 0
    BY <2>1, <1>8 DEF IInv, FirstDeliveryInOrder, Below
  <2>2. CASE y \in Batch(m)
    <3>1. x \in Settled \cup Batch(m)
      BY <2>2 DEF IInv, MemberInv, ListClosed
    <3> QED
      BY <3>1, <1>8 DEF IInv, SettledIsDelivered
  <2> QED
    BY <1>8, <2>1, <2>2
<1> QED
  BY <1>1, <1>3, <1>5, <1>6, <1>8, <1>9, <1>10, <1>11, <1>12, StepOfMember DEF MemberInv

\* Messages get settled only out of a batch that was delivered.
LEMMA SettleIInv ==
  ASSUME IInv, TypeOK', NEW m \in Members, mode[m] = "handle",
         UNCHANGED <<committed, pos, list, delivered>>,
         Settled \subseteq Settled', Settled' \subseteq Settled \cup Batch(m),
         mode'[m] = "handle" =>
           left'[m] \subseteq Batch(m) /\ Batch(m) \ left'[m] \subseteq Settled',
         mode'[m] = "commit" => Batch(m) \subseteq Settled',
         mode'[m] \in {"handle", "commit"},
         \A n \in Members \ {m} : mode'[n] = mode[n] /\ left'[n] = left[n]
  PROVE  IInv'
<1>1. Batch(m)' = Batch(m)
  BY DEF Batch
<1>2. \A x \in Batch(m) : delivered[x] > 0
  BY DEF IInv, MemberInv, PhaseOK
<1>3. ListClosed(m)' /\ ReaderClosed(m)'
  BY <1>1 DEF IInv, MemberInv, ListClosed, ReaderClosed
<1>4. PhaseOK(m)'
  BY <1>1, <1>2 DEF PhaseOK
<1>5. CommittedIsHandled'
  BY DEF IInv, CommittedIsHandled, Settled
<1>6. SettledIsDelivered'
  BY <1>2 DEF IInv, SettledIsDelivered
<1>7. FirstDeliveryInOrder'
  BY DEF IInv, FirstDeliveryInOrder
<1> QED
  BY <1>3, <1>4, <1>5, <1>6, <1>7, StepOfMember DEF MemberInv

LEMMA ResultHandledIInv ==
  ASSUME IInv, NEW m \in Members, NEW x \in left[m], ResultHandled(m, x)
  PROVE  IInv'
<1>1. x \in Messages
  BY DEF IInv, TypeOK
<1>2. TypeOK'
  BY <1>1 DEF IInv, TypeOK, ResultHandled, kafkaVars, readerVars
<1>3. /\ UNCHANGED <<committed, pos, list, mode, delivered>>
      /\ left'[m] = left[m] \ {x} /\ Settled' = Settled \cup {x} /\ mode[m] = "handle"
      /\ \A n \in Members \ {m} : left'[n] = left[n]
  BY DEF ResultHandled, kafkaVars, readerVars, Settled, IInv, TypeOK
<1>4. left[m] \subseteq Batch(m) /\ Batch(m) \ left[m] \subseteq Settled
  BY <1>3 DEF IInv, MemberInv, PhaseOK
<1>5. left'[m] \subseteq Batch(m) /\ Batch(m) \ left'[m] \subseteq Settled'
  BY <1>3, <1>4
<1>6. Settled \subseteq Settled' /\ Settled' \subseteq Settled \cup Batch(m)
  BY <1>3, <1>4
<1> QED
  BY <1>2, <1>3, <1>5, <1>6, SettleIInv

LEMMA HandlerReturnsIInv ==
  ASSUME IInv, NEW m \in Members, HandlerReturns(m)
  PROVE  IInv'
<1>1. TypeOK'
  BY DEF IInv, TypeOK, HandlerReturns, kafkaVars, readerVars
<1>2. /\ UNCHANGED <<committed, pos, list, delivered>>
      /\ mode[m] = "handle" /\ mode'[m] = "commit" /\ Settled' = Settled \cup left[m]
      /\ \A n \in Members \ {m} : mode'[n] = mode[n] /\ left'[n] = left[n]
  BY DEF HandlerReturns, kafkaVars, readerVars, Settled, IInv, TypeOK
<1>3. left[m] \subseteq Batch(m) /\ Batch(m) \ left[m] \subseteq Settled
  BY <1>2 DEF IInv, MemberInv, PhaseOK
<1>4. /\ Batch(m) \subseteq Settled'
      /\ Settled \subseteq Settled' /\ Settled' \subseteq Settled \cup Batch(m)
  BY <1>2, <1>3
<1> QED
  BY <1>1, <1>2, <1>4, SettleIInv

\* The end of a batch: whatever reaches Kafka is safe, and the list is given up, either
\* settled or together with the reader.
LEMMA EndIInv ==
  ASSUME IInv, TypeOK', NEW m \in Members,
         UNCHANGED <<pos, historyVars>>,
         list'[m] = <<>>,
         committed' # committed => committed' = CommittedBy(m) /\ Batch(m) \subseteq Settled,
         mode'[m] = "broken" \/ (mode'[m] = "fetch" /\ mode[m] = "commit"),
         \A n \in Members \ {m} : /\ mode'[n] = mode[n] /\ left'[n] = left[n]
                                  /\ list'[n] = list[n]
  PROVE  IInv'
<1>1. Batch(m)' = {}
  BY EmptyBatch DEF Batch
<1>2. Settled' = Settled
  BY DEF historyVars, Settled
<1>3. ListClosed(m)'
  BY <1>1 DEF ListClosed
<1>4. ReaderClosed(m)'
  <2>1. CASE mode'[m] = "broken"
    BY <2>1 DEF ReaderClosed
  <2>2. CASE mode'[m] = "fetch" /\ mode[m] = "commit"
    BY <1>1, <1>2, <2>2 DEF IInv, MemberInv, ReaderClosed, PhaseOK
  <2> QED
    BY <2>1, <2>2
<1>5. PhaseOK(m)'
  BY <1>1 DEF PhaseOK
<1>6. CommittedIsHandled'
  <2>1. CASE committed' = committed
    BY <2>1, <1>2 DEF IInv, CommittedIsHandled, Settled
  <2>2. CASE committed' # committed
    BY <2>2, <1>2, CommitIsSafe DEF CommittedIsHandled, Settled
  <2> QED
    BY <2>1, <2>2
<1>7. /\ SettledIsDelivered' /\ FirstDeliveryInOrder'
      /\ \A x \in Messages : delivered[x] > 0 => delivered'[x] > 0
  BY <1>2 DEF IInv, SettledIsDelivered, FirstDeliveryInOrder, historyVars
<1> QED
  BY <1>2, <1>3, <1>4, <1>5, <1>6, <1>7, StepOfMember DEF MemberInv

LEMMA FetchFailsIInv ==
  ASSUME IInv, NEW m \in Members, FetchFails(m)
  PROVE  IInv'
<1>1. TypeOK'
  BY SizeAssumption
     DEF IInv, TypeOK, FetchFails, Fault, Break, kafkaVars, readerVars, historyVars
<1>2. /\ UNCHANGED <<committed, pos, historyVars>>
      /\ list'[m] = <<>> /\ mode'[m] = "broken"
      /\ \A n \in Members \ {m} : /\ mode'[n] = mode[n] /\ left'[n] = left[n]
                                  /\ list'[n] = list[n]
  BY DEF IInv, TypeOK, FetchFails, Break, kafkaVars, readerVars
<1> QED
  BY <1>1, <1>2, EndIInv

LEMMA CommitRefusedIInv ==
  ASSUME IInv, NEW m \in Members, CommitRefused(m)
  PROVE  IInv'
<1>1. TypeOK'
  BY SizeAssumption
     DEF IInv, TypeOK, CommitRefused, Break, kafkaVars, readerVars, historyVars
<1>2. /\ UNCHANGED <<committed, pos, historyVars>>
      /\ list'[m] = <<>> /\ mode'[m] = "broken"
      /\ \A n \in Members \ {m} : /\ mode'[n] = mode[n] /\ left'[n] = left[n]
                                  /\ list'[n] = list[n]
  BY DEF IInv, TypeOK, CommitRefused, Break, kafkaVars, readerVars
<1> QED
  BY <1>1, <1>2, EndIInv

LEMMA CommitLostIInv ==
  ASSUME IInv, NEW m \in Members, NEW taken \in BOOLEAN, CommitLost(m, taken)
  PROVE  IInv'
<1>1. Batch(m) \subseteq Settled
  BY DEF IInv, MemberInv, PhaseOK, CommitLost
<1>2. committed' \in [Partitions -> Positions]
  BY <1>1, CommitIsSafe DEF CommitLost, IInv, TypeOK
<1>3. TypeOK'
  BY <1>2, SizeAssumption
     DEF IInv, TypeOK, CommitLost, Fault, Break, readerVars, historyVars
<1>4. /\ UNCHANGED <<pos, historyVars>>
      /\ list'[m] = <<>> /\ mode'[m] = "broken"
      /\ committed' # committed => committed' = CommittedBy(m)
      /\ \A n \in Members \ {m} : /\ mode'[n] = mode[n] /\ left'[n] = left[n]
                                  /\ list'[n] = list[n]
  BY DEF IInv, TypeOK, CommitLost, Break, readerVars
<1> QED
  BY <1>1, <1>3, <1>4, EndIInv

LEMMA CommitIInv ==
  ASSUME IInv, NEW m \in Members, Commit(m)
  PROVE  IInv'
<1>1. Batch(m) \subseteq Settled
  BY DEF IInv, MemberInv, PhaseOK, Commit
<1>2. committed' \in [Partitions -> Positions]
  BY <1>1, CommitIsSafe DEF Commit
<1>3. TypeOK'
  BY <1>2, SizeAssumption DEF IInv, TypeOK, Commit, readerVars, historyVars
<1>4. /\ UNCHANGED <<pos, historyVars>>
      /\ list'[m] = <<>> /\ mode'[m] = "fetch" /\ mode[m] = "commit"
      /\ committed' = CommittedBy(m)
      /\ \A n \in Members \ {m} : /\ mode'[n] = mode[n] /\ left'[n] = left[n]
                                  /\ list'[n] = list[n]
  BY DEF IInv, TypeOK, Commit, readerVars
<1> QED
  BY <1>1, <1>3, <1>4, EndIInv

-----------------------------------------------------------------------------
LEMMA StepIInv == IInv /\ [Next]_vars => IInv'
<1> SUFFICES ASSUME IInv, [Next]_vars
             PROVE  IInv'
  OBVIOUS
<1>1. CASE UNCHANGED vars
  <2>1. TypeOK'
    BY <1>1 DEF IInv, TypeOK, vars, kafkaVars, readerVars, batchVars, historyVars
  <2> QED
    BY <1>1, <2>1, AssignmentIInv DEF vars, kafkaVars
<1>2. ASSUME NEW o \in [Partitions -> Members], Assign(o) \/ Rebalance(o)
      PROVE  IInv'
  BY <1>2, GenerationIInv
<1>3. ASSUME NEW m \in Members, NEW p \in Partitions, Fetch(m, p)
      PROVE  IInv'
  BY <1>3, FetchIInv
<1>4. ASSUME NEW m \in Members,
             Join(m) \/ Connect(m) \/ Deliver(m) \/ FetchFails(m) \/ Reconnect(m)
      PROVE  IInv'
  BY <1>4, JoinIInv, ConnectIInv, DeliverIInv, FetchFailsIInv, ReconnectIInv
<1>5. ASSUME NEW m \in Members, Handle(m)
      PROVE  IInv'
  <2>1. ASSUME NEW x \in left[m], ResultHandled(m, x) PROVE IInv'
    BY <2>1, ResultHandledIInv
  <2>2. CASE HandlerReturns(m)
    BY <2>2, HandlerReturnsIInv
  <2>3. CASE HandlerFails(m) \/ NoResultMatches(m)
    BY <2>3, StopIInv DEF HandlerFails, NoResultMatches
  <2> QED
    BY <1>5, <2>1, <2>2, <2>3 DEF Handle
<1>6. ASSUME NEW m \in Members, EndBatch(m)
      PROVE  IInv'
  BY <1>6, CommitIInv, CommitRefusedIInv, CommitLostIInv DEF EndBatch
<1>7. ASSUME NEW m \in Members, Leave(m)
      PROVE  IInv'
  BY <1>7, StopIInv DEF Leave
<1> QED
  BY <1>1, <1>2, <1>3, <1>4, <1>5, <1>6, <1>7 DEF Next

LEMMA Invariance == Spec => []IInv
  BY InitIInv, StepIInv, PTL DEF Spec

\* The types of the model, for every number of members and partitions.
THEOREM TypeCorrect == Spec => []TypeOK
<1>1. IInv => TypeOK
  BY DEF IInv
<1> QED
  BY <1>1, Invariance, PTL

\* No offset is committed over a message that was neither processed nor stored for retry
\* nor left out by the client, for any group, batch size and sequence of faults
\* (kafka/consumer/consumer.go:260-288, databus/consume.go:148-160).
THEOREM CommitsFollowHandling == Spec => []CommittedIsHandled
<1>1. IInv => CommittedIsHandled
  BY DEF IInv
<1> QED
  BY <1>1, Invariance, PTL

\* No message of a partition is delivered before those below it have been, for any
\* group, batch size and sequence of faults.
THEOREM FirstDeliveriesInOrder == Spec => []FirstDeliveryInOrder
<1>1. IInv => FirstDeliveryInOrder
  BY DEF IInv
<1> QED
  BY <1>1, Invariance, PTL

-----------------------------------------------------------------------------
(* How often a message is delivered.  A count of deliveries is not         *)
(* inductive: what it leaves out are the copies still on their way.  A     *)
(* message has a claim to one more delivery for every member that holds it *)
(* in a batch not yet sent, for every reader that will return it, and for  *)
(* the owner of its partition that has still to join, or to reconnect,     *)
(* and will start below it.  One claim comes with the first assignment and *)
(* one with each fault, for there is one owner at a time.                  *)

Holds(m, x) == mode[m] = "fetch" /\ x \in Batch(m)

Reads(m, x) == mode[m] # "broken" /\ joined[m] # 0 /\ pos[m][x[1]] <= x[2]

Promised(x) ==
  /\ owner[x[1]] # Nobody
  /\ joined[owner[x[1]]] # gen \/ mode[owner[x[1]]] = "broken"

Holders(x) == {m \in Members : Holds(m, x)}
Readers(x) == {m \in Members : Reads(m, x)}

One(b) == IF b THEN 1 ELSE 0

\* What a step of member m can change of these, and must pay for.
Own(m, x) == delivered[x] + One(Holds(m, x)) + One(Reads(m, x)) + One(Promised(x))

Paid(m, x) == Own(m, x)' + faults <= Own(m, x) + faults'

Charged(x) ==
  /\ IsFiniteSet(Holders(x)) /\ IsFiniteSet(Readers(x))
  /\ delivered[x] + Cardinality(Holders(x)) + Cardinality(Readers(x)) + One(Promised(x))
       <= faults + One(owner[x[1]] # Nobody)

ChargeInv ==
  /\ gen # 0
  /\ \A m \in Members : mode[m] = "off" => joined[m] = 0
  /\ \A x \in Messages : Charged(x)

\* A finite set that gains or loses one element.
LEMMA OneElement ==
  ASSUME NEW S, NEW T, NEW e, IsFiniteSet(S), S \ {e} = T \ {e}
  PROVE  /\ IsFiniteSet(T) /\ Cardinality(S) \in Nat /\ Cardinality(T) \in Nat
         /\ Cardinality(T) + One(e \in S) = Cardinality(S) + One(e \in T)
<1> DEFINE R == S \ {e}
<1>1. /\ IsFiniteSet(R)
      /\ Cardinality(R) = IF e \in S THEN Cardinality(S) - 1 ELSE Cardinality(S)
  BY FS_RemoveElement
<1>2. T = IF e \in T THEN R \cup {e} ELSE R
  OBVIOUS
<1>3. e \notin R
  OBVIOUS
<1> HIDE DEF R
<1>4. /\ IsFiniteSet(R \cup {e})
      /\ Cardinality(R \cup {e}) = Cardinality(R) + 1
  BY <1>1, <1>3, FS_AddElement
<1>5. IsFiniteSet(T) /\ Cardinality(T) = Cardinality(R) + One(e \in T)
  <2>1. CASE e \in T
    BY <2>1, <1>2, <1>4 DEF One
  <2>2. CASE e \notin T
    BY <2>2, <1>1, <1>2, FS_CardinalityType DEF One
  <2> QED
    BY <2>1, <2>2
<1>6. Cardinality(S) \in Nat /\ Cardinality(T) \in Nat /\ Cardinality(R) \in Nat
  BY <1>1, <1>5, FS_CardinalityType
<1> QED
  BY <1>1, <1>5, <1>6 DEF One

\* A step of member m is paid for when m's own claims, deliveries and promise are.
LEMMA MemberCharged ==
  ASSUME IInv, TypeOK', NEW x \in Messages, NEW m \in Members, Charged(x),
         \A n \in Members \ {m} : /\ list'[n] = list[n] /\ mode'[n] = mode[n]
                                  /\ joined'[n] = joined[n] /\ pos'[n] = pos[n],
         owner' = owner, Paid(m, x)
  PROVE  Charged(x)'
<1>1. Holders(x) \ {m} = Holders(x)' \ {m}
  BY DEF Holders, Holds, Batch
<1>2. Readers(x) \ {m} = Readers(x)' \ {m}
  BY DEF Readers, Reads
<1>3. /\ m \in Holders(x) <=> Holds(m, x)
      /\ m \in Holders(x)' <=> Holds(m, x)'
      /\ m \in Readers(x) <=> Reads(m, x)
      /\ m \in Readers(x)' <=> Reads(m, x)'
  BY DEF Holders, Readers
<1>4. /\ IsFiniteSet(Holders(x)')
      /\ Cardinality(Holders(x)) \in Nat /\ Cardinality(Holders(x)') \in Nat
      /\ Cardinality(Holders(x)') + One(m \in Holders(x)) =
           Cardinality(Holders(x)) + One(m \in Holders(x)')
  BY <1>1, OneElement DEF Charged
<1>5. /\ IsFiniteSet(Readers(x)')
      /\ Cardinality(Readers(x)) \in Nat /\ Cardinality(Readers(x)') \in Nat
      /\ Cardinality(Readers(x)') + One(m \in Readers(x)) =
           Cardinality(Readers(x)) + One(m \in Readers(x)')
  BY <1>2, OneElement DEF Charged
<1>6. /\ One(m \in Holders(x)) = One(Holds(m, x))
      /\ One(m \in Holders(x)') = One(Holds(m, x)')
      /\ One(m \in Readers(x)) = One(Reads(m, x))
      /\ One(m \in Readers(x)') = One(Reads(m, x)')
  BY <1>3 DEF One
<1>7. /\ One(Holds(m, x)) \in Nat /\ One(Holds(m, x)') \in Nat
      /\ One(Reads(m, x)) \in Nat /\ One(Reads(m, x)') \in Nat
      /\ One(Promised(x)) \in Nat /\ One(Promised(x)') \in Nat
      /\ One(owner[x[1]] # Nobody) \in Nat
  BY DEF One
<1>8. /\ delivered[x] \in Nat /\ delivered'[x] \in Nat
      /\ faults \in Nat /\ faults' \in Nat
  BY DEF IInv, TypeOK
<1>9. delivered[x] + Cardinality(Holders(x)) + Cardinality(Readers(x)) + One(Promised(x))
         <= faults + One(owner[x[1]] # Nobody)
  BY DEF Charged
<1>10. delivered'[x] + Cardinality(Holders(x)') + Cardinality(Readers(x)')
         + One(Promised(x)') <= faults' + One(owner[x[1]] # Nobody)
  BY <1>4, <1>5, <1>6, <1>7, <1>8, <1>9 DEF Paid, Own
<1> QED
  BY <1>4, <1>5, <1>10 DEF Charged

LEMMA InitChargeInv == Init => ChargeInv
<1> SUFFICES ASSUME Init PROVE ChargeInv
  OBVIOUS
<1>1. MaxFaults \in Nat /\ LogSize \in Nat
  BY SizeAssumption
<1>2. ASSUME NEW x \in Messages PROVE Charged(x)
  <2>1. Holders(x) = {} /\ Readers(x) = {} /\ ~ Promised(x)
    BY DEF Init, Holders, Holds, Readers, Reads, Promised, Messages
  <2>2. delivered[x] = 0 /\ faults = 0 /\ owner[x[1]] = Nobody
    BY DEF Init, Messages
  <2> QED
    BY <2>1, <2>2, FS_EmptySet DEF Charged, One
<1> QED
  BY <1>2 DEF Init, ChargeInv

\* A generation promises its owner every message: the first one has its claim from the
\* assignment, a later one from the fault that caused it.
LEMMA GenerationCharged ==
  ASSUME IInv, TypeOK', ChargeInv, NEW o \in [Partitions -> Members], Assign(o) \/ Rebalance(o)
  PROVE  ChargeInv'
<1>1. /\ UNCHANGED <<joined, pos, mode, list, delivered>>
      /\ gen' = gen + 1 /\ owner' = o /\ gen \in Nat /\ faults \in Nat /\ faults' \in Nat
  BY DEF Assign, Rebalance, Generation, readerVars, batchVars, historyVars, IInv, TypeOK
<1>2. ASSUME NEW x \in Messages PROVE Charged(x)'
  <2>1. Holders(x)' = Holders(x) /\ Readers(x)' = Readers(x)
    BY <1>1 DEF Holders, Holds, Batch, Readers, Reads
  <2>2. x[1] \in Partitions
    BY DEF Messages
  <2>3. owner'[x[1]] # Nobody
    BY <1>1, <2>2, NobodyAssumption
  <2>4. /\ IsFiniteSet(Holders(x)) /\ IsFiniteSet(Readers(x))
        /\ delivered[x] + Cardinality(Holders(x)) + Cardinality(Readers(x)) + One(Promised(x))
             <= faults + One(owner[x[1]] # Nobody)
    BY DEF ChargeInv, Charged
  <2>5. /\ Cardinality(Holders(x)) \in Nat /\ Cardinality(Readers(x)) \in Nat
        /\ delivered[x] \in Nat
    BY <2>4, FS_CardinalityType DEF IInv, TypeOK
  <2>6. One(Promised(x)') <= 1 /\ One(Promised(x)') \in Nat /\ One(Promised(x)) \in Nat
    BY DEF One
  <2>7. CASE Assign(o)
    <3>1. One(Promised(x)) = 0 /\ One(owner[x[1]] # Nobody) = 0 /\ faults' = faults
      BY <2>2, <2>7 DEF Assign, Promised, One
    <3>2. One(owner'[x[1]] # Nobody) = 1
      BY <2>3 DEF One
    <3>3. delivered[x] + Cardinality(Holders(x)) + Cardinality(Readers(x)) + One(Promised(x)')
            <= faults' + One(owner'[x[1]] # Nobody)
      BY <1>1, <2>4, <2>5, <2>6, <3>1, <3>2
    <3> QED
      BY <1>1, <2>1, <2>4, <3>3 DEF Charged
  <2>8. CASE Rebalance(o)
    <3>1. One(owner[x[1]] # Nobody) = 1 /\ One(owner'[x[1]] # Nobody) = 1
          /\ faults' = faults + 1
      BY <2>2, <2>3, <2>8 DEF Rebalance, Fault, One
    <3>2. delivered[x] + Cardinality(Holders(x)) + Cardinality(Readers(x)) + One(Promised(x)')
            <= faults' + One(owner'[x[1]] # Nobody)
      BY <1>1, <2>4, <2>5, <2>6, <3>1
    <3> QED
      BY <1>1, <2>1, <2>4, <3>2 DEF Charged
  <2> QED
    BY <2>7, <2>8
<1> QED
  BY <1>1, <1>2 DEF ChargeInv

\* Joining makes the promise good: the owner reads what is not yet committed.
LEMMA JoinCharged ==
  ASSUME IInv, TypeOK', ChargeInv, NEW m \in Members, Join(m)
  PROVE  ChargeInv'
<1>1. /\ UNCHANGED <<owner, gen, mode, list, delivered, faults>>
      /\ mode[m] # "off" /\ joined[m] # gen /\ joined'[m] = gen
      /\ \A n \in Members \ {m} : joined'[n] = joined[n] /\ pos'[n] = pos[n]
      /\ \A p \in Partitions : owner[p] # m => pos'[m][p] = LogSize
  BY DEF Join, kafkaVars, batchVars, historyVars, IInv, TypeOK
<1>2. ASSUME NEW x \in Messages PROVE Charged(x)'
  <2>1. x[1] \in Partitions /\ x[2] \in Nat /\ x[2] < LogSize /\ LogSize \in Nat
    BY SizeAssumption DEF Messages, Offsets
  <2>2. Holds(m, x)' <=> Holds(m, x)
    BY <1>1 DEF Holds, Batch
  <2>3. CASE owner[x[1]] = m /\ mode[m] # "broken"
    <3>1. Promised(x) /\ ~ Promised(x)'
      BY <1>1, <2>3, NobodyAssumption DEF Promised
    <3>2. Paid(m, x)
      BY <1>1, <2>2, <3>1 DEF Paid, Own, One, IInv, TypeOK
    <3> QED
      BY <1>1, <3>2, MemberCharged DEF ChargeInv
  <2>4. CASE owner[x[1]] # m \/ mode[m] = "broken"
    <3>1. Promised(x)' <=> Promised(x)
      BY <1>1, <2>1, <2>4 DEF Promised, IInv, TypeOK
    <3>2. ~ Reads(m, x)'
      BY <1>1, <2>1, <2>4 DEF Reads
    <3>3. Paid(m, x)
      BY <1>1, <2>2, <3>1, <3>2 DEF Paid, Own, One, IInv, TypeOK
    <3> QED
      BY <1>1, <3>3, MemberCharged DEF ChargeInv
  <2> QED
    BY <2>3, <2>4
<1>3. gen' # 0 /\ \A n \in Members : mode'[n] = "off" => joined'[n] = 0
  BY <1>1 DEF ChargeInv
<1> QED
  BY <1>2, <1>3 DEF ChargeInv

\* A member that loses what it held and read: unless a fault pays for it, the partitions
\* it owns were promised to it before.
LEMMA GivenUpCharged ==
  ASSUME IInv, TypeOK', ChargeInv, NEW m \in Members,
         UNCHANGED <<owner, gen, delivered>>,
         faults' = faults \/ faults' = faults + 1,
         list'[m] = <<>>,
         mode'[m] = "broken" \/ joined'[m] = 0,
         mode'[m] = "off" => joined'[m] = 0,
         faults' = faults => joined[m] # gen \/ mode[m] = "broken",
         \A n \in Members \ {m} : /\ list'[n] = list[n] /\ mode'[n] = mode[n]
                                  /\ joined'[n] = joined[n] /\ pos'[n] = pos[n]
  PROVE  ChargeInv'
<1>1. ASSUME NEW x \in Messages PROVE Charged(x)'
  <2>1. ~ Holds(m, x)' /\ ~ Reads(m, x)'
    BY EmptyBatch DEF Holds, Batch, Reads
  <2>2. faults' = faults => (Promised(x)' => Promised(x))
    BY DEF Promised, IInv, TypeOK, Messages
  <2>3. Paid(m, x)
    BY <2>1, <2>2 DEF Paid, Own, One, IInv, TypeOK
  <2> QED
    BY <2>3, MemberCharged DEF ChargeInv
<1> QED
  BY <1>1 DEF ChargeInv

\* A fetched message passes from the reader to the batch.
LEMMA FetchCharged ==
  ASSUME IInv, TypeOK', ChargeInv, NEW m \in Members, NEW p \in Partitions, Fetch(m, p)
  PROVE  ChargeInv'
<1> DEFINE y == <<p, pos[m][p]>>
<1>1. LogSize \in Nat
  BY SizeAssumption
<1>2. pos[m][p] \in Positions /\ pos[m][p] < LogSize /\ list[m] \in Seq(Messages)
  BY DEF IInv, TypeOK, Fetch
<1>3. y \in Messages
  BY <1>1, <1>2 DEF Messages, Offsets, Positions
<1>4. /\ UNCHANGED <<owner, gen, joined, mode, delivered, faults>>
      /\ mode[m] = "fetch" /\ joined[m] # 0
      /\ list'[m] = Append(list[m], y)
      /\ \A n \in Members \ {m} : list'[n] = list[n] /\ pos'[n] = pos[n]
      /\ pos'[m][p] = pos[m][p] + 1
      /\ \A q \in Partitions \ {p} : pos'[m][q] = pos[m][q]
  BY DEF Fetch, kafkaVars, historyVars, IInv, TypeOK
<1>5. Batch(m)' = Batch(m) \cup {y}
  BY <1>2, <1>3, <1>4, AppendBatch DEF Batch
<1>6. ASSUME NEW x \in Messages PROVE Charged(x)'
  <2>1. x[1] \in Partitions /\ x[2] \in Nat /\ x = <<x[1], x[2]>> /\ pos[m][p] \in Nat
    BY <1>1, <1>2 DEF Messages, Offsets, Positions
  <2>2. Promised(x)' <=> Promised(x)
    BY <1>4 DEF Promised
  <2>3. CASE x = y
    <3>1. Reads(m, x) /\ ~ Reads(m, x)'
      BY <1>4, <2>1, <2>3 DEF Reads
    <3>2. Paid(m, x)
      BY <1>4, <2>2, <3>1 DEF Paid, Own, One, IInv, TypeOK
    <3> QED
      BY <1>4, <3>2, MemberCharged DEF ChargeInv
  <2>4. CASE x # y
    <3>1. Holds(m, x)' <=> Holds(m, x)
      BY <1>4, <1>5, <2>4 DEF Holds
    <3>2. Reads(m, x)' => Reads(m, x)
      BY <1>4, <2>1 DEF Reads
    <3>3. Paid(m, x)
      BY <1>4, <2>2, <3>1, <3>2 DEF Paid, Own, One, IInv, TypeOK
    <3> QED
      BY <1>4, <3>3, MemberCharged DEF ChargeInv
  <2> QED
    BY <2>3, <2>4
<1> QED
  BY <1>4, <1>6 DEF ChargeInv

\* A delivery uses up the claim of the batch.
LEMMA DeliverCharged ==
  ASSUME IInv, TypeOK', ChargeInv, NEW m \in Members, Deliver(m)
  PROVE  ChargeInv'
<1>1. /\ UNCHANGED <<owner, gen, joined, pos, list, faults>>
      /\ mode[m] = "fetch" /\ mode'[m] = "handle"
      /\ \A n \in Members \ {m} : mode'[n] = mode[n]
      /\ \A x \in Messages : delivered'[x] = IF x \in Batch(m) THEN delivered[x] + 1
                                                               ELSE delivered[x]
  BY DEF Deliver, kafkaVars, readerVars, IInv, TypeOK
<1>2. ASSUME NEW x \in Messages PROVE Charged(x)'
  <2>1. (Promised(x)' <=> Promised(x)) /\ (Reads(m, x)' <=> Reads(m, x)) /\ ~ Holds(m, x)'
    BY <1>1 DEF Promised, Reads, Holds, IInv, TypeOK, Messages
  <2>2. Holds(m, x) <=> x \in Batch(m)
    BY <1>1 DEF Holds
  <2>3. Paid(m, x)
    BY <1>1, <2>1, <2>2 DEF Paid, Own, One, IInv, TypeOK
  <2> QED
    BY <1>1, <2>3, MemberCharged DEF ChargeInv
<1> QED
  BY <1>1, <1>2 DEF ChargeInv

\* Results and commits move no claim.
LEMMA CycleCharged ==
  ASSUME IInv, TypeOK', ChargeInv, NEW m \in Members,
         UNCHANGED <<owner, gen, joined, pos, delivered, faults>>,
         mode[m] \in {"handle", "commit"},
         mode'[m] \in {"handle", "commit"} \/ (mode'[m] = "fetch" /\ list'[m] = <<>>),
         \A n \in Members \ {m} : list'[n] = list[n] /\ mode'[n] = mode[n]
  PROVE  ChargeInv'
<1>1. ASSUME NEW x \in Messages PROVE Charged(x)'
  <2>1. (Promised(x)' <=> Promised(x)) /\ (Reads(m, x)' <=> Reads(m, x))
    BY DEF Promised, Reads, IInv, TypeOK, Messages
  <2>2. ~ Holds(m, x)'
    BY EmptyBatch DEF Holds, Batch
  <2>3. Paid(m, x)
    BY <2>1, <2>2 DEF Paid, Own, One, IInv, TypeOK
  <2> QED
    BY <2>3, MemberCharged DEF ChargeInv
<1> QED
  BY <1>1 DEF ChargeInv

LEMMA StepChargeInv == IInv /\ ChargeInv /\ [Next]_vars => ChargeInv'
<1> SUFFICES ASSUME IInv, ChargeInv, [Next]_vars
             PROVE  ChargeInv'
  OBVIOUS
<1>1. IInv' /\ TypeOK'
  BY StepIInv DEF IInv
<1>2. CASE UNCHANGED vars
  BY <1>2 DEF vars, kafkaVars, readerVars, batchVars, historyVars, ChargeInv, Charged,
         Holders, Holds, Batch, Readers, Reads, Promised
<1>3. ASSUME NEW o \in [Partitions -> Members], Assign(o) \/ Rebalance(o)
      PROVE  ChargeInv'
  BY <1>1, <1>3, GenerationCharged
<1>4. ASSUME NEW m \in Members, NEW p \in Partitions, Fetch(m, p)
      PROVE  ChargeInv'
  BY <1>1, <1>4, FetchCharged
<1>5. ASSUME NEW m \in Members, Join(m) \/ Deliver(m)
      PROVE  ChargeInv'
  BY <1>1, <1>5, JoinCharged, DeliverCharged
<1>6. ASSUME NEW m \in Members, Connect(m)
      PROVE  ChargeInv'
  <2>1. joined[m] # gen /\ list[m] = <<>>
    BY <1>6 DEF ChargeInv, Connect, IInv, MemberInv, PhaseOK
  <2> QED
    BY <1>1, <1>6, <2>1, GivenUpCharged
       DEF Connect, NewReader, kafkaVars, batchVars, historyVars, IInv, TypeOK
<1>7. ASSUME NEW m \in Members, Reconnect(m)
      PROVE  ChargeInv'
  <2>1. list[m] = <<>> /\ mode[m] = "broken"
    BY <1>7 DEF Reconnect, IInv, MemberInv, PhaseOK
  <2> QED
    BY <1>1, <1>7, <2>1, GivenUpCharged
       DEF Reconnect, NewReader, kafkaVars, batchVars, historyVars, IInv, TypeOK
<1>8. ASSUME NEW m \in Members,
             FetchFails(m) \/ CommitRefused(m) \/ \E taken \in BOOLEAN : CommitLost(m, taken)
      PROVE  ChargeInv'
  <2>1. /\ UNCHANGED <<owner, gen, joined, pos, delivered>> /\ Break(m)
        /\ (faults' = faults /\ joined[m] # gen) \/ faults' = faults + 1
    BY <1>8 DEF FetchFails, CommitRefused, CommitLost, Fault, kafkaVars, readerVars, historyVars
  <2>2. /\ list'[m] = <<>> /\ mode'[m] = "broken"
        /\ \A n \in Members \ {m} : list'[n] = list[n] /\ mode'[n] = mode[n]
    BY <2>1 DEF Break, IInv, TypeOK
  <2>3. faults \in Nat
    BY DEF IInv, TypeOK
  <2>4. faults' = faults \/ faults' = faults + 1
    BY <2>1
  <2>5. faults' = faults => joined[m] # gen
    BY <2>1, <2>3
  <2> QED
    BY <1>1, <2>1, <2>2, <2>4, <2>5, GivenUpCharged
<1>9. ASSUME NEW m \in Members, HandlerFails(m) \/ NoResultMatches(m) \/ Leave(m)
      PROVE  ChargeInv'
  <2>1. UNCHANGED <<owner, gen, delivered>> /\ Stop(m) /\ faults' = faults + 1
    BY <1>9 DEF HandlerFails, NoResultMatches, Leave, Fault, kafkaVars, historyVars
  <2>2. /\ list'[m] = <<>> /\ mode'[m] = "off" /\ joined'[m] = 0
        /\ \A n \in Members \ {m} : /\ list'[n] = list[n] /\ mode'[n] = mode[n]
                                    /\ joined'[n] = joined[n] /\ pos'[n] = pos[n]
    BY <2>1 DEF Stop, NewReader, IInv, TypeOK
  <2>3. faults' # faults
    BY <2>1 DEF IInv, TypeOK
  <2> QED
    BY <1>1, <2>1, <2>2, <2>3, GivenUpCharged
<1>10. ASSUME NEW m \in Members,
              HandlerReturns(m) \/ Commit(m) \/ \E x \in left[m] : ResultHandled(m, x)
       PROVE  ChargeInv'
  <2>1. /\ UNCHANGED <<owner, gen, joined, pos, delivered, faults>>
        /\ mode[m] \in {"handle", "commit"}
        /\ mode'[m] \in {"handle", "commit"} \/ (mode'[m] = "fetch" /\ list'[m] = <<>>)
        /\ \A n \in Members \ {m} : list'[n] = list[n] /\ mode'[n] = mode[n]
    <3>1. CASE HandlerReturns(m)
      BY <3>1 DEF HandlerReturns, kafkaVars, readerVars, IInv, TypeOK
    <3>2. CASE Commit(m)
      BY <3>2 DEF Commit, readerVars, historyVars, IInv, TypeOK
    <3>3. CASE \E x \in left[m] : ResultHandled(m, x)
      BY <3>3 DEF ResultHandled, kafkaVars, readerVars
    <3> QED
      BY <1>10, <3>1, <3>2, <3>3
  <2> QED
    BY <1>1, <2>1, CycleCharged
<1> QED
  BY <1>2, <1>3, <1>4, <1>5, <1>6, <1>7, <1>8, <1>9, <1>10 DEF Next, Handle, EndBatch

\* A message is delivered once, and once more for each fault at most, whatever the size of
\* the group and wherever the faults fall: a rebalance, an error of Kafka or of the client,
\* a lost commit (kafka/consumer/consumer.go:213-288, databus/consume.go:148-186).
THEOREM RepeatsAreCharged == Spec => []RepeatsNeedFaults
<1>1. IInv /\ ChargeInv => RepeatsNeedFaults
  <2> SUFFICES ASSUME IInv, ChargeInv, NEW x \in Messages
               PROVE  delivered[x] <= 1 + faults
    BY DEF RepeatsNeedFaults
  <2>1. Charged(x) /\ delivered[x] \in Nat /\ faults \in Nat
    BY DEF ChargeInv, IInv, TypeOK
  <2>2. Cardinality(Holders(x)) \in Nat /\ Cardinality(Readers(x)) \in Nat
    BY <2>1, FS_CardinalityType DEF Charged
  <2>3. One(Promised(x)) \in Nat /\ One(owner[x[1]] # Nobody) \in 0 .. 1
    BY DEF One
  <2> QED
    BY <2>1, <2>2, <2>3 DEF Charged
<1>2. Spec => []ChargeInv
  BY InitChargeInv, StepChargeInv, Invariance, PTL DEF Spec
<1> QED
  BY <1>1, <1>2, Invariance, PTL

-----------------------------------------------------------------------------
(* The refinement: a batch that goes to a client is sent, results and      *)
(* missing results settle, commits commit, and whatever else Kafka, the    *)
(* readers and the loops do is a fault or not seen.                        *)

LEMMA InitContract == Init => Contract!Init
  BY DEF Init, Contract!Init, Contract!Messages, Messages, Offsets

\* What is committed is safe in the eyes of the contract.
LEMMA CommittedIsSafe ==
  ASSUME CommittedIsHandled
  PROVE  Contract!Safe(committed)
  BY DEF CommittedIsHandled, Contract!Safe, Contract!Messages, Messages, Offsets

\* A step that leaves messages and offsets alone is not seen, or is a fault.
LEMMA UnseenOrFault ==
  ASSUME IInv, UNCHANGED <<committed, historyVars>>, UNCHANGED faults \/ Fault
  PROVE  [Contract!Next]_(Contract!vars)
<1>1. CASE UNCHANGED faults
  BY <1>1 DEF historyVars, Contract!vars
<1>2. CASE Fault
  <2>1. Contract!Fault(committed)
    BY <1>2, CommittedIsSafe DEF IInv, Fault, historyVars, Contract!Fault
  <2> QED
    BY <2>1 DEF IInv, TypeOK, Positions, Contract!Next
<1> QED
  BY <1>1, <1>2

LEMMA DeliverSends ==
  ASSUME IInv, IInv', RepeatsNeedFaults', NEW m \in Members, Deliver(m)
  PROVE  Contract!Next
<1>1. Batch(m) \subseteq Messages
  BY BatchType DEF Batch, IInv, TypeOK
<1>2. /\ UNCHANGED <<committed, handled, omitted, faults>>
      /\ delivered' = [x \in Messages |->
                         IF x \in Batch(m) THEN delivered[x] + 1 ELSE delivered[x]]
  BY DEF Deliver, kafkaVars
<1>3. ASSUME NEW x \in Batch(m) PROVE delivered[x] <= faults
  <2>1. delivered[x] \in Nat /\ faults \in Nat
    BY <1>1 DEF IInv, TypeOK
  <2>2. delivered'[x] = delivered[x] + 1
    BY <1>1, <1>2
  <2>3. delivered'[x] <= 1 + faults
    BY <1>1, <1>2 DEF RepeatsNeedFaults
  <2> QED
    BY <2>1, <2>2, <2>3
<1>4. ASSUME NEW x \in Messages, NEW y \in Batch(m), Below(x, y)
      PROVE  delivered[x] > 0 \/ x \in Batch(m)
  <2>1. x \in Settled \cup Batch(m)
    BY <1>4 DEF IInv, MemberInv, ListClosed
  <2> QED
    BY <2>1 DEF IInv, SettledIsDelivered
<1>5. Contract!Messages = Messages
  BY DEF Contract!Messages, Messages, Offsets
<1>6. Contract!Send(Batch(m))
  BY <1>2, <1>3, <1>4, <1>5 DEF Contract!Send, Contract!Earlier, Below
<1> QED
  BY <1>1, <1>5, <1>6 DEF Contract!Next

\* Results, and messages for which there is none.
LEMMA ResultsSettle ==
  ASSUME IInv, NEW m \in Members, HandlerReturns(m) \/ \E x \in left[m] : ResultHandled(m, x)
  PROVE  Contract!Next
<1>1. PICK S \in SUBSET left[m] : /\ handled' \cup omitted' = handled \cup omitted \cup S
                                  /\ UNCHANGED <<committed, delivered, faults>>
  <2>1. CASE HandlerReturns(m)
    <3>1. /\ handled' \cup omitted' = handled \cup omitted \cup left[m]
          /\ UNCHANGED <<committed, delivered, faults>>
      BY <2>1 DEF HandlerReturns, kafkaVars
    <3> QED
      BY <3>1
  <2>2. ASSUME NEW x \in left[m], ResultHandled(m, x)
        PROVE  \E S \in SUBSET left[m] :
                 /\ handled' \cup omitted' = handled \cup omitted \cup S
                 /\ UNCHANGED <<committed, delivered, faults>>
    <3>1. /\ handled' \cup omitted' = handled \cup omitted \cup {x}
          /\ UNCHANGED <<committed, delivered, faults>>
      BY <2>2 DEF ResultHandled, kafkaVars
    <3>2. {x} \in SUBSET left[m]
      OBVIOUS
    <3> QED
      BY <3>1, <3>2
  <2> QED
    BY <2>1, <2>2
<1>2. mode[m] = "handle"
  BY DEF HandlerReturns, ResultHandled
<1>3. S \subseteq Batch(m) /\ \A x \in S : delivered[x] > 0
  BY <1>1, <1>2 DEF IInv, MemberInv, PhaseOK
<1>4. Batch(m) \subseteq Contract!Messages
  BY BatchType DEF Batch, IInv, TypeOK, Contract!Messages, Messages, Offsets
<1>5. Contract!Settle(S)
  BY <1>1, <1>3 DEF Contract!Settle
<1> QED
  BY <1>3, <1>4, <1>5 DEF Contract!Next

\* A commit, also one whose answer is lost.
LEMMA CommitCommits ==
  ASSUME IInv, IInv', NEW m \in Members, Commit(m) \/ \E taken \in BOOLEAN : CommitLost(m, taken)
  PROVE  Contract!Next
<1>1. /\ UNCHANGED historyVars
      /\ UNCHANGED faults \/ Fault
  BY DEF Commit, CommitLost
<1>2. Contract!Safe(committed') /\ committed' \in [Partitions -> 0 .. LogSize]
  <2>1. committed' \in [Partitions -> 0 .. LogSize]
    BY DEF IInv, TypeOK, Positions
  <2>2. \A x \in Messages : x[2] < committed'[x[1]] => x \in handled \cup omitted
    BY <1>1 DEF IInv, CommittedIsHandled, historyVars
  <2> QED
    BY <2>1, <2>2 DEF Contract!Safe, Contract!Messages, Messages, Offsets
<1>3. Contract!Commit(committed') \/ Contract!Fault(committed')
  BY <1>1, <1>2 DEF historyVars, Fault, Contract!Commit, Contract!Fault
<1> QED
  BY <1>2, <1>3 DEF Contract!Next

LEMMA StepContract ==
  IInv /\ IInv' /\ RepeatsNeedFaults' /\ [Next]_vars => [Contract!Next]_(Contract!vars)
<1> SUFFICES ASSUME IInv, IInv', RepeatsNeedFaults', [Next]_vars
             PROVE  [Contract!Next]_(Contract!vars)
  OBVIOUS
<1>1. CASE UNCHANGED vars
  BY <1>1, UnseenOrFault DEF vars, kafkaVars
<1>2. ASSUME NEW o \in [Partitions -> Members], Assign(o) \/ Rebalance(o)
      PROVE  [Contract!Next]_(Contract!vars)
  BY <1>2, UnseenOrFault DEF Assign, Rebalance, Generation
<1>3. ASSUME NEW m \in Members,
             \/ \E p \in Partitions : Fetch(m, p)
             \/ Join(m) \/ Connect(m) \/ Reconnect(m) \/ CommitRefused(m)
             \/ FetchFails(m) \/ HandlerFails(m) \/ NoResultMatches(m) \/ Leave(m)
      PROVE  [Contract!Next]_(Contract!vars)
  BY <1>3, UnseenOrFault
     DEF Fetch, Join, Connect, Reconnect, CommitRefused, FetchFails, HandlerFails,
         NoResultMatches, Leave, kafkaVars
<1>4. ASSUME NEW m \in Members, Deliver(m)
      PROVE  [Contract!Next]_(Contract!vars)
  BY <1>4, DeliverSends
<1>5. ASSUME NEW m \in Members, HandlerReturns(m) \/ \E x \in left[m] : ResultHandled(m, x)
      PROVE  [Contract!Next]_(Contract!vars)
  BY <1>5, ResultsSettle
<1>6. ASSUME NEW m \in Members, Commit(m) \/ \E taken \in BOOLEAN : CommitLost(m, taken)
      PROVE  [Contract!Next]_(Contract!vars)
  BY <1>6, CommitCommits
<1> QED
  BY <1>1, <1>2, <1>3, <1>4, <1>5, <1>6 DEF Next, Handle, EndBatch

\* A group of any size implements AtLeastOnce: its members, generations, reconnects and late
\* commits together are one delivery of the topic (consumer.go, consume.go of databus and grpcapi).
THEOREM GroupDeliversAtLeastOnce == Spec => ImplementsAtLeastOnce
  BY InitContract, StepContract, Invariance, RepeatsAreCharged, PTL
     DEF Spec, ImplementsAtLeastOnce, Contract!Spec

=============================================================================
