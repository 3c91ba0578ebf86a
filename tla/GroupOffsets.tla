----------------------------- MODULE GroupOffsets -----------------------------
(***************************************************************************)
(* The topic page of the web interface: DataBus.GetTopicList takes the     *)
(* consumers from the connection store, asks Kafka one request after the   *)
(* other (kafka/provider/provider.go) and merges both                      *)
(* (databus/topic.go), while consumers go on committing, partitions move   *)
(* and the log grows.  The control API passes the result on.               *)
(*                                                                         *)
(* One topic and one group: they do not influence each other.  Texts of    *)
(* errors are kinds; times and counters of consumers are left out.         *)
(***************************************************************************)
EXTENDS Integers, Sequences, FiniteSets

CONSTANTS
  OffPartitions, \* partitions the topic may have
  OffConsumers,  \* consumers of the group
  OffLogSize,    \* bound: offsets of a partition
  OffChanges     \* bound: changes while the page is put together

ASSUME OffAssumption == OffLogSize \in Nat /\ OffChanges \in Nat

VARIABLES
  offFirst, offEnd, \* partition -> first retained offset and high watermark; -1 before it exists
  offCommitted,     \* partition -> committed offset of the group, -1 when there is none
  offMember,        \* partition -> the consumer the broker has assigned it to, or OffNone
  offState,         \* consumer -> its state in the connection store, or OffNone when it is not there
  offSeen,          \* consumer -> partitions of its offset map; none is ever taken out
  offChanges,       \* changes so far
  offTurn,          \* the request GetTopicList makes next, an index of OffRequests
  offRead,          \* request -> <<its answer>>, or <<>> when it failed
  offShrunk,        \* partitions whose log lost its end since the page was asked for
  offPage           \* partition -> what is shown; empty until it is

offKafkaVars == <<offFirst, offEnd, offCommitted, offMember, offShrunk>>
offStoreVars == <<offState, offSeen>>
offVars == <<offKafkaVars, offStoreVars, offChanges, offTurn, offRead, offPage>>

\* No consumer, no state, no error: the empty string.
OffNone == ""

OffExists == {p \in OffPartitions : offEnd[p] >= 0}
OffNothing == [p \in {} |-> 0]
OffGot(request) == offRead[request][1]

\* Mutant: the ends of the log are read before the committed offsets.
OffEndsFirst == <<"runtime", "metadata", "ends", "committed", "groups", "show">>

\* GetTopicList: committed offsets are fetched before the log offsets.
OffRequests == <<"runtime", "metadata", "committed", "ends", "groups", "show">>

OffInit ==
  /\ \E new \in OffPartitions, committed \in {-1, 1} :
       /\ offFirst = [p \in OffPartitions |-> IF p = new THEN -1 ELSE 0]
       /\ offEnd = [p \in OffPartitions |-> IF p = new THEN -1 ELSE 1]
       /\ offCommitted = [p \in OffPartitions |-> IF p = new THEN -1 ELSE committed]
  /\ offMember \in {f \in [OffPartitions -> OffConsumers \union {OffNone}] : \A p \in OffPartitions : offEnd[p] = -1 => f[p] = OffNone}
  /\ offState \in {f \in [OffConsumers -> {OffNone, "connected"}] : \E c \in OffConsumers : f[c] # OffNone}
  /\ offSeen = [c \in OffConsumers |-> {}]
  /\ offChanges = 0 /\ offTurn = 1 /\ offRead = OffNothing /\ offShrunk = {} /\ offPage = OffNothing

-----------------------------------------------------------------------------
(* What happens meanwhile.                                                 *)

OffMeanwhile == offTurn <= Len(OffRequests) /\ offChanges < OffChanges
OffChange == offChanges' = offChanges + 1 /\ UNCHANGED <<offTurn, offRead, offPage>>

OffAppend(p) ==
  /\ OffMeanwhile /\ offEnd[p] \in 0 .. OffLogSize - 1
  /\ offEnd' = [offEnd EXCEPT ![p] = @ + 1]
  /\ OffChange /\ UNCHANGED <<offFirst, offCommitted, offMember, offShrunk, offStoreVars>>

\* The consumer that has p commits, and setOffset remembers the partition.
OffCommit(p) ==
  /\ OffMeanwhile /\ offMember[p] # OffNone /\ offCommitted[p] < offEnd[p]
  /\ offCommitted' = [offCommitted EXCEPT ![p] = offEnd[p]]
  /\ offSeen' = [offSeen EXCEPT ![offMember[p]] = @ \union {p}]
  /\ OffChange /\ UNCHANGED <<offFirst, offEnd, offMember, offShrunk, offState>>

\* Retention removes the oldest record, whether the group has read it or not.
OffTrim(p) ==
  /\ OffMeanwhile /\ p \in OffExists /\ offFirst[p] < offEnd[p]
  /\ offFirst' = [offFirst EXCEPT ![p] = @ + 1]
  /\ OffChange /\ UNCHANGED <<offEnd, offCommitted, offMember, offShrunk, offStoreVars>>

\* A new leader lacks the last record.
OffShrink(p) ==
  /\ OffMeanwhile /\ p \in OffExists /\ offFirst[p] < offEnd[p]
  /\ offEnd' = [offEnd EXCEPT ![p] = @ - 1]
  /\ offShrunk' = offShrunk \union {p}
  /\ OffChange /\ UNCHANGED <<offFirst, offCommitted, offMember, offStoreVars>>

\* The topic gets a partition.
OffGrow(p) ==
  /\ OffMeanwhile /\ p \notin OffExists
  /\ offFirst' = [offFirst EXCEPT ![p] = 0] /\ offEnd' = [offEnd EXCEPT ![p] = 0]
  /\ OffChange /\ UNCHANGED <<offCommitted, offMember, offShrunk, offStoreVars>>

OffRebalance(p, c) ==
  /\ OffMeanwhile /\ p \in OffExists /\ offMember[p] # c
  /\ offMember' = [offMember EXCEPT ![p] = c]
  /\ OffChange /\ UNCHANGED <<offFirst, offEnd, offCommitted, offShrunk, offStoreVars>>

\* A consumer comes, goes or reconnects; one that comes has an empty offset map.
OffConsumer(c, state) ==
  /\ OffMeanwhile /\ offState[c] # state
  /\ offState' = [offState EXCEPT ![c] = state]
  /\ offSeen' = IF offState[c] = OffNone \/ state = OffNone THEN [offSeen EXCEPT ![c] = {}] ELSE offSeen
  /\ OffChange /\ UNCHANGED offKafkaVars

-----------------------------------------------------------------------------
(* The requests of GetTopicList.                                           *)

OffAnswer(request, answer) ==
  /\ offTurn <= Len(OffRequests) /\ OffRequests[offTurn] = request
  /\ offRead' = [r \in DOMAIN offRead \union {request} |-> IF r = request THEN answer ELSE offRead[r]]
  /\ offTurn' = offTurn + 1
  /\ UNCHANGED <<offKafkaVars, offStoreVars, offChanges, offPage>>

\* GetStatTopicGroupPartition: connected consumers with the partitions of their offset maps.
OffSnapshot ==
  OffAnswer("runtime", <<[c \in {d \in OffConsumers : offState[d] # OffNone} |->
                           [state |-> offState[c], parts |-> offSeen[c]]]>>)

OffMetadata == OffAnswer("metadata", <<OffExists>>)

OffFetch ==
  \/ OffAnswer("committed", <<[p \in OffGot("metadata") |-> offCommitted[p]]>>)
  \/ OffAnswer("committed", <<>>)

OffListOffsets ==
  \/ OffAnswer("ends", <<[p \in OffGot("metadata") |-> <<offFirst[p], offEnd[p]>>]>>)
  \/ OffAnswer("ends", <<>>)

OffDescribe == OffAnswer("groups", <<offMember>>) \/ OffAnswer("groups", <<>>)

\* Without metadata, or when the admin's request timed out, there is no page.
OffGivesUp ==
  /\ offTurn \in 2 .. Len(OffRequests)
  /\ offTurn' = Len(OffRequests) + 1
  /\ UNCHANGED <<offKafkaVars, offStoreVars, offChanges, offRead, offPage>>

-----------------------------------------------------------------------------
(* What the page shows.                                                    *)

\* addGroupStats: a group without a committed offset starts at the first one.
OffLag(p) ==
  LET first == OffGot("ends")[p][1]
      end == OffGot("ends")[p][2]
      committed == OffGot("committed")[p]
      offset == IF committed >= 0 THEN committed ELSE first
  IN  CASE offRead["ends"] = <<>> -> [error |-> "no_offsets", offset |-> -1, lag |-> -1]
        [] offRead["ends"] # <<>> /\ offRead["committed"] = <<>> -> [error |-> "no_committed_offset", offset |-> -1, lag |-> -1]
        [] OTHER ->
             CASE offset < first -> [error |-> "precedes_first", offset |-> offset, lag |-> -1]
               [] offset > end -> [error |-> "exceeds_latest", offset |-> offset, lag |-> -1]
               [] OTHER -> [error |-> OffNone, offset |-> offset, lag |-> end - offset]

\* The members of the group and their partitions; none when the request failed.
OffAssigned(c) == {p \in OffPartitions : offRead["groups"] # <<>> /\ OffGot("groups")[p] = c}

\* mergeGroupStats: the broker's partitions of a connected consumer replace those of its offset
\* map, unless the broker names none.
OffPartsOf(c) ==
  IF c \in DOMAIN OffGot("runtime") /\ OffAssigned(c) = {}
  THEN OffGot("runtime")[c].parts
  ELSE OffAssigned(c)

\* The consumer shown for p: the assigned one, else any that still has p in its offset map.
OffOwners(p) ==
  IF \E c \in OffConsumers : p \in OffAssigned(c) THEN {OffGot("groups")[p]}
  ELSE LET holders == {c \in OffConsumers : p \in OffPartsOf(c)}
       IN  IF holders = {} THEN {OffNone} ELSE holders

OffStateOf(c) ==
  CASE c \in DOMAIN OffGot("runtime") -> OffGot("runtime")[c].state
    [] c # OffNone /\ c \notin DOMAIN OffGot("runtime") -> "broker-member"
    [] OTHER -> OffNone

\* The page is complete; the control API and its client pass every field on.
OffShow ==
  /\ offTurn <= Len(OffRequests) /\ OffRequests[offTurn] = "show"
  /\ \E owner \in [OffGot("metadata") -> OffConsumers \union {OffNone}] :
       /\ \A p \in OffGot("metadata") : owner[p] \in OffOwners(p)
       /\ offPage' = [p \in OffGot("metadata") |->
                       [lag |-> OffLag(p), owner |-> owner[p], state |-> OffStateOf(owner[p])]]
  /\ offTurn' = offTurn + 1
  /\ UNCHANGED <<offKafkaVars, offStoreVars, offChanges, offRead>>

OffSteps ==
  \/ \E p \in OffPartitions :
       \/ OffAppend(p) \/ OffCommit(p) \/ OffTrim(p) \/ OffShrink(p) \/ OffGrow(p)
       \/ \E c \in OffConsumers \union {OffNone} : OffRebalance(p, c)
  \/ \E c \in OffConsumers, state \in {OffNone, "connected", "reconnecting"} : OffConsumer(c, state)
  \/ OffSnapshot \/ OffMetadata \/ OffFetch \/ OffListOffsets \/ OffDescribe \/ OffGivesUp \/ OffShow

OffSpec == OffInit /\ [][OffSteps]_offVars

-----------------------------------------------------------------------------

\* GetTopicList: although commits and appends go on between the two requests, the page says that
\* a committed offset exceeds the log only if the log really shrank.
OffNoFalseAlarm ==
  \A p \in DOMAIN offPage : offPage[p].lag.error = "exceeds_latest" => p \in offShrunk

=============================================================================
