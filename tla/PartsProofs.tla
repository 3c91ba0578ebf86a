----------------------------- MODULE PartsProofs -----------------------------
(***************************************************************************)
(* Theorems of five of the small parts that MCParts runs, each on its own: *)
(* Producers, GroupOffsets, AdminFeed, RetryTimes and RetryStats, for      *)
(* every value of their constants.                                         *)
(***************************************************************************)
EXTENDS Producers, GroupOffsets, AdminFeed, RetryTimes, RetryStats, WellFoundedInduction, FiniteSetTheorems, TLAPS

(***************************************************************************)
(* Producers, for any calls, topics, requests, partitions and faults.      *)
(*                                                                         *)
(* That a topic has one writer rests on the mutex: whoever is between the  *)
(* lookup and the store holds it, and what the lookup found is still so.   *)
(* What a caller is told is about its own messages, which nobody has       *)
(* written before its handler comes to write them.                         *)
(***************************************************************************)

\* The types the proofs need.
ProdTypeOK ==
  /\ prodCall \in [ProdCalls -> ProdRequests \union {NoRequest}]
  /\ prodStep \in [ProdCalls -> {"new", "sent", "wait", "get", "create", "write", "end"}]
  /\ prodAnswer \in [ProdCalls -> {"none", "ok", "error", "rejected"}]
  /\ prodWriters \in [ProdTopics -> Nat] /\ prodStore \subseteq ProdTopics
  /\ \A c \in ProdCalls : prodStep[c] # "new" => prodCall[c] \in ProdRequests

\* The mutex is held from the lookup to the store, and what was looked up stays true.
LookupHolds ==
  \A c \in ProdCalls :
    /\ prodStep[c] \in {"get", "create"} => prodLock = c
    /\ prodStep[c] = "create" => ProdTopic(c) \notin prodStore

StoreInv == ProdTypeOK /\ LookupHolds /\ ProdOneWriter

\* Nobody is told how a call went before it has ended, and until then, or when it was rejected,
\* none of its messages is written or on its way.
AnswerInv ==
  \A c \in ProdCalls :
    /\ prodStep[c] = "new" => prodAnswer[c] = "none"
    /\ prodStep[c] # "end" => prodAnswer[c] \in {"none", "error"}
    /\ prodStep[c] # "end" \/ prodAnswer[c] = "rejected" =>
         \A m \in prodWritten \union prodPending : m[1] # c
    /\ prodAnswer[c] = "ok" => ProdMessages(c) \subseteq prodWritten

-----------------------------------------------------------------------------

LEMMA InitStore == ProdInit => StoreInv /\ AnswerInv
BY ProdAssumption DEF ProdInit, StoreInv, AnswerInv, ProdTypeOK, LookupHolds, ProdOneWriter

LEMMA StepKeepsType == StoreInv /\ [ProdSteps]_prodVars => ProdTypeOK'
<1> SUFFICES ASSUME StoreInv, [ProdSteps]_prodVars PROVE ProdTypeOK'
  OBVIOUS
<1> USE ProdAssumption DEF StoreInv, ProdTypeOK, prodStoreVars, prodKafkaVars
<1>1. ASSUME NEW c \in ProdCalls, NEW r \in ProdRequests, ProdRequest(c, r) PROVE ProdTypeOK'
  BY <1>1 DEF ProdRequest, ProdEnd, ProdGo
<1>2. ASSUME NEW c \in ProdCalls, ProdCheck(c) \/ ProdAcquire(c) \/ ProdGet(c) PROVE ProdTypeOK'
  BY <1>2 DEF ProdCheck, ProdAcquire, ProdGet, ProdEnd, ProdGo
<1>3. ASSUME NEW c \in ProdCalls, ProdCreate(c) PROVE ProdTypeOK'
  <2>1. ProdTopic(c) \in ProdTopics
    BY <1>3 DEF ProdCreate, ProdTopic, ProdRequests
  <2> QED
    BY <1>3, <2>1 DEF ProdCreate, ProdGo
<1>4. ASSUME NEW c \in ProdCalls, ProdCreateFails(c) \/ ProdGoneAway(c) PROVE ProdTypeOK'
  BY <1>4 DEF ProdCreateFails, ProdGoneAway, ProdEnd
<1>5. ASSUME NEW c \in ProdCalls,
             ProdWrite(c) \/ ProdWriteLeft(c) \/ \E S \in SUBSET (0 .. ProdParts - 1) : ProdWriteFails(c, S)
      PROVE  ProdTypeOK'
  BY <1>5 DEF ProdWrite, ProdWriteLeft, ProdWriteFails, ProdEnd
<1>6. ASSUME NEW m \in prodPending, ProdLateWrite(m) PROVE ProdTypeOK'
  BY <1>6 DEF ProdLateWrite
<1>7. CASE UNCHANGED prodVars
  BY <1>7 DEF prodVars
<1> QED
  BY <1>1, <1>2, <1>3, <1>4, <1>5, <1>6, <1>7 DEF ProdSteps, ProdHandler

\* No action but these four touches the mutex, the store or the step of another call.
LEMMA StepKeepsStore == StoreInv /\ [ProdSteps]_prodVars => LookupHolds' /\ ProdOneWriter'
<1> SUFFICES ASSUME StoreInv, [ProdSteps]_prodVars PROVE LookupHolds' /\ ProdOneWriter'
  OBVIOUS
<1> USE ProdAssumption DEF StoreInv, ProdTypeOK, LookupHolds, ProdOneWriter, ProdTopic, prodStoreVars, prodKafkaVars
<1>1. ASSUME NEW c \in ProdCalls, NEW r \in ProdRequests, ProdRequest(c, r)
      PROVE LookupHolds' /\ ProdOneWriter'
  BY <1>1 DEF ProdRequest, ProdEnd, ProdGo
<1>2. ASSUME NEW c \in ProdCalls, ProdCheck(c) PROVE LookupHolds' /\ ProdOneWriter'
  BY <1>2 DEF ProdCheck, ProdEnd, ProdGo
<1>3. ASSUME NEW c \in ProdCalls, ProdAcquire(c) PROVE LookupHolds' /\ ProdOneWriter'
  BY <1>3 DEF ProdAcquire, ProdGo
<1>4. ASSUME NEW c \in ProdCalls, ProdGet(c) PROVE LookupHolds' /\ ProdOneWriter'
  BY <1>4 DEF ProdGet, ProdGo
<1>5. ASSUME NEW c \in ProdCalls, ProdCreate(c) PROVE LookupHolds' /\ ProdOneWriter'
  <2>1. prodCall[c].topic \in ProdTopics
    BY <1>5 DEF ProdCreate, ProdRequests
  <2>2. \A d \in ProdCalls : d # c => prodStep[d] \notin {"get", "create"}
    BY <1>5 DEF ProdCreate
  <2> QED
    BY <1>5, <2>1, <2>2 DEF ProdCreate, ProdGo
<1>6. ASSUME NEW c \in ProdCalls, ProdCreateFails(c) PROVE LookupHolds' /\ ProdOneWriter'
  BY <1>6 DEF ProdCreateFails, ProdEnd
<1>7. ASSUME NEW c \in ProdCalls, ProdGoneAway(c) PROVE LookupHolds' /\ ProdOneWriter'
  BY <1>7 DEF ProdGoneAway
<1>8. ASSUME NEW c \in ProdCalls,
             ProdWrite(c) \/ ProdWriteLeft(c) \/ \E S \in SUBSET (0 .. ProdParts - 1) : ProdWriteFails(c, S)
      PROVE  LookupHolds' /\ ProdOneWriter'
  BY <1>8 DEF ProdWrite, ProdWriteLeft, ProdWriteFails, ProdEnd
<1>9. ASSUME NEW m \in prodPending, ProdLateWrite(m) PROVE LookupHolds' /\ ProdOneWriter'
  BY <1>9 DEF ProdLateWrite
<1>10. CASE UNCHANGED prodVars
  BY <1>10 DEF prodVars
<1> QED
  BY <1>1, <1>2, <1>3, <1>4, <1>5, <1>6, <1>7, <1>8, <1>9, <1>10 DEF ProdSteps, ProdHandler

LEMMA StepKeepsAnswers == StoreInv /\ AnswerInv /\ [ProdSteps]_prodVars => AnswerInv'
<1> SUFFICES ASSUME StoreInv, AnswerInv, [ProdSteps]_prodVars PROVE AnswerInv'
  OBVIOUS
<1> USE ProdAssumption DEF StoreInv, ProdTypeOK, AnswerInv, prodStoreVars, prodKafkaVars
<1>1. ASSUME NEW c \in ProdCalls, NEW r \in ProdRequests, ProdRequest(c, r) PROVE AnswerInv'
  BY <1>1 DEF ProdRequest, ProdEnd, ProdGo, ProdMessages
<1>2. ASSUME NEW c \in ProdCalls, ProdCheck(c) PROVE AnswerInv'
  BY <1>2 DEF ProdCheck, ProdEnd, ProdGo, ProdMessages
<1>3. ASSUME NEW c \in ProdCalls, ProdAcquire(c) \/ ProdGet(c) \/ ProdCreate(c) PROVE AnswerInv'
  BY <1>3 DEF ProdAcquire, ProdGet, ProdCreate, ProdGo, ProdMessages
<1>4. ASSUME NEW c \in ProdCalls, ProdCreateFails(c) \/ ProdGoneAway(c) PROVE AnswerInv'
  BY <1>4 DEF ProdCreateFails, ProdGoneAway, ProdEnd, ProdMessages
<1>5. ASSUME NEW c \in ProdCalls, ProdWrite(c) PROVE AnswerInv'
  <2>1. \A m \in ProdMessages(c) : m[1] = c
    BY DEF ProdMessages
  <2>2. \A d \in ProdCalls : ProdMessages(d)' = ProdMessages(d)
    BY <1>5 DEF ProdWrite, ProdMessages
  <2> QED
    BY <1>5, <2>1, <2>2 DEF ProdWrite, ProdEnd
<1>6. ASSUME NEW c \in ProdCalls, NEW S \in SUBSET (0 .. ProdParts - 1), ProdWriteFails(c, S) PROVE AnswerInv'
  <2>1. \A m \in ProdShare(c, S) : m[1] = c
    BY DEF ProdMessages, ProdShare
  <2>2. \A d \in ProdCalls : ProdMessages(d)' = ProdMessages(d)
    BY <1>6 DEF ProdWriteFails, ProdMessages
  <2> QED
    BY <1>6, <2>1, <2>2 DEF ProdWriteFails, ProdEnd
<1>7. ASSUME NEW c \in ProdCalls, ProdWriteLeft(c) PROVE AnswerInv'
  <2>1. \A m \in ProdMessages(c) : m[1] = c
    BY DEF ProdMessages
  <2>2. \A d \in ProdCalls : ProdMessages(d)' = ProdMessages(d)
    BY <1>7 DEF ProdWriteLeft, ProdMessages
  <2> QED
    BY <1>7, <2>1, <2>2 DEF ProdWriteLeft, ProdEnd
<1>8. ASSUME NEW m \in prodPending, ProdLateWrite(m) PROVE AnswerInv'
  BY <1>8 DEF ProdLateWrite, ProdMessages
<1>9. CASE UNCHANGED prodVars
  BY <1>9 DEF prodVars, ProdMessages
<1> QED
  BY <1>1, <1>2, <1>3, <1>4, <1>5, <1>6, <1>7, <1>8, <1>9 DEF ProdSteps, ProdHandler

LEMMA ProducersInductive == ProdSpec => [](StoreInv /\ AnswerInv)
<1>1. StoreInv /\ AnswerInv /\ [ProdSteps]_prodVars => (StoreInv /\ AnswerInv)'
  BY StepKeepsType, StepKeepsStore, StepKeepsAnswers DEF StoreInv
<1> QED
  BY InitStore, <1>1, PTL DEF ProdSpec

-----------------------------------------------------------------------------

\* ProducerStore.get: however many calls for a new topic come at once and whatever fails, a topic
\* has one Kafka writer, exactly if it is in the store.
THEOREM OneWriterPerTopic == ProdSpec => []ProdOneWriter
<1>1. StoreInv /\ AnswerInv => ProdOneWriter
  BY DEF StoreInv
<1> QED
  BY ProducersInductive, <1>1, PTL

\* ProduceBatch: a caller told ok has its whole request in the log, one that was rejected nothing.
THEOREM RequestsAreWhole == ProdSpec => []ProdWholeOrNothing
<1>1. StoreInv /\ AnswerInv => ProdWholeOrNothing
  <2> SUFFICES ASSUME AnswerInv, NEW c \in ProdCalls
               PROVE  /\ prodAnswer[c] = "ok" => ProdMessages(c) \subseteq prodWritten
                      /\ prodAnswer[c] = "rejected" =>
                           ProdMessages(c) \intersect (prodWritten \union prodPending) = {}
    BY DEF ProdWholeOrNothing
  <2>1. \A m \in ProdMessages(c) : m[1] = c
    BY DEF ProdMessages
  <2> QED
    BY <2>1 DEF AnswerInv
<1> QED
  BY ProducersInductive, <1>1, PTL

-----------------------------------------------------------------------------
(***************************************************************************)
(* AdminFeed, for any watchers, counts, changes and streams.               *)
(*                                                                         *)
(* FeedAgrees speaks of a feed at rest.  On the way there, a page in sight *)
(* of the poller is right as soon as the latest event has been sent, or is *)
(* right already, and an answer on its way will be, unless something newer *)
(* reaches the page first.  Versions stand for time: two records of the    *)
(* same version have the same counts.                                      *)
(***************************************************************************)

FeedTypes ==
  /\ feedVersion \in Nat /\ feedOpen \subseteq FeedWatchers
  /\ DOMAIN feedLoads = FeedWatchers /\ DOMAIN feedScreen = FeedWatchers
  /\ feedNewest \in [FeedWatchers -> 0 .. feedVersion]

\* Counts the bus really had, and has if it did not change since.
Genuine(r) ==
  /\ r.version \in 0 .. feedVersion
  /\ r.version = feedVersion => r.counts = feedState

FeedRecords ==
  /\ \A r \in feedEvents \cup feedPoll : Genuine(r)
  /\ \A w \in FeedWatchers : \A a \in feedLoads[w] : Genuine(a.now)
  /\ \A e \in feedEvents, r \in feedEvents \cup feedPoll :
       e.version = r.version => e.counts = r.counts
  /\ \A e \in feedEvents, p \in feedPoll : e.version <= p.version
  /\ \A e \in feedEvents : e.version = feedVersion => feedPrev \subseteq {feedState}
  /\ \A c, d \in feedPrev : c = d

\* The event that was published last and has not been sent.
Latest(e) ==
  /\ e \in feedEvents /\ e.counts \in feedPrev
  /\ \A r \in feedEvents : r.version <= e.version

Watching(w) == w \in feedOpen \ feedAsked /\ feedPrev # {}

\* No event can spoil the page of w: it says the same as the last one, or comes too late.
Overtaken(w) ==
  \A e \in feedEvents :
    \/ e.counts \in feedPrev
    \/ e.version < feedNewest[w]
    \/ \E a \in feedLoads[w] : e.version < a.now.version

\* What holds of an answer that does not come from between two polls.
AnswerFits(w, a) ==
  /\ \A p \in feedPoll : p.version > a.now.version \/ p.counts = a.now.counts
  /\ a.now.version = feedVersion => feedPrev \subseteq {a.now.counts}
  /\ Watching(w) =>
       \/ feedPrev \subseteq {a.now.counts}
       \/ \E e \in feedEvents : Latest(e) /\ e.version > a.now.version
       \/ feedNewest[w] > a.now.version
       \/ \E b \in feedLoads[w] : b.now.version > a.now.version

FeedPage(w) ==
  /\ Watching(w) => (\E e \in feedEvents : Latest(e)) \/ Overtaken(w)
  /\ Watching(w) /\ feedLoads[w] = {} /\ w \notin feedOdd =>
       (\E e \in feedEvents : Latest(e)) \/ feedScreen[w] \in feedPrev
  /\ \A a \in feedLoads[w] : a.between \/ AnswerFits(w, a)

FeedInv == FeedTypes /\ FeedRecords /\ \A w \in FeedWatchers : FeedPage(w)

LEMMA InitFeed == FeedInit => FeedInv
  BY DEF FeedInit, FeedInv, FeedTypes, FeedRecords, FeedPage, Watching

\* The counts change: every record so far is of an older version.
LEMMA ChangeFeed ==
  ASSUME FeedInv, NEW n \in FeedNames, FeedChange(n)
  PROVE  FeedInv'
<1>1. /\ feedVersion' = feedVersion + 1 /\ feedVersion \in Nat
      /\ UNCHANGED <<feedPollVars, feedEvents, feedOpen, feedStreams, feedAsked, feedLoads,
                     feedPageVars>>
  BY DEF FeedChange, FeedInv, FeedTypes
<1>2. FeedTypes'
  BY <1>1 DEF FeedInv, FeedTypes, feedPageVars
<1>3. FeedRecords'
  BY <1>1 DEF FeedInv, FeedRecords, Genuine, feedPollVars
<1>4. ASSUME NEW w \in FeedWatchers PROVE FeedPage(w)'
  <2>1. \A a \in feedLoads[w] : a.now.version \in 0 .. feedVersion
    BY DEF FeedInv, FeedRecords, Genuine
  <2>2. ASSUME NEW a \in feedLoads[w], AnswerFits(w, a) PROVE AnswerFits(w, a)'
    BY <1>1, <2>1, <2>2 DEF AnswerFits, Watching, Latest, feedPollVars, feedPageVars
  <2> QED
    BY <1>1, <2>2
       DEF FeedInv, FeedPage, Watching, Latest, Overtaken, feedPollVars, feedPageVars
<1> QED
  BY <1>2, <1>3, <1>4 DEF FeedInv

LEMMA NobodyFeed ==
  ASSUME FeedInv, FeedPollNobody
  PROVE  FeedInv'
<1>1. /\ feedPrev' = {} /\ feedPoll = {}
      /\ UNCHANGED <<feedBusVars, feedPoll, feedEvents, feedOpen, feedStreams, feedAsked,
                     feedLoads, feedPageVars>>
  BY DEF FeedPollNobody
<1>2. FeedTypes' /\ FeedRecords'
  BY <1>1 DEF FeedInv, FeedTypes, FeedRecords, Genuine, feedBusVars, feedPageVars
<1>3. ASSUME NEW w \in FeedWatchers PROVE FeedPage(w)'
  BY <1>1 DEF FeedInv, FeedPage, AnswerFits, Watching, feedBusVars
<1> QED
  BY <1>2, <1>3 DEF FeedInv

\* What the poller reads is newer than every event, and than every answer that differs.
LEMMA PollReadFeed ==
  ASSUME FeedInv, FeedPollRead
  PROVE  FeedInv'
<1>1. /\ feedPoll' = {FeedNow} /\ feedVersion \in Nat
      /\ UNCHANGED <<feedBusVars, feedPrev, feedEvents, feedOpen, feedStreams, feedAsked,
                     feedLoads, feedPageVars>>
  BY DEF FeedPollRead, FeedInv, FeedTypes
<1>2. FeedTypes'
  BY <1>1 DEF FeedInv, FeedTypes, feedBusVars, feedPageVars
<1>3. FeedNow.version = feedVersion /\ FeedNow.counts = feedState
  BY DEF FeedNow
<1>4. FeedRecords'
  BY <1>1, <1>3 DEF FeedInv, FeedRecords, Genuine, feedBusVars
<1>5. ASSUME NEW w \in FeedWatchers PROVE FeedPage(w)'
  <2>1. ASSUME NEW a \in feedLoads[w], AnswerFits(w, a) PROVE AnswerFits(w, a)'
    <3>1. Genuine(a.now)
      BY DEF FeedInv, FeedRecords
    <3>2. \A p \in feedPoll' : p.version > a.now.version \/ p.counts = a.now.counts
      BY <1>1, <1>3, <3>1 DEF Genuine
    <3> QED
      BY <1>1, <2>1, <3>2 DEF AnswerFits, Watching, Latest, feedBusVars, feedPageVars
  <2> QED
    BY <1>1, <2>1 DEF FeedInv, FeedPage, Watching, Latest, Overtaken, feedPageVars
<1> QED
  BY <1>2, <1>4, <1>5 DEF FeedInv

LEMMA PollFailsFeed ==
  ASSUME FeedInv, FeedPollFails
  PROVE  FeedInv'
<1>1. /\ feedPoll' = {}
      /\ UNCHANGED <<feedBusVars, feedPrev, feedEvents, feedOpen, feedStreams, feedAsked,
                     feedLoads, feedPageVars>>
  BY DEF FeedPollFails
<1>2. FeedTypes' /\ FeedRecords'
  BY <1>1 DEF FeedInv, FeedTypes, FeedRecords, Genuine, feedBusVars, feedPageVars
<1>3. ASSUME NEW w \in FeedWatchers PROVE FeedPage(w)'
  BY <1>1 DEF FeedInv, FeedPage, AnswerFits, Watching, Latest, Overtaken, feedBusVars,
              feedPageVars
<1> QED
  BY <1>2, <1>3 DEF FeedInv

\* A change that is published becomes the latest event; without one nothing changes.
LEMMA PublishFeed ==
  ASSUME FeedInv, FeedPublish
  PROVE  FeedInv'
<1>1. PICK new \in feedPoll :
        /\ feedEvents' = IF feedPrev = {} \/ \E old \in feedPrev : FeedDiffers(old, new.counts)
                         THEN feedEvents \union {new} ELSE feedEvents
        /\ feedPrev' = {new.counts}
  BY DEF FeedPublish
<1>2. /\ feedPoll' = {}
      /\ UNCHANGED <<feedBusVars, feedOpen, feedStreams, feedAsked, feedLoads, feedPageVars>>
  BY DEF FeedPublish
<1>3. /\ Genuine(new)
      /\ \A e \in feedEvents : /\ Genuine(e) /\ e.version <= new.version
                               /\ e.version = new.version => e.counts = new.counts
  BY DEF FeedInv, FeedRecords
<1>4. feedVersion \in Nat
  BY DEF FeedInv, FeedTypes
<1>5. FeedTypes'
  BY <1>2 DEF FeedInv, FeedTypes, feedBusVars, feedPageVars
<1>6. ASSUME NEW w \in FeedWatchers, NEW a \in feedLoads[w], AnswerFits(w, a)
      PROVE  /\ new.version > a.now.version \/ new.counts = a.now.counts
             /\ a.now.version = feedVersion => new.counts = a.now.counts
  BY <1>3, <1>4, <1>6 DEF AnswerFits, Genuine
<1>7. CASE feedPrev # {} /\ \A old \in feedPrev : old = new.counts
  <2>1. feedPrev' = feedPrev /\ feedEvents' = feedEvents
    BY <1>1, <1>7 DEF FeedDiffers
  <2>2. FeedRecords'
    BY <1>2, <2>1 DEF FeedInv, FeedRecords, Genuine, feedBusVars
  <2>3. ASSUME NEW w \in FeedWatchers PROVE FeedPage(w)'
    BY <1>2, <2>1 DEF FeedInv, FeedPage, AnswerFits, Watching, Latest, Overtaken,
                      feedBusVars, feedPageVars
  <2> QED
    BY <1>5, <2>2, <2>3 DEF FeedInv
<1>8. CASE feedPrev = {} \/ \E old \in feedPrev : old # new.counts
  <2>1. feedPrev' = {new.counts} /\ feedEvents' = feedEvents \cup {new}
    BY <1>1, <1>8 DEF FeedDiffers
  <2>2. Latest(new)'
    BY <1>3, <2>1 DEF Latest, Genuine
  <2>3. FeedRecords'
    <3>1. /\ \A r \in (feedEvents \cup feedPoll)' : Genuine(r)'
          /\ \A w \in FeedWatchers : \A a \in feedLoads'[w] : Genuine(a.now)'
      BY <1>2, <1>3, <2>1 DEF FeedInv, FeedRecords, Genuine, feedBusVars
    <3>2. \A e \in feedEvents', r \in feedEvents' : e.version = r.version => e.counts = r.counts
      BY <1>3, <2>1 DEF FeedInv, FeedRecords
    <3>3. \A e \in feedEvents' : e.version = feedVersion => new.counts = feedState
      BY <1>3, <1>4, <2>1 DEF Genuine
    <3> QED
      BY <1>2, <2>1, <3>1, <3>2, <3>3 DEF FeedRecords, feedBusVars
  <2>4. ASSUME NEW w \in FeedWatchers PROVE FeedPage(w)'
    <3>1. ASSUME NEW a \in feedLoads[w], AnswerFits(w, a) PROVE AnswerFits(w, a)'
      <4>1. new.version > a.now.version \/ feedPrev' \subseteq {a.now.counts}
        BY <1>6, <2>1, <3>1
      <4> QED
        BY <1>2, <1>6, <2>1, <2>2, <3>1, <4>1 DEF AnswerFits, feedBusVars
    <3> QED
      BY <1>2, <2>1, <2>2, <3>1 DEF FeedInv, FeedPage
  <2> QED
    BY <1>5, <2>3, <2>4 DEF FeedInv
<1> QED
  BY <1>7, <1>8

\* What appears on a page: a page that is not known to be out of date shows the newest
\* counts it has been given.
LEMMA ApplyCounts ==
  ASSUME FeedTypes, NEW W \in SUBSET FeedWatchers, NEW odd \in SUBSET W,
         NEW new, Genuine(new), FeedApply(W, new, odd)
  PROVE  /\ feedNewest' \in [FeedWatchers -> 0 .. feedVersion]
         /\ DOMAIN feedScreen' = FeedWatchers
         /\ \A w \in FeedWatchers : feedNewest'[w] >= feedNewest[w]
         /\ \A w \in W : /\ feedNewest'[w] >= new.version
                         /\ w \notin feedOdd' =>
                              feedScreen'[w] = new.counts /\ feedNewest[w] <= new.version
         /\ \A w \in FeedWatchers \ W :
              /\ feedNewest'[w] = feedNewest[w] /\ feedScreen'[w] = feedScreen[w]
              /\ w \notin feedOdd' => w \notin feedOdd
         /\ \A w \in odd : w \in feedOdd'
<1> DEFINE older == {w \in W : new.version < feedNewest[w]}
<1>1. /\ feedNewest' = [w \in FeedWatchers |-> IF w \in W \ older THEN new.version
                                                               ELSE feedNewest[w]]
      /\ feedOdd' = (feedOdd \ W) \union older \union odd
      /\ feedScreen' = [w \in FeedWatchers |-> IF w \in W THEN new.counts ELSE feedScreen[w]]
  BY DEF FeedApply
<1>2. /\ new.version \in 0 .. feedVersion /\ feedVersion \in Nat
      /\ \A w \in FeedWatchers : feedNewest[w] \in 0 .. feedVersion
  BY DEF Genuine, FeedTypes
<1>3. \A w \in W : w \in older <=> new.version < feedNewest[w]
  OBVIOUS
<1> HIDE DEF older
<1>4. \A w \in FeedWatchers : feedNewest'[w] \in 0 .. feedVersion
  BY <1>1, <1>2, <1>3
<1>5. feedNewest' \in [FeedWatchers -> 0 .. feedVersion]
  BY <1>1, <1>4
<1>6. \A w \in FeedWatchers : feedNewest'[w] >= feedNewest[w]
  BY <1>1, <1>2, <1>3
<1>7. \A w \in W : /\ feedNewest'[w] >= new.version
                   /\ w \notin feedOdd' =>
                        feedScreen'[w] = new.counts /\ feedNewest[w] <= new.version
  BY <1>1, <1>2, <1>3
<1>8. \A w \in FeedWatchers \ W :
        /\ feedNewest'[w] = feedNewest[w] /\ feedScreen'[w] = feedScreen[w]
        /\ w \notin feedOdd' => w \notin feedOdd
  BY <1>1
<1> QED
  BY <1>1, <1>5, <1>6, <1>7, <1>8

\* An event is sent to all open pages: once it was the latest, no other can spoil them.
LEMMA SendFeed ==
  ASSUME FeedInv, NEW e \in feedEvents, FeedSend(e)
  PROVE  FeedInv'
<1>1. /\ feedEvents' = feedEvents \ {e} /\ FeedApply(feedOpen, e, {})
      /\ UNCHANGED <<feedBusVars, feedPollVars, feedOpen, feedStreams, feedAsked, feedLoads>>
  BY DEF FeedSend
<1>2. Genuine(e) /\ FeedTypes /\ feedOpen \in SUBSET FeedWatchers /\ feedVersion \in Nat
  BY DEF FeedInv, FeedRecords, FeedTypes
<1>3. /\ feedNewest' \in [FeedWatchers -> 0 .. feedVersion]
      /\ DOMAIN feedScreen' = FeedWatchers
      /\ \A w \in FeedWatchers : feedNewest'[w] >= feedNewest[w]
      /\ \A w \in feedOpen : /\ feedNewest'[w] >= e.version
                             /\ w \notin feedOdd' =>
                                  feedScreen'[w] = e.counts /\ feedNewest[w] <= e.version
  BY <1>1, <1>2, ApplyCounts
<1>4. FeedTypes'
  BY <1>1, <1>2, <1>3 DEF FeedTypes, feedBusVars
<1>5. FeedRecords'
  BY <1>1 DEF FeedInv, FeedRecords, Genuine, feedBusVars, feedPollVars
<1>6. /\ \A f \in feedEvents : f.version \in Nat
      /\ \A f \in feedEvents : f.version = e.version => f.counts = e.counts
  BY <1>2 DEF FeedInv, FeedRecords, Genuine
<1>7. \A f \in feedEvents : f # e /\ Latest(f) => Latest(f)'
  BY <1>1 DEF Latest, feedPollVars
<1>8. ASSUME NEW w \in FeedWatchers PROVE FeedPage(w)'
  <2>1. feedNewest[w] \in Nat /\ feedNewest'[w] \in Nat /\ feedNewest'[w] >= feedNewest[w]
    BY <1>2, <1>3 DEF FeedTypes
  <2>2. Watching(w)' <=> Watching(w)
    BY <1>1 DEF Watching, feedPollVars
  <2>3. \A a \in feedLoads[w] : a.now.version \in Nat
    BY <1>2 DEF FeedInv, FeedRecords, Genuine
  <2>4. ASSUME Watching(w) PROVE (\E f \in feedEvents' : Latest(f)') \/ Overtaken(w)'
    <3>1. CASE \E f \in feedEvents : f # e /\ Latest(f)
      BY <1>1, <1>7, <3>1
    <3>2. CASE Latest(e)
      <4>1. w \in feedOpen
        BY <2>4 DEF Watching
      <4>2. \A f \in feedEvents : f.version < e.version \/ f.counts = e.counts
        BY <1>2, <1>6, <3>2 DEF Latest, Genuine
      <4>3. \A f \in feedEvents : f.version < feedNewest'[w] \/ f.counts \in feedPrev
        BY <1>2, <1>3, <1>6, <2>1, <3>2, <4>1, <4>2 DEF Latest, Genuine
      <4> QED
        BY <1>1, <4>3 DEF Overtaken, feedPollVars
    <3>3. CASE Overtaken(w)
      BY <1>1, <1>6, <2>1, <3>3 DEF Overtaken, feedPollVars
    <3> QED
      BY <2>4, <3>1, <3>2, <3>3 DEF FeedInv, FeedPage, Latest
  <2>5. ASSUME Watching(w), feedLoads[w] = {}, w \notin feedOdd'
        PROVE  (\E f \in feedEvents' : Latest(f)') \/ feedScreen'[w] \in feedPrev
    <3>1. feedScreen'[w] = e.counts /\ feedNewest[w] <= e.version
      BY <1>3, <2>5 DEF Watching
    <3>2. CASE \E f \in feedEvents : f # e /\ Latest(f)
      BY <1>1, <1>7, <3>2
    <3>3. CASE Latest(e)
      BY <3>1, <3>3 DEF Latest
    <3>4. CASE Overtaken(w)
      BY <1>6, <2>1, <2>5, <3>1, <3>4 DEF Overtaken
    <3> QED
      BY <2>5, <3>2, <3>3, <3>4 DEF FeedInv, FeedPage, Latest
  <2>6. ASSUME NEW a \in feedLoads[w], AnswerFits(w, a) PROVE AnswerFits(w, a)'
    <3>1. ASSUME Watching(w), NEW f \in feedEvents, Latest(f), f.version > a.now.version
          PROVE  \/ \E g \in feedEvents' : Latest(g)' /\ g.version > a.now.version
                 \/ feedNewest'[w] > a.now.version
      <4>1. CASE f = e
        BY <1>3, <1>6, <2>1, <2>3, <3>1, <4>1 DEF Watching
      <4>2. CASE f # e
        BY <1>1, <1>7, <3>1, <4>2
      <4> QED
        BY <4>1, <4>2
    <3> QED
      BY <1>1, <2>1, <2>2, <2>3, <2>6, <3>1 DEF AnswerFits, feedBusVars, feedPollVars
  <2> QED
    BY <1>1, <2>2, <2>4, <2>5, <2>6 DEF FeedInv, FeedPage, feedPollVars
<1> QED
  BY <1>4, <1>5, <1>8 DEF FeedInv

\* A page that loads is not watching until it has been answered or refused.
LEMMA OpensFeed ==
  ASSUME FeedInv, NEW w \in FeedWatchers, FeedOpens(w) \/ FeedCloses(w)
  PROVE  FeedInv'
<1>1. /\ feedOpen' \subseteq FeedWatchers
      /\ feedOpen' \ feedAsked' \subseteq feedOpen \ feedAsked
      /\ UNCHANGED <<feedBusVars, feedPollVars, feedEvents, feedLoads, feedPageVars>>
  BY DEF FeedOpens, FeedCloses, FeedInv, FeedTypes
<1>2. FeedTypes' /\ FeedRecords'
  BY <1>1 DEF FeedInv, FeedTypes, FeedRecords, Genuine, feedBusVars, feedPollVars, feedPageVars
<1>3. ASSUME NEW v \in FeedWatchers PROVE FeedPage(v)'
  <2>1. Watching(v)' => Watching(v)
    BY <1>1 DEF Watching, feedPollVars
  <2>2. \A e \in feedEvents : Latest(e)' <=> Latest(e)
    BY <1>1 DEF Latest, feedPollVars
  <2>3. Overtaken(v)' <=> Overtaken(v)
    BY <1>1 DEF Overtaken, feedPollVars, feedPageVars
  <2>4. \A a \in feedLoads[v] : AnswerFits(v, a) => AnswerFits(v, a)'
    BY <1>1, <2>1, <2>2 DEF AnswerFits, feedBusVars, feedPollVars, feedPageVars
  <2> QED
    BY <1>1, <2>1, <2>2, <2>3, <2>4 DEF FeedInv, FeedPage, feedPollVars, feedPageVars
<1> QED
  BY <1>2, <1>3 DEF FeedInv

\* An answer is as new as can be: nothing on its way to the page is newer.
LEMMA LoadFeed ==
  ASSUME FeedInv, NEW w \in FeedWatchers, FeedLoad(w)
  PROVE  FeedInv'
<1> DEFINE known == feedPrev \union {p.counts : p \in feedPoll}
<1>0. PICK new : new = [now |-> FeedNow, between |-> known \ {feedState} # {}]
  OBVIOUS
<1>1. /\ feedAsked' = feedAsked \ {w}
      /\ feedLoads' = [feedLoads EXCEPT ![w] = @ \union {new}]
      /\ UNCHANGED <<feedBusVars, feedPollVars, feedEvents, feedOpen, feedStreams, feedPageVars>>
  BY <1>0 DEF FeedLoad
<1>2. /\ new.now.version = feedVersion /\ new.now.counts = feedState
      /\ new.between <=> known \ {feedState} # {}
  BY <1>0 DEF FeedNow
<1>3. ~ new.between => feedPrev \subseteq {feedState} /\ \A p \in feedPoll : p.counts = feedState
  BY <1>2
<1>4. /\ feedLoads'[w] = feedLoads[w] \cup {new} /\ DOMAIN feedLoads' = FeedWatchers
      /\ \A v \in FeedWatchers \ {w} : feedLoads'[v] = feedLoads[v]
      /\ feedVersion \in Nat
  BY <1>1 DEF FeedInv, FeedTypes
<1>5. FeedTypes'
  BY <1>1, <1>4 DEF FeedInv, FeedTypes, feedBusVars, feedPageVars
<1>6. FeedRecords'
  <2>1. \A v \in FeedWatchers : \A a \in feedLoads'[v] : Genuine(a.now)
    BY <1>2, <1>4 DEF FeedInv, FeedRecords, Genuine
  <2> QED
    BY <1>1, <2>1 DEF FeedInv, FeedRecords, Genuine, feedBusVars, feedPollVars
<1>7. \A e \in feedEvents : Latest(e)' <=> Latest(e)
  BY <1>1 DEF Latest, feedPollVars
<1>8. ASSUME NEW v \in FeedWatchers, v # w PROVE FeedPage(v)'
  <2>1. Watching(v)' <=> Watching(v)
    BY <1>1, <1>8 DEF Watching, feedPollVars
  <2>2. Overtaken(v)' <=> Overtaken(v)
    BY <1>1, <1>4, <1>8 DEF Overtaken, feedPollVars, feedPageVars
  <2>3. \A a \in feedLoads[v] : AnswerFits(v, a) => AnswerFits(v, a)'
    BY <1>1, <1>4, <1>7, <1>8, <2>1 DEF AnswerFits, feedBusVars, feedPollVars, feedPageVars
  <2> QED
    BY <1>1, <1>4, <1>7, <1>8, <2>1, <2>2, <2>3
       DEF FeedInv, FeedPage, feedPollVars, feedPageVars
<1>9. FeedPage(w)'
  <2>1. ASSUME Watching(w)' PROVE Overtaken(w)'
    <3> SUFFICES ASSUME NEW e \in feedEvents
                 PROVE  e.counts \in feedPrev \/ e.version < feedVersion
      BY <1>1, <1>2, <1>4 DEF Overtaken, feedPollVars
    <3>1. Genuine(e) /\ (e.version = feedVersion => feedPrev \subseteq {feedState})
      BY DEF FeedInv, FeedRecords
    <3>2. feedPrev # {}
      BY <1>1, <2>1 DEF Watching, feedPollVars
    <3> QED
      BY <1>4, <3>1, <3>2 DEF Genuine
  <2>2. ASSUME NEW a \in feedLoads[w], AnswerFits(w, a) PROVE AnswerFits(w, a)'
    <3>1. a.now.version = feedVersion \/ a.now.version < feedVersion
      BY <1>4 DEF FeedInv, FeedRecords, Genuine
    <3>2. a.now.version < feedVersion => \E b \in feedLoads'[w] : b.now.version > a.now.version
      BY <1>2, <1>4
    <3> QED
      BY <1>1, <2>2, <3>1, <3>2 DEF AnswerFits, feedBusVars, feedPollVars
  <2>3. ~ new.between => AnswerFits(w, new)'
    BY <1>1, <1>2, <1>3 DEF AnswerFits, feedBusVars, feedPollVars
  <2>4. \A a \in feedLoads'[w] : a.between \/ AnswerFits(w, a)'
    BY <1>4, <2>2, <2>3 DEF FeedInv, FeedPage
  <2> QED
    BY <1>4, <2>1, <2>4 DEF FeedPage
<1> QED
  BY <1>5, <1>6, <1>8, <1>9 DEF FeedInv

\* An answer reaches its page.  Should an older event or answer come after it, the page
\* knows; should it be the older one itself, as well.
LEMMA LoadedFeed ==
  ASSUME FeedInv, NEW w \in FeedWatchers, NEW answer \in feedLoads[w], FeedLoaded(w, answer)
  PROVE  FeedInv'
<1>1. /\ feedLoads' = [feedLoads EXCEPT ![w] = @ \ {answer}]
      /\ FeedApply({w}, answer.now, IF answer.between THEN {w} ELSE {})
      /\ UNCHANGED <<feedBusVars, feedPollVars, feedEvents, feedOpen, feedStreams, feedAsked>>
  BY DEF FeedLoaded
<1>2. Genuine(answer.now) /\ FeedTypes /\ feedVersion \in Nat
  BY DEF FeedInv, FeedRecords, FeedTypes
<1>3. /\ feedLoads'[w] = feedLoads[w] \ {answer} /\ DOMAIN feedLoads' = FeedWatchers
      /\ \A v \in FeedWatchers \ {w} : feedLoads'[v] = feedLoads[v]
  BY <1>1, <1>2 DEF FeedTypes
<1>4. /\ feedNewest' \in [FeedWatchers -> 0 .. feedVersion]
      /\ DOMAIN feedScreen' = FeedWatchers
      /\ feedNewest'[w] >= feedNewest[w] /\ feedNewest'[w] >= answer.now.version
      /\ w \notin feedOdd' =>
           /\ feedScreen'[w] = answer.now.counts /\ feedNewest[w] <= answer.now.version
           /\ ~ answer.between
      /\ \A v \in FeedWatchers \ {w} :
           /\ feedNewest'[v] = feedNewest[v] /\ feedScreen'[v] = feedScreen[v]
           /\ v \notin feedOdd' => v \notin feedOdd
  <2> DEFINE odd == IF answer.between THEN {w} ELSE {}
  <2>1. odd \in SUBSET {w} /\ {w} \in SUBSET FeedWatchers /\ (answer.between => w \in odd)
    OBVIOUS
  <2> HIDE DEF odd
  <2>2. FeedApply({w}, answer.now, odd)
    BY <1>1 DEF odd
  <2>3. /\ feedNewest' \in [FeedWatchers -> 0 .. feedVersion]
        /\ DOMAIN feedScreen' = FeedWatchers
        /\ \A v \in FeedWatchers : feedNewest'[v] >= feedNewest[v]
        /\ \A v \in {w} : /\ feedNewest'[v] >= answer.now.version
                          /\ v \notin feedOdd' => /\ feedScreen'[v] = answer.now.counts
                                                  /\ feedNewest[v] <= answer.now.version
        /\ \A v \in FeedWatchers \ {w} :
             /\ feedNewest'[v] = feedNewest[v] /\ feedScreen'[v] = feedScreen[v]
             /\ v \notin feedOdd' => v \notin feedOdd
        /\ \A v \in odd : v \in feedOdd'
    BY <1>2, <2>1, <2>2, ApplyCounts
  <2> QED
    BY <2>1, <2>3
<1>5. FeedTypes'
  BY <1>1, <1>2, <1>3, <1>4 DEF FeedTypes, feedBusVars
<1>6. FeedRecords'
  <2>1. \A v \in FeedWatchers : \A a \in feedLoads'[v] : Genuine(a.now)
    BY <1>3 DEF FeedInv, FeedRecords
  <2> QED
    BY <1>1, <2>1 DEF FeedInv, FeedRecords, Genuine, feedBusVars, feedPollVars
<1>7. /\ \A e \in feedEvents : Latest(e)' <=> Latest(e)
      /\ \A v \in FeedWatchers : Watching(v)' <=> Watching(v)
  BY <1>1 DEF Latest, Watching, feedPollVars
<1>8. ASSUME NEW v \in FeedWatchers, v # w PROVE FeedPage(v)'
  <2>1. Overtaken(v)' <=> Overtaken(v)
    BY <1>1, <1>3, <1>4, <1>8 DEF Overtaken, feedPollVars
  <2>2. \A a \in feedLoads[v] : AnswerFits(v, a) => AnswerFits(v, a)'
    BY <1>1, <1>3, <1>4, <1>7, <1>8 DEF AnswerFits, feedBusVars, feedPollVars
  <2> QED
    BY <1>1, <1>3, <1>4, <1>7, <1>8, <2>1, <2>2 DEF FeedInv, FeedPage, feedPollVars
<1>9. FeedPage(w)'
  <2>1. /\ feedNewest[w] \in Nat /\ feedNewest'[w] \in Nat /\ feedNewest'[w] >= feedNewest[w]
        /\ answer.now.version \in Nat /\ feedNewest'[w] >= answer.now.version
        /\ \A e \in feedEvents : e.version \in Nat
        /\ \A a \in feedLoads[w] : a.now.version \in Nat
    BY <1>2, <1>4 DEF FeedInv, FeedTypes, FeedRecords, Genuine
  <2>2. Overtaken(w) => Overtaken(w)'
    <3> SUFFICES ASSUME Overtaken(w), NEW e \in feedEvents
                 PROVE  \/ e.counts \in feedPrev
                        \/ e.version < feedNewest'[w]
                        \/ \E a \in feedLoads'[w] : e.version < a.now.version
      BY <1>1 DEF Overtaken, feedPollVars
    <3>1. CASE e.counts \in feedPrev \/ e.version < feedNewest[w]
      BY <2>1, <3>1
    <3>2. CASE \E a \in feedLoads[w] : e.version < a.now.version
      <4>1. PICK a \in feedLoads[w] : e.version < a.now.version
        BY <3>2
      <4>2. CASE a = answer
        BY <2>1, <4>1, <4>2
      <4>3. CASE a # answer
        BY <1>3, <4>1, <4>3
      <4> QED
        BY <4>2, <4>3
    <3> QED
      BY <3>1, <3>2 DEF Overtaken
  <2>3. ASSUME Watching(w), feedLoads'[w] = {}, w \notin feedOdd'
        PROVE  (\E e \in feedEvents : Latest(e)) \/ feedScreen'[w] \in feedPrev
    <3>1. feedLoads[w] = {answer}
      BY <1>3, <2>3
    <3>2. AnswerFits(w, answer)
      BY <1>4, <2>3 DEF FeedInv, FeedPage
    <3>3. ~ feedNewest[w] > answer.now.version
      BY <1>4, <2>1, <2>3
    <3>4. ~ \E b \in feedLoads[w] : b.now.version > answer.now.version
      BY <2>1, <3>1
    <3>5. feedPrev \subseteq {answer.now.counts} \/ \E e \in feedEvents : Latest(e)
      BY <2>3, <3>2, <3>3, <3>4 DEF AnswerFits
    <3> QED
      BY <1>4, <2>3, <3>5 DEF Watching
  <2>4. ASSUME NEW a \in feedLoads[w], AnswerFits(w, a) PROVE AnswerFits(w, a)'
    <3>1. ASSUME NEW b \in feedLoads[w], b.now.version > a.now.version
          PROVE  \/ feedNewest'[w] > a.now.version
                 \/ \E c \in feedLoads'[w] : c.now.version > a.now.version
      <4>1. CASE b = answer
        BY <2>1, <3>1, <4>1
      <4>2. CASE b # answer
        BY <1>3, <3>1, <4>2
      <4> QED
        BY <4>1, <4>2
    <3>2. feedNewest[w] > a.now.version => feedNewest'[w] > a.now.version
      BY <2>1
    <3> QED
      BY <1>1, <1>7, <2>4, <3>1, <3>2 DEF AnswerFits, feedBusVars, feedPollVars
  <2> QED
    BY <1>1, <1>3, <1>7, <2>2, <2>3, <2>4 DEF FeedInv, FeedPage, feedPollVars
<1> QED
  BY <1>5, <1>6, <1>8, <1>9 DEF FeedInv

\* A request that fails is as new as can be, too.
LEMMA LoadFailsFeed ==
  ASSUME FeedInv, NEW w \in FeedWatchers, FeedLoadFails(w)
  PROVE  FeedInv'
<1>1. /\ feedOdd' = feedOdd \union {w}
      /\ feedAsked' = feedAsked \ {w}
      /\ feedNewest' = [feedNewest EXCEPT ![w] = feedVersion]
      /\ UNCHANGED <<feedBusVars, feedPollVars, feedEvents, feedOpen, feedStreams, feedLoads,
                     feedScreen>>
  BY DEF FeedLoadFails
<1>2. /\ feedNewest'[w] = feedVersion /\ feedVersion \in Nat
      /\ \A v \in FeedWatchers \ {w} : feedNewest'[v] = feedNewest[v]
  BY <1>1 DEF FeedInv, FeedTypes
<1>3. FeedTypes' /\ FeedRecords'
  <2>1. feedNewest' \in [FeedWatchers -> 0 .. feedVersion]
    BY <1>1, <1>2 DEF FeedInv, FeedTypes
  <2> QED
    BY <1>1, <2>1 DEF FeedInv, FeedTypes, FeedRecords, Genuine, feedBusVars, feedPollVars
<1>4. \A e \in feedEvents : Latest(e)' <=> Latest(e)
  BY <1>1 DEF Latest, feedPollVars
<1>5. ASSUME NEW v \in FeedWatchers, v # w PROVE FeedPage(v)'
  <2>1. (Watching(v)' <=> Watching(v)) /\ (v \notin feedOdd' => v \notin feedOdd)
    BY <1>1, <1>5 DEF Watching, feedPollVars
  <2>2. Overtaken(v)' <=> Overtaken(v)
    BY <1>1, <1>2, <1>5 DEF Overtaken, feedPollVars
  <2>3. \A a \in feedLoads[v] : AnswerFits(v, a) => AnswerFits(v, a)'
    BY <1>1, <1>2, <1>4, <1>5, <2>1 DEF AnswerFits, feedBusVars, feedPollVars
  <2> QED
    BY <1>1, <1>4, <2>1, <2>2, <2>3 DEF FeedInv, FeedPage, feedPollVars
<1>6. FeedPage(w)'
  <2>1. ASSUME Watching(w)' PROVE Overtaken(w)'
    <3> SUFFICES ASSUME NEW e \in feedEvents
                 PROVE  e.counts \in feedPrev \/ e.version < feedVersion
      BY <1>1, <1>2 DEF Overtaken, feedPollVars
    <3>1. Genuine(e) /\ (e.version = feedVersion => feedPrev \subseteq {feedState})
      BY DEF FeedInv, FeedRecords
    <3>2. feedPrev # {}
      BY <1>1, <2>1 DEF Watching, feedPollVars
    <3> QED
      BY <1>2, <3>1, <3>2 DEF Genuine
  <2>2. ASSUME NEW a \in feedLoads[w], AnswerFits(w, a) PROVE AnswerFits(w, a)'
    <3>1. a.now.version = feedVersion \/ feedVersion > a.now.version
      BY <1>2 DEF FeedInv, FeedRecords, Genuine
    <3> QED
      BY <1>1, <1>2, <2>2, <3>1 DEF AnswerFits, feedBusVars, feedPollVars
  <2> QED
    BY <1>1, <2>1, <2>2 DEF FeedInv, FeedPage
<1> QED
  BY <1>3, <1>5, <1>6 DEF FeedInv

LEMMA StepFeed == FeedInv /\ [FeedSteps]_feedVars => FeedInv'
<1> SUFFICES ASSUME FeedInv, [FeedSteps]_feedVars
             PROVE  FeedInv'
  OBVIOUS
<1>1. CASE UNCHANGED feedVars
  BY <1>1 DEF feedVars, feedBusVars, feedPollVars, feedPageVars, FeedInv, FeedTypes, FeedRecords,
              Genuine, FeedPage, AnswerFits, Watching, Latest, Overtaken
<1>2. ASSUME NEW n \in FeedNames, FeedChange(n) PROVE FeedInv'
  BY <1>2, ChangeFeed
<1>3. CASE FeedPollNobody \/ FeedPollRead \/ FeedPollFails \/ FeedPublish
  BY <1>3, NobodyFeed, PollReadFeed, PollFailsFeed, PublishFeed
<1>4. ASSUME NEW e \in feedEvents, FeedSend(e) PROVE FeedInv'
  BY <1>4, SendFeed
<1>5. ASSUME NEW w \in FeedWatchers,
             FeedOpens(w) \/ FeedCloses(w) \/ FeedLoad(w) \/ FeedLoadFails(w)
      PROVE  FeedInv'
  BY <1>5, OpensFeed, LoadFeed, LoadFailsFeed
<1>6. ASSUME NEW w \in FeedWatchers, NEW answer \in feedLoads[w], FeedLoaded(w, answer)
      PROVE  FeedInv'
  BY <1>6, LoadedFeed
<1> QED
  BY <1>1, <1>2, <1>3, <1>4, <1>5, <1>6 DEF FeedSteps

\* With nothing on its way a dashboard shows what the bus counts, for any number of pages,
\* streams and changes, but for the three known ways to miss a change and a failed request
\* (adminapp/app.go getStatPoller, adminapi/dashboardStat.go, web useServerEvents).
THEOREM PagesAgree == FeedSpec => []FeedAgrees
<1>1. FeedInv => FeedAgrees
  <2> SUFFICES ASSUME FeedInv, NEW w \in feedOpen \ feedAsked, feedPrev = {feedState},
                      feedEvents = {}, feedLoads[w] = {}, w \notin feedOdd
               PROVE  feedScreen[w] = feedState
    BY DEF FeedAgrees
  <2>1. w \in FeedWatchers /\ Watching(w)
    BY DEF FeedInv, FeedTypes, Watching
  <2> QED
    BY <2>1 DEF FeedInv, FeedPage
<1> QED
  BY <1>1, InitFeed, StepFeed, PTL DEF FeedSpec

-----------------------------------------------------------------------------
(***************************************************************************)
(* GroupOffsets, for any partitions, consumers, log sizes and changes.     *)
(*                                                                         *)
(* A committed offset stays below the end of its log unless the log loses  *)
(* its end.  The answer with the committed offsets keeps that bound until  *)
(* the ends are asked for, because they are asked for later; then both     *)
(* answers keep it together.                                               *)
(***************************************************************************)

OffTypes ==
  /\ offFirst \in [OffPartitions -> Int] /\ offEnd \in [OffPartitions -> Int]
  /\ offCommitted \in [OffPartitions -> Int]
  /\ offTurn \in 1 .. 7

OffLogs ==
  \A p \in OffPartitions :
    /\ offFirst[p] <= offEnd[p]
    /\ offCommitted[p] <= offEnd[p] \/ p \in offShrunk

\* What the requests so far have been answered.
OffRan(request) == request \in DOMAIN offRead

OffAsked == OffRan("metadata") /\ OffGot("metadata") \subseteq OffPartitions

OffCommittedRead ==
  /\ OffRan("committed")
  /\ offRead["committed"] # <<>> =>
       /\ OffGot("committed") \in [OffGot("metadata") -> Int]
       /\ \A p \in OffGot("metadata") : OffGot("committed")[p] <= offEnd[p] \/ p \in offShrunk

OffBothRead ==
  /\ OffRan("committed") /\ OffRan("ends")
  /\ offRead["ends"] # <<>> =>
       \A p \in OffGot("metadata") :
         /\ OffGot("ends")[p][1] \in Int /\ OffGot("ends")[p][2] \in Int
         /\ OffGot("ends")[p][1] <= OffGot("ends")[p][2]
         /\ offRead["committed"] # <<>> =>
              /\ OffGot("committed")[p] \in Int
              /\ OffGot("committed")[p] <= OffGot("ends")[p][2] \/ p \in offShrunk

OffAnswers ==
  /\ offTurn < 7 => offPage = OffNothing
  /\ offTurn \in 3 .. 6 => OffAsked
  /\ offTurn = 4 => OffCommittedRead
  /\ offTurn \in 5 .. 6 => OffBothRead
  /\ OffNoFalseAlarm

OffInv == OffTypes /\ OffLogs /\ OffAnswers

\* The requests in their order.
LEMMA OffOrder ==
  /\ Len(OffRequests) = 6
  /\ OffRequests[1] = "runtime" /\ OffRequests[2] = "metadata" /\ OffRequests[3] = "committed"
  /\ OffRequests[4] = "ends" /\ OffRequests[5] = "groups" /\ OffRequests[6] = "show"
  BY DEF OffRequests

LEMMA OffTurnOf ==
  ASSUME OffTypes, offTurn <= Len(OffRequests)
  PROVE  /\ OffRequests[offTurn] = "runtime" => offTurn = 1
         /\ OffRequests[offTurn] = "metadata" => offTurn = 2
         /\ OffRequests[offTurn] = "committed" => offTurn = 3
         /\ OffRequests[offTurn] = "ends" => offTurn = 4
         /\ OffRequests[offTurn] = "groups" => offTurn = 5
         /\ OffRequests[offTurn] = "show" => offTurn = 6
<1>1. offTurn \in 1 .. 6
  BY OffOrder DEF OffTypes
<1> HIDE DEF OffRequests
<1>2. offTurn = 1 \/ offTurn = 2 \/ offTurn = 3 \/ offTurn = 4 \/ offTurn = 5 \/ offTurn = 6
  BY <1>1
<1> QED
  BY <1>2, OffOrder

LEMMA InitOff == OffInit => OffInv
<1> SUFFICES ASSUME OffInit PROVE OffInv
  OBVIOUS
<1>1. PICK new \in OffPartitions, committed \in {-1, 1} :
        /\ offFirst = [p \in OffPartitions |-> IF p = new THEN -1 ELSE 0]
        /\ offEnd = [p \in OffPartitions |-> IF p = new THEN -1 ELSE 1]
        /\ offCommitted = [p \in OffPartitions |-> IF p = new THEN -1 ELSE committed]
  BY DEF OffInit
<1>2. OffTypes
  BY <1>1 DEF OffInit, OffTypes
<1>4. OffLogs
  BY <1>1 DEF OffLogs
<1>3. offTurn = 1 /\ offPage = OffNothing /\ DOMAIN offPage = {}
  BY DEF OffInit, OffNothing
<1> QED
  BY <1>2, <1>3, <1>4 DEF OffInv, OffAnswers, OffNoFalseAlarm

\* What goes on meanwhile keeps the logs in order and spoils no answer: a log only grows,
\* or is remembered to have shrunk.
LEMMA ChangeOff ==
  ASSUME OffInv, OffChange, OffTypes', OffLogs', offShrunk \subseteq offShrunk',
         \A p \in OffPartitions : offEnd[p] <= offEnd'[p] \/ p \in offShrunk'
  PROVE  OffInv'
<1>1. UNCHANGED <<offTurn, offRead, offPage>>
  BY DEF OffChange
<1>2. OffNoFalseAlarm'
  BY <1>1 DEF OffInv, OffAnswers, OffNoFalseAlarm
<1>3. ASSUME offTurn = 4 PROVE OffCommittedRead'
  <2>1. OffGot("metadata") \subseteq OffPartitions /\ OffCommittedRead
    BY <1>3 DEF OffInv, OffAnswers, OffAsked
  <2>2. ASSUME offRead["committed"] # <<>>, NEW p \in OffGot("metadata")
        PROVE  OffGot("committed")[p] <= offEnd'[p] \/ p \in offShrunk'
    <3>1. /\ OffGot("committed")[p] \in Int
          /\ OffGot("committed")[p] <= offEnd[p] \/ p \in offShrunk
      BY <2>1, <2>2 DEF OffCommittedRead
    <3>2. offEnd[p] \in Int /\ offEnd'[p] \in Int
      BY <2>1 DEF OffInv, OffTypes
    <3> QED
      BY <2>1, <3>1, <3>2
  <2> QED
    BY <1>1, <2>1, <2>2 DEF OffCommittedRead, OffRan, OffGot
<1>4. OffBothRead => OffBothRead'
  BY <1>1 DEF OffBothRead, OffRan, OffGot
<1>5. OffAsked => OffAsked'
  BY <1>1 DEF OffAsked, OffRan, OffGot
<1> QED
  BY <1>1, <1>2, <1>3, <1>4, <1>5 DEF OffInv, OffAnswers

LEMMA MeanwhileOff ==
  ASSUME OffInv, NEW p \in OffPartitions,
         \/ OffAppend(p) \/ OffCommit(p) \/ OffTrim(p) \/ OffShrink(p) \/ OffGrow(p)
         \/ \E c \in OffConsumers \union {OffNone} : OffRebalance(p, c)
  PROVE  OffInv'
<1>1. /\ OffTypes /\ OffLogs /\ OffChange
      /\ offTurn' = offTurn
  BY DEF OffInv, OffAppend, OffCommit, OffTrim, OffShrink, OffGrow, OffRebalance, OffChange
<1>2. CASE OffAppend(p)
  <2>1. OffTypes'
    BY <1>1, <1>2 DEF OffAppend, OffTypes
  <2>2. /\ OffLogs' /\ offShrunk \subseteq offShrunk'
        /\ \A q \in OffPartitions : offEnd[q] <= offEnd'[q] \/ q \in offShrunk'
    BY <1>1, <1>2 DEF OffAppend, OffTypes, OffLogs
  <2> QED
    BY <1>1, <2>1, <2>2, ChangeOff
<1>3. CASE OffCommit(p)
  <2>1. OffTypes'
    BY <1>1, <1>3 DEF OffCommit, OffTypes
  <2>2. /\ OffLogs' /\ offShrunk \subseteq offShrunk'
        /\ \A q \in OffPartitions : offEnd[q] <= offEnd'[q] \/ q \in offShrunk'
    BY <1>1, <1>3 DEF OffCommit, OffTypes, OffLogs
  <2> QED
    BY <1>1, <2>1, <2>2, ChangeOff
<1>4. CASE OffTrim(p)
  <2>1. OffTypes'
    BY <1>1, <1>4 DEF OffTrim, OffTypes
  <2>2. /\ OffLogs' /\ offShrunk \subseteq offShrunk'
        /\ \A q \in OffPartitions : offEnd[q] <= offEnd'[q] \/ q \in offShrunk'
    BY <1>1, <1>4 DEF OffTrim, OffTypes, OffLogs
  <2> QED
    BY <1>1, <2>1, <2>2, ChangeOff
<1>5. CASE OffShrink(p)
  <2>1. OffTypes'
    BY <1>1, <1>5 DEF OffShrink, OffTypes
  <2>2. /\ OffLogs' /\ offShrunk \subseteq offShrunk'
        /\ \A q \in OffPartitions : offEnd[q] <= offEnd'[q] \/ q \in offShrunk'
    BY <1>1, <1>5 DEF OffShrink, OffTypes, OffLogs
  <2> QED
    BY <1>1, <2>1, <2>2, ChangeOff
<1>6. CASE OffGrow(p)
  <2>1. OffTypes'
    BY <1>1, <1>6 DEF OffGrow, OffTypes
  <2>2. /\ OffLogs' /\ offShrunk \subseteq offShrunk'
        /\ \A q \in OffPartitions : offEnd[q] <= offEnd'[q] \/ q \in offShrunk'
    BY <1>1, <1>6 DEF OffGrow, OffExists, OffTypes, OffLogs
  <2> QED
    BY <1>1, <2>1, <2>2, ChangeOff
<1>7. ASSUME NEW c \in OffConsumers \union {OffNone}, OffRebalance(p, c) PROVE OffInv'
  <2>1. UNCHANGED <<offFirst, offEnd, offCommitted, offShrunk>>
    BY <1>7 DEF OffRebalance
  <2>2. /\ OffTypes' /\ OffLogs'
        /\ \A q \in OffPartitions : offEnd[q] <= offEnd'[q]
    BY <1>1, <2>1 DEF OffTypes, OffLogs
  <2> QED
    BY <1>1, <2>1, <2>2, ChangeOff
<1> QED
  BY <1>2, <1>3, <1>4, <1>5, <1>6, <1>7

\* An answer is added to the earlier ones.
LEMMA AnswerOff ==
  ASSUME OffInv, NEW request, NEW answer, OffAnswer(request, answer)
  PROVE  /\ OffTypes' /\ OffLogs' /\ OffNoFalseAlarm' /\ offTurn \in 1 .. 6
         /\ offTurn' = offTurn + 1 /\ OffRequests[offTurn] = request
         /\ UNCHANGED <<offKafkaVars, offPage>>
         /\ offRead'[request] = answer /\ request \in DOMAIN offRead'
         /\ \A r \in DOMAIN offRead \ {request} :
              r \in DOMAIN offRead' /\ offRead'[r] = offRead[r]
<1>1. /\ offTurn <= Len(OffRequests) /\ OffRequests[offTurn] = request
      /\ offRead' = [r \in DOMAIN offRead \union {request} |->
                       IF r = request THEN answer ELSE offRead[r]]
      /\ offTurn' = offTurn + 1
      /\ UNCHANGED <<offKafkaVars, offStoreVars, offChanges, offPage>>
  BY DEF OffAnswer
<1>2. offTurn \in 1 .. 6
  BY <1>1, OffOrder DEF OffInv, OffTypes
<1>3. OffTypes' /\ OffLogs' /\ OffNoFalseAlarm'
  <2>1. OffTypes'
    BY <1>1, <1>2 DEF OffInv, OffTypes, offKafkaVars
  <2>2. OffLogs'
    BY <1>1 DEF OffInv, OffLogs, offKafkaVars
  <2>3. OffNoFalseAlarm'
    BY <1>1 DEF OffInv, OffAnswers, OffNoFalseAlarm, offKafkaVars
  <2> QED
    BY <2>1, <2>2, <2>3
<1> QED
  BY <1>1, <1>2, <1>3

LEMMA FetchOff ==
  ASSUME OffInv, OffFetch
  PROVE  OffInv'
<1>1. PICK answer \in {<<[p \in OffGot("metadata") |-> offCommitted[p]]>>, <<>>} :
        OffAnswer("committed", answer)
  BY DEF OffFetch
<1>2. /\ OffTypes' /\ OffLogs' /\ OffNoFalseAlarm'
      /\ offTurn = 3 /\ offTurn' = 4
      /\ UNCHANGED <<offKafkaVars, offPage>>
      /\ offRead'["committed"] = answer /\ "committed" \in DOMAIN offRead'
      /\ \A r \in DOMAIN offRead \ {"committed"} :
           r \in DOMAIN offRead' /\ offRead'[r] = offRead[r]
  <2>1. offTurn <= Len(OffRequests) /\ OffTypes
    BY <1>1 DEF OffAnswer, OffInv
  <2> QED
    BY <1>1, <2>1, AnswerOff, OffTurnOf
<1>3. OffAsked /\ "metadata" \in DOMAIN offRead
  BY <1>2 DEF OffInv, OffAnswers, OffAsked, OffRan
<1>4. OffGot("metadata")' = OffGot("metadata") /\ OffAsked'
  BY <1>2, <1>3 DEF OffAsked, OffGot, OffRan
<1>5. OffCommittedRead'
  <2>1. CASE answer = <<>>
    BY <1>2, <2>1 DEF OffCommittedRead, OffRan
  <2>2. CASE answer = <<[p \in OffGot("metadata") |-> offCommitted[p]]>>
    <3>1. OffGot("committed")' = [p \in OffGot("metadata") |-> offCommitted[p]]
      BY <1>2, <2>2 DEF OffGot
    <3>2. \A p \in OffGot("metadata") : /\ p \in OffPartitions /\ offCommitted[p] \in Int
                                        /\ offCommitted[p] <= offEnd[p] \/ p \in offShrunk
      BY <1>3 DEF OffAsked, OffInv, OffTypes, OffLogs
    <3> QED
      BY <1>2, <1>4, <3>1, <3>2 DEF OffCommittedRead, OffRan, offKafkaVars
  <2> QED
    BY <2>1, <2>2
<1> QED
  BY <1>2, <1>4, <1>5 DEF OffInv, OffAnswers

LEMMA ListOff ==
  ASSUME OffInv, OffListOffsets
  PROVE  OffInv'
<1>1. PICK answer \in {<<[p \in OffGot("metadata") |-> <<offFirst[p], offEnd[p]>>]>>, <<>>} :
        OffAnswer("ends", answer)
  BY DEF OffListOffsets
<1>2. /\ OffTypes' /\ OffLogs' /\ OffNoFalseAlarm'
      /\ offTurn = 4 /\ offTurn' = 5
      /\ UNCHANGED <<offKafkaVars, offPage>>
      /\ offRead'["ends"] = answer /\ "ends" \in DOMAIN offRead'
      /\ \A r \in DOMAIN offRead \ {"ends"} :
           r \in DOMAIN offRead' /\ offRead'[r] = offRead[r]
  <2>1. offTurn <= Len(OffRequests) /\ OffTypes
    BY <1>1 DEF OffAnswer, OffInv
  <2> QED
    BY <1>1, <2>1, AnswerOff, OffTurnOf
<1>3. /\ OffAsked /\ "metadata" \in DOMAIN offRead
      /\ OffCommittedRead /\ "committed" \in DOMAIN offRead
  BY <1>2 DEF OffInv, OffAnswers, OffAsked, OffCommittedRead, OffRan
<1>4. /\ OffGot("metadata")' = OffGot("metadata") /\ OffAsked'
      /\ offRead'["committed"] = offRead["committed"]
      /\ OffGot("committed")' = OffGot("committed") /\ "committed" \in DOMAIN offRead'
  BY <1>2, <1>3 DEF OffAsked, OffGot, OffRan
<1>5. OffBothRead'
  <2>1. CASE answer = <<>>
    BY <1>2, <1>4, <2>1 DEF OffBothRead, OffRan
  <2>2. CASE answer = <<[p \in OffGot("metadata") |-> <<offFirst[p], offEnd[p]>>]>>
    <3>1. OffGot("ends")' = [p \in OffGot("metadata") |-> <<offFirst[p], offEnd[p]>>]
      BY <1>2, <2>2 DEF OffGot
    <3>2. \A p \in OffGot("metadata") : /\ offFirst[p] \in Int /\ offEnd[p] \in Int
                                        /\ offFirst[p] <= offEnd[p]
      BY <1>3 DEF OffAsked, OffInv, OffTypes, OffLogs
    <3>3. \A p \in OffGot("metadata") :
            OffGot("ends")'[p][1] = offFirst[p] /\ OffGot("ends")'[p][2] = offEnd[p]
      BY <3>1
    <3>4. offRead["committed"] # <<>> =>
            \A p \in OffGot("metadata") :
              /\ OffGot("committed")[p] \in Int
              /\ OffGot("committed")[p] <= offEnd[p] \/ p \in offShrunk
      BY <1>3 DEF OffCommittedRead
    <3> QED
      BY <1>2, <1>4, <3>2, <3>3, <3>4 DEF OffBothRead, OffRan, offKafkaVars
  <2> QED
    BY <2>1, <2>2
<1> QED
  BY <1>2, <1>4, <1>5 DEF OffInv, OffAnswers

\* Consumers, metadata and members of the group say nothing of offsets.
LEMMA OtherAnswersOff ==
  ASSUME OffInv, OffSnapshot \/ OffMetadata \/ OffDescribe
  PROVE  OffInv'
<1>1. ASSUME OffSnapshot PROVE OffInv'
  <2>1. offTurn <= Len(OffRequests) /\ OffTypes
    BY <1>1 DEF OffSnapshot, OffAnswer, OffInv
  <2>0. PICK answer : OffAnswer("runtime", answer)
    BY <1>1 DEF OffSnapshot
  <2>2. /\ OffTypes' /\ OffLogs' /\ OffNoFalseAlarm' /\ offTurn = 1 /\ offTurn' = 2
        /\ offPage' = offPage
    BY <2>0, <2>1, AnswerOff, OffTurnOf
  <2> QED
    BY <2>2 DEF OffInv, OffAnswers
<1>2. ASSUME OffMetadata PROVE OffInv'
  <2>1. offTurn <= Len(OffRequests) /\ OffTypes
    BY <1>2 DEF OffMetadata, OffAnswer, OffInv
  <2>2. /\ OffTypes' /\ OffLogs' /\ OffNoFalseAlarm' /\ offTurn = 2 /\ offTurn' = 3
        /\ offPage' = offPage
        /\ offRead'["metadata"] = <<OffExists>> /\ "metadata" \in DOMAIN offRead'
    BY <1>2, <2>1, AnswerOff, OffTurnOf DEF OffMetadata
  <2>3. OffAsked'
    BY <2>2 DEF OffAsked, OffRan, OffGot, OffExists
  <2> QED
    BY <2>2, <2>3 DEF OffInv, OffAnswers
<1>3. ASSUME OffDescribe PROVE OffInv'
  <2>0. PICK answer \in {<<offMember>>, <<>>} : OffAnswer("groups", answer)
    BY <1>3 DEF OffDescribe
  <2>1. offTurn <= Len(OffRequests) /\ OffTypes
    BY <2>0 DEF OffAnswer, OffInv
  <2>2. /\ OffTypes' /\ OffLogs' /\ OffNoFalseAlarm' /\ offTurn = 5 /\ offTurn' = 6
        /\ UNCHANGED <<offKafkaVars, offPage>>
        /\ \A r \in DOMAIN offRead \ {"groups"} :
             r \in DOMAIN offRead' /\ offRead'[r] = offRead[r]
    BY <2>0, <2>1, AnswerOff, OffTurnOf
  <2>3. OffAsked /\ OffBothRead /\ "metadata" \in DOMAIN offRead
        /\ "committed" \in DOMAIN offRead /\ "ends" \in DOMAIN offRead
    BY <2>2 DEF OffInv, OffAnswers, OffAsked, OffBothRead, OffRan
  <2>4. OffAsked' /\ OffBothRead'
    BY <2>2, <2>3 DEF OffAsked, OffBothRead, OffRan, OffGot, offKafkaVars
  <2> QED
    BY <2>2, <2>4 DEF OffInv, OffAnswers
<1> QED
  BY <1>1, <1>2, <1>3

\* The page compares the two answers, and those only.
LEMMA ShowOff ==
  ASSUME OffInv, OffShow
  PROVE  OffInv'
<1>1. offTurn <= Len(OffRequests) /\ OffRequests[offTurn] = "show" /\ OffTypes
  BY DEF OffShow, OffInv
<1>2. offTurn = 6
  BY <1>1, OffTurnOf
<1>3. offTurn' = 7 /\ UNCHANGED <<offKafkaVars, offRead>>
  BY <1>2 DEF OffShow, offKafkaVars
<1>4. /\ DOMAIN offPage' = OffGot("metadata")
      /\ \A p \in OffGot("metadata") : offPage'[p].lag = OffLag(p)
  <2>1. PICK owner : offPage' = [p \in OffGot("metadata") |->
                       [lag |-> OffLag(p), owner |-> owner[p], state |-> OffStateOf(owner[p])]]
    BY DEF OffShow
  <2> QED
    BY <2>1
<1>5. OffBothRead
  BY <1>2 DEF OffInv, OffAnswers
<1>6. ASSUME NEW p \in OffGot("metadata"), OffLag(p).error = "exceeds_latest"
      PROVE  p \in offShrunk
  <2> DEFINE first == OffGot("ends")[p][1]
             end == OffGot("ends")[p][2]
             committed == OffGot("committed")[p]
             offset == IF committed >= 0 THEN committed ELSE first
  <2> HIDE DEF first, end, committed, offset
  <2>3. OffNone # "exceeds_latest"
    BY Zenon DEF OffNone
  <2>4. OffLag(p) =
          CASE offRead["ends"] = <<>> -> [error |-> "no_offsets", offset |-> -1, lag |-> -1]
            [] offRead["ends"] # <<>> /\ offRead["committed"] = <<>> ->
                 [error |-> "no_committed_offset", offset |-> -1, lag |-> -1]
            [] OTHER ->
                 CASE offset < first -> [error |-> "precedes_first", offset |-> offset, lag |-> -1]
                   [] offset > end -> [error |-> "exceeds_latest", offset |-> offset, lag |-> -1]
                   [] OTHER -> [error |-> OffNone, offset |-> offset, lag |-> end - offset]
    BY DEF OffLag, first, end, committed, offset
  <2>1. offRead["ends"] # <<>> /\ offRead["committed"] # <<>> /\ offset > end
    BY <1>6, <2>3, <2>4
  <2>2. /\ first \in Int /\ end \in Int /\ committed \in Int /\ first <= end
        /\ committed <= end \/ p \in offShrunk
    BY <1>5, <2>1 DEF OffBothRead, first, end, committed
  <2> QED
    BY <2>1, <2>2 DEF offset
<1>7. OffNoFalseAlarm'
  BY <1>3, <1>4, <1>6 DEF OffNoFalseAlarm, offKafkaVars
<1> QED
  BY <1>3, <1>7 DEF OffInv, OffAnswers, OffTypes, OffLogs, offKafkaVars

LEMMA StepOff == OffInv /\ [OffSteps]_offVars => OffInv'
<1> SUFFICES ASSUME OffInv, [OffSteps]_offVars
             PROVE  OffInv'
  OBVIOUS
<1>1. CASE UNCHANGED offVars
  BY <1>1 DEF offVars, offKafkaVars, OffInv, OffTypes, OffLogs, OffAnswers, OffAsked,
              OffCommittedRead, OffBothRead, OffRan, OffGot, OffNoFalseAlarm
<1>2. ASSUME NEW c \in OffConsumers, NEW state \in {OffNone, "connected", "reconnecting"},
             OffConsumer(c, state)
      PROVE  OffInv'
  <2>1. OffChange /\ offTurn' = offTurn
        /\ UNCHANGED <<offFirst, offEnd, offCommitted, offShrunk>>
    BY <1>2 DEF OffConsumer, OffChange, offKafkaVars
  <2>2. /\ OffTypes' /\ OffLogs'
        /\ \A q \in OffPartitions : offEnd[q] <= offEnd'[q]
    BY <2>1 DEF OffInv, OffTypes, OffLogs
  <2> QED
    BY <2>1, <2>2, ChangeOff
<1>3. CASE OffGivesUp
  <2>1. offTurn' = 7 /\ UNCHANGED <<offKafkaVars, offPage>>
    BY <1>3, OffOrder DEF OffGivesUp
  <2>2. OffTypes' /\ OffLogs'
    BY <2>1 DEF OffInv, OffTypes, OffLogs, offKafkaVars
  <2>3. OffNoFalseAlarm'
    BY <2>1 DEF OffInv, OffAnswers, OffNoFalseAlarm, offKafkaVars
  <2> QED
    BY <2>1, <2>2, <2>3 DEF OffInv, OffAnswers
<1> QED
  BY <1>1, <1>2, <1>3, MeanwhileOff, FetchOff, ListOff, OtherAnswersOff, ShowOff DEF OffSteps

\* The topic page never says that a group has committed beyond the end of a log that has not
\* shrunk, however commits, appends and rebalances fall between the requests (databus/topic.go,
\* kafka/provider/provider.go).
THEOREM NoFalseAlarms == OffSpec => []OffNoFalseAlarm
<1>1. OffInv => OffNoFalseAlarm
  BY DEF OffInv, OffAnswers
<1> QED
  BY <1>1, InitOff, StepOff, PTL DEF OffSpec

-----------------------------------------------------------------------------
(***************************************************************************)
(* RetryTimes, for integers of every width and every length of a second.   *)
(*                                                                         *)
(* A question is answered once, by arithmetic: what there is to show are   *)
(* the facts about integers that wrap around.                              *)
(***************************************************************************)

LEMMA ModSmall ==
  ASSUME NEW a \in Nat, NEW b \in Nat, a < b
  PROVE  a % b = a
  OBVIOUS

LEMMA ModRange ==
  ASSUME NEW a \in Int, NEW b \in Nat \ {0}
  PROVE  a % b \in 0 .. b - 1
  OBVIOUS

LEMMA DivExact ==
  ASSUME NEW q \in Int, NEW b \in Nat \ {0}
  PROVE  (q * b) \div b = q
  OBVIOUS

LEMMA DivBelow ==
  ASSUME NEW a \in Int, NEW b \in Nat \ {0}
  PROVE  (a \div b) * b <= a
  OBVIOUS

LEMMA DivNat ==
  ASSUME NEW a \in Nat, NEW b \in Nat \ {0}
  PROVE  a \div b \in Nat /\ (a \div b) * b <= a /\ a < (a \div b + 1) * b
  OBVIOUS

LEMMA DivAbove ==
  ASSUME NEW a \in Nat, NEW b \in Nat \ {0}
  PROVE  (a + b - 1) \div b \in Nat /\ a <= ((a + b - 1) \div b) * b
<1> DEFINE c == a + b - 1
<1>1. c \in Nat
  OBVIOUS
<1> HIDE DEF c
<1>2. c \div b \in Nat /\ c < (c \div b + 1) * b
  BY <1>1, DivNat
<1> DEFINE q == c \div b
<1> HIDE DEF q
<1>3. q \in Nat /\ c < (q + 1) * b
  BY <1>2 DEF q
<1>4. (q + 1) * b = q * b + b /\ q * b \in Nat
  BY <1>3
<1>5. a <= q * b
  BY <1>3, <1>4 DEF c
<1> QED
  BY <1>3, <1>5 DEF q, c

LEMMA TimesSign ==
  ASSUME NEW a \in Int, NEW b \in Nat \ {0}
  PROVE  a * b \in Int /\ (a > 0 => a * b > 0) /\ (a <= 0 => a * b <= 0)
  OBVIOUS

LEMMA TimesMore ==
  ASSUME NEW a \in Nat, NEW b \in Nat, NEW c \in Nat, a <= b
  PROVE  c * a <= c * b /\ c * a \in Nat /\ c * b \in Nat
  OBVIOUS

LEMMA ProductLess ==
  ASSUME NEW a \in Nat, NEW b \in Nat, NEW c \in Nat \ {0}, a < b
  PROVE  a * c < b * c
<1>1. PICK d \in Nat \ {0} : b = a + d
  <2>1. b - a \in Nat \ {0} /\ b = a + (b - a)
    OBVIOUS
  <2> QED
    BY <2>1
<1>2. (a + d) * c = a * c + d * c /\ d * c > 0
  OBVIOUS
<1> QED
  BY <1>1, <1>2

LEMMA ProductBelow ==
  ASSUME NEW a \in Nat, NEW b \in Nat, NEW c \in Nat, NEW d \in Nat, a <= c, b <= d
  PROVE  a * b <= c * d
<1>1. a * b <= a * d
  BY TimesMore
<1>2. d * a <= d * c /\ d * a = a * d /\ d * c = c * d
  BY TimesMore
<1>3. a * b \in Nat /\ a * d \in Nat /\ c * d \in Nat
  OBVIOUS
<1> QED
  BY <1>1, <1>2, <1>3

LEMMA ProductOrder ==
  ASSUME NEW a \in Nat \ {0}, NEW b \in Nat \ {0}, NEW c \in Nat, NEW d \in Nat, a <= c, b <= d
  PROVE  a * b <= c * d /\ a * b \in Nat \ {0} /\ c * d \in Nat
<1>1. a * b <= c * d
  BY ProductBelow
<1>2. a * b \in Nat \ {0} /\ c * d \in Nat
  OBVIOUS
<1> QED
  BY <1>1, <1>2

LEMMA ProductMixed ==
  ASSUME NEW a \in Nat, NEW b \in Nat, NEW c \in Nat
  PROVE  (a * c) * (b * c) = ((a * b) * c) * c
  OBVIOUS

LEMMA TimesAtLeast ==
  ASSUME NEW a \in Nat \ {0}, NEW b \in Nat \ {0}
  PROVE  a * b \in Nat \ {0} /\ b <= a * b
  OBVIOUS

LEMMA TimeRange ==
  /\ TimeHalf \in Nat \ {0} /\ TimeSecond \in Nat \ {0} /\ TimeSecond <= TimeMax
  /\ TimeMax \in Nat /\ TimeMin \in Int /\ TimeInts = TimeMin .. TimeMax
  /\ TimeMin = - TimeHalf /\ TimeMax = TimeHalf - 1
  BY TimeAssumption DEF TimeMax, TimeMin, TimeInts

\* What fits is kept, and what does not fit is turned into something that does.
LEMMA WrapFits ==
  ASSUME NEW x \in Int
  PROVE  /\ TimeWrap(x) \in TimeInts
         /\ x \in TimeInts => TimeWrap(x) = x
<1>1. TimeHalf \in Nat \ {0} /\ TimeMin = - TimeHalf /\ TimeInts = - TimeHalf .. TimeHalf - 1
  BY TimeRange
<1>2. TimeWrap(x) = ((x + TimeHalf) % (2 * TimeHalf)) - TimeHalf
  BY <1>1 DEF TimeWrap
<1>3. (x + TimeHalf) % (2 * TimeHalf) \in 0 .. 2 * TimeHalf - 1
  BY <1>1, ModRange
<1>4. x \in TimeInts => (x + TimeHalf) % (2 * TimeHalf) = x + TimeHalf
  BY <1>1, ModSmall
<1> QED
  BY <1>1, <1>2, <1>3, <1>4

\* An overflow that comes out positive is not divided back to where it came from.
LEMMA LookbackExact ==
  ASSUME NEW seconds \in TimeInts
  PROVE  (seconds <= 0 \/ TimeTooLarge(seconds)) <=> seconds * TimeSecond \notin 1 .. TimeMax
<1> DEFINE exact == seconds * TimeSecond
           lookback == TimeWrap(exact)
<1>1. /\ seconds \in Int /\ exact \in Int /\ lookback \in Int /\ lookback <= TimeMax
      /\ TimeSecond \in Nat \ {0} /\ TimeMax \in Nat
  BY TimeRange, WrapFits, TimesSign
<1>2. TimeTooLarge(seconds) <=> lookback <= 0 \/ TimeDivide(lookback, TimeSecond) # seconds
  BY DEF TimeTooLarge
<1>3. (seconds > 0 => exact > 0) /\ (seconds <= 0 => exact <= 0)
  BY <1>1, TimesSign
<1>4. exact \in 1 .. TimeMax => lookback = exact /\ exact \div TimeSecond = seconds
  BY <1>1, TimeRange, WrapFits, DivExact
<1>5. lookback > 0 /\ lookback \div TimeSecond = seconds => exact <= lookback
  BY <1>1, DivBelow
<1>6. lookback > 0 => TimeDivide(lookback, TimeSecond) = lookback \div TimeSecond
  BY <1>1 DEF TimeDivide
<1> HIDE DEF exact, lookback
<1>7. CASE seconds <= 0
  BY <1>1, <1>3, <1>7 DEF exact
<1>8. CASE seconds > 0 /\ exact \in 1 .. TimeMax
  BY <1>1, <1>2, <1>4, <1>6, <1>8 DEF exact
<1>9. CASE seconds > 0 /\ exact \notin 1 .. TimeMax
  BY <1>1, <1>2, <1>3, <1>5, <1>6, <1>9 DEF exact
<1> QED
  BY <1>1, <1>7, <1>8, <1>9

\* As long as nothing overflows, the wait is what it is meant to be.
LEMMA WaitBounded ==
  ASSUME NEW perMessage \in Nat \ {0}, NEW count \in Nat, NEW slack \in Nat \ {0},
         NEW max \in Nat \ {0}, perMessage * (count + 1) + slack <= TimeMax
  PROVE  LET n == IF count < 1 THEN 1 ELSE count
             timeout == TimeWrap(TimeWrap(perMessage * n) + slack)
         IN  (IF timeout > max THEN max ELSE timeout) \in 1 .. max
<1> DEFINE n == IF count < 1 THEN 1 ELSE count
<1>1. n \in Nat /\ n <= count + 1 /\ count + 1 \in Nat
  OBVIOUS
<1> HIDE DEF n
<1>2. /\ perMessage * n <= perMessage * (count + 1)
      /\ perMessage * n \in Nat /\ perMessage * (count + 1) \in Nat
  BY <1>1, TimesMore
<1>3. perMessage * n \in TimeInts /\ perMessage * n + slack \in TimeInts
  BY <1>2, TimeRange
<1>4. TimeWrap(TimeWrap(perMessage * n) + slack) = perMessage * n + slack
  BY <1>2, <1>3, WrapFits
<1>5. perMessage * n + slack \in Nat \ {0}
  BY <1>2
<1> QED
  BY <1>4, <1>5 DEF n

\* Induction over the natural numbers for a set.
LEMMA Induction ==
  ASSUME NEW S, 0 \in S, \A n \in Nat : n \in S => n + 1 \in S
  PROVE  Nat \subseteq S
<1> SUFFICES ASSUME Nat \ S # {} PROVE FALSE
  OBVIOUS
<1> DEFINE R == OpToRel(<, Nat)
<1>1. PICK t \in Nat \ S : \A y \in Nat \ S : ~ (<<y, t>> \in R)
  <2>1. IsWellFoundedOn(R, Nat)
    BY NatLessThanWellFounded
  <2> HIDE DEF R
  <2> QED
    BY <2>1, WFMin
<1>2. t # 0 /\ t - 1 \in Nat /\ t - 1 < t /\ t = (t - 1) + 1
  OBVIOUS
<1>3. t - 1 \in S
  BY <1>1, <1>2 DEF OpToRel
<1> QED
  BY <1>2, <1>3

\* A function on the natural numbers may be defined by recursion.
LEMMA Recursion ==
  ASSUME NEW V, NEW a \in V, NEW step \in [Nat -> [V -> V]]
  PROVE  \E f \in [Nat -> V] : f[0] = a /\ \A n \in Nat : f[n + 1] = step[n][f[n]]
<1> DEFINE Upto(n) == {g \in [0 .. n -> V] : g[0] = a /\ \A i \in Nat : i < n => g[i + 1] = step[i][g[i]]}
<1>0. ASSUME NEW n \in Nat, NEW g \in [0 .. n -> V], g[0] = a,
             \A i \in Nat : i < n => g[i + 1] = step[i][g[i]]
      PROVE  g \in Upto(n)
  BY <1>0
<1>a. ASSUME NEW n \in Nat, NEW g \in Upto(n)
      PROVE  /\ g \in [0 .. n -> V] /\ g[0] = a
             /\ \A i \in Nat : i < n => g[i + 1] = step[i][g[i]]
  OBVIOUS
<1> HIDE DEF Upto
<1>1. \A n \in Nat : Upto(n) # {}
  <2> DEFINE S == {n \in Nat : Upto(n) # {}}
  <2>1. 0 \in S
    <3> DEFINE g == [i \in 0 .. 0 |-> a]
    <3>0. g \in [0 .. 0 -> V] /\ g[0] = a /\ \A i \in Nat : ~ (i < 0)
      OBVIOUS
    <3> HIDE DEF g
    <3>1. g \in Upto(0)
      BY <3>0, <1>0
    <3> QED
      BY <3>1
  <2>2. ASSUME NEW n \in S PROVE n + 1 \in S
    <3>1. PICK g : g \in Upto(n)
      OBVIOUS
    <3>2. g \in [0 .. n -> V] /\ g[0] = a /\ \A i \in Nat : i < n => g[i + 1] = step[i][g[i]]
      BY <3>1, <1>a
    <3> DEFINE h == [i \in 0 .. n + 1 |-> IF i <= n THEN g[i] ELSE step[n][g[n]]]
    <3>3. h \in [0 .. n + 1 -> V] /\ h[0] = a
      BY <3>2
    <3>4. ASSUME NEW i \in Nat, i < n + 1 PROVE h[i + 1] = step[i][h[i]]
      <4>1. h[i] = g[i] /\ i \in 0 .. n
        BY <3>4
      <4>2. CASE i < n
        BY <3>2, <4>1, <4>2
      <4>3. CASE i = n
        BY <4>1, <4>3
      <4> QED
        BY <4>2, <4>3, <3>4
    <3> HIDE DEF h
    <3>5. h \in Upto(n + 1)
      BY <3>3, <3>4, <1>0
    <3> QED
      BY <3>5
  <2>3. Nat \subseteq S
    <3> HIDE DEF S
    <3> QED
      BY <2>1, <2>2, Induction
  <2> QED
    BY <2>3
<1>2. ASSUME NEW n \in Nat, NEW k \in Nat, k <= n, NEW g \in Upto(n), NEW h \in Upto(k)
      PROVE  h[k] = g[k]
  <2> DEFINE S == {i \in Nat : i <= k => h[i] = g[i]}
  <2>0. /\ g[0] = a /\ h[0] = a
        /\ \A i \in Nat : i < n => g[i + 1] = step[i][g[i]]
        /\ \A i \in Nat : i < k => h[i + 1] = step[i][h[i]]
    BY <1>a
  <2>1. 0 \in S
    BY <2>0
  <2>2. ASSUME NEW i \in S PROVE i + 1 \in S
    BY <2>0, <1>2
  <2>3. Nat \subseteq S
    <3> HIDE DEF S
    <3> QED
      BY <2>1, <2>2, Induction
  <2> QED
    BY <2>3
<1> DEFINE G(n) == CHOOSE g : g \in Upto(n)
           f == [n \in Nat |-> G(n)[n]]
<1>3. \A n \in Nat : G(n) \in Upto(n)
  BY <1>1
<1>4. \A n \in Nat : f[n] = G(n)[n]
  OBVIOUS
<1>5. f = [n \in Nat |-> f[n]]
  BY <1>4
<1> HIDE DEF f, G
<1>6. \A n \in Nat : f[n] \in V
  BY <1>3, <1>4, <1>a
<1>7. f \in [Nat -> V]
  BY <1>5, <1>6
<1>8. f[0] = a
  BY <1>3, <1>4, <1>a
<1>9. ASSUME NEW n \in Nat PROVE f[n + 1] = step[n][f[n]]
  <2>1. G(n + 1) \in Upto(n + 1) /\ G(n) \in Upto(n)
    BY <1>3
  <2>2. G(n)[n] = G(n + 1)[n]
    BY <1>2, <2>1
  <2>3. G(n + 1)[n + 1] = step[n][G(n + 1)[n]]
    BY <2>1, <1>a
  <2> QED
    BY <1>4, <2>2, <2>3
<1> QED
  BY <1>7, <1>8, <1>9

\* The same as one formula, to be instantiated.
LEMMA RecursionAll ==
  \A V : \A a \in V : \A step \in [Nat -> [V -> V]] :
    \E f \in [Nat -> V] : f[0] = a /\ \A n \in Nat : f[n + 1] = step[n][f[n]]
<1> TAKE V
<1> TAKE a \in V
<1> TAKE step \in [Nat -> [V -> V]]
<1> QED
  BY Recursion, Z3

\* The same for numbers.
LEMMA RecursionNat ==
  ASSUME NEW a \in Nat, NEW step \in [Nat -> [Nat -> Nat]]
  PROVE  \E f \in [Nat -> Nat] : f[0] = a /\ \A n \in Nat : f[n + 1] = step[n][f[n]]
<1> DEFINE Takes(V, b, s) == b \in V /\ s \in [Nat -> [V -> V]]
           Has(V, b, s) == \E f \in [Nat -> V] : f[0] = b /\ \A n \in Nat : f[n + 1] = s[n][f[n]]
<1>1. \A V : \A b \in V : \A s \in [Nat -> [V -> V]] : Has(V, b, s)
  BY RecursionAll, Zenon
<1>2. \A V, b, s : Takes(V, b, s) => Has(V, b, s)
  <2> HIDE DEF Has
  <2> QED
    BY <1>1, Zenon
<1>3. Takes(Nat, a, step)
  OBVIOUS
<1>4. Has(Nat, a, step)
  <2> HIDE DEF Takes, Has
  <2> QED
    BY <1>2, <1>3, Zenon
<1> QED
  BY <1>4, Zenon

\* The loop of RepeatCalculatorProgressive for a whole multiplier and without rounding.
WholeFactor(multiplier, attempt) ==
  LET m == IF multiplier > 1 THEN multiplier ELSE 1
      n[i \in Nat] == IF i <= 1 THEN 1 ELSE n[i - 1] * m + 1
  IN  n[attempt]

LEMMA FactorSteps ==
  ASSUME NEW multiplier \in Nat, NEW m \in Nat, m = IF multiplier > 1 THEN multiplier ELSE 1
  PROVE  /\ \A i \in Nat : WholeFactor(multiplier, i) \in Nat
         /\ WholeFactor(multiplier, 0) = 1 /\ WholeFactor(multiplier, 1) = 1
         /\ \A i \in Nat \ {0} : WholeFactor(multiplier, i + 1) = WholeFactor(multiplier, i) * m + 1
<1> DEFINE Is(f) == f = [i \in Nat |-> IF i <= 1 THEN 1 ELSE f[i - 1] * m + 1]
           n == CHOOSE f : Is(f)
           step == [i \in Nat |-> [v \in Nat |-> IF i = 0 THEN 1 ELSE v * m + 1]]
<1>1. \E f \in [Nat -> Nat] : Is(f)
  <2>1. step \in [Nat -> [Nat -> Nat]]
    OBVIOUS
  <2>2. PICK f \in [Nat -> Nat] : f[0] = 1 /\ \A i \in Nat : f[i + 1] = step[i][f[i]]
    <3> HIDE DEF step
    <3>1. 1 \in Nat
      OBVIOUS
    <3>2. \E f \in [Nat -> Nat] : f[0] = 1 /\ \A i \in Nat : f[i + 1] = step[i][f[i]]
      BY <2>1, <3>1, RecursionNat
    <3> QED
      BY <3>2
  <2>3. ASSUME NEW i \in Nat PROVE f[i] = IF i <= 1 THEN 1 ELSE f[i - 1] * m + 1
    <3>1. CASE i = 0
      BY <2>2, <3>1
    <3>2. CASE i # 0
      <4>1. i - 1 \in Nat /\ (i - 1) + 1 = i /\ f[i - 1] \in Nat
        BY <3>2
      <4>2. f[i] = step[i - 1][f[i - 1]]
        BY <2>2, <4>1
      <4> QED
        BY <3>2, <4>1, <4>2
    <3> QED
      BY <3>1, <3>2
  <2>4. Is(f)
    BY <2>3
  <2> QED
    BY <2>4
<1>2. Is(n)
  BY <1>1
<1>3. \A i \in Nat : WholeFactor(multiplier, i) = n[i]
  BY DEF WholeFactor
<1> HIDE DEF n
<1>4. n[0] = 1 /\ n[1] = 1 /\ \A i \in Nat \ {0} : n[i + 1] = n[i] * m + 1
  BY <1>2
<1>5. \A i \in Nat : n[i] \in Nat
  <2> DEFINE S == {i \in Nat : n[i] \in Nat}
  <2>1. 0 \in S /\ \A i \in Nat : i \in S => i + 1 \in S
    BY <1>4
  <2> HIDE DEF S
  <2>2. Nat \subseteq S
    BY <2>1, Induction
  <2> QED
    BY <2>2 DEF S
<1> QED
  BY <1>3, <1>4, <1>5

\* The steps of a power.
LEMMA PowerSteps ==
  ASSUME NEW m \in Nat
  PROVE  /\ TimePower(m, 0) = 1
         /\ \A i \in Nat : TimePower(m, i) \in Nat /\ TimePower(m, i + 1) = m * TimePower(m, i)
<1> DEFINE Is(f) == f = [i \in Nat |-> IF i = 0 THEN 1 ELSE m * f[i - 1]]
           power == CHOOSE f : Is(f)
           step == [i \in Nat |-> [v \in Nat |-> m * v]]
<1>1. \E f \in [Nat -> Nat] : Is(f)
  <2>1. step \in [Nat -> [Nat -> Nat]]
    OBVIOUS
  <2>2. PICK f \in [Nat -> Nat] : f[0] = 1 /\ \A i \in Nat : f[i + 1] = step[i][f[i]]
    <3> HIDE DEF step
    <3>1. 1 \in Nat
      OBVIOUS
    <3>2. \E f \in [Nat -> Nat] : f[0] = 1 /\ \A i \in Nat : f[i + 1] = step[i][f[i]]
      BY <2>1, <3>1, RecursionNat
    <3> QED
      BY <3>2
  <2>3. ASSUME NEW i \in Nat PROVE f[i] = IF i = 0 THEN 1 ELSE m * f[i - 1]
    <3>1. CASE i = 0
      BY <2>2, <3>1
    <3>2. CASE i # 0
      <4>1. i - 1 \in Nat /\ (i - 1) + 1 = i /\ f[i - 1] \in Nat
        BY <3>2
      <4>2. f[i] = step[i - 1][f[i - 1]]
        BY <2>2, <4>1
      <4> QED
        BY <3>2, <4>1, <4>2
    <3> QED
      BY <3>1, <3>2
  <2>4. Is(f)
    BY <2>3
  <2> QED
    BY <2>4
<1>2. Is(power)
  BY <1>1
<1>3. \A i \in Nat : TimePower(m, i) = power[i]
  BY DEF TimePower
<1> HIDE DEF power
<1>4. power[0] = 1 /\ \A i \in Nat : power[i + 1] = m * power[i]
  BY <1>2
<1>5. \A i \in Nat : power[i] \in Nat
  <2> DEFINE S == {i \in Nat : power[i] \in Nat}
  <2>1. 0 \in S /\ \A i \in Nat : i \in S => i + 1 \in S
    BY <1>4
  <2> HIDE DEF S
  <2>2. Nat \subseteq S
    BY <2>1, Induction
  <2> QED
    BY <2>2 DEF S
<1> QED
  BY <1>3, <1>4, <1>5

LEMMA GeometricStep ==
  ASSUME NEW m \in Nat, NEW f \in Nat, NEW p \in Nat, (m - 1) * f = p - 1
  PROVE  (m - 1) * (f * m + 1) = m * p - 1
<1>1. (m - 1) * (f * m + 1) = ((m - 1) * f) * m + (m - 1)
  OBVIOUS
<1>2. (p - 1) * m + (m - 1) = m * p - 1
  OBVIOUS
<1> QED
  BY <1>1, <1>2

\* The factor that this loop computes is the geometric sum.
LEMMA FactorIsGeometric ==
  ASSUME NEW multiplier \in Nat, NEW attempt \in Nat
  PROVE  /\ WholeFactor(multiplier, attempt) = TimeGeometric(multiplier, attempt)
         /\ WholeFactor(multiplier, attempt) \in Nat \ {0}
<1> DEFINE m == IF multiplier > 1 THEN multiplier ELSE 1
           f == [i \in Nat |-> WholeFactor(multiplier, i)]
           p == [i \in Nat |-> TimePower(m, i)]
<1>m. m = IF multiplier > 1 THEN multiplier ELSE 1
  OBVIOUS
<1>0. m \in Nat \ {0} /\ (multiplier > 1 => m = multiplier) /\ (multiplier <= 1 => m = 1)
  OBVIOUS
<1>d. \A i \in Nat : f[i] = WholeFactor(multiplier, i) /\ p[i] = TimePower(m, i)
  OBVIOUS
<1> HIDE DEF m, f, p
<1>1. /\ \A i \in Nat : f[i] \in Nat
      /\ f[0] = 1 /\ f[1] = 1
      /\ \A i \in Nat \ {0} : f[i + 1] = f[i] * m + 1
  <2>1. /\ \A i \in Nat : WholeFactor(multiplier, i) \in Nat
        /\ WholeFactor(multiplier, 0) = 1 /\ WholeFactor(multiplier, 1) = 1
        /\ \A i \in Nat \ {0} : WholeFactor(multiplier, i + 1) = WholeFactor(multiplier, i) * m + 1
    BY <1>m, <1>0, FactorSteps
  <2>2. \A i \in Nat : i + 1 \in Nat
    OBVIOUS
  <2> QED
    BY <1>d, <2>1, <2>2
<1>2. p[0] = 1 /\ \A i \in Nat : p[i] \in Nat /\ p[i + 1] = m * p[i]
  <2>1. /\ TimePower(m, 0) = 1
        /\ \A i \in Nat : TimePower(m, i) \in Nat /\ TimePower(m, i + 1) = m * TimePower(m, i)
    BY <1>0, PowerSteps
  <2>2. \A i \in Nat : i + 1 \in Nat
    OBVIOUS
  <2> QED
    BY <1>d, <2>1, <2>2
<1> DEFINE Sums(i) == /\ f[i] > 0
                      /\ i > 0 => (m - 1) * f[i] = p[i] - 1
                      /\ i > 0 /\ m = 1 => f[i] = i
           S == {i \in Nat : Sums(i)}
<1>3. Sums(0)
  BY <1>1
<1>4. ASSUME NEW i \in Nat, Sums(i) PROVE Sums(i + 1)
  <2>1. CASE i = 0
    <3>1. p[1] = m
      BY <1>0, <1>2
    <3>2. i + 1 = 1
      BY <2>1
    <3> QED
      BY <1>0, <1>1, <3>1, <3>2
  <2>2. CASE i # 0
    <3>1. f[i] \in Nat /\ p[i] \in Nat /\ (m - 1) * f[i] = p[i] - 1 /\ (m = 1 => f[i] = i)
      BY <1>1, <1>2, <1>4, <2>2
    <3>2. f[i + 1] = f[i] * m + 1 /\ p[i + 1] = m * p[i]
      BY <1>1, <1>2, <2>2
    <3>3. (m - 1) * (f[i] * m + 1) = m * p[i] - 1
      BY <1>0, <3>1, GeometricStep
    <3>4. m = 1 => f[i] * m + 1 = i + 1
      BY <3>1
    <3>5. f[i] * m + 1 > 0
      BY <1>0, <3>1
    <3> HIDE <3>1
    <3> QED
      BY <3>2, <3>3, <3>4, <3>5
  <2> QED
    BY <2>1, <2>2
<1>5. Sums(attempt)
  <2> HIDE DEF Sums
  <2>1. 0 \in S /\ \A i \in Nat : i \in S => i + 1 \in S
    BY <1>3, <1>4
  <2>2. Nat \subseteq S
    <3> HIDE DEF S
    <3> QED
      BY <2>1, Induction
  <2> QED
    BY <2>2
<1>6. f[attempt] \in Nat \ {0}
  BY <1>1, <1>5
<1>7. CASE attempt <= 1
  <2>1. attempt = 0 \/ attempt = 1
    BY <1>7
  <2>2. f[attempt] = 1
    BY <1>1, <2>1
  <2> QED
    BY <1>6, <1>7, <2>2 DEF TimeGeometric, f
<1>8. CASE attempt > 1 /\ multiplier <= 1
  <2>1. f[attempt] = attempt
    BY <1>0, <1>5, <1>8
  <2>2. TimeGeometric(multiplier, attempt) = attempt
    BY <1>8 DEF TimeGeometric
  <2> QED
    BY <1>6, <2>1, <2>2 DEF f
<1>9. CASE attempt > 1 /\ multiplier > 1
  <2>1. (m - 1) * f[attempt] = p[attempt] - 1 /\ m = multiplier
    BY <1>0, <1>5, <1>9
  <2>2. TimeGeometric(multiplier, attempt) = (p[attempt] - 1) \div (m - 1)
    BY <1>9, <2>1 DEF TimeGeometric, p
  <2>3. m - 1 \in Nat \ {0}
    BY <1>9, <2>1
  <2>4. (f[attempt] * (m - 1)) \div (m - 1) = f[attempt]
    <3> HIDE <1>6
    <3>1. f[attempt] \in Int
      BY <1>6
    <3> QED
      BY <3>1, <2>3, DivExact
  <2>5. f[attempt] * (m - 1) = (m - 1) * f[attempt]
    BY <1>6, <2>3
  <2>6. (p[attempt] - 1) \div (m - 1) = f[attempt]
    BY <2>1, <2>4, <2>5
  <2> QED
    BY <1>6, <2>2, <2>6 DEF f
<1> QED
  BY <1>7, <1>8, <1>9

\* The same recursion for sets of numbers.
LEMMA RecursionSets ==
  ASSUME NEW a \in SUBSET Nat, NEW step \in [Nat -> [SUBSET Nat -> SUBSET Nat]]
  PROVE  \E f \in [Nat -> SUBSET Nat] : f[0] = a /\ \A n \in Nat : f[n + 1] = step[n][f[n]]
<1> DEFINE Takes(V, b, s) == b \in V /\ s \in [Nat -> [V -> V]]
           Has(V, b, s) == \E f \in [Nat -> V] : f[0] = b /\ \A n \in Nat : f[n + 1] = s[n][f[n]]
<1>1. \A V : \A b \in V : \A s \in [Nat -> [V -> V]] : Has(V, b, s)
  BY RecursionAll, Zenon
<1>2. \A V, b, s : Takes(V, b, s) => Has(V, b, s)
  <2> HIDE DEF Has
  <2> QED
    BY <1>1, Zenon
<1>3. Takes(SUBSET Nat, a, step)
  OBVIOUS
<1>4. Has(SUBSET Nat, a, step)
  <2> HIDE DEF Takes, Has
  <2> QED
    BY <1>2, <1>3, Zenon
<1> QED
  BY <1>4, Zenon

\* The loop of RepeatCalculatorProgressive with its rounding.
LEMMA FactorsSteps ==
  ASSUME NEW multiplier \in Nat, NEW m \in Nat, m = IF multiplier > TimeUnit THEN multiplier ELSE TimeUnit
  PROVE  /\ TimeFactors(multiplier, 0) = {TimeUnit} /\ TimeFactors(multiplier, 1) = {TimeUnit}
         /\ \A i \in Nat \ {0} :
              TimeFactors(multiplier, i + 1) = UNION {TimeGrow(v, m) : v \in TimeFactors(multiplier, i)}
<1> DEFINE Grown(V) == UNION {TimeGrow(v, m) : v \in V}
           Is(f) == f = [i \in Nat |-> IF i <= 1 THEN {TimeUnit} ELSE Grown(f[i - 1])]
           n == CHOOSE f : Is(f)
           step == [i \in Nat |-> [V \in SUBSET Nat |-> IF i = 0 THEN {TimeUnit} ELSE Grown(V)]]
<1>1. \E f : Is(f)
  <2>0. \A V : Grown(V) \in SUBSET Nat
    <3>1. \A a : TimeNearest(a) \subseteq Nat
      BY TimeAssumption DEF TimeNearest
    <3>2. \A v : TimeGrow(v, m) \subseteq Nat
      BY <3>1 DEF TimeGrow
    <3> QED
      BY <3>2
  <2>u. {TimeUnit} \in SUBSET Nat
    BY TimeAssumption
  <2> HIDE DEF Grown
  <2>1. step \in [Nat -> [SUBSET Nat -> SUBSET Nat]]
    BY <2>0, <2>u
  <2>2. PICK f \in [Nat -> SUBSET Nat] : f[0] = {TimeUnit} /\ \A i \in Nat : f[i + 1] = step[i][f[i]]
    <3> HIDE DEF step
    <3>1. \E f \in [Nat -> SUBSET Nat] : f[0] = {TimeUnit} /\ \A i \in Nat : f[i + 1] = step[i][f[i]]
      BY <2>1, <2>u, RecursionSets
    <3> QED
      BY <3>1
  <2>3. ASSUME NEW i \in Nat PROVE f[i] = IF i <= 1 THEN {TimeUnit} ELSE Grown(f[i - 1])
    <3>1. CASE i = 0
      BY <2>2, <3>1
    <3>2. CASE i # 0
      <4>1. i - 1 \in Nat /\ (i - 1) + 1 = i /\ f[i - 1] \in SUBSET Nat
        BY <3>2
      <4>2. f[i] = step[i - 1][f[i - 1]]
        BY <2>2, <4>1
      <4>3. step[i - 1][f[i - 1]] = IF i - 1 = 0 THEN {TimeUnit} ELSE Grown(f[i - 1])
        BY <4>1
      <4> HIDE DEF step
      <4> QED
        BY <3>2, <4>2, <4>3
    <3> QED
      BY <3>1, <3>2
  <2>4. Is(f)
    BY <2>3
  <2> QED
    BY <2>4
<1>2. Is(n)
  BY <1>1
<1>3. \A i \in Nat : TimeFactors(multiplier, i) = n[i]
  BY DEF TimeFactors
<1> HIDE DEF n, Grown
<1>4. n[0] = {TimeUnit} /\ n[1] = {TimeUnit} /\ \A i \in Nat \ {0} : n[i + 1] = Grown(n[i])
  <2>1. \A i \in Nat : n[i] = IF i <= 1 THEN {TimeUnit} ELSE Grown(n[i - 1])
    BY <1>2
  <2>2. ASSUME NEW i \in Nat \ {0} PROVE n[i + 1] = Grown(n[i])
    <3>1. i + 1 \in Nat /\ ~(i + 1 <= 1) /\ (i + 1) - 1 = i
      OBVIOUS
    <3> QED
      BY <2>1, <3>1
  <2> QED
    BY <2>1, <2>2
<1>5. \A i \in Nat \ {0} : i \in Nat /\ i + 1 \in Nat
  OBVIOUS
<1>6. \A i \in Nat \ {0} : TimeFactors(multiplier, i + 1) = Grown(TimeFactors(multiplier, i))
  BY <1>3, <1>4, <1>5
<1> QED
  BY <1>3, <1>4, <1>6 DEF Grown

\* A whole number of units that is a float is never passed by the rounding.
LEMMA NearestKeeps ==
  ASSUME NEW a \in Nat, NEW k \in 1 .. TimeWhole, NEW x \in TimeNearest(a)
  PROVE  /\ x \in Nat
         /\ a >= (k * TimeUnit) * TimeUnit => x >= k * TimeUnit
         /\ a <= (k * TimeUnit) * TimeUnit => x <= k * TimeUnit
<1> DEFINE w == k * TimeUnit
<1>1. w \in TimeFloats /\ x \in TimeFloats /\ w \in Nat /\ x \in Nat /\ TimeUnit \in Nat \ {0}
  BY TimeAssumption DEF TimeNearest
<1>2. TimeDistance(a, x * TimeUnit) <= TimeDistance(a, w * TimeUnit)
  BY <1>1 DEF TimeNearest
<1> HIDE DEF w
<1>3. x < w => x * TimeUnit < w * TimeUnit
  BY <1>1, ProductLess
<1>4. w < x => w * TimeUnit < x * TimeUnit
  BY <1>1, ProductLess
<1>5. x * TimeUnit \in Nat /\ w * TimeUnit \in Nat
  BY <1>1
<1>6. (a >= w * TimeUnit => x >= w) /\ (a <= w * TimeUnit => x <= w)
  BY <1>1, <1>2, <1>3, <1>4, <1>5 DEF TimeDistance
<1> QED
  BY <1>1, <1>6 DEF w

\* One round of the loop stays between those of the multiplier rounded down and up.
LEMMA GrowKeeps ==
  ASSUME NEW n \in Nat, NEW m \in Nat, NEW lo \in Nat \ {0}, NEW hi \in Nat, NEW s \in Nat \ {0}, NEW t \in Nat,
         lo <= hi, s <= t, lo * TimeUnit <= m, m <= hi * TimeUnit, s * TimeUnit <= n, n <= t * TimeUnit,
         t * hi + 1 <= TimeWhole, NEW x \in TimeGrow(n, m)
  PROVE  x \in Nat /\ (s * lo + 1) * TimeUnit <= x /\ x <= (t * hi + 1) * TimeUnit
<1> DEFINE u == TimeUnit
<1>1. u \in Nat \ {0} /\ TimeWhole \in Nat
  BY TimeAssumption
<1> HIDE DEF u
<1>2. /\ s * lo \in 1 .. TimeWhole /\ t * hi \in 1 .. TimeWhole
      /\ s * lo + 1 \in 1 .. TimeWhole /\ t * hi + 1 \in 1 .. TimeWhole
  <2>1. s * lo <= t * hi /\ s * lo \in Nat \ {0} /\ t * hi \in Nat
    BY ProductOrder
  <2> QED
    BY <1>1, <2>1
<1>3. ((s * lo) * u) * u <= n * m /\ n * m <= ((t * hi) * u) * u
  <2>1. /\ s * u <= n /\ n <= t * u /\ lo * u <= m /\ m <= hi * u
        /\ s * u \in Nat /\ t * u \in Nat /\ lo * u \in Nat /\ hi * u \in Nat
    BY <1>1 DEF u
  <2>2. (s * u) * (lo * u) <= n * m
    <3> DEFINE c == s * u d == lo * u
    <3>1. c \in Nat /\ d \in Nat /\ c <= n /\ d <= m
      BY <2>1
    <3> HIDE DEF c, d
    <3>2. c * d <= n * m
      BY <3>1, ProductBelow
    <3> QED
      BY <3>2 DEF c, d
  <2>3. n * m <= (t * u) * (hi * u)
    <3> DEFINE c == t * u d == hi * u
    <3>1. c \in Nat /\ d \in Nat /\ n <= c /\ m <= d
      BY <2>1
    <3> HIDE DEF c, d
    <3>2. n * m <= c * d
      BY <3>1, ProductBelow
    <3> QED
      BY <3>2 DEF c, d
  <2>4. (s * u) * (lo * u) = ((s * lo) * u) * u /\ (t * u) * (hi * u) = ((t * hi) * u) * u
    BY <1>1, ProductMixed
  <2> QED
    BY <2>2, <2>3, <2>4
<1>4. ASSUME NEW k \in Nat PROVE ((k + 1) * u) * u = (k * u) * u + u * u /\ (k + 1) * u = k * u + u
  BY <1>1
<1> DEFINE a == s * lo b == t * hi
<1>5. a \in Nat /\ b \in Nat /\ n * m \in Nat /\ u * u \in Nat /\ (a * u) * u \in Nat /\ (b * u) * u \in Nat
  BY <1>1
<1>6. a \in 1 .. TimeWhole /\ b \in 1 .. TimeWhole /\ a + 1 \in 1 .. TimeWhole /\ b + 1 \in 1 .. TimeWhole
  BY <1>2
<1>7. (a * u) * u <= n * m /\ n * m <= (b * u) * u
  BY <1>3
<1> HIDE DEF a, b
<1>8. CASE x \in TimeNearest(n * m + u * u)
  <2>1. ((a + 1) * u) * u <= n * m + u * u /\ n * m + u * u <= ((b + 1) * u) * u
    BY <1>4, <1>5, <1>7
  <2>2. n * m + u * u \in Nat
    BY <1>5
  <2> HIDE DEF u
  <2>3. x \in Nat /\ x >= (a + 1) * u /\ x <= (b + 1) * u
    BY <1>6, <1>8, <2>1, <2>2, NearestKeeps DEF u
  <2> QED
    BY <2>3 DEF a, b, u
<1>9. ASSUME NEW p \in TimeNearest(n * m), x \in TimeNearest((p + u) * u)
      PROVE  x \in Nat /\ x >= (a + 1) * u /\ x <= (b + 1) * u
  <2>1. p \in Nat /\ p >= a * u /\ p <= b * u
    BY <1>5, <1>6, <1>7, NearestKeeps DEF u
  <2>2. p + u \in Nat /\ (p + u) * u \in Nat /\ (a + 1) * u \in Nat /\ (b + 1) * u \in Nat
    BY <1>1, <1>5, <2>1
  <2>3. (a + 1) * u <= p + u /\ p + u <= (b + 1) * u
    BY <1>1, <1>4, <1>5, <2>1
  <2>4. ((a + 1) * u) * u <= (p + u) * u /\ (p + u) * u <= ((b + 1) * u) * u
    BY <1>1, <2>2, <2>3, ProductBelow
  <2> QED
    BY <1>6, <1>9, <2>2, <2>4, NearestKeeps DEF u
<1>10. x \in TimeNearest(n * m + u * u) \/ \E p \in TimeNearest(n * m) : x \in TimeNearest((p + u) * u)
  BY DEF TimeGrow, u
<1> QED
  BY <1>8, <1>9, <1>10 DEF a, b, u

\* The factor stays between the sums of the multiplier rounded down and up, while these are floats.
LEMMA FactorsKeep ==
  ASSUME NEW multiplier \in Nat, NEW attempt \in Nat,
         WholeFactor((multiplier + TimeUnit - 1) \div TimeUnit, attempt) <= TimeWhole,
         NEW n \in TimeFactors(multiplier, attempt)
  PROVE  /\ n \in Nat
         /\ WholeFactor(multiplier \div TimeUnit, attempt) * TimeUnit <= n
         /\ n <= WholeFactor((multiplier + TimeUnit - 1) \div TimeUnit, attempt) * TimeUnit
<1> DEFINE down == multiplier \div TimeUnit
           up == (multiplier + TimeUnit - 1) \div TimeUnit
           m == IF multiplier > TimeUnit THEN multiplier ELSE TimeUnit
           lo == IF down > 1 THEN down ELSE 1
           hi == IF up > 1 THEN up ELSE 1
           f == [i \in Nat |-> TimeFactors(multiplier, i)]
           s == [i \in Nat |-> WholeFactor(down, i)]
           t == [i \in Nat |-> WholeFactor(up, i)]
<1>0. TimeUnit \in Nat \ {0} /\ TimeWhole \in Nat
  BY TimeAssumption
<1>1. /\ down \in Nat /\ up \in Nat /\ down * TimeUnit <= multiplier /\ multiplier <= up * TimeUnit
  BY <1>0, DivNat, DivAbove
<1> HIDE DEF down, up
<1>2. /\ m \in Nat /\ lo \in Nat \ {0} /\ hi \in Nat \ {0}
      /\ lo * TimeUnit <= m /\ m <= hi * TimeUnit
  <2>1. m \in Nat /\ lo \in Nat \ {0} /\ hi \in Nat \ {0}
    BY <1>0, <1>1
  <2>2. lo * TimeUnit <= m
    BY <1>0, <1>1
  <2>3. m <= hi * TimeUnit
    <3>1. CASE up > 1
      <4>1. TimeUnit <= up * TimeUnit
        BY <1>0, <1>1, <3>1, TimesAtLeast
      <4> QED
        BY <1>0, <1>1, <3>1, <4>1
    <3>2. CASE up <= 1
      <4>1. up * TimeUnit <= 1 * TimeUnit
        BY <1>0, <1>1, <3>2, ProductBelow
      <4>2. multiplier <= TimeUnit
        <5>1. up * TimeUnit \in Nat
          BY <1>0, <1>1
        <5> QED
          BY <1>0, <1>1, <4>1, <5>1
      <4>3. hi = 1 /\ hi * TimeUnit = TimeUnit
        BY <1>0, <1>1, <3>2
      <4> QED
        BY <1>0, <1>1, <3>2, <4>2, <4>3
    <3> QED
      BY <1>1, <3>1, <3>2
  <2> QED
    BY <2>1, <2>2, <2>3
<1>3. lo <= hi
  <2>1. ~ (hi < lo)
    <3> SUFFICES ASSUME hi < lo PROVE FALSE
      OBVIOUS
    <3>1. hi * TimeUnit < lo * TimeUnit
      BY <1>0, <1>2, ProductLess
    <3>2. hi * TimeUnit \in Nat /\ lo * TimeUnit \in Nat
      BY <1>0, <1>2
    <3> QED
      BY <1>2, <3>1, <3>2
  <2> QED
    BY <1>2, <2>1
<1>4. f[0] = {TimeUnit} /\ f[1] = {TimeUnit} /\ \A i \in Nat \ {0} : f[i + 1] = UNION {TimeGrow(v, m) : v \in f[i]}
  <2>1. /\ TimeFactors(multiplier, 0) = {TimeUnit} /\ TimeFactors(multiplier, 1) = {TimeUnit}
        /\ \A i \in Nat \ {0} :
             TimeFactors(multiplier, i + 1) = UNION {TimeGrow(v, m) : v \in TimeFactors(multiplier, i)}
    BY <1>2, FactorsSteps
  <2>2. \A i \in Nat \ {0} : i + 1 \in Nat /\ f[i + 1] = TimeFactors(multiplier, i + 1) /\ f[i] = TimeFactors(multiplier, i)
    OBVIOUS
  <2> HIDE DEF f, m
  <2>3. f[0] = {TimeUnit} /\ f[1] = {TimeUnit}
    BY <2>1 DEF f
  <2>4. ASSUME NEW i \in Nat \ {0} PROVE f[i + 1] = UNION {TimeGrow(v, m) : v \in f[i]}
    BY <2>1, <2>2, Zenon
  <2> QED
    BY <2>3, <2>4
<1>5. /\ s[0] = 1 /\ s[1] = 1 /\ \A i \in Nat : s[i] \in Nat \ {0}
      /\ \A i \in Nat \ {0} : s[i + 1] = s[i] * lo + 1
  <2>1. /\ WholeFactor(down, 0) = 1 /\ WholeFactor(down, 1) = 1
        /\ \A i \in Nat \ {0} : WholeFactor(down, i + 1) = WholeFactor(down, i) * lo + 1
    BY <1>1, <1>2, FactorSteps
  <2>2. \A i \in Nat : WholeFactor(down, i) \in Nat \ {0}
    BY <1>1, FactorIsGeometric
  <2>3. \A i \in Nat \ {0} : i \in Nat /\ i + 1 \in Nat
    OBVIOUS
  <2> HIDE DEF lo
  <2> QED
    BY <2>1, <2>2, <2>3
<1>6. /\ t[0] = 1 /\ t[1] = 1 /\ \A i \in Nat : t[i] \in Nat \ {0}
      /\ \A i \in Nat \ {0} : t[i + 1] = t[i] * hi + 1
  <2>1. /\ WholeFactor(up, 0) = 1 /\ WholeFactor(up, 1) = 1
        /\ \A i \in Nat \ {0} : WholeFactor(up, i + 1) = WholeFactor(up, i) * hi + 1
    BY <1>1, <1>2, FactorSteps
  <2>2. \A i \in Nat : WholeFactor(up, i) \in Nat \ {0}
    BY <1>1, FactorIsGeometric
  <2>3. \A i \in Nat \ {0} : i \in Nat /\ i + 1 \in Nat
    OBVIOUS
  <2> HIDE DEF hi
  <2> QED
    BY <2>1, <2>2, <2>3
<1>7. f[attempt] = TimeFactors(multiplier, attempt) /\ s[attempt] = WholeFactor(down, attempt) /\ t[attempt] = WholeFactor(up, attempt)
  OBVIOUS
<1> HIDE DEF m, lo, hi, f, s, t
<1> DEFINE Between(i) == t[i] <= TimeWhole =>
             s[i] <= t[i] /\ \A v \in f[i] : v \in Nat /\ s[i] * TimeUnit <= v /\ v <= t[i] * TimeUnit
           S == {i \in Nat : Between(i)}
<1>8. Between(0) /\ Between(1)
  BY <1>0, <1>4, <1>5, <1>6
<1>9. ASSUME NEW i \in Nat, Between(i) PROVE Between(i + 1)
  <2>1. CASE i = 0
    BY <1>8, <2>1
  <2>2. CASE i # 0
    <3> SUFFICES ASSUME t[i + 1] <= TimeWhole
                 PROVE  s[i + 1] <= t[i + 1] /\ \A v \in f[i + 1] : v \in Nat /\ s[i + 1] * TimeUnit <= v /\ v <= t[i + 1] * TimeUnit
      OBVIOUS
    <3>1. /\ s[i] \in Nat \ {0} /\ t[i] \in Nat \ {0}
          /\ s[i + 1] = s[i] * lo + 1 /\ t[i + 1] = t[i] * hi + 1
          /\ f[i + 1] = UNION {TimeGrow(v, m) : v \in f[i]}
      BY <1>4, <1>5, <1>6, <2>2
    <3>2. t[i] * hi \in Nat \ {0} /\ t[i] <= t[i] * hi
      <4>1. hi * t[i] \in Nat \ {0} /\ t[i] <= hi * t[i] /\ hi * t[i] = t[i] * hi
        BY <1>2, <3>1, TimesAtLeast
      <4> QED
        BY <4>1
    <3>3. t[i] <= TimeWhole
      BY <1>0, <3>1, <3>2
    <3>4. s[i] <= t[i] /\ \A v \in f[i] : v \in Nat /\ s[i] * TimeUnit <= v /\ v <= t[i] * TimeUnit
      BY <1>9, <3>3
    <3>5. s[i] * lo <= t[i] * hi /\ s[i] * lo \in Nat
      BY <1>2, <1>3, <3>1, <3>4, ProductOrder
    <3>6. ASSUME NEW v \in f[i + 1] PROVE v \in Nat /\ s[i + 1] * TimeUnit <= v /\ v <= t[i + 1] * TimeUnit
      <4>1. PICK w \in f[i] : v \in TimeGrow(w, m)
        BY <3>1, <3>6
      <4>2. w \in Nat /\ s[i] * TimeUnit <= w /\ w <= t[i] * TimeUnit
        BY <3>4, <4>1
      <4>3. t[i] * hi + 1 <= TimeWhole
        BY <3>1
      <4>4. v \in Nat /\ (s[i] * lo + 1) * TimeUnit <= v /\ v <= (t[i] * hi + 1) * TimeUnit
        BY <1>2, <1>3, <3>1, <3>4, <4>1, <4>2, <4>3, GrowKeeps
      <4> QED
        BY <3>1, <4>4
    <3> QED
      BY <3>1, <3>2, <3>5, <3>6
  <2> QED
    BY <2>1, <2>2
<1>10. Between(attempt)
  <2> HIDE DEF Between
  <2>1. 0 \in S /\ \A i \in Nat : i \in S => i + 1 \in S
    BY <1>8, <1>9
  <2>2. Nat \subseteq S
    <3> HIDE DEF S
    <3> QED
      BY <2>1, Induction
  <2> QED
    BY <2>2
<1> QED
  BY <1>7, <1>10 DEF down, up

\* A delay without a factor is one of those people configure.
LEMMA RepeatPositive ==
  ASSUME NEW a \in TimeAsks, a.kind = "repeat"
  PROVE  /\ a.interval \in 1 .. TimeMax /\ a.after \in 0 .. TimeMax
         /\ a.multiplier \in Nat /\ a.attempt \in Nat
<1>1. a \in [kind : {"repeat"}, interval : TimeDurations, multiplier : TimeMultipliers,
             attempt : TimeCounts, progressive : BOOLEAN, after : {0, TimeSecond}]
  BY DEF TimeAsks
<1>2. /\ a.interval \in TimeDurations /\ a.after \in {0, TimeSecond}
      /\ a.multiplier \in TimeMultipliers /\ a.attempt \in TimeCounts
  BY <1>1
<1>3. a.interval \in 1 .. TimeMax
  BY <1>2, TimeRange DEF TimeDurations
<1>4. a.after \in 0 .. TimeMax
  BY <1>2, TimeRange
<1>5. a.multiplier \in Nat /\ a.attempt \in Nat
  BY <1>2, TimeAssumption
<1> QED
  BY <1>3, <1>4, <1>5

\* A repeat that does not overflow is due after a whole number of intervals between two sums.
LEMMA IntervalBetween ==
  ASSUME NEW a \in TimeAsks, a.kind = "repeat", a.progressive,
         NEW least, least = TimeGeometric(a.multiplier \div TimeUnit, a.attempt),
         NEW most, most = TimeGeometric((a.multiplier + TimeUnit - 1) \div TimeUnit, a.attempt),
         most <= TimeWhole, a.interval * most <= TimeMax,
         NEW d \in TimeIntervals(a)
  PROVE  d \in {a.interval * k : k \in least .. most}
<1>0. TimeUnit \in Nat \ {0} /\ TimeMax \in Nat /\ TimeInts = TimeMin .. TimeMax /\ TimeMin \in Int /\ TimeMin <= 0
  BY TimeAssumption, TimeRange
<1>1. a.interval \in Nat \ {0} /\ a.multiplier \in Nat /\ a.attempt \in Nat
  BY RepeatPositive, TimeRange
<1>2. a.multiplier \div TimeUnit \in Nat /\ (a.multiplier + TimeUnit - 1) \div TimeUnit \in Nat
  BY <1>0, <1>1, DivNat, DivAbove
<1>3. /\ WholeFactor(a.multiplier \div TimeUnit, a.attempt) = least /\ least \in Nat \ {0}
      /\ WholeFactor((a.multiplier + TimeUnit - 1) \div TimeUnit, a.attempt) = most /\ most \in Nat \ {0}
  BY <1>1, <1>2, FactorIsGeometric
<1>4. PICK n \in TimeFactors(a.multiplier, a.attempt) :
        \E f \in TimeConvert(n) : d = TimeWrap(a.interval * f)
  BY DEF TimeIntervals
<1>5. n \in Nat /\ least * TimeUnit <= n /\ n <= most * TimeUnit
  BY <1>1, <1>3, FactorsKeep
<1> DEFINE k == n \div TimeUnit
<1>6. k \in least .. most
  <2>1. k \in Nat /\ k * TimeUnit <= n /\ n < (k + 1) * TimeUnit
    BY <1>0, <1>5, DivNat
  <2>2. /\ k * TimeUnit \in Nat /\ (k + 1) * TimeUnit \in Nat
        /\ least * TimeUnit \in Nat /\ most * TimeUnit \in Nat
    BY <1>0, <1>3, <2>1
  <2> HIDE DEF k
  <2>3. ~ (k + 1 <= least)
    <3> SUFFICES ASSUME k + 1 <= least PROVE FALSE
      OBVIOUS
    <3>1. (k + 1) * TimeUnit <= least * TimeUnit
      BY <1>0, <1>3, <2>1, ProductBelow
    <3> QED
      BY <1>5, <2>1, <2>2, <3>1
  <2>4. ~ (most < k)
    <3> SUFFICES ASSUME most < k PROVE FALSE
      OBVIOUS
    <3>1. most * TimeUnit < k * TimeUnit
      BY <1>0, <1>3, <2>1, ProductLess
    <3> QED
      BY <1>5, <2>1, <2>2, <3>1
  <2> QED
    BY <1>3, <2>1, <2>3, <2>4
<1>7. TimeConvert(n) = IF k <= TimeMax THEN {k} ELSE {TimeMin, TimeMax}
  BY DEF TimeConvert
<1> HIDE DEF k
<1>8. k \in Nat \ {0} /\ k <= most
  BY <1>3, <1>6
<1>9. /\ a.interval * k \in Nat \ {0} /\ k <= a.interval * k
      /\ a.interval * k <= a.interval * most /\ a.interval * most \in Nat
  BY <1>1, <1>3, <1>8, TimesAtLeast, TimesMore
<1>10. k <= TimeMax
  BY <1>0, <1>8, <1>9
<1>11. d = TimeWrap(a.interval * k)
  BY <1>4, <1>7, <1>10
<1>12. TimeWrap(a.interval * k) = a.interval * k
  <2>1. a.interval * k \in TimeInts
    BY <1>0, <1>9
  <2> QED
    BY <1>9, <2>1, WrapFits
<1> QED
  BY <1>6, <1>11, <1>12

TimeAnswerOK == timeAsk \in TimeAsks /\ TimeLookbackExact /\ TimeWaitBounded /\ TimeRepeatDue

LEMMA InitTimes == TimeInit => TimeAnswerOK
  BY DEF TimeInit, TimeAnswerOK, TimeLookbackExact, TimeWaitBounded, TimeRepeatDue

LEMMA StepTimes == TimeAnswerOK /\ [TimeSteps]_timeVars => TimeAnswerOK'
<1> SUFFICES ASSUME TimeAnswerOK, [TimeSteps]_timeVars
             PROVE  TimeAnswerOK'
  OBVIOUS
<1>1. timeAsk' = timeAsk /\ timeAsk' \in TimeAsks
  BY DEF TimeAnswerOK, TimeSteps, TimeRepeat, TimeWait, TimeLookback, timeVars
<1>2. CASE UNCHANGED timeVars
  BY <1>2 DEF timeVars, TimeAnswerOK, TimeLookbackExact, TimeWaitBounded, TimeRepeatDue
<1>3. CASE TimeRepeat
  <2>1. timeAsk.kind = "repeat"
    BY <1>3 DEF TimeRepeat
  <2>2. PICK interval \in TimeIntervals(timeAsk) :
          timeAnswer' = {IF timeAsk.after > 0 THEN timeAsk.after ELSE interval}
    BY <1>3 DEF TimeRepeat
  <2>3. timeAsk \in TimeAsks /\ timeAsk.interval \in 1 .. TimeMax /\ timeAsk.after \in 0 .. TimeMax
    BY <2>1, RepeatPositive DEF TimeAnswerOK
  <2>4. timeAsk.after > 0 => timeAnswer' \subseteq 1 .. TimeMax
    BY <2>2, <2>3
  <2>5. ~ (timeAsk.after > 0) /\ ~ timeAsk.progressive => timeAnswer' \subseteq 1 .. TimeMax
    BY <2>2, <2>3 DEF TimeIntervals
  <2> DEFINE least == TimeGeometric(timeAsk.multiplier \div TimeUnit, timeAsk.attempt)
             most == TimeGeometric((timeAsk.multiplier + TimeUnit - 1) \div TimeUnit, timeAsk.attempt)
  <2>6. ASSUME ~ (timeAsk.after > 0), timeAsk.progressive, most <= TimeWhole, timeAsk.interval * most <= TimeMax
        PROVE  timeAnswer' \subseteq {timeAsk.interval * k : k \in least .. most}
    <3>1. interval \in {timeAsk.interval * k : k \in least .. most}
      BY <2>1, <2>2, <2>3, <2>6, IntervalBetween
    <3> QED
      BY <2>2, <2>6, <3>1
  <2>7. TimeRepeatDue'
    BY <1>1, <2>4, <2>5, <2>6 DEF TimeRepeatDue
  <2> QED
    BY <1>1, <2>1, <2>7 DEF TimeAnswerOK, TimeLookbackExact, TimeWaitBounded, TimeRepeatDue
<1>4. CASE TimeLookback
  <2>1. timeAsk.kind = "lookback" /\ timeAsk.seconds \in TimeInts
    BY <1>4 DEF TimeLookback, TimeAnswerOK, TimeAsks
  <2>2. /\ timeAsk.seconds \in Int /\ TimeSecond \in Int
        /\ timeAsk.seconds * TimeSecond \in Int
    BY <2>1, TimeRange, TimesSign
  <2>3. timeAnswer' = {IF timeAsk.seconds * TimeSecond \in 1 .. TimeMax
                       THEN timeAsk.seconds * TimeSecond ELSE TimeRefused}
    <3>1. timeAnswer' = {IF timeAsk.seconds <= 0 \/ TimeTooLarge(timeAsk.seconds)
                         THEN TimeRefused ELSE TimeWrap(timeAsk.seconds * TimeSecond)}
      BY <1>4 DEF TimeLookback
    <3>2. timeAsk.seconds * TimeSecond \in 1 .. TimeMax =>
            TimeWrap(timeAsk.seconds * TimeSecond) = timeAsk.seconds * TimeSecond
      BY <2>2, TimeRange, WrapFits
    <3> QED
      BY <2>1, <3>1, <3>2, LookbackExact
  <2> QED
    BY <1>1, <2>1, <2>3 DEF TimeAnswerOK, TimeLookbackExact, TimeWaitBounded, TimeRepeatDue
<1>5. CASE TimeWait
  <2>1. /\ timeAsk.kind = "wait"
        /\ timeAsk.perMessage \in Nat /\ timeAsk.declared \in Nat /\ timeAsk.slack \in Nat
        /\ timeAsk.max \in Nat /\ timeAsk.count \in Nat
    <3>1. timeAsk.kind = "wait"
      BY <1>5 DEF TimeWait
    <3>2. timeAsk \in [kind : {"wait"}, perMessage : TimeDurations \union {0},
                       declared : TimeDurations \union {0}, slack : {1, TimeSecond},
                       max : TimeDurations, count : TimeCounts]
      BY <3>1 DEF TimeAnswerOK, TimeAsks
    <3>3. TimeDurations \subseteq Nat /\ TimeDurations \union {0} \subseteq Nat
      BY TimeRange DEF TimeDurations
    <3>4. /\ timeAsk.perMessage \in TimeDurations \union {0}
          /\ timeAsk.declared \in TimeDurations \union {0}
          /\ timeAsk.slack \in {1, TimeSecond}
          /\ timeAsk.max \in TimeDurations /\ timeAsk.count \in TimeCounts
      BY <3>2
    <3>5. TimeSecond \in Nat /\ TimeCounts \subseteq Nat
      BY TimeAssumption
    <3>6. timeAsk.perMessage \in Nat
      BY <3>3, <3>4
    <3>7. timeAsk.declared \in Nat
      BY <3>3, <3>4
    <3>8. timeAsk.max \in Nat
      BY <3>3, <3>4
    <3>9. timeAsk.slack \in Nat
      BY <3>4, <3>5
    <3>10. timeAsk.count \in Nat
      BY <3>4, <3>5
    <3> QED
      BY <3>1, <3>6, <3>7, <3>8, <3>9, <3>10
  <2> DEFINE each == IF timeAsk.declared > 0 THEN timeAsk.declared
                     ELSE TimeOr(timeAsk.perMessage)
  <2>2. /\ each \in Nat \ {0} /\ TimeOr(timeAsk.slack) \in Nat \ {0}
        /\ TimeOr(timeAsk.max) \in Nat \ {0}
    BY <2>1, TimeRange DEF TimeOr
  <2>3. each * (timeAsk.count + 1) + TimeOr(timeAsk.slack) <= TimeMax
          => timeAnswer' \subseteq 1 .. TimeOr(timeAsk.max)
    <3> SUFFICES ASSUME each * (timeAsk.count + 1) + TimeOr(timeAsk.slack) <= TimeMax
                 PROVE  timeAnswer' \subseteq 1 .. TimeOr(timeAsk.max)
      OBVIOUS
    <3> DEFINE n == IF timeAsk.count < 1 THEN 1 ELSE timeAsk.count
               timeout == TimeWrap(TimeWrap(each * n) + TimeOr(timeAsk.slack))
               max == TimeOr(timeAsk.max)
    <3>1. timeAnswer' = {IF timeout > max THEN max ELSE timeout}
      BY <1>5 DEF TimeWait
    <3> HIDE DEF each
    <3>2. (IF timeout > max THEN max ELSE timeout) \in 1 .. max
      BY <2>1, <2>2, WaitBounded
    <3> QED
      BY <3>1, <3>2
  <2> QED
    BY <1>1, <2>1, <2>3 DEF TimeAnswerOK, TimeLookbackExact, TimeWaitBounded, TimeRepeatDue
<1> QED
  BY <1>2, <1>3, <1>4, <1>5 DEF TimeSteps

\* An administrator's look-back is taken exactly or refused, a wait for a batch that does not
\* overflow is positive and at most Max, and a repeat whose sums are small enough for a float and
\* whose delay does not overflow is due after a whole number of intervals, between the sums
\* 1 + k + ... + k^(attempt-1) for the multiplier k rounded down and up: for integers and floats of
\* every width, every multiplier, whole or not, and every attempt (controlapi.go lookbackStart,
\* model/consume_limits.go BatchTimeout, model/repeat_strategy_progressive.go).
THEOREM TimesAreExact == TimeSpec => []TimesHold
<1>1. TimeAnswerOK => TimesHold
  BY DEF TimeAnswerOK, TimesHold
<1> QED
  BY <1>1, InitTimes, StepTimes, PTL DEF TimeSpec

(***************************************************************************)
(* RetryStats, for any rows, groups, errors, classes, times and changes.   *)
(*                                                                         *)
(* The answer for a group is computed in two sorts and a loop: the errors  *)
(* in order, merged one by one into their classes, and these in order.     *)
(* What a sort returns is an enumeration of its set, by the ranks of the   *)
(* elements; what the loop has after k errors is right for the rows of     *)
(* these k errors.  ClassesAreRight is what comes of it, for every set of  *)
(* rows; the theorem follows from it without the operators.                *)
(***************************************************************************)

\* Errors of a list differ, and what the list is sorted by are numbers.
StatSortable(S) ==
  /\ IsFiniteSet(S)
  /\ \A s \in S : s.count \in Nat /\ s.error \in Nat
  /\ \A s, t \in S : s.error = t.error => s = t

\* A list has everything of a set, once.
StatLists(list, S) ==
  /\ list \in Seq(S)
  /\ \A s \in S : \E k \in DOMAIN list : list[k] = s
  /\ \A j, k \in DOMAIN list : list[j] = list[k] => j = k

\* StatSort lists its set.
LEMMA SortLists ==
  ASSUME NEW S, StatSortable(S)
  PROVE  StatLists(StatSort(S), S) /\ Len(StatSort(S)) = Cardinality(S)
<1> DEFINE n == Cardinality(S)
           below(s) == {r \in S : StatBefore(r, s)}
           rank == [s \in S |-> Cardinality(below(s)) + 1]
<1>0. IsFiniteSet(S) /\ n \in Nat
  BY FS_CardinalityType DEF StatSortable
<1>1. ASSUME NEW s \in S
      PROVE  IsFiniteSet(below(s)) /\ Cardinality(below(s)) \in Nat /\ Cardinality(below(s)) < n
  <2>1. below(s) \subseteq S /\ s \notin below(s)
    BY DEF StatSortable, StatBefore
  <2>2. IsFiniteSet(below(s)) /\ Cardinality(below(s)) <= n /\ (n = Cardinality(below(s)) => S = below(s))
    BY <1>0, <2>1, FS_Subset
  <2>3. Cardinality(below(s)) \in Nat
    BY <2>2, FS_CardinalityType
  <2> QED
    BY <1>0, <2>1, <2>2, <2>3
<1>2. ASSUME NEW s \in S, NEW t \in S, StatBefore(s, t)
      PROVE  Cardinality(below(s)) < Cardinality(below(t))
  <2>1. \A r \in below(s) : StatBefore(r, t)
    BY <1>2 DEF StatSortable, StatBefore
  <2>2. below(s) \subseteq below(t) /\ s \in below(t) /\ s \notin below(s)
    BY <1>2, <2>1 DEF StatSortable, StatBefore
  <2>3. IsFiniteSet(below(t)) /\ Cardinality(below(s)) \in Nat /\ Cardinality(below(t)) \in Nat
    BY <1>1
  <2> HIDE DEF below
  <2>4. Cardinality(below(s)) <= Cardinality(below(t)) /\ (Cardinality(below(t)) = Cardinality(below(s)) => below(t) = below(s))
    BY <2>2, <2>3, FS_Subset
  <2> QED
    BY <2>2, <2>3, <2>4
<1>3. ASSUME NEW s \in S, NEW t \in S, s # t
      PROVE  StatBefore(s, t) \/ StatBefore(t, s)
  BY <1>3 DEF StatSortable, StatBefore
<1>r. \A s \in S : rank[s] = Cardinality(below(s)) + 1
  OBVIOUS
<1>4. rank \in Injection(S, 1 .. n)
  <2>1. rank \in [S -> 1 .. n]
    BY <1>0, <1>1
  <2>2. ASSUME NEW s \in S, NEW t \in S, rank[s] = rank[t] PROVE s = t
    <3>1. Cardinality(below(s)) \in Nat /\ Cardinality(below(t)) \in Nat
      BY <1>1
    <3> HIDE DEF rank, below
    <3>2. Cardinality(below(s)) = Cardinality(below(t))
      BY <1>r, <2>2, <3>1
    <3> QED
      BY <1>2, <1>3, <3>1, <3>2
  <2> HIDE DEF rank
  <2> QED
    BY <2>1, <2>2 DEF Injection, IsInjective
<1>5. \A k \in 1 .. n : \E s \in S : rank[s] = k
  <2>1. IsFiniteSet(1 .. n) /\ Cardinality(1 .. n) = n
    BY <1>0, FS_Interval
  <2>2. rank \in Surjection(S, 1 .. n)
    <3> HIDE DEF rank
    <3> QED
      BY <1>4, <2>1, FS_Injection
  <2> HIDE DEF rank
  <2> QED
    BY <2>2 DEF Surjection
<1> DEFINE list == StatSort(S)
<1>6. list = [k \in 1 .. n |-> CHOOSE s \in S : Cardinality(below(s)) = k - 1]
  BY DEF StatSort
<1>7. \A k \in 1 .. n : list[k] \in S /\ rank[list[k]] = k
  <2>1. \A k \in 1 .. n : \E s \in S : Cardinality(below(s)) = k - 1
    <3>1. \A s \in S : Cardinality(below(s)) \in Nat
      BY <1>1
    <3> HIDE DEF rank, below
    <3> QED
      BY <1>5, <1>r, <3>1
  <2> HIDE DEF list, below
  <2>2. \A k \in 1 .. n : list[k] \in S /\ Cardinality(below(list[k])) = k - 1
    BY <1>6, <2>1
  <2> QED
    BY <2>2
<1>8. \A s, t \in S : rank[s] = rank[t] => s = t
  <2> HIDE DEF rank
  <2> QED
    BY <1>4 DEF Injection, IsInjective
<1>9. \A s \in S : rank[s] \in 1 .. n
  <2> HIDE DEF rank
  <2> QED
    BY <1>4 DEF Injection
<1>10. list \in Seq(S) /\ DOMAIN list = 1 .. n /\ Len(list) = n
  <2>1. list \in [1 .. n -> S]
    <3> HIDE DEF rank
    <3> QED
      BY <1>6, <1>7
  <2> HIDE DEF list
  <2> QED
    BY <1>0, <2>1
<1> HIDE DEF rank, list, below
<1>11. \A s \in S : list[rank[s]] = s
  BY <1>7, <1>8, <1>9
<1> QED
  BY <1>0, <1>7, <1>9, <1>10, <1>11 DEF StatLists, list

\* The least and the greatest of a set of times.
LEMMA LeastTime ==
  ASSUME NEW S \in SUBSET Nat, S # {}
  PROVE  \E t \in S : \A u \in S : t <= u
<1> SUFFICES ASSUME \A t \in S : \E u \in S : u < t PROVE FALSE
  OBVIOUS
<1> DEFINE P == {k \in Nat : \A t \in S : t >= k}
<1>1. 0 \in P
  OBVIOUS
<1>2. ASSUME NEW k \in Nat, k \in P PROVE k + 1 \in P
  BY <1>2
<1>3. Nat \subseteq P
  <2> HIDE DEF P
  <2> QED
    BY <1>1, <1>2, Induction
<1>4. PICK t \in S : TRUE
  OBVIOUS
<1>5. t + 1 \in P
  BY <1>3
<1> QED
  BY <1>5

LEMMA GreatestTime ==
  ASSUME NEW n \in Nat, NEW S \in SUBSET (1 .. n), S # {}
  PROVE  \E t \in S : \A u \in S : u <= t
<1> DEFINE R == {n - t : t \in S}
<1>1. R \subseteq Nat /\ R # {}
  <2>1. \A t \in S : n - t \in Nat
    OBVIOUS
  <2>2. \A r \in R : \E t \in S : r = n - t
    OBVIOUS
  <2> QED
    BY <2>1, <2>2
<1>2. PICK r \in R : \A u \in R : r <= u
  <2> HIDE DEF R
  <2> QED
    BY <1>1, LeastTime
<1>3. PICK t \in S : r = n - t
  OBVIOUS
<1>4. \A u \in S : n - u \in R
  OBVIOUS
<1>5. \A u \in S : n - t <= n - u
  <2> HIDE DEF R
  <2> QED
    BY <1>2, <1>3, <1>4
<1> QED
  BY <1>5

LEMMA MinMaxTimes ==
  ASSUME NEW n \in Nat, NEW S \in SUBSET (1 .. n), S # {}
  PROVE  /\ Min(S) \in S /\ \A t \in S : Min(S) <= t
         /\ Max(S) \in S /\ \A t \in S : t <= Max(S)
<1>1. \E t \in S : \A u \in S : t <= u
  BY LeastTime
<1>2. \E t \in S : \A u \in S : t >= u
  BY GreatestTime
<1>3. Min(S) \in S /\ \A t \in S : Min(S) <= t
  BY <1>1 DEF Min
<1>4. Max(S) \in S /\ \A t \in S : Max(S) >= t
  BY <1>2 DEF Max
<1> QED
  BY <1>3, <1>4

\* The rows, and what the lists are made of.
StatRowAny == [group : StatGroups, state : {"pending", "deferred", "failed"}, error : StatErrors, at : 1 .. StatTime]

StatTableOK == statTable \in [DOMAIN statTable -> StatRowAny] /\ DOMAIN statTable \subseteq StatRows

StatStat == [error : StatErrors, sample : StatErrors, count : Nat, first : 1 .. StatTime, last : 1 .. StatTime]

\* An element of a list is right for some rows.
StatDescribes(table, s, rows) ==
  /\ rows # {} /\ s.count = Cardinality(rows)
  /\ \E i \in rows : s.first = table[i].at
  /\ \E j \in rows : s.last = table[j].at /\ s.sample = table[j].error
  /\ \A i \in rows : s.first <= table[i].at /\ table[i].at <= s.last

StatOfClass(table, rows, class) == {i \in rows : StatClass[table[i].error] = class}

\* A list of classes is right for some rows.
StatClassesOK(table, list, rows) ==
  /\ list \in Seq(StatStat)
  /\ \A p \in DOMAIN list : StatDescribes(table, list[p], StatOfClass(table, rows, list[p].error))
  /\ \A p, q \in DOMAIN list : list[p].error = list[q].error => p = q
  /\ \A i \in rows : \E p \in DOMAIN list : list[p].error = StatClass[table[i].error]

LEMMA StatRowsFinite ==
  ASSUME StatTableOK, NEW ids \in SUBSET DOMAIN statTable
  PROVE  IsFiniteSet(ids) /\ Cardinality(ids) \in Nat
<1>1. ids \subseteq StatRows /\ IsFiniteSet(StatRows)
  BY StatAssumption DEF StatTableOK
<1> QED
  BY <1>1, FS_Subset, FS_CardinalityType

\* The errors of some rows: each once, described by the rows that have it.
LEMMA ErrorsAreRight ==
  ASSUME StatTableOK, NEW ids \in SUBSET DOMAIN statTable
  PROVE  LET list == StatByError(ids)
         IN  /\ list \in Seq(StatStat)
             /\ \A k \in DOMAIN list : StatDescribes(statTable, list[k], {i \in ids : statTable[i].error = list[k].error})
             /\ \A j, k \in DOMAIN list : list[j].error = list[k].error => j = k
             /\ \A i \in ids : \E k \in DOMAIN list : list[k].error = statTable[i].error
<1> DEFINE of(e) == {i \in ids : statTable[i].error = e}
           stat(e) == [error |-> e, sample |-> e, count |-> Cardinality(of(e)),
                       first |-> Min(StatTimes(of(e))), last |-> Max(StatTimes(of(e)))]
           errors == {statTable[i].error : i \in ids}
           S == {stat(e) : e \in errors}
           list == StatByError(ids)
<1>1. errors \subseteq StatErrors
  BY DEF StatTableOK, StatRowAny
<1>2. ASSUME NEW e \in errors
      PROVE  stat(e) \in StatStat /\ stat(e).error = e /\ StatDescribes(statTable, stat(e), of(e))
  <2>1. of(e) # {} /\ of(e) \subseteq DOMAIN statTable
    OBVIOUS
  <2>2. StatTimes(of(e)) \subseteq 1 .. StatTime /\ StatTimes(of(e)) # {} /\ StatTime \in Nat
    BY <2>1, StatAssumption DEF StatTableOK, StatRowAny, StatTimes
  <2>3. Cardinality(of(e)) \in Nat
    BY StatRowsFinite
  <2> DEFINE times == StatTimes(of(e))
  <2>4. /\ Min(times) \in times /\ \A t \in times : Min(times) <= t
        /\ Max(times) \in times /\ \A t \in times : t <= Max(times)
    <3> HIDE DEF times
    <3> QED
      BY <2>2, MinMaxTimes DEF times
  <2>5. /\ stat(e).error = e /\ stat(e).sample = e /\ stat(e).count = Cardinality(of(e))
        /\ stat(e).first = Min(times) /\ stat(e).last = Max(times)
    OBVIOUS
  <2>6. stat(e) \in StatStat
    BY <1>1, <2>2, <2>3, <2>4 DEF StatStat
  <2>7. /\ \E i \in of(e) : Min(times) = statTable[i].at
        /\ \E j \in of(e) : Max(times) = statTable[j].at /\ e = statTable[j].error
        /\ \A i \in of(e) : Min(times) <= statTable[i].at /\ statTable[i].at <= Max(times)
    BY <2>4 DEF StatTimes
  <2> QED
    BY <2>1, <2>5, <2>6, <2>7 DEF StatDescribes
<1>3. IsFiniteSet(S)
  <2> DEFINE f == [i \in ids |-> stat(statTable[i].error)]
  <2>1. f \in Surjection(ids, S)
    <3>1. f \in [ids -> S]
      OBVIOUS
    <3>2. \A s \in S : \E i \in ids : f[i] = s
      OBVIOUS
    <3> HIDE DEF f, S
    <3> QED
      BY <3>1, <3>2 DEF Surjection
  <2> HIDE DEF f, S
  <2> QED
    BY <2>1, StatRowsFinite, FS_Surjection
<1>4. StatSortable(S)
  <2>1. \A s \in S : \E e \in errors : s = stat(e)
    OBVIOUS
  <2> HIDE DEF stat, S, errors
  <2>2. \A s \in S : s \in StatStat
    BY <1>2, <2>1
  <2>3. \A s, t \in S : s.error = t.error => s = t
    BY <1>2, <2>1
  <2> QED
    BY <1>3, <2>2, <2>3, StatAssumption DEF StatSortable, StatStat
<1>5. StatLists(list, S)
  <2>1. list = StatSort(S)
    BY DEF StatByError
  <2> HIDE DEF S, list
  <2> QED
    BY <1>4, <2>1, SortLists
<1>6. \A i \in ids : stat(statTable[i].error) \in S /\ statTable[i].error \in errors
  OBVIOUS
<1>7. \A s \in S : \E e \in errors : s = stat(e)
  OBVIOUS
<1> HIDE DEF stat, S, errors, list
<1>8. \A s \in S : s \in StatStat /\ s = stat(s.error) /\ StatDescribes(statTable, s, of(s.error))
  BY <1>2, <1>7
<1>9. list \in Seq(StatStat)
  <2>1. S \subseteq StatStat /\ list \in Seq(S)
    BY <1>5, <1>8 DEF StatLists
  <2> QED
    BY <2>1
<1>m. \A k \in DOMAIN list : list[k] \in S
  BY <1>5 DEF StatLists
<1>10. \A k \in DOMAIN list : StatDescribes(statTable, list[k], of(list[k].error))
  BY <1>8, <1>m
<1>11. \A j, k \in DOMAIN list : list[j].error = list[k].error => j = k
  <2>1. \A s, t \in S : s.error = t.error => s = t
    BY <1>8, Zenon
  <2>2. \A j, k \in DOMAIN list : list[j] = list[k] => j = k
    BY <1>5 DEF StatLists
  <2> QED
    BY <1>m, <2>1, <2>2
<1>12. \A i \in ids : \E k \in DOMAIN list : list[k].error = statTable[i].error
  <2>1. \A s \in S : \E k \in DOMAIN list : list[k] = s
    BY <1>5 DEF StatLists
  <2>2. \A i \in ids : stat(statTable[i].error).error = statTable[i].error
    BY <1>2, <1>6
  <2> QED
    BY <1>6, <2>1, <2>2
<1> QED
  BY <1>9, <1>10, <1>11, <1>12 DEF list

\* Two disjoint sets of rows that are described together.
LEMMA DescribesUnion ==
  ASSUME StatTableOK, NEW F \in SUBSET DOMAIN statTable, NEW G \in SUBSET DOMAIN statTable, F \intersect G = {},
         NEW s \in StatStat, StatDescribes(statTable, s, F), NEW t \in StatStat, StatDescribes(statTable, t, G),
         NEW u, u.count = s.count + t.count,
         u.first = Min({s.first, t.first}), u.last = Max({s.last, t.last}),
         u.sample = IF t.last > s.last THEN t.sample ELSE s.sample
  PROVE  StatDescribes(statTable, u, F \union G)
<1>1. Cardinality(F \union G) = Cardinality(F) + Cardinality(G)
  <2>1. IsFiniteSet(F) /\ IsFiniteSet(G) /\ Cardinality(F) \in Nat /\ Cardinality(G) \in Nat
    BY StatRowsFinite
  <2>2. Cardinality(F \union G) = Cardinality(F) + Cardinality(G) - Cardinality(F \intersect G)
    BY <2>1, FS_Union
  <2>3. Cardinality(F \intersect G) = 0
    BY FS_EmptySet
  <2> QED
    BY <2>1, <2>2, <2>3
<1>2. s.first \in Nat /\ s.last \in Nat /\ t.first \in Nat /\ t.last \in Nat
  BY StatAssumption DEF StatStat
<1>3. /\ u.first = IF s.first <= t.first THEN s.first ELSE t.first
      /\ u.last = IF t.last > s.last THEN t.last ELSE s.last
  <2>1. /\ {s.first, t.first} \subseteq 1 .. StatTime /\ {s.first, t.first} # {}
        /\ {s.last, t.last} \subseteq 1 .. StatTime /\ {s.last, t.last} # {} /\ StatTime \in Nat
    BY StatAssumption DEF StatStat
  <2>2. /\ u.first \in {s.first, t.first} /\ \A x \in {s.first, t.first} : u.first <= x
        /\ u.last \in {s.last, t.last} /\ \A x \in {s.last, t.last} : x <= u.last
    BY <2>1, MinMaxTimes
  <2> QED
    BY <1>2, <2>2
<1>4. \A i \in DOMAIN statTable : statTable[i].at \in Nat
  BY StatAssumption DEF StatTableOK, StatRowAny
<1>5. \E i \in F \union G : u.first = statTable[i].at
  BY <1>3 DEF StatDescribes
<1>6. \E j \in F \union G : u.last = statTable[j].at /\ u.sample = statTable[j].error
  BY <1>3 DEF StatDescribes
<1>7. \A i \in F \union G : u.first <= statTable[i].at /\ statTable[i].at <= u.last
  BY <1>2, <1>3, <1>4 DEF StatDescribes
<1> QED
  BY <1>1, <1>5, <1>6, <1>7 DEF StatDescribes

\* A list stays a list when an error is merged into it.
LEMMA MergeType ==
  ASSUME NEW list \in Seq(StatStat), NEW stat \in StatStat
  PROVE  StatMerge(list, stat) \in Seq(StatStat)
<1> DEFINE class == StatClass[stat.error]
           at == {k \in DOMAIN list : list[k].error = class}
           new == [stat EXCEPT !.error = class]
           both(k) == [list[k] EXCEPT !.count = @ + stat.count, !.first = Min({@, stat.first}),
                                      !.last = Max({@, stat.last}),
                                      !.sample = IF stat.last > list[k].last THEN stat.sample ELSE @]
<1>1. class \in StatErrors
  BY StatAssumption DEF StatStat
<1>2. new \in StatStat
  BY <1>1 DEF StatStat
<1>3. ASSUME NEW k \in DOMAIN list PROVE list[k] \in StatStat /\ both(k) \in StatStat
  <2>1. list[k] \in StatStat
    OBVIOUS
  <2>2. /\ {list[k].first, stat.first} \subseteq 1 .. StatTime /\ {list[k].first, stat.first} # {}
        /\ {list[k].last, stat.last} \subseteq 1 .. StatTime /\ {list[k].last, stat.last} # {} /\ StatTime \in Nat
    BY <2>1, StatAssumption DEF StatStat
  <2>3. Min({list[k].first, stat.first}) \in 1 .. StatTime /\ Max({list[k].last, stat.last}) \in 1 .. StatTime
    BY <2>2, MinMaxTimes
  <2>4. /\ list[k].count + stat.count \in Nat
        /\ (IF stat.last > list[k].last THEN stat.sample ELSE list[k].sample) \in StatErrors
        /\ list[k].error \in StatErrors
    BY <2>1 DEF StatStat
  <2> DEFINE l == list[k]
             count == l.count + stat.count
             first == Min({l.first, stat.first})
             last == Max({l.last, stat.last})
             sample == IF stat.last > l.last THEN stat.sample ELSE l.sample
  <2>5. both(k) = [l EXCEPT !.count = count, !.first = first, !.last = last, !.sample = sample]
    OBVIOUS
  <2>6. l \in StatStat /\ count \in Nat /\ first \in 1 .. StatTime /\ last \in 1 .. StatTime /\ sample \in StatErrors
    BY <2>1, <2>3, <2>4
  <2> HIDE DEF l, count, first, last, sample
  <2>7. [l EXCEPT !.count = count, !.first = first, !.last = last, !.sample = sample] \in StatStat
    BY <2>6 DEF StatStat
  <2> QED
    BY <2>1, <2>5, <2>7
<1>4. StatMerge(list, stat) = IF at = {} THEN Append(list, new)
                              ELSE [k \in DOMAIN list |-> IF k \notin at THEN list[k] ELSE both(k)]
  BY DEF StatMerge
<1> HIDE DEF at, new, both
<1>5. [k \in DOMAIN list |-> IF k \notin at THEN list[k] ELSE both(k)] \in Seq(StatStat)
  <2>1. DOMAIN list = 1 .. Len(list) /\ Len(list) \in Nat
    OBVIOUS
  <2>2. [k \in DOMAIN list |-> IF k \notin at THEN list[k] ELSE both(k)] \in [1 .. Len(list) -> StatStat]
    BY <1>3, <2>1
  <2> QED
    BY <2>1, <2>2
<1> QED
  BY <1>2, <1>4, <1>5

\* One more error, merged into its class, keeps a list of classes right.
LEMMA MergeOne ==
  ASSUME StatTableOK, NEW done \in SUBSET DOMAIN statTable, NEW more \in SUBSET DOMAIN statTable,
         done \intersect more = {}, NEW list, StatClassesOK(statTable, list, done),
         NEW stat \in StatStat, StatDescribes(statTable, stat, more), \A i \in more : statTable[i].error = stat.error
  PROVE  StatClassesOK(statTable, StatMerge(list, stat), done \union more)
<1> DEFINE class == StatClass[stat.error]
           at == {k \in DOMAIN list : list[k].error = class}
           new == [stat EXCEPT !.error = class]
           both(k) == [list[k] EXCEPT !.count = @ + stat.count, !.first = Min({@, stat.first}),
                                      !.last = Max({@, stat.last}),
                                      !.sample = IF stat.last > list[k].last THEN stat.sample ELSE @]
           merged == StatMerge(list, stat)
           rows == done \union more
<1>0. list \in Seq(StatStat) /\ DOMAIN list = 1 .. Len(list) /\ Len(list) \in Nat
  BY DEF StatClassesOK
<1>1. merged \in Seq(StatStat)
  BY <1>0, MergeType
<1>2. merged = IF at = {} THEN Append(list, new)
               ELSE [k \in DOMAIN list |-> IF k \notin at THEN list[k] ELSE both(k)]
  BY DEF StatMerge
<1>3. StatOfClass(statTable, more, class) = more /\ \A c : c # class => StatOfClass(statTable, more, c) = {}
  BY DEF StatOfClass
<1>4. \A c : StatOfClass(statTable, rows, c) = StatOfClass(statTable, done, c) \union StatOfClass(statTable, more, c)
  BY DEF StatOfClass
<1>5. ASSUME NEW p \in DOMAIN list, p \notin at
      PROVE  StatDescribes(statTable, list[p], StatOfClass(statTable, rows, list[p].error))
  <2>1. StatOfClass(statTable, rows, list[p].error) = StatOfClass(statTable, done, list[p].error)
    BY <1>3, <1>4, <1>5
  <2> QED
    BY <2>1 DEF StatClassesOK
<1>6. CASE at = {}
  <2>1. merged = Append(list, new) /\ DOMAIN merged = 1 .. Len(list) + 1
        /\ merged[Len(list) + 1] = new /\ \A k \in DOMAIN list : merged[k] = list[k]
    BY <1>0, <1>2, <1>6
  <2>2. new.error = class /\ new.count = stat.count /\ new.first = stat.first
        /\ new.last = stat.last /\ new.sample = stat.sample
    BY DEF StatStat
  <2>3. StatOfClass(statTable, rows, class) = more
    <3>1. StatOfClass(statTable, done, class) = {}
      BY <1>6 DEF StatClassesOK, StatOfClass
    <3> QED
      BY <1>3, <1>4, <3>1
  <2>4. StatDescribes(statTable, new, StatOfClass(statTable, rows, new.error))
    BY <2>2, <2>3 DEF StatDescribes
  <2> HIDE DEF new, merged, rows
  <2>5. \A p \in DOMAIN merged : StatDescribes(statTable, merged[p], StatOfClass(statTable, rows, merged[p].error))
    BY <1>0, <1>5, <1>6, <2>1, <2>4
  <2>6. \A p, q \in DOMAIN merged : merged[p].error = merged[q].error => p = q
    <3>1. \A p \in DOMAIN list : merged[p].error # class
      BY <1>6, <2>1
    <3>2. \A p, q \in DOMAIN list : list[p].error = list[q].error => p = q
      BY DEF StatClassesOK
    <3> QED
      BY <1>0, <2>1, <2>2, <3>1, <3>2
  <2>7. ASSUME NEW i \in rows PROVE \E p \in DOMAIN merged : merged[p].error = StatClass[statTable[i].error]
    <3>1. CASE i \in done
      <4>1. PICK p \in DOMAIN list : list[p].error = StatClass[statTable[i].error]
        BY <3>1 DEF StatClassesOK
      <4> QED
        BY <1>0, <2>1, <4>1
    <3>2. CASE i \in more
      <4>1. Len(list) + 1 \in DOMAIN merged /\ merged[Len(list) + 1].error = StatClass[statTable[i].error]
        BY <1>0, <2>1, <2>2, <3>2
      <4> QED
        BY <4>1
    <3> QED
      BY <3>1, <3>2 DEF rows
  <2> QED
    BY <1>1, <2>5, <2>6, <2>7 DEF StatClassesOK, rows, merged
<1>7. CASE at # {}
  <2>1. DOMAIN merged = DOMAIN list /\ \A k \in DOMAIN list : merged[k] = IF k \notin at THEN list[k] ELSE both(k)
    BY <1>2, <1>7
  <2>2. \A k \in DOMAIN list : list[k] \in StatStat
    BY <1>0
  <2>3. ASSUME NEW k \in DOMAIN list
        PROVE  /\ both(k).error = list[k].error /\ both(k).count = list[k].count + stat.count
               /\ both(k).first = Min({list[k].first, stat.first}) /\ both(k).last = Max({list[k].last, stat.last})
               /\ both(k).sample = IF stat.last > list[k].last THEN stat.sample ELSE list[k].sample
    BY <2>2 DEF StatStat
  <2>4. ASSUME NEW k \in at PROVE StatDescribes(statTable, both(k), StatOfClass(statTable, rows, list[k].error))
    <3>1. list[k].error = class /\ k \in DOMAIN list /\ list[k] \in StatStat
      BY <2>2
    <3>2. StatDescribes(statTable, list[k], StatOfClass(statTable, done, class))
      BY <3>1 DEF StatClassesOK
    <3>3. StatOfClass(statTable, done, class) \subseteq done
      BY DEF StatOfClass
    <3>4. StatOfClass(statTable, rows, class) = StatOfClass(statTable, done, class) \union more
      BY <1>3, <1>4
    <3>5. StatOfClass(statTable, done, class) \intersect more = {} /\ StatOfClass(statTable, done, class) \subseteq DOMAIN statTable
      BY <3>3
    <3>6. /\ both(k).count = list[k].count + stat.count
          /\ both(k).first = Min({list[k].first, stat.first}) /\ both(k).last = Max({list[k].last, stat.last})
          /\ both(k).sample = IF stat.last > list[k].last THEN stat.sample ELSE list[k].sample
      BY <2>3, <3>1
    <3> HIDE DEF both, at, class
    <3>7. StatDescribes(statTable, both(k), StatOfClass(statTable, done, class) \union more)
      BY <3>1, <3>2, <3>5, <3>6, DescribesUnion
    <3> QED
      BY <3>1, <3>4, <3>7
  <2>5. \A k \in DOMAIN list : merged[k].error = list[k].error
    BY <2>1, <2>3
  <2> HIDE DEF both, merged, rows
  <2>6. \A p \in DOMAIN merged : StatDescribes(statTable, merged[p], StatOfClass(statTable, rows, merged[p].error))
    BY <1>5, <2>1, <2>4, <2>5
  <2>7. \A p, q \in DOMAIN merged : merged[p].error = merged[q].error => p = q
    BY <2>1, <2>5 DEF StatClassesOK
  <2>8. ASSUME NEW i \in rows PROVE \E p \in DOMAIN merged : merged[p].error = StatClass[statTable[i].error]
    <3>1. \E p \in DOMAIN list : list[p].error = StatClass[statTable[i].error]
      BY <1>7 DEF StatClassesOK, rows
    <3> QED
      BY <2>1, <2>5, <3>1
  <2> QED
    BY <1>1, <2>6, <2>7, <2>8 DEF StatClassesOK, rows, merged
<1> QED
  BY <1>6, <1>7

\* The loop over a list of errors, step by step.
LEMMA MergeAllSteps ==
  ASSUME NEW stats \in Seq(StatStat)
  PROVE  \E f : /\ f[0] = <<>>
                /\ \A k \in 1 .. Len(stats) : f[k] = StatMerge(f[k - 1], stats[k])
                /\ StatMergeAll(stats) = f[Len(stats)]
<1> DEFINE n == Len(stats)
           V == Seq(StatStat)
           Is(f) == f = [k \in 0 .. n |-> IF k = 0 THEN <<>> ELSE StatMerge(f[k - 1], stats[k])]
           merged == CHOOSE f : Is(f)
           step == [k \in Nat |-> [v \in V |-> IF k + 1 \in 1 .. n THEN StatMerge(v, stats[k + 1]) ELSE v]]
<1>0. n \in Nat /\ \A k \in 1 .. n : stats[k] \in StatStat
  OBVIOUS
<1>1. \E f : Is(f)
  <2>1. step \in [Nat -> [V -> V]]
    <3>1. \A k \in Nat : \A v \in V : (IF k + 1 \in 1 .. n THEN StatMerge(v, stats[k + 1]) ELSE v) \in V
      BY <1>0, MergeType
    <3> HIDE DEF V, n
    <3> QED
      BY <3>1
  <2>2. <<>> \in V
    OBVIOUS
  <2>s. \A k \in Nat : \A v \in V : k < n => step[k][v] = StatMerge(v, stats[k + 1])
    BY <1>0
  <2> HIDE DEF step, V, n
  <2>3. PICK f \in [Nat -> V] : f[0] = <<>> /\ \A k \in Nat : f[k + 1] = step[k][f[k]]
    <3>1. \A W : \A a \in W : \A s \in [Nat -> [W -> W]] :
            \E f \in [Nat -> W] : f[0] = a /\ \A k \in Nat : f[k + 1] = s[k][f[k]]
      BY RecursionAll, Zenon
    <3> DEFINE Has(W, a, s) == \E f \in [Nat -> W] : f[0] = a /\ \A k \in Nat : f[k + 1] = s[k][f[k]]
    <3>2. \A W : \A a \in W : \A s \in [Nat -> [W -> W]] : Has(W, a, s)
      BY <3>1, Zenon
    <3> HIDE DEF Has
    <3>3. Has(V, <<>>, step)
      BY <2>1, <2>2, <3>2, Zenon
    <3> QED
      BY <3>3, Zenon DEF Has
  <2> DEFINE g == [k \in 0 .. n |-> f[k]]
  <2>4. ASSUME NEW k \in 0 .. n PROVE g[k] = IF k = 0 THEN <<>> ELSE StatMerge(g[k - 1], stats[k])
    <3>1. CASE k = 0
      BY <2>3, <3>1
    <3>2. CASE k # 0
      <4>1. k - 1 \in Nat /\ k - 1 < n /\ (k - 1) + 1 = k /\ f[k - 1] \in V /\ k - 1 \in 0 .. n
        BY <1>0, <3>2
      <4>2. f[k] = step[k - 1][f[k - 1]]
        BY <2>3, <4>1
      <4>3. step[k - 1][f[k - 1]] = StatMerge(f[k - 1], stats[k])
        BY <2>s, <4>1
      <4> QED
        BY <3>2, <4>1, <4>2, <4>3
    <3> QED
      BY <3>1, <3>2
  <2>5. g = [k \in 0 .. n |-> g[k]]
    OBVIOUS
  <2> HIDE DEF g
  <2>6. Is(g)
    BY <2>4, <2>5
  <2> QED
    BY <2>6
<1>2. Is(merged)
  BY <1>1
<1>3. StatMergeAll(stats) = merged[n]
  BY DEF StatMergeAll
<1> HIDE DEF merged
<1>4. merged[0] = <<>> /\ \A k \in 1 .. n : merged[k] = StatMerge(merged[k - 1], stats[k])
  BY <1>0, <1>2
<1> QED
  BY <1>3, <1>4

\* What the loop returns is right.
LEMMA MergedAreRight ==
  ASSUME StatTableOK, NEW ids \in SUBSET DOMAIN statTable
  PROVE  StatClassesOK(statTable, StatMergeAll(StatByError(ids)), ids)
<1> DEFINE stats == StatByError(ids)
           n == Len(stats)
           of(k) == {i \in ids : statTable[i].error = stats[k].error}
           done(k) == {i \in ids : \E j \in 1 .. k : statTable[i].error = stats[j].error}
<1>1. /\ stats \in Seq(StatStat)
      /\ \A k \in DOMAIN stats : StatDescribes(statTable, stats[k], of(k))
      /\ \A j, k \in DOMAIN stats : stats[j].error = stats[k].error => j = k
      /\ \A i \in ids : \E k \in DOMAIN stats : stats[k].error = statTable[i].error
  BY ErrorsAreRight
<1> HIDE DEF stats
<1>2. n \in Nat /\ DOMAIN stats = 1 .. n /\ \A k \in 1 .. n : stats[k] \in StatStat
  BY <1>1
<1>3. PICK f : /\ f[0] = <<>>
               /\ \A k \in 1 .. n : f[k] = StatMerge(f[k - 1], stats[k])
               /\ StatMergeAll(stats) = f[n]
  BY <1>1, MergeAllSteps
<1> HIDE DEF n
<1> DEFINE S == {k \in Nat : k <= n => StatClassesOK(statTable, f[k], done(k))}
<1>4. 0 \in S
  <2>1. done(0) = {}
    OBVIOUS
  <2>2. StatClassesOK(statTable, <<>>, {})
    BY DEF StatClassesOK
  <2> QED
    BY <1>3, <2>1, <2>2
<1>5. ASSUME NEW k \in Nat, k \in S PROVE k + 1 \in S
  <2> SUFFICES ASSUME k + 1 <= n PROVE StatClassesOK(statTable, f[k + 1], done(k + 1))
    OBVIOUS
  <2>1. StatClassesOK(statTable, f[k], done(k)) /\ k + 1 \in 1 .. n /\ k \in Nat /\ (k + 1) - 1 = k
    <3>1. k <= n /\ k + 1 \in 1 .. n /\ (k + 1) - 1 = k
      BY <1>2
    <3>2. k <= n => StatClassesOK(statTable, f[k], done(k))
      <4> HIDE DEF done
      <4> QED
        BY <1>5
    <3> QED
      BY <3>1, <3>2
  <2>2. f[k + 1] = StatMerge(f[k], stats[k + 1])
    BY <1>3, <2>1
  <2>3. done(k + 1) = done(k) \union of(k + 1)
    <3>1. \A j : j \in 1 .. k + 1 <=> j \in 1 .. k \/ j = k + 1
      OBVIOUS
    <3> QED
      BY <3>1
  <2>4. done(k) \intersect of(k + 1) = {}
    <3>1. ASSUME NEW j \in 1 .. k PROVE stats[j].error # stats[k + 1].error
      <4>1. j \in 1 .. n /\ j # k + 1
        BY <1>2, <2>1
      <4> QED
        BY <1>1, <1>2, <2>1, <4>1
    <3> QED
      BY <3>1
  <2>5. /\ done(k) \subseteq DOMAIN statTable /\ of(k + 1) \subseteq DOMAIN statTable
        /\ \A i \in of(k + 1) : statTable[i].error = stats[k + 1].error
        /\ stats[k + 1] \in StatStat /\ StatDescribes(statTable, stats[k + 1], of(k + 1))
    BY <1>1, <1>2, <2>1
  <2> HIDE DEF done, of
  <2> QED
    BY <2>1, <2>2, <2>3, <2>4, <2>5, MergeOne
<1>6. Nat \subseteq S
  <2> HIDE DEF S
  <2> QED
    BY <1>4, <1>5, Induction
<1>7. StatClassesOK(statTable, f[n], done(n))
  <2>1. n \in S /\ n <= n
    <3> HIDE DEF S
    <3> QED
      BY <1>2, <1>6
  <2> HIDE DEF done
  <2> QED
    BY <2>1
<1>8. done(n) = ids
  BY <1>1, <1>2
<1> QED
  BY <1>3, <1>7, <1>8 DEF stats

\* The classes of any rows, as they are answered.
LEMMA ClassesAreRight ==
  ASSUME StatTableOK, NEW ids \in SUBSET DOMAIN statTable
  PROVE  StatClassesOK(statTable, StatByClass(ids), ids)
<1> DEFINE m == StatMergeAll(StatByError(ids))
           S == ToSet(m)
           list == StatByClass(ids)
<1>1. StatClassesOK(statTable, m, ids)
  BY MergedAreRight
<1> HIDE DEF m
<1>2. m \in Seq(StatStat) /\ DOMAIN m = 1 .. Len(m) /\ Len(m) \in Nat
  BY <1>1 DEF StatClassesOK
<1>3. \A s : s \in S <=> \E p \in DOMAIN m : m[p] = s
  BY <1>2 DEF ToSet
<1>4. IsFiniteSet(S)
  <2>1. m \in [1 .. Len(m) -> S]
    BY <1>2, <1>3
  <2> HIDE DEF S
  <2>2. m \in Surjection(1 .. Len(m), S)
    BY <1>2, <1>3, <2>1 DEF Surjection
  <2>3. IsFiniteSet(1 .. Len(m))
    BY <1>2, FS_Interval
  <2> QED
    BY <2>2, <2>3, FS_Surjection
<1> HIDE DEF S
<1>5. \A s \in S : s \in StatStat /\ StatDescribes(statTable, s, StatOfClass(statTable, ids, s.error))
  BY <1>1, <1>2, <1>3 DEF StatClassesOK
<1>6. \A s, t \in S : s.error = t.error => s = t
  <2> SUFFICES ASSUME NEW s \in S, NEW t \in S, s.error = t.error PROVE s = t
    OBVIOUS
  <2>1. PICK p \in DOMAIN m : m[p] = s
    BY <1>3
  <2>2. PICK q \in DOMAIN m : m[q] = t
    BY <1>3
  <2>3. p = q
    BY <1>1, <2>1, <2>2 DEF StatClassesOK
  <2> QED
    BY <2>1, <2>2, <2>3
<1>7. StatLists(list, S)
  <2>1. list = StatSort(S)
    BY DEF StatByClass, S, m
  <2>2. StatSortable(S)
    BY <1>4, <1>5, <1>6, StatAssumption DEF StatSortable, StatStat
  <2> QED
    BY <2>1, <2>2, SortLists
<1> HIDE DEF list
<1>8. list \in Seq(S) /\ S \subseteq StatStat /\ \A p \in DOMAIN list : list[p] \in S
  BY <1>5, <1>7 DEF StatLists
<1>9. list \in Seq(StatStat)
  BY <1>8
<1>10. \A p \in DOMAIN list : StatDescribes(statTable, list[p], StatOfClass(statTable, ids, list[p].error))
  BY <1>5, <1>8
<1>11. \A p, q \in DOMAIN list : list[p].error = list[q].error => p = q
  <2>1. \A p, q \in DOMAIN list : list[p] = list[q] => p = q
    BY <1>7 DEF StatLists
  <2> QED
    BY <1>6, <1>8, <2>1
<1>12. ASSUME NEW i \in ids PROVE \E p \in DOMAIN list : list[p].error = StatClass[statTable[i].error]
  <2>1. PICK p \in DOMAIN m : m[p].error = StatClass[statTable[i].error]
    BY <1>1 DEF StatClassesOK
  <2>2. m[p] \in S
    BY <1>3
  <2>3. PICK k \in DOMAIN list : list[k] = m[p]
    BY <1>7, <2>2 DEF StatLists
  <2> QED
    BY <2>1, <2>3
<1> QED
  BY <1>9, <1>10, <1>11, <1>12 DEF StatClassesOK, list

\* The sum of the counts, step by step.
LEMMA TotalSteps ==
  ASSUME NEW list \in Seq(StatStat)
  PROVE  \E f : /\ f[0] = 0
                /\ \A k \in 1 .. Len(list) : f[k] = f[k - 1] + list[k].count
                /\ StatTotal(list) = f[Len(list)]
<1> DEFINE n == Len(list)
           Is(f) == f = [k \in 0 .. n |-> IF k = 0 THEN 0 ELSE f[k - 1] + list[k].count]
           total == CHOOSE f : Is(f)
           step == [k \in Nat |-> [v \in Nat |-> IF k + 1 \in 1 .. n THEN v + list[k + 1].count ELSE v]]
<1>0. n \in Nat /\ \A k \in 1 .. n : list[k].count \in Nat
  <2>1. n \in Nat /\ \A k \in 1 .. n : list[k] \in StatStat
    OBVIOUS
  <2> QED
    BY <2>1 DEF StatStat
<1>1. \E f : Is(f)
  <2>1. step \in [Nat -> [Nat -> Nat]]
    <3>1. \A k, v \in Nat : (IF k + 1 \in 1 .. n THEN v + list[k + 1].count ELSE v) \in Nat
      BY <1>0
    <3> HIDE DEF n
    <3> QED
      BY <3>1
  <2>s. \A k, v \in Nat : k < n => step[k][v] = v + list[k + 1].count
    BY <1>0
  <2> HIDE DEF step, n
  <2>2. PICK f \in [Nat -> Nat] : f[0] = 0 /\ \A k \in Nat : f[k + 1] = step[k][f[k]]
    <3>1. 0 \in Nat
      OBVIOUS
    <3>2. \E f \in [Nat -> Nat] : f[0] = 0 /\ \A k \in Nat : f[k + 1] = step[k][f[k]]
      BY <2>1, <3>1, RecursionNat
    <3> QED
      BY <3>2
  <2> DEFINE g == [k \in 0 .. n |-> f[k]]
  <2>4. ASSUME NEW k \in 0 .. n PROVE g[k] = IF k = 0 THEN 0 ELSE g[k - 1] + list[k].count
    <3>1. CASE k = 0
      BY <2>2, <3>1
    <3>2. CASE k # 0
      <4>1. k - 1 \in Nat /\ k - 1 < n /\ (k - 1) + 1 = k /\ f[k - 1] \in Nat /\ k - 1 \in 0 .. n
        BY <1>0, <3>2
      <4>2. f[k] = step[k - 1][f[k - 1]]
        BY <2>2, <4>1
      <4>3. step[k - 1][f[k - 1]] = f[k - 1] + list[k].count
        BY <2>s, <4>1
      <4> QED
        BY <3>2, <4>1, <4>2, <4>3
    <3> QED
      BY <3>1, <3>2
  <2>5. g = [k \in 0 .. n |-> g[k]]
    OBVIOUS
  <2> HIDE DEF g
  <2>6. Is(g)
    BY <2>4, <2>5
  <2> QED
    BY <2>6
<1>2. Is(total)
  BY <1>1
<1>3. StatTotal(list) = total[n]
  BY DEF StatTotal
<1> HIDE DEF total
<1>4. total[0] = 0 /\ \A k \in 1 .. n : total[k] = total[k - 1] + list[k].count
  BY <1>0, <1>2
<1> QED
  BY <1>3, <1>4

\* The counts of the classes add up to the rows.
LEMMA TotalIsAll ==
  ASSUME StatTableOK, NEW ids \in SUBSET DOMAIN statTable, NEW list, StatClassesOK(statTable, list, ids)
  PROVE  StatTotal(list) = Cardinality(ids)
<1> DEFINE n == Len(list)
           of(k) == StatOfClass(statTable, ids, list[k].error)
           done(k) == {i \in ids : \E j \in 1 .. k : StatClass[statTable[i].error] = list[j].error}
<1>1. list \in Seq(StatStat) /\ n \in Nat /\ DOMAIN list = 1 .. n
  BY DEF StatClassesOK
<1>2. PICK f : /\ f[0] = 0
               /\ \A k \in 1 .. n : f[k] = f[k - 1] + list[k].count
               /\ StatTotal(list) = f[n]
  BY <1>1, TotalSteps
<1>3. \A k \in 1 .. n : list[k].count = Cardinality(of(k))
  BY <1>1 DEF StatClassesOK, StatDescribes
<1> DEFINE S == {k \in Nat : k <= n => f[k] = Cardinality(done(k))}
<1> HIDE DEF n
<1>4. 0 \in S
  <2>1. done(0) = {}
    OBVIOUS
  <2> QED
    BY <1>2, <2>1, FS_EmptySet
<1>5. ASSUME NEW k \in Nat, k \in S PROVE k + 1 \in S
  <2> SUFFICES ASSUME k + 1 <= n PROVE f[k + 1] = Cardinality(done(k + 1))
    OBVIOUS
  <2>1. f[k] = Cardinality(done(k)) /\ k + 1 \in 1 .. n /\ (k + 1) - 1 = k
    <3>1. k <= n /\ k + 1 \in 1 .. n /\ (k + 1) - 1 = k
      BY <1>1
    <3>2. k <= n => f[k] = Cardinality(done(k))
      <4> HIDE DEF done
      <4> QED
        BY <1>5
    <3> QED
      BY <3>1, <3>2
  <2>2. f[k + 1] = Cardinality(done(k)) + Cardinality(of(k + 1))
    BY <1>2, <1>3, <2>1
  <2>3. done(k + 1) = done(k) \union of(k + 1)
    <3>1. \A j : j \in 1 .. k + 1 <=> j \in 1 .. k \/ j = k + 1
      OBVIOUS
    <3> QED
      BY <3>1 DEF StatOfClass
  <2>4. done(k) \intersect of(k + 1) = {}
    <3>1. ASSUME NEW j \in 1 .. k PROVE list[j].error # list[k + 1].error
      <4>1. j \in DOMAIN list /\ k + 1 \in DOMAIN list /\ j # k + 1
        BY <1>1, <2>1
      <4> QED
        BY <4>1 DEF StatClassesOK
    <3> QED
      BY <3>1 DEF StatOfClass
  <2>5. IsFiniteSet(done(k)) /\ IsFiniteSet(of(k + 1))
        /\ Cardinality(done(k)) \in Nat /\ Cardinality(of(k + 1)) \in Nat
    <3>1. done(k) \subseteq DOMAIN statTable /\ of(k + 1) \subseteq DOMAIN statTable
      BY DEF StatOfClass
    <3> HIDE DEF done, of
    <3> QED
      BY <3>1, StatRowsFinite
  <2> HIDE DEF done, of
  <2>6. Cardinality(done(k + 1)) = Cardinality(done(k)) + Cardinality(of(k + 1)) - Cardinality(done(k) \intersect of(k + 1))
    BY <2>3, <2>5, FS_Union
  <2>7. Cardinality(done(k) \intersect of(k + 1)) = 0
    BY <2>4, FS_EmptySet
  <2> QED
    BY <2>2, <2>5, <2>6, <2>7
<1>6. Nat \subseteq S
  <2> HIDE DEF S
  <2> QED
    BY <1>4, <1>5, Induction
<1>7. f[n] = Cardinality(done(n))
  <2>1. n \in S /\ n <= n
    <3> HIDE DEF S
    <3> QED
      BY <1>1, <1>6
  <2> HIDE DEF done
  <2> QED
    BY <2>1
<1>8. done(n) = ids
  BY <1>1 DEF StatClassesOK
<1> QED
  BY <1>2, <1>7, <1>8

\* The failed rows of a group.
StatFailed(table, g) == {i \in DOMAIN table : table[i].group = g /\ table[i].state = "failed"}

LEMMA FailedRows ==
  ASSUME NEW g
  PROVE  /\ StatOf(StatIn(g), "failed") = StatFailed(statTable, g)
         /\ StatFailed(statTable, g) \subseteq DOMAIN statTable
BY DEF StatOf, StatIn, StatFailed

\* What is so of the readers between their requests.  The classes of the page are those of the
\* table as long as nothing moves, and that their counts add up is so whatever moves.
StatInv ==
  /\ StatTableOK
  /\ statWindow \in (1 .. StatTime) \X (2 .. StatTime + 1)
  /\ statStep \in {"triage", "queue", "page", "delete", "end"}
  /\ statStep # "end" => statGone = <<>>
  /\ statStep \in {"delete", "end"} => \A g \in DOMAIN statPage : statPage[g].failed = StatTotal(statPage[g].errors)
  /\ statStep = "delete" /\ statMoves = {} =>
       \A g \in DOMAIN statPage : StatClassesOK(statTable, statPage[g].errors, StatFailed(statTable, g))
  /\ StatsAgree

\* The answer to redbus-triage.
LEMMA TriageStats ==
  ASSUME StatInv, StatGetTriage
  PROVE  StatTriageCounts(statTriage', statTable, statWindow)
<1> DEFINE window == {i \in StatOf(DOMAIN statTable, "failed") : statTable[i].at \in statWindow[1] .. statWindow[2] - 1}
           rows(g) == window \intersect StatIn(g)
           triage == statTriage'
           failed(g, c) == {i \in DOMAIN statTable :
              /\ statTable[i].group = g /\ statTable[i].state = "failed" /\ StatClass[statTable[i].error] = c
              /\ statWindow[1] <= statTable[i].at /\ statTable[i].at < statWindow[2]}
           listed(g, c) == IF g \in DOMAIN triage THEN {k \in DOMAIN triage[g] : triage[g][k].error = c} ELSE {}
           right(g, c) ==
             /\ Cardinality(listed(g, c)) = 1
             /\ \A k \in listed(g, c) : \E i, j \in failed(g, c) :
                  /\ triage[g][k].count = Cardinality(failed(g, c))
                  /\ triage[g][k].first = statTable[i].at
                  /\ triage[g][k].last = statTable[j].at /\ triage[g][k].sample = statTable[j].error
                  /\ \A l \in failed(g, c) : statTable[i].at <= statTable[l].at /\ statTable[l].at <= statTable[j].at
<1>1. StatTableOK /\ triage = [g \in {statTable[i].group : i \in window} |-> StatByClass(rows(g))]
  BY DEF StatInv, StatGetTriage
<1> HIDE DEF triage
<1>2. ASSUME NEW g, NEW c PROVE failed(g, c) = StatOfClass(statTable, rows(g), c)
  <2>1. statWindow[1] \in Int /\ statWindow[2] \in Int
    BY StatAssumption DEF StatInv
  <2>2. \A i \in DOMAIN statTable : statTable[i].at \in Int
    BY <1>1, StatAssumption DEF StatTableOK, StatRowAny
  <2> QED
    BY <1>1, <2>1, <2>2 DEF StatOfClass, StatOf, StatIn
<1>3. ASSUME NEW g PROVE rows(g) \subseteq DOMAIN statTable
  BY DEF StatIn
<1>4. ASSUME NEW g, g \notin DOMAIN triage PROVE rows(g) = {}
  BY <1>1, <1>4 DEF StatIn
<1>5. ASSUME NEW g \in DOMAIN triage PROVE StatClassesOK(statTable, triage[g], rows(g))
  <2>1. triage[g] = StatByClass(rows(g))
    BY <1>1
  <2> HIDE DEF rows
  <2> QED
    BY <1>1, <1>3, <2>1, ClassesAreRight
<1> HIDE DEF rows, window
<1>6. ASSUME NEW g, NEW c, failed(g, c) = {} PROVE listed(g, c) = {}
  BY <1>2, <1>5, <1>6 DEF StatClassesOK, StatDescribes
<1>7. ASSUME NEW g, NEW c, failed(g, c) # {} PROVE right(g, c)
  <2>1. failed(g, c) = StatOfClass(statTable, rows(g), c)
    BY <1>2
  <2>2. PICK i \in rows(g) : StatClass[statTable[i].error] = c
    BY <1>7, <2>1 DEF StatOfClass
  <2>3. g \in DOMAIN triage /\ StatClassesOK(statTable, triage[g], rows(g))
    BY <1>4, <1>5, <2>2
  <2>4. PICK p \in DOMAIN triage[g] : triage[g][p].error = c
    BY <2>2, <2>3 DEF StatClassesOK
  <2>5. listed(g, c) = {p}
    BY <2>3, <2>4 DEF StatClassesOK
  <2> HIDE DEF failed, listed
  <2>6. StatDescribes(statTable, triage[g][p], failed(g, c))
    <3>1. StatDescribes(statTable, triage[g][p], StatOfClass(statTable, rows(g), triage[g][p].error))
      BY <2>3, <2>4 DEF StatClassesOK
    <3> QED
      BY <2>1, <2>4, <3>1
  <2>7. Cardinality({p}) = 1
    BY FS_Singleton
  <2>8. \A k \in listed(g, c) : k = p
    BY <2>5
  <2>9. \E i1, j1 \in failed(g, c) :
          /\ triage[g][p].count = Cardinality(failed(g, c))
          /\ triage[g][p].first = statTable[i1].at
          /\ triage[g][p].last = statTable[j1].at /\ triage[g][p].sample = statTable[j1].error
          /\ \A l \in failed(g, c) : statTable[i1].at <= statTable[l].at /\ statTable[l].at <= statTable[j1].at
    BY <2>6 DEF StatDescribes
  <2> QED
    BY <2>5, <2>7, <2>8, <2>9
<1>8. \A g, c : IF failed(g, c) = {} THEN listed(g, c) = {} ELSE right(g, c)
  <2> HIDE DEF failed, listed, right
  <2> QED
    BY <1>6, <1>7
<1> QED
  BY <1>8, Zenon DEF StatTriageCounts, triage

LEMMA InitStats == StatInit => StatInv
<1> SUFFICES ASSUME StatInit PROVE StatInv
  OBVIOUS
<1>1. StatTableOK
  <2>1. PICK ids \in SUBSET StatRows : statTable \in [ids -> StatRow]
    BY DEF StatInit
  <2>2. StatRow \subseteq StatRowAny
    BY DEF StatRow, StatRowAny
  <2> QED
    BY <2>1, <2>2 DEF StatTableOK
<1>2. statWindow \in (1 .. StatTime) \X (2 .. StatTime + 1) /\ statStep = "triage" /\ statGone = <<>>
  BY DEF StatInit
<1>3. StatsAgree
  BY <1>2, Zenon DEF StatsAgree, StatTriageIsRight, StatDeletesWhatIsShown
<1> QED
  BY <1>1, <1>2, <1>3 DEF StatInv

LEMMA MoveStats ==
  ASSUME StatInv, NEW i \in StatRows, NEW e \in StatErrors, StatMove(i, e)
  PROVE  StatInv'
<1>1. statStep \in {"queue", "delete"} /\ i \in DOMAIN statTable /\ statMoves' = statMoves \union {i}
      /\ UNCHANGED <<statStep, statWindow, statTriage, statBefore, statQueue, statPage, statGone>>
  BY DEF StatMove
<1>2. StatTableOK'
  <2>1. statTable[i] \in StatRowAny /\ statTable \in [DOMAIN statTable -> StatRowAny] /\ DOMAIN statTable \subseteq StatRows
    BY <1>1 DEF StatInv, StatTableOK
  <2> DEFINE r == statTable[i]
             q == IF r.state = "failed" THEN [r EXCEPT !.state = "pending"]
                  ELSE [r EXCEPT !.state = "failed", !.error = e, !.at = StatTime]
  <2>2. q \in StatRowAny
    <3>1. StatTime \in 1 .. StatTime
      BY <2>1, StatAssumption DEF StatRowAny
    <3> QED
      BY <2>1, <3>1 DEF StatRowAny
  <2>3. statTable' = [statTable EXCEPT ![i] = q]
    BY DEF StatMove
  <2> HIDE DEF q
  <2>4. DOMAIN statTable' = DOMAIN statTable /\ statTable' \in [DOMAIN statTable -> StatRowAny]
    BY <1>1, <2>1, <2>2, <2>3
  <2> QED
    BY <2>1, <2>4 DEF StatTableOK
<1>3. statGone = <<>> /\ statGone' = <<>> /\ statMoves' # {}
  BY <1>1 DEF StatInv
<1>4. StatsAgree'
  <2>1. StatTriageIsRight'
    BY <1>1 DEF StatInv, StatsAgree, StatTriageIsRight
  <2>2. StatDeletesWhatIsShown'
    BY <1>3 DEF StatDeletesWhatIsShown
  <2> QED
    BY <2>1, <2>2 DEF StatsAgree
<1>5. \A g \in DOMAIN statPage' : statStep' \in {"delete", "end"} => statPage'[g].failed = StatTotal(statPage'[g].errors)
  BY <1>1 DEF StatInv
<1> QED
  BY <1>1, <1>2, <1>3, <1>4, <1>5 DEF StatInv

LEMMA GetTriageStats ==
  ASSUME StatInv, StatGetTriage
  PROVE  StatInv'
<1>1. statStep = "triage" /\ statStep' = "queue" /\ statBefore' = statTable /\ UNCHANGED <<statTable, statWindow, statGone>>
  BY DEF StatGetTriage
<1>2. statGone' = <<>>
  BY <1>1 DEF StatInv
<1>3. StatTableOK'
  BY <1>1 DEF StatInv, StatTableOK
<1>4. StatsAgree'
  <2>1. StatTriageIsRight'
    BY <1>1, TriageStats DEF StatTriageIsRight
  <2>2. StatDeletesWhatIsShown'
    BY <1>2 DEF StatDeletesWhatIsShown
  <2> QED
    BY <2>1, <2>2 DEF StatsAgree
<1> QED
  BY <1>1, <1>2, <1>3, <1>4 DEF StatInv

LEMMA GetQueueStats ==
  ASSUME StatInv, StatGetQueue
  PROVE  StatInv'
<1>1. /\ statStep = "queue" /\ statStep' = "page"
      /\ UNCHANGED <<statTable, statWindow, statTriage, statBefore, statPage, statGone>>
  BY DEF StatGetQueue
<1>2. statGone' = <<>>
  BY <1>1 DEF StatInv
<1>3. StatTableOK'
  BY <1>1 DEF StatInv, StatTableOK
<1>4. StatsAgree'
  <2>1. StatTriageIsRight'
    BY <1>1 DEF StatInv, StatsAgree, StatTriageIsRight
  <2>2. StatDeletesWhatIsShown'
    BY <1>2 DEF StatDeletesWhatIsShown
  <2> QED
    BY <2>1, <2>2 DEF StatsAgree
<1> QED
  BY <1>1, <1>2, <1>3, <1>4 DEF StatInv

LEMMA GetPageStats ==
  ASSUME StatInv, StatGetPage
  PROVE  StatInv'
<1>1. /\ statStep = "page" /\ statStep' = "delete"
      /\ statPage' = [g \in StatPresent |-> StatItem(g)]
      /\ UNCHANGED <<statTable, statWindow, statTriage, statBefore, statGone>>
  BY DEF StatGetPage
<1>2. statGone' = <<>>
  BY <1>1 DEF StatInv
<1>3. StatTableOK /\ StatTableOK'
  BY <1>1 DEF StatInv, StatTableOK
<1>4. StatsAgree'
  <2>1. StatTriageIsRight'
    BY <1>1 DEF StatInv, StatsAgree, StatTriageIsRight
  <2>2. StatDeletesWhatIsShown'
    BY <1>2 DEF StatDeletesWhatIsShown
  <2> QED
    BY <2>1, <2>2 DEF StatsAgree
<1>5. ASSUME NEW g \in DOMAIN statPage'
      PROVE  /\ statPage'[g].failed = StatTotal(statPage'[g].errors)
             /\ StatClassesOK(statTable, statPage'[g].errors, StatFailed(statTable, g))
  <2> DEFINE failed == StatFailed(statTable, g)
  <2>1. statPage'[g] = StatItem(g)
    BY <1>1
  <2>2. StatItem(g).failed = Cardinality(failed) /\ StatItem(g).errors = StatByClass(failed)
    BY FailedRows DEF StatItem
  <2>3. failed \subseteq DOMAIN statTable
    BY FailedRows
  <2> HIDE DEF failed
  <2>4. StatClassesOK(statTable, StatByClass(failed), failed)
    BY <1>3, <2>3, ClassesAreRight
  <2>5. StatTotal(StatByClass(failed)) = Cardinality(failed)
    BY <1>3, <2>3, <2>4, TotalIsAll
  <2> QED
    BY <2>1, <2>2, <2>4, <2>5 DEF failed
<1> QED
  BY <1>1, <1>2, <1>3, <1>4, <1>5 DEF StatInv

\* The delete finds the rows that the page has counted, unless they have changed.
LEMMA DeleteStats ==
  ASSUME StatInv, NEW g \in DOMAIN statPage, NEW k \in DOMAIN statPage[g].errors, StatDelete(g, k)
  PROVE  StatInv'
<1> DEFINE class == StatClass[statPage[g].errors[k].error]
           failed == StatFailed(statTable, g)
           gone == {i \in failed : StatClass[statTable[i].error] = class}
<1>1. /\ statStep = "delete" /\ statStep' = "end"
      /\ statTable' = [i \in DOMAIN statTable \ gone |-> statTable[i]]
      /\ statGone' = <<g, k, Cardinality(gone)>>
      /\ UNCHANGED <<statWindow, statTriage, statBefore, statQueue, statPage, statMoves, statAll>>
  BY FailedRows DEF StatDelete
<1>2. StatTableOK /\ StatTableOK'
  <2>1. StatTableOK
    BY DEF StatInv
  <2> HIDE DEF gone
  <2> QED
    BY <1>1, <2>1 DEF StatTableOK
<1>3. \A h \in DOMAIN statPage' : statPage'[h].failed = StatTotal(statPage'[h].errors)
  BY <1>1 DEF StatInv
<1> DEFINE s == statPage[g].errors[k]
<1>4. statMoves = {} /\ StatClass[s.error] = s.error => Cardinality(gone) = s.count
  <2> SUFFICES ASSUME statMoves = {}, StatClass[s.error] = s.error PROVE Cardinality(gone) = s.count
    OBVIOUS
  <2>1. StatDescribes(statTable, s, StatOfClass(statTable, failed, s.error))
    BY <1>1 DEF StatInv, StatClassesOK
  <2>2. gone = StatOfClass(statTable, failed, s.error)
    BY DEF StatOfClass
  <2> QED
    BY <2>1, <2>2 DEF StatDescribes
<1>5. StatsAgree'
  <2>1. StatTriageIsRight'
    BY <1>1 DEF StatInv, StatsAgree, StatTriageIsRight
  <2>2. StatDeletesWhatIsShown'
    <3>1. statGone'[1] = g /\ statGone'[2] = k /\ statGone'[3] = Cardinality(gone)
      BY <1>1
    <3> HIDE DEF gone
    <3>2. StatClass[s.error] = s.error => StatDeletesTheCount'
      BY <1>1, <1>4, <3>1 DEF StatDeletesTheCount
    <3> QED
      BY <1>1, <1>3, <3>1, <3>2 DEF StatDeletesWhatIsShown
  <2> QED
    BY <2>1, <2>2 DEF StatsAgree
<1> QED
  BY <1>1, <1>2, <1>3, <1>5 DEF StatInv

LEMMA StepStats == StatInv /\ [StatSteps]_statVars => StatInv'
<1> SUFFICES ASSUME StatInv, [StatSteps]_statVars PROVE StatInv'
  OBVIOUS
<1>1. ASSUME NEW i \in StatRows, NEW e \in StatErrors, StatMove(i, e) PROVE StatInv'
  BY <1>1, MoveStats
<1>2. CASE StatGetTriage
  BY <1>2, GetTriageStats
<1>3. CASE StatGetQueue
  BY <1>3, GetQueueStats
<1>4. CASE StatGetPage
  BY <1>4, GetPageStats
<1>5. ASSUME NEW g \in DOMAIN statPage, NEW k \in DOMAIN statPage[g].errors, StatDelete(g, k) PROVE StatInv'
  BY <1>5, DeleteStats
<1>6. CASE UNCHANGED statVars
  BY <1>6 DEF statVars, StatInv, StatTableOK, StatsAgree, StatTriageIsRight, StatDeletesWhatIsShown, StatDeletesTheCount
<1> QED
  BY <1>1, <1>2, <1>3, <1>4, <1>5, <1>6 DEF StatSteps

\* Whatever rows there are, redbus-triage counts every failure of its window in exactly one class
\* with its first and last time and a sample of the last, the counts of a group's classes on the
\* page add up to its failures, and a delete of a class deletes what the page has counted if the
\* class is its own class, which ErrorClass does not give every class.
THEOREM PeopleSeeWhatIs == StatSpec => []StatsAgree
<1>1. StatInv => StatsAgree
  BY DEF StatInv
<1> QED
  BY <1>1, InitStats, StepStats, PTL DEF StatSpec

=============================================================================
