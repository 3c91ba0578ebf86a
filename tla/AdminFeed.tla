------------------------------ MODULE AdminFeed ------------------------------
(***************************************************************************)
(* The live dashboard of the admin process: a poller asks the bus for its  *)
(* counts while anyone watches and publishes what has changed              *)
(* (adminapp/app.go, evtsrc/evtsrc.go), the event stream passes it on      *)
(* (adminapi/handlers.go), and a page also loads the counts by a request   *)
(* of its own whenever its event stream opens (adminapi/dashboardStat.go,  *)
(* web: DashboardStats, useServerEvents).                                  *)
(*                                                                         *)
(* The events of the consumers and of the repeat queue are independent of  *)
(* each other and handled alike: the model has one of the two.  Browser    *)
(* and event-stream library are external.                                  *)
(***************************************************************************)
EXTENDS Naturals, FiniteSets

CONSTANTS
  FeedWatchers, \* open dashboards
  FeedNames,    \* counts of one kind of event: failed and deferred of EventRepeater
  FeedChanges,  \* bound: changes of the counts
  FeedStreams   \* bound: event streams that are opened

ASSUME FeedAssumption == FeedChanges \in Nat /\ FeedStreams \in Nat

VARIABLES
  feedState,   \* count -> its value on the bus
  feedVersion, \* number of changes so far
  feedPrev,    \* {previous}, or {} while the poller is not initialized
  feedPoll,    \* {answer of the bus}, or {} while no poll is going on
  feedEvents,  \* events whose goroutine has not sent them yet
  feedOpen,    \* watchers with an event stream
  feedStreams, \* streams opened so far
  feedAsked,   \* watchers whose request has not been answered yet
  feedLoads,   \* watcher -> answers on their way to the page
  feedScreen,  \* watcher -> count -> value shown
  feedNewest,  \* watcher -> newest version shown or missed so far
  feedOdd      \* watchers with a known reason to be out of date; see FeedAgrees

feedBusVars == <<feedState, feedVersion>>
feedPollVars == <<feedPrev, feedPoll>>
feedPageVars == <<feedScreen, feedNewest, feedOdd>>
feedVars == <<feedBusVars, feedPollVars, feedEvents, feedOpen, feedStreams, feedAsked, feedLoads, feedPageVars>>

FeedNow == [counts |-> feedState, version |-> feedVersion]

FeedInit ==
  /\ feedState = [n \in FeedNames |-> 0] /\ feedVersion = 0
  /\ feedPrev = {} /\ feedPoll = {} /\ feedEvents = {}
  /\ feedOpen = {} /\ feedStreams = 0 /\ feedAsked = {}
  /\ feedLoads = [w \in FeedWatchers |-> {}]
  /\ feedScreen = [w \in FeedWatchers |-> feedState]
  /\ feedNewest = [w \in FeedWatchers |-> 0]
  /\ feedOdd = {}

-----------------------------------------------------------------------------

\* Consumers come and go, messages fail, are deferred or leave the queue.
FeedChange(n) ==
  /\ feedVersion < FeedChanges
  /\ feedState' = [feedState EXCEPT ![n] = 1 - @]
  /\ feedVersion' = feedVersion + 1
  /\ UNCHANGED <<feedPollVars, feedEvents, feedOpen, feedStreams, feedAsked, feedLoads, feedPageVars>>

\* poll without watchers forgets what was published.
FeedPollNobody ==
  /\ feedPoll = {} /\ feedOpen = {}
  /\ feedPrev' = {}
  /\ UNCHANGED <<feedBusVars, feedPoll, feedEvents, feedOpen, feedStreams, feedAsked, feedLoads, feedPageVars>>

\* GetStateSnapshot is answered by the bus ...
FeedPollRead ==
  /\ feedPoll = {} /\ feedOpen # {}
  /\ feedPoll' = {FeedNow}
  /\ UNCHANGED <<feedBusVars, feedPrev, feedEvents, feedOpen, feedStreams, feedAsked, feedLoads, feedPageVars>>

\* ... or fails, and the previous counts stay.
FeedPollFails ==
  /\ feedPoll # {}
  /\ feedPoll' = {}
  /\ UNCHANGED <<feedBusVars, feedPrev, feedEvents, feedOpen, feedStreams, feedAsked, feedLoads, feedPageVars>>

\* Mutant: a change of one of the counts is no change.
FeedDiffersLess(old, new) == \E n \in FeedNames \ {"deferred"} : old[n] # new[n]

\* Counts that differ from the previous ones are published, by a goroutine of their own.
FeedDiffers(old, new) == old # new

FeedPublish ==
  /\ \E new \in feedPoll :
       /\ feedEvents' = IF feedPrev = {} \/ \E old \in feedPrev : FeedDiffers(old, new.counts)
                        THEN feedEvents \union {new} ELSE feedEvents
       /\ feedPrev' = {new.counts}
  /\ feedPoll' = {}
  /\ UNCHANGED <<feedBusVars, feedOpen, feedStreams, feedAsked, feedLoads, feedPageVars>>

-----------------------------------------------------------------------------
(* The pages.                                                              *)

\* The counts of new appear on the screens of W.
FeedApply(W, new, odd) ==
  /\ feedScreen' = [w \in FeedWatchers |-> IF w \in W THEN new.counts ELSE feedScreen[w]]
  /\ LET older == {w \in W : new.version < feedNewest[w]}
     IN  /\ feedNewest' = [w \in FeedWatchers |-> IF w \in W \ older THEN new.version ELSE feedNewest[w]]
         /\ feedOdd' = (feedOdd \ W) \union older \union odd

\* A goroutine sends its event to everyone whose stream is open; useServerEvents shows it.
FeedSend(e) ==
  /\ e \in feedEvents
  /\ feedEvents' = feedEvents \ {e}
  /\ FeedApply(feedOpen, e, {})
  /\ UNCHANGED <<feedBusVars, feedPollVars, feedOpen, feedStreams, feedAsked, feedLoads>>

\* onOpen: the page loads the counts, again when its stream was interrupted.
FeedOpens(w) ==
  /\ w \notin feedOpen /\ feedStreams < FeedStreams
  /\ feedOpen' = feedOpen \union {w} /\ feedStreams' = feedStreams + 1
  /\ feedAsked' = feedAsked \union {w}
  /\ UNCHANGED <<feedBusVars, feedPollVars, feedEvents, feedLoads, feedPageVars>>

FeedCloses(w) ==
  /\ w \in feedOpen
  /\ feedOpen' = feedOpen \ {w}
  /\ UNCHANGED <<feedBusVars, feedPollVars, feedEvents, feedStreams, feedAsked, feedLoads, feedPageVars>>

\* dashboardStatHandler: between says that the poller does not know these counts; should they
\* change back before the next poll, no event will say so.
FeedLoad(w) ==
  /\ w \in feedAsked
  /\ feedAsked' = feedAsked \ {w}
  /\ LET known == feedPrev \union {p.counts : p \in feedPoll}
     IN  feedLoads' = [feedLoads EXCEPT ![w] = @ \union {[now |-> FeedNow, between |-> known \ {feedState} # {}]}]
  /\ UNCHANGED <<feedBusVars, feedPollVars, feedEvents, feedOpen, feedStreams, feedPageVars>>

FeedLoaded(w, answer) ==
  /\ answer \in feedLoads[w]
  /\ feedLoads' = [feedLoads EXCEPT ![w] = @ \ {answer}]
  /\ FeedApply({w}, answer.now, IF answer.between THEN {w} ELSE {})
  /\ UNCHANGED <<feedBusVars, feedPollVars, feedEvents, feedOpen, feedStreams, feedAsked>>

\* A request fails: the page says so and keeps what it shows.
FeedLoadFails(w) ==
  /\ w \in feedAsked
  /\ feedAsked' = feedAsked \ {w}
  /\ feedOdd' = feedOdd \union {w}
  /\ feedNewest' = [feedNewest EXCEPT ![w] = feedVersion]
  /\ UNCHANGED <<feedBusVars, feedPollVars, feedEvents, feedOpen, feedStreams, feedLoads, feedScreen>>

FeedSteps ==
  \/ \E n \in FeedNames : FeedChange(n)
  \/ FeedPollNobody \/ FeedPollRead \/ FeedPollFails \/ FeedPublish
  \/ \E e \in feedEvents : FeedSend(e)
  \/ \E w \in FeedWatchers :
       \/ FeedOpens(w) \/ FeedCloses(w) \/ FeedLoad(w) \/ FeedLoadFails(w)
       \/ \E answer \in feedLoads[w] : FeedLoaded(w, answer)

FeedSpec == FeedInit /\ [][FeedSteps]_feedVars

-----------------------------------------------------------------------------

\* getStatPoller: when the poller has caught up with the bus and nothing is on its way to a page,
\* the page shows what the bus counts.  The exceptions are the three ways in which this code
\* leaves a page out of date until the counts change again: an event overtaken by a newer one
\* (each event has a goroutine of its own), an answer overtaken by an event, and an answer from
\* between two polls; and a request that failed, which the page reports.
FeedAgrees ==
  \A w \in feedOpen \ feedAsked :
    feedPrev = {feedState} /\ feedEvents = {} /\ feedLoads[w] = {} /\ w \notin feedOdd
      => feedScreen[w] = feedState

=============================================================================
