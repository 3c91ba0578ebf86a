------------------------------- MODULE MCParts -------------------------------
(***************************************************************************)
(* Small parts of the system that have nothing to do with each other, in   *)
(* one run: the first state chooses a part, and only that part moves.      *)
(***************************************************************************)
EXTENDS LokiSink, Producers, GroupOffsets, AdminFeed, AppRun, RetryStats, RetryTimes

VARIABLE part \* the part that moves

PartsVars == <<part, lokiVars, prodVars, offVars, feedVars, appVars, statVars, timeVars>>

MCLevel == [l \in LokiLines |-> l]
\* 1: 'order_5fe8a3b2c1', 3: 'order_<N>fe8a3b2c1', its class, and 2: 'order_<N><HEX>', that of 3.
MCClass == <<3, 2, 2>>

\* Floats of five bits, in sixteenths.
MCFloats == {k * 2 ^ e : k \in 16 .. 31, e \in 0 .. 10}

\* A part that does not move has one initial state.
PartsInit ==
  /\ part \in {"loki", "producers", "offsets", "feed", "app", "stats", "times"}
  /\ LokiInit /\ (part # "loki" => lokiMinLevel = 0)
  /\ ProdInit
  /\ OffInit /\ (part # "offsets" =>
       /\ offEnd[1] = -1 /\ \A p \in OffPartitions : offMember[p] = OffNone /\ offCommitted[p] = -1
       /\ \A c \in OffConsumers : offState[c] = "connected")
  /\ FeedInit
  /\ AppInit /\ (part # "app" => appMetrics /\ appGuarded)
  /\ IF part = "stats" THEN StatInit
     ELSE /\ statTable = StatNone /\ statStep = "triage" /\ statWindow = <<1, 2>>
          /\ statTriage = StatNone /\ statBefore = StatNone /\ statQueue = <<>> /\ statPage = StatNone
          /\ statGone = <<>> /\ statMoves = {} /\ statAll = {}
  /\ IF part = "times" THEN TimeInit
     ELSE timeAsk = [kind |-> "lookback", seconds |-> 1] /\ timeAnswer = {}

\* Every part but the chosen one stays as it is.
PartsNext ==
  /\ UNCHANGED part
  /\ \/ /\ part = "loki" /\ LokiSteps
        /\ UNCHANGED <<prodVars, offVars, feedVars, appVars, statVars, timeVars>>
     \/ /\ part = "producers" /\ ProdSteps
        /\ UNCHANGED <<lokiVars, offVars, feedVars, appVars, statVars, timeVars>>
     \/ /\ part = "offsets" /\ OffSteps
        /\ UNCHANGED <<lokiVars, prodVars, feedVars, appVars, statVars, timeVars>>
     \/ /\ part = "feed" /\ FeedSteps
        /\ UNCHANGED <<lokiVars, prodVars, offVars, appVars, statVars, timeVars>>
     \/ /\ part = "app" /\ AppSteps
        /\ UNCHANGED <<lokiVars, prodVars, offVars, feedVars, statVars, timeVars>>
     \/ /\ part = "stats" /\ StatSteps
        /\ UNCHANGED <<lokiVars, prodVars, offVars, feedVars, appVars, timeVars>>
     \/ /\ part = "times" /\ TimeSteps
        /\ UNCHANGED <<lokiVars, prodVars, offVars, feedVars, appVars, statVars>>

\* The fairness of ProdSpec and AppSpec; the other parts have none.
PartsSpec ==
  /\ PartsInit /\ [][PartsNext]_PartsVars
  /\ WF_prodVars(part = "producers" /\ ProdWorks)
  /\ WF_appVars(part = "app" /\ AppWorks)

=============================================================================
