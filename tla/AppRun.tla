-------------------------------- MODULE AppRun --------------------------------
(***************************************************************************)
(* The life of a bus process: main (cmd/redbus/main.go), App.Run with its  *)
(* errgroup of listeners, signal watcher and background jobs (app/app.go), *)
(* and the loop of such a job (background/background.go), of which the     *)
(* repeat job may be waiting for a client when the process is to end.      *)
(*                                                                         *)
(* The operating system, gRPC and HTTP servers are external.               *)
(***************************************************************************)
EXTENDS Naturals, FiniteSets

CONSTANTS
  AppRows, \* bound: rows of one run of the repeat job
  AppRuns  \* bound: runs of it

ASSUME AppAssumption == AppRows \in Nat /\ AppRuns \in Nat

AppServers == {"public", "control", "metrics"}
AppProcs == AppServers \union {"watcher", "repeat"}

VARIABLES
  appMetrics, \* a port for metrics is configured
  appGuarded, \* the wait for a result is bounded: it is not when BatchTimeout overflows
  appProc,    \* goroutine of the errgroup -> start, run, done
  appServer,  \* server -> new, serving, broken, stopped
  appErr,     \* first error of the group: none, canceled, failed
  appCtx,     \* the context of the group is cancelled
  appClient,  \* a consume stream is open
  appJob,     \* the repeat job: idle, send, wait, woken (its stream has ended)
  appRows,    \* rows the run still has
  appRuns,    \* runs so far
  appEnd      \* how the process ended: "", clean, fatal

appJobVars == <<appJob, appRows, appRuns>>
appGroupVars == <<appProc, appErr, appCtx>>
appConfVars == <<appMetrics, appGuarded>>
appVars == <<appConfVars, appGroupVars, appServer, appClient, appJobVars, appEnd>>

AppInit ==
  /\ appMetrics \in BOOLEAN /\ appGuarded \in BOOLEAN
  /\ appProc = [p \in AppProcs |-> IF p = "metrics" /\ ~appMetrics THEN "done" ELSE "start"]
  /\ appServer = [s \in AppServers |-> "new"]
  /\ appErr = "none" /\ appCtx = FALSE /\ appClient = FALSE
  /\ appJob = "idle" /\ appRows = 0 /\ appRuns = 0
  /\ appEnd = ""

\* A goroutine of the group returns; the first error is kept and cancels the context.
AppReturn(p, err) ==
  /\ appProc' = [appProc EXCEPT ![p] = "done"]
  /\ appErr' = IF appErr = "none" THEN err ELSE appErr
  /\ appCtx' = (appCtx \/ err # "none")

AppStreamEnds ==
  /\ appClient' = FALSE
  /\ appJob' = IF appJob = "wait" THEN "woken" ELSE appJob

-----------------------------------------------------------------------------
(* The goroutines of App.Run.                                              *)

AppStarts(p) ==
  /\ appProc[p] = "start"
  /\ appProc' = [appProc EXCEPT ![p] = "run"]
  /\ appServer' = IF p \in AppServers THEN [appServer EXCEPT ![p] = "serving"] ELSE appServer
  /\ UNCHANGED <<appConfVars, appErr, appCtx, appClient, appJobVars, appEnd>>

\* net.Listen: the port is in use.
AppListenFails(s) ==
  /\ s \in {"public", "control"} /\ appProc[s] = "start"
  /\ AppReturn(s, "failed")
  /\ UNCHANGED <<appConfVars, appServer, appClient, appJobVars, appEnd>>

\* Serve fails: no new connection is accepted, but open streams go on.
AppServeFails(s) ==
  /\ appProc[s] = "run" /\ appServer[s] = "serving"
  /\ appServer' = [appServer EXCEPT ![s] = "broken"]
  /\ AppReturn(s, "failed")
  /\ UNCHANGED <<appConfVars, appClient, appJobVars, appEnd>>

\* A signal cancels the context; the watcher itself returns no error.
AppSignal ==
  /\ appProc["watcher"] = "run"
  /\ appProc' = [appProc EXCEPT !["watcher"] = "done"]
  /\ appCtx' = TRUE
  /\ UNCHANGED <<appConfVars, appErr, appServer, appClient, appJobVars, appEnd>>

AppWatcherEnds ==
  /\ appProc["watcher"] = "run" /\ appCtx
  /\ AppReturn("watcher", "canceled")
  /\ UNCHANGED <<appConfVars, appServer, appClient, appJobVars, appEnd>>

\* Mutant: the listener returns without server.Stop().
AppStopsNothing(s) ==
  /\ s \in {"public", "control"} /\ appProc[s] = "run" /\ appCtx
  /\ AppReturn(s, "canceled")
  /\ UNCHANGED <<appConfVars, appServer, appClient, appJobVars, appEnd>>

\* getGrpcListener: Stop closes the connections, and with them every stream.
AppStops(s) ==
  /\ s \in {"public", "control"} /\ appProc[s] = "run" /\ appCtx
  /\ appServer' = [appServer EXCEPT ![s] = "stopped"]
  /\ IF s = "public" THEN AppStreamEnds ELSE UNCHANGED <<appClient, appJob>>
  /\ AppReturn(s, "canceled")
  /\ UNCHANGED <<appConfVars, appRows, appRuns, appEnd>>

\* getMetricsListener: Shutdown waits ten seconds at most for requests in flight.
AppMetricsStops ==
  /\ appProc["metrics"] = "run" /\ appCtx
  /\ appServer' = [appServer EXCEPT !["metrics"] = "stopped"]
  /\ \E err \in {"canceled", "failed"} : AppReturn("metrics", err)
  /\ UNCHANGED <<appConfVars, appClient, appJobVars, appEnd>>

-----------------------------------------------------------------------------
(* The repeat job and its client.                                          *)

AppClientComes ==
  /\ ~appClient /\ appServer["public"] = "serving"
  /\ appClient' = TRUE
  /\ UNCHANGED <<appConfVars, appGroupVars, appServer, appJobVars, appEnd>>

AppClientLeaves ==
  /\ appClient
  /\ AppStreamEnds
  /\ UNCHANGED <<appConfVars, appGroupVars, appServer, appRows, appRuns, appEnd>>

\* The ticker wins over a cancelled context now and then; the queries of that run then fail.
AppJobTicks ==
  /\ appProc["repeat"] = "run" /\ appJob = "idle" /\ appRuns < AppRuns
  /\ appRuns' = appRuns + 1
  /\ \E rows \in 0 .. AppRows :
       /\ appCtx => rows = 0
       /\ appRows' = rows
       /\ appJob' = IF rows = 0 THEN "idle" ELSE "send"
  /\ UNCHANGED <<appConfVars, appGroupVars, appServer, appClient, appEnd>>

AppNextRow ==
  /\ appRows' = appRows - 1
  /\ appJob' = IF appRows = 1 THEN "idle" ELSE "send"
  /\ UNCHANGED <<appConfVars, appGroupVars, appServer, appClient, appRuns, appEnd>>

\* repeatProcessor does not look at the context: a row is sent as long as its client has a stream.
AppJobSends ==
  /\ appJob = "send"
  /\ IF appClient
     THEN appJob' = "wait" /\ UNCHANGED <<appConfVars, appGroupVars, appServer, appClient, appRows, appRuns, appEnd>>
     ELSE AppNextRow

\* exec recovers from a panic of the job.
AppJobPanics ==
  /\ appJob = "send"
  /\ appJob' = "idle" /\ appRows' = 0
  /\ UNCHANGED <<appConfVars, appGroupVars, appServer, appClient, appRuns, appEnd>>

AppClientAnswers == appJob = "wait" /\ AppNextRow

AppJobWakes == appJob = "woken" /\ AppNextRow

\* The watchdog ends the RPC of a client that does not answer.
AppWatchdog ==
  /\ appJob = "wait" /\ appGuarded
  /\ AppStreamEnds
  /\ UNCHANGED <<appConfVars, appGroupVars, appServer, appRows, appRuns, appEnd>>

AppJobEnds ==
  /\ appProc["repeat"] = "run" /\ appJob = "idle" /\ appCtx
  /\ AppReturn("repeat", "canceled")
  /\ UNCHANGED <<appConfVars, appServer, appClient, appJobVars, appEnd>>

\* eg.Wait, main: a cancelled context is the normal end.
AppExits ==
  /\ appEnd = "" /\ \A p \in AppProcs : appProc[p] = "done"
  /\ appEnd' = IF appErr = "failed" THEN "fatal" ELSE "clean"
  /\ UNCHANGED <<appConfVars, appGroupVars, appServer, appClient, appJobVars>>

\* What a goroutine does by itself; clients, signals and failures come or do not come.
AppGoes(p) ==
  \/ AppStarts(p)
  \/ AppStops(p)
  \/ p = "metrics" /\ AppMetricsStops
  \/ p = "watcher" /\ AppWatcherEnds
  \/ p = "repeat" /\ (AppJobSends \/ AppJobWakes \/ AppJobEnds)

AppWorks == (\E p \in AppProcs : AppGoes(p)) \/ AppWatchdog \/ AppExits

AppSteps ==
  /\ appEnd = ""
  /\ \/ AppWorks
     \/ \E s \in AppServers : AppListenFails(s) \/ AppServeFails(s)
     \/ AppSignal \/ AppClientComes \/ AppClientLeaves \/ AppClientAnswers
     \/ AppJobTicks \/ AppJobPanics

\* As long as some goroutine can go on, one does; timers fire.
AppSpec == AppInit /\ [][AppSteps]_appVars /\ WF_appVars(AppWorks)

-----------------------------------------------------------------------------

\* App.Run: as soon as one goroutine has returned, because of a signal, a port in use or a server
\* that failed, the process comes to its end, although the repeat job may be waiting for a client.
\* The one way to hang: the public listener itself failed, so that nobody calls Stop, and the job
\* waits without a watchdog for a client that stays and does not answer.
AppEnds ==
  (\E p \in AppProcs : appProc[p] = "done" /\ (p = "metrics" => appMetrics))
    ~> appEnd # "" \/ (~appGuarded /\ appServer["public"] = "broken")

=============================================================================
