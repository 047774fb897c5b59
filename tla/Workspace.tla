------------------------------- MODULE Workspace -------------------------------
(***************************************************************************)
(* The programs around the chain, side by side: the Open Banking backend and its  *)
(* dashboard, the debug collector of the consoles with the dev server, a text       *)
(* input in a dialog, the platform console, the independent verifier, the in-memory  *)
(* projection and the rate limiter.  A behaviour is of one of them: they share no     *)
(* state but the backend's, which the dashboard reaches by whole requests.             *)
(***************************************************************************)
EXTENDS OpenBankingDashboard, DebugCollector, TextEntry, PlatformConsole, AssetVerifier,
        MemoryProjection, RateLimiter

CONSTANTS
  PollingClicks,   \* bound: MaxClicks of the dashboard that refreshes in parallel
  PollingLoad      \* bound: its MaxLoad

VARIABLE part   \* the program that runs

\* The dashboard runs in two parts: with refreshes side by side, and with more clicks,
\* of the evaluator's two buttons, beside one refresh.
DashboardParts == {"dashboard", "evaluator"}
Parts == DashboardParts \cup {"api", "collector", "entry", "console", "verifier", "memory", "limiter"}

libraryVars == <<verifierVars, memoryVars, limiterVars>>
workspaceVars ==
  <<part, apiVars, dashboardVars, collectorVars, entryVars, consoleVars, libraryVars>>

\* Programs that do not run stay in one initial state each.
OthersInit ==
  /\ part \notin DashboardParts \cup {"api"} => users = [u \in Users |-> "NONE"]
  /\ part # "console" => site = "Home"
  /\ part # "verifier" =>
       /\ chain = [right |-> TRUE, code |-> TRUE]
       /\ expected = [asset |-> CHOOSE a \in AssetIds : TRUE, owner |-> NoAccount]
       /\ vetted = {}

WorkspaceInit ==
  /\ part \in Parts
  /\ IF part \in DashboardParts THEN UsedBackend
     ELSE OpenBankingApiInit /\ DashboardInit /\ form = First
  /\ CollectorInit /\ TextEntryInit /\ ConsoleInit
  /\ VerifierInit /\ MemoryInit /\ LimiterInit
  /\ OthersInit
-----------------------------------------------------------------------------
(***************************************************************************)
(* One program runs; the others stay as they are.                          *)
(***************************************************************************)
Api == /\ part = "api" /\ OpenBankingApiNext
       /\ UNCHANGED <<part, dashboardVars, collectorVars, entryVars, consoleVars, libraryVars>>

\* Nothing changes but the dashboard and the backend, the collector, the text input.
OnlyDashboard == UNCHANGED <<part, collectorVars, entryVars, consoleVars, libraryVars>>
OnlyCollector == UNCHANGED <<part, apiVars, dashboardVars, entryVars, consoleVars, libraryVars>>
OnlyEntry == UNCHANGED <<part, apiVars, dashboardVars, collectorVars, consoleVars, libraryVars>>

DashboardBound ==
  IF part = "dashboard" THEN clicked' <= PollingClicks /\ Load' <= PollingLoad
  ELSE /\ InFlightKinds' \subseteq {"none", "evaluate", "fetch"}
       /\ Cardinality({r \in Refreshes : refreshes'[r] # NoRefresh}) <= 1

Dashboard == /\ part \in DashboardParts /\ DashboardStep(DashboardNext) /\ DashboardBound
             /\ OnlyDashboard
DashboardRuns == /\ part = "dashboard" /\ DashboardStep(PageStep) /\ DashboardBound
                 /\ OnlyDashboard

Collector == part = "collector" /\ CollectorNext /\ OnlyCollector
CollectorRuns == part = "collector" /\ (\E r \in Reports : DeliveryStep(r)) /\ OnlyCollector

Entry == part = "entry" /\ TextEntryNext /\ OnlyEntry
TimersRun == part = "entry" /\ TimerStep /\ OnlyEntry
CompositionsEnd == part = "entry" /\ EndStep /\ OnlyEntry

Console == /\ part = "console" /\ ConsoleNext
           /\ UNCHANGED <<part, apiVars, dashboardVars, collectorVars, entryVars, libraryVars>>

Verifier == /\ part = "verifier" /\ VerifierNext
            /\ UNCHANGED <<part, apiVars, dashboardVars, collectorVars, entryVars, consoleVars,
                           memoryVars, limiterVars>>

Memory == /\ part = "memory" /\ MemoryNext
          /\ UNCHANGED <<part, apiVars, dashboardVars, collectorVars, entryVars, consoleVars,
                         verifierVars, limiterVars>>

Limiter == /\ part = "limiter" /\ LimiterNext
           /\ UNCHANGED <<part, apiVars, dashboardVars, collectorVars, entryVars, consoleVars,
                          verifierVars, memoryVars>>

WorkspaceNext == Api \/ Dashboard \/ Collector \/ Entry \/ Console \/ Verifier
                 \/ Memory \/ Limiter

\* The interval of the dashboard, its backend and its answers; the collector's interval,
\* the dev server and its answers; timers; a composition that was begun ends.  Nothing
\* is promised of users, failures, clocks and other clients.
WorkspaceFairness ==
  /\ WF_workspaceVars(DashboardRuns)
  /\ WF_workspaceVars(CollectorRuns)
  /\ WF_workspaceVars(TimersRun) /\ WF_workspaceVars(CompositionsEnd)

WorkspaceSpec == WorkspaceInit /\ [][WorkspaceNext]_workspaceVars /\ WorkspaceFairness
-----------------------------------------------------------------------------
\* Once its inputs and failures stop, every view of the dashboard is what the backend
\* holds, the identity view that of the wallet in the form, whatever older refreshes
\* showed late.
DashboardCatchesUp == <>[](part = "dashboard" => views = BackendView(form.user))
=============================================================================
