------------------------------ MODULE DatadogReads ------------------------------
(***************************************************************************)
(* A query that reads Datadog: one scan of a search (DatadogSearchScan), of *)
(* the open alerts (OpenAlertsScan) or of an answer to a single request    *)
(* (SingleRequestScans).  They share the call loop of a table function and *)
(* the request it makes; the state of the other two stays empty.           *)
(***************************************************************************)
EXTENDS DatadogSearchScan, FiniteSets

CONSTANTS
    Groups, AlertsPageSize, MaxChanges,                  \* of the open alerts
    IntMax, Multiplier, NanosPerSecond, Rejected,        \* of a time window
    Scans, Inputs, MaxClock                              \* of a single request

VARIABLES
    reads,   \* "search", "alerts" or "answer"
    \* OpenAlertsScan
    open, listing, changes, undisturbed, ever_open,
    page, api_rows_received, alerts, alerts_finished, alerts_shown,
    \* SingleRequestScans
    scan, settings, answer, clock, bind_window, window, started, loaded, items, items_shown

searchVars == <<bindVars, buffer, cursor, row_budget_used, total_emitted, finished, output>>
alertsVars == <<open, listing, changes, undisturbed, ever_open, page, api_rows_received,
                alerts, alerts_finished, alerts_shown>>
answerVars == <<scan, settings, answer, clock, bind_window, window, started, loaded, items,
                items_shown>>
readVars == <<vars, reads, alertsVars, answerVars>>

Alerts == INSTANCE OpenAlertsScan WITH
    PageSize <- AlertsPageSize, buffer <- alerts, finished <- alerts_finished,
    output <- alerts_shown

Single == INSTANCE SingleRequestScans WITH buffer <- items, output <- items_shown

ASSUME AlertsAssumption == Alerts!AlertsAssumption
ASSUME SingleAssumption == Single!ScansAssumption /\ Single!WindowAssumption

NoSearch ==
    /\ page_size = 1 /\ max_rows = 0 /\ events = 0 /\ reliable = TRUE
    /\ buffer = <<>> /\ cursor = None /\ row_budget_used = 0 /\ total_emitted = 0
    /\ finished = FALSE /\ output = <<>>

NoAlerts ==
    /\ open = {} /\ listing = <<>> /\ changes = 0 /\ undisturbed = 0 /\ ever_open = {}
    /\ page = 0 /\ api_rows_received = 0 /\ alerts = <<>> /\ alerts_finished = FALSE
    /\ alerts_shown = <<>>

NoAnswer ==
    /\ scan = "none" /\ settings = "none" /\ answer = <<>> /\ clock = 0
    /\ bind_window = "none" /\ window = "none" /\ started = 0 /\ loaded = FALSE
    /\ items = <<>> /\ items_shown = <<>>

ReadInit ==
    \/ reads = "search" /\ Init /\ NoAlerts /\ NoAnswer
    \/ reads = "alerts" /\ Alerts!Init /\ NoSearch /\ NoAnswer
    \/ reads = "answer" /\ Single!Init /\ NoSearch /\ NoAlerts

SearchStep == reads = "search" /\ Next /\ UNCHANGED <<reads, alertsVars, answerVars>>

AlertsStep == reads = "alerts" /\ Alerts!Next /\ UNCHANGED <<reads, searchVars, answerVars>>

AnswerStep == reads = "answer" /\ Single!Next /\ UNCHANGED <<reads, searchVars, alertsVars>>

ReadNext == SearchStep \/ AlertsStep \/ AnswerStep

ReadSpec == ReadInit /\ [][ReadNext]_readVars

\* The thread that runs the scan goes on inside a call, whichever scan it is.
ScanStep ==
    \/ reads = "search" /\ Scan /\ UNCHANGED <<reads, alertsVars, answerVars>>
    \/ reads = "alerts" /\ Alerts!Scan /\ UNCHANGED <<reads, searchVars, answerVars>>
    \/ reads = "answer" /\ Single!Scan /\ UNCHANGED <<reads, searchVars, alertsVars>>

FairReadSpec == ReadSpec /\ WF_readVars(ScanStep)

--------------------------------------------------------------------------------
(* Properties, beside BudgetRespected, ImplementsRowStream and CallReturns, *)
(* which is the same for every scan.                                       *)

\* Of the open alerts: only what was open during the scan is shown, ...
OnlyOpenShown == Alerts!OnlyOpenShown

\* ... and all of it that nothing disturbed, once and in order.
UndisturbedShown == Alerts!UndisturbedShown

\* Of a single request: every row of its answer once and in order, or none, ...
AnswersAreStreamed == Single!AnswersAreStreamed

\* ... in the window that its settings mean when the scan starts.
WindowIsCurrent == Single!WindowIsCurrent

--------------------------------------------------------------------------------
(* The inductive invariants behind them, each while its scan runs.         *)

\* The scans that do not run keep their empty state.
ParkedInv ==
    /\ reads # "search" => NoSearch
    /\ reads # "alerts" => NoAlerts
    /\ reads # "answer" => NoAnswer

\* A call is underway while a request is.
CallInv == request # "idle" => pc = "scanning"

SearchInv == reads = "search" => IInv

AlertsInv == reads = "alerts" => Alerts!IInv

WindowInv == reads = "answer" => Single!WindowInv

StreamInv == reads = "answer" => Single!StreamInv
================================================================================
