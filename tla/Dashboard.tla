------------------------------ MODULE Dashboard ------------------------------
(***************************************************************************)
(* The script of the monitoring page: a countdown that starts refresh      *)
(* every INTERVAL ticks, whatever became of the refreshes before it, and   *)
(* the requests of each refresh, which the page applies together when the  *)
(* last one has settled.                                                   *)
(*                                                                         *)
(* What a section shows is the number of the refresh whose data it holds.  *)
(* The script is single-threaded: a timer or a settled request runs to the *)
(* end, promise reactions included, before the next one.                   *)
(*                                                                         *)
(* The specification is PageSpec, so that one module may extend this one   *)
(* and EventStore, whose answers the page asks for.                        *)
(***************************************************************************)
EXTENDS Integers, FiniteSets

CONSTANTS
    INTERVAL,   \* ticks between two refreshes
    Chart,      \* the endpoints with a chart and a banner of their own
    MaxRefresh, \* bound on the number of refreshes
    MaxUnderWay, \* bound on the number of refreshes that wait at the same time
    MaxFailures \* bound on the number of requests that fail

ASSUME DashboardAssumption ==
    /\ INTERVAL \in Nat \ {0}
    /\ MaxRefresh \in Nat \ {0}
    /\ MaxUnderWay \in Nat \ {0}
    /\ MaxFailures \in Nat
    /\ Chart \cap {"metrics", "events", "experiments"} = {}

Endpoint == Chart \cup {"metrics", "events", "experiments"}
Refresh == 1 .. MaxRefresh

VARIABLES
    tick,       \* seconds until the next refresh
    started,    \* refreshes started so far
    result,     \* result[r][e]: what the request of refresh r to e came to
    details,    \* details[r]: the requests for the experiments of refresh r
    page,       \* what the page shows
    failures,   \* requests that have failed so far
    alone       \* history: nothing was under way when the last refresh started

pageVars == <<tick, started, result, details, page, failures, alone>>

\* refresh r still waits for a request, or for the details of an experiment
Waiting(r) == r <= started /\ \E e \in Endpoint : result[r][e] = "pending"
UnderWay(r) == Waiting(r) \/ details[r] = "pending"

Crowded == Cardinality({ r \in Refresh : UnderWay(r) }) >= MaxUnderWay

\* The results of a refresh are dropped once the page has applied them; those
\* of the last refresh are kept for the properties.
Applied == [e \in Endpoint |-> "applied"]

-----------------------------------------------------------------------------
(* What a complete refresh does to the page                                *)

\* the number of the refresh if its request succeeded, 0 for a dash
Value(r, res, e) == IF res[e] \in {"ok", "empty"} THEN r ELSE 0

updateCards(p, r, res) ==
    [p EXCEPT !.total = Value(r, res, "metrics"),
              !.exp = Value(r, res, "experiments"),
              !.amp = Value(r, res, "events")]

\* Mutant: a refresh hides the banners of charts it has no data for.
updateChartsHideAll(p, r, res) ==
    LET fresh == { c \in Chart : res[c] # "null" }
    IN  [p EXCEPT !.chart = [c \in Chart |-> IF c \in fresh THEN r ELSE @[c]],
                  !.err = @ \ Chart]

\* updateTimeseries, updateQueryTypes and updateTopIPs
updateCharts(p, r, res) ==
    LET fresh == { c \in Chart : res[c] # "null" }
    IN  [p EXCEPT !.chart = [c \in Chart |-> IF c \in fresh THEN r ELSE @[c]],
                  !.err = @ \ fresh]

\* updateFeed, or the row that says that events could not be loaded
updateFeed(p, r, res) ==
    IF res["events"] = "null" THEN [p EXCEPT !.feed = 0]
    ELSE [p EXCEPT !.feed = r, !.err = @ \ {"events"}]

\* the spinner is the last thing that the handler touches
Apply(p, r, res) ==
    [updateFeed(updateCharts(updateCards(p, r, res), r, res), r, res)
        EXCEPT !.spinner = FALSE]

\* updateVariantAmp asks for details only if there are events and experiments
AsksForDetails(res) == res["events"] # "null" /\ res["experiments"] = "ok"

-----------------------------------------------------------------------------
(* Requests                                                                *)

\* a failed request shows the banner of its section, if it has one
showErr(p, e, to) ==
    IF to = "null" /\ e \in Chart \cup {"events"} THEN [p EXCEPT !.err = @ \cup {e}] ELSE p

\* Mutant: a request that failed rejects Promise.all, which has no handler.
SettleUncaught(r, e, to) ==
    /\ r <= started
    /\ result[r][e] = "pending"
    /\ failures' = IF to = "null" THEN failures + 1 ELSE failures
    /\ failures' <= MaxFailures
    /\ LET res == [result[r] EXCEPT ![e] = to]
           p == showErr(page, e, to)
           complete == \A f \in Endpoint : res[f] \notin {"pending", "null"}
       IN  /\ result' = [result EXCEPT ![r] = IF complete /\ r < started THEN Applied ELSE res]
           /\ page' = IF complete THEN Apply(p, r, res) ELSE p
           /\ details' = IF complete /\ AsksForDetails(res)
                         THEN [details EXCEPT ![r] = "pending"] ELSE details
    /\ UNCHANGED <<tick, started, alone>>

\* A request settles with an answer, with an empty list of experiments, or
\* with null, which its catch handler substitutes.  The last one to settle
\* resolves Promise.all.
Settle(r, e, to) ==
    /\ r <= started
    /\ result[r][e] = "pending"
    /\ failures' = IF to = "null" THEN failures + 1 ELSE failures
    /\ failures' <= MaxFailures
    /\ LET res == [result[r] EXCEPT ![e] = to]
           p == showErr(page, e, to)
           complete == \A f \in Endpoint : res[f] # "pending"
       IN  /\ result' = [result EXCEPT ![r] = IF complete /\ r < started THEN Applied ELSE res]
           /\ page' = IF complete THEN Apply(p, r, res) ELSE p
           /\ details' = IF complete /\ AsksForDetails(res)
                         THEN [details EXCEPT ![r] = "pending"] ELSE details
    /\ UNCHANGED <<tick, started, alone>>

\* the details of all experiments have settled; one that failed only leaves the
\* ids of its variants without names
SettleDetails(r) ==
    /\ details[r] = "pending"
    /\ details' = [details EXCEPT ![r] = "done"]
    /\ page' = [page EXCEPT !.variant = r]
    /\ UNCHANGED <<tick, started, result, failures, alone>>

-----------------------------------------------------------------------------
(* The countdown                                                           *)

Tick ==
    /\ tick > 1
    /\ tick' = tick - 1
    /\ UNCHANGED <<started, result, details, page, failures, alone>>

\* Mutant: the countdown is not started again.
CountedDownOnce ==
    /\ tick = 1
    /\ started < MaxRefresh /\ ~Crowded
    /\ started' = started + 1
    /\ page' = [page EXCEPT !.spinner = TRUE]
    /\ alone' = ~\E r \in Refresh : UnderWay(r)
    /\ tick' = 0
    /\ result' = [r \in Refresh |-> IF r <= started /\ ~Waiting(r) THEN Applied ELSE result[r]]
    /\ UNCHANGED <<details, failures>>

\* the last tick: refresh, and startCountdown again
CountedDown ==
    /\ tick = 1
    /\ started < MaxRefresh /\ ~Crowded
    /\ started' = started + 1
    /\ page' = [page EXCEPT !.spinner = TRUE]
    /\ alone' = ~\E r \in Refresh : UnderWay(r)
    /\ tick' = INTERVAL
    /\ result' = [r \in Refresh |-> IF r <= started /\ ~Waiting(r) THEN Applied ELSE result[r]]
    /\ UNCHANGED <<details, failures>>

\* the script has run: the first refresh is under way, the countdown runs
PageInit ==
    /\ tick = INTERVAL
    /\ started = 1
    /\ result = [r \in Refresh |-> [e \in Endpoint |-> "pending"]]
    /\ details = [r \in Refresh |-> "none"]
    /\ page = [total |-> 0, exp |-> 0, amp |-> 0, feed |-> 0, variant |-> 0,
               chart |-> [c \in Chart |-> 0], err |-> {}, spinner |-> TRUE]
    /\ failures = 0
    /\ alone = TRUE

Timer == Tick \/ CountedDown

Request(r) ==
    \/ \E e \in Endpoint : Settle(r, e, "ok") \/ Settle(r, e, "null")
    \/ Settle(r, "experiments", "empty")
    \/ SettleDetails(r)

PageNext == Timer \/ \E r \in Refresh : Request(r)

PageSpec == PageInit /\ [][PageNext]_pageVars

\* Intervals fire as long as the page is open.
FairSpec == PageSpec /\ WF_pageVars(Timer)

-----------------------------------------------------------------------------
(* Properties                                                              *)

\* A refresh that started while nothing was under way repairs the page, however
\* the refreshes before it overlapped: at rest the cards, the feed and the
\* charts show what it obtained, a chart it could not load keeps older data,
\* the banners mark exactly the sections it failed to load, and the spinner is
\* off.
LoneRefreshIsShown ==
    alone /\ (\A r \in Refresh : ~UnderWay(r)) =>
        LET res == result[started]
        IN  /\ page.total = Value(started, res, "metrics")
            /\ page.exp = Value(started, res, "experiments")
            /\ page.amp = Value(started, res, "events") /\ page.feed = page.amp
            /\ \A c \in Chart : page.chart[c] = started <=> res[c] # "null"
            /\ page.err = { e \in Chart \cup {"events"} : res[e] = "null" }
            /\ page.variant = started <=> AsksForDetails(res)
            /\ ~page.spinner

\* The countdown starts one refresh after the other even if no request of an
\* earlier one ever settles, up to the bound on refreshes under way.
KeepsRefreshing ==
    \A n \in 1 .. MaxRefresh - 1 : started = n ~> (started > n \/ Crowded)

\* If requests settle, in whatever order and however they fail, the spinner of
\* every refresh goes off again.
SpinnerStops ==
    (\A r \in Refresh : WF_pageVars(Request(r))) => (page.spinner ~> ~page.spinner)
=============================================================================
