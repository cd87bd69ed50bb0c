----------------------------- MODULE Classifier -----------------------------
(***************************************************************************)
(* ClassifierService: a sliding-window request counter per source, shared  *)
(* by the DNS, NTP and SSDP use cases, and the Cleanup goroutine of        *)
(* Application.Start that removes idle sources.                            *)
(*                                                                         *)
(* Classify reads the clock and updates the table in one critical section. *)
(* Cleanup computes its cutoff before it takes the mutex: two steps.       *)
(***************************************************************************)
EXTENDS Integers, Sequences, FiniteSets

CONSTANTS
    Source,         \* source addresses
    Scanner,        \* the ones with a known scanner prefix
    QueryType,      \* query types the use cases pass, "NTP" and "SSDP" among them
    rateWindow,     \* length of the sliding window
    rateThreshold,  \* requests in a window that are not yet an attack
    maxAge,         \* age at which Cleanup forgets a source
    Period,         \* period of the cleanup ticker
    MaxCalls,       \* bound on the classified requests of a source
    MaxTime         \* bound on the clock

\* The application keeps requests for ten minutes and counts them for one.
ASSUME ConstantsAssumption ==
    /\ Scanner \subseteq Source
    /\ rateWindow \in Nat \ {0} /\ rateThreshold \in Nat /\ Period \in Nat \ {0}
    /\ maxAge \in Nat /\ maxAge >= rateWindow

VARIABLES
    now,            \* the clock
    requestCounts,  \* source -> times of its recent requests, <<>>: no entry
    cleaner,        \* where the cleanup goroutine is
    cutoff,         \* the cutoff of a running Cleanup
    tickC,          \* ticks waiting in the one-slot channel of its ticker
    ctx,            \* "live" or "done"
    last,           \* the last answer: source, query type, label
    history         \* history: times of all requests of a source

cleanVars == <<cleaner, cutoff, tickC>>
vars == <<now, requestCounts, cleanVars, ctx, last, history>>

-----------------------------------------------------------------------------

\* the loop that keeps the times later than t, in their order
After(times, t) ==
    LET kept[i \in 0 .. Len(times)] ==
            IF i = 0 THEN <<>>
            ELSE IF times[i] > t THEN Append(kept[i - 1], times[i])
            ELSE kept[i - 1]
    IN  kept[Len(times)]

Label(type, count) ==
    IF count > rateThreshold \/ type \in {"ANY", "TXT"} THEN "attacker" ELSE "noise"

\* a known prefix is answered before the lock is taken
ClassifyScanner(s, type) ==
    /\ s \in Scanner
    /\ last' = [src |-> s, type |-> type, label |-> "scanner"]
    /\ UNCHANGED <<now, requestCounts, cleanVars, ctx, history>>

\* Mutant: the request itself is counted only by the next one.
ClassifyLate(s, type) ==
    /\ s \notin Scanner
    /\ Len(history[s]) < MaxCalls
    /\ LET filtered == After(requestCounts[s], now - rateWindow)
       IN  /\ requestCounts' = [requestCounts EXCEPT ![s] = Append(filtered, now)]
           /\ last' = [src |-> s, type |-> type,
                       label |-> Label(type, Len(filtered))]
    /\ history' = [history EXCEPT ![s] = Append(@, now)]
    /\ UNCHANGED <<now, cleanVars, ctx>>

Classify(s, type) ==
    /\ s \notin Scanner
    /\ Len(history[s]) < MaxCalls
    /\ LET filtered == Append(After(requestCounts[s], now - rateWindow), now)
       IN  /\ requestCounts' = [requestCounts EXCEPT ![s] = filtered]
           /\ last' = [src |-> s, type |-> type,
                       label |-> Label(type, Len(filtered))]
    /\ history' = [history EXCEPT ![s] = Append(@, now)]
    /\ UNCHANGED <<now, cleanVars, ctx>>

-----------------------------------------------------------------------------

\* Mutant: the cutoff is the current time.
CleanupStartNow ==
    /\ cleaner = "wait"
    /\ tickC = 1
    /\ tickC' = 0
    /\ cutoff' = now
    /\ cleaner' = "locked"
    /\ UNCHANGED <<now, requestCounts, ctx, last, history>>

\* the ticker case of the loop: Cleanup up to its Lock
CleanupStart ==
    /\ cleaner = "wait"
    /\ tickC = 1
    /\ tickC' = 0
    /\ cutoff' = now - maxAge
    /\ cleaner' = "locked"
    /\ UNCHANGED <<now, requestCounts, ctx, last, history>>

\* Mutant: maxAge is subtracted twice.
HasRecentTwice(s) ==
    \E i \in 1 .. Len(requestCounts[s]) : requestCounts[s][i] > cutoff - maxAge

HasRecent(s) == \E i \in 1 .. Len(requestCounts[s]) : requestCounts[s][i] > cutoff

\* the critical section of Cleanup
CleanupSweep ==
    /\ cleaner = "locked"
    /\ requestCounts' = [s \in Source |->
                            IF HasRecent(s) THEN requestCounts[s] ELSE <<>>]
    /\ cleaner' = "wait"
    /\ UNCHANGED <<now, cutoff, tickC, ctx, last, history>>

\* the other case: the context is done
CleanupExit ==
    /\ cleaner = "wait"
    /\ ctx = "done"
    /\ cleaner' = "gone"
    /\ UNCHANGED <<now, requestCounts, cutoff, tickC, ctx, last, history>>

Cancel ==
    /\ ctx = "live"
    /\ ctx' = "done"
    /\ UNCHANGED <<now, requestCounts, cleanVars, last, history>>

\* the ticker drops a tick that nobody has taken yet
Tick ==
    /\ now < MaxTime
    /\ now' = now + 1
    /\ tickC' = IF now' % Period = 0 THEN 1 ELSE tickC
    /\ UNCHANGED <<requestCounts, cleaner, cutoff, ctx, last, history>>

-----------------------------------------------------------------------------

Init ==
    /\ now = 0
    /\ requestCounts = [s \in Source |-> <<>>]
    /\ cleaner = "wait"
    /\ cutoff = 0
    /\ tickC = 0
    /\ ctx = "live"
    /\ last = [src |-> "none"]
    /\ history = [s \in Source |-> <<>>]

CleanStep == CleanupStart \/ CleanupSweep \/ CleanupExit

Next ==
    \/ \E s \in Source, type \in QueryType : ClassifyScanner(s, type) \/ Classify(s, type)
    \/ CleanStep
    \/ Cancel
    \/ Tick

Spec == Init /\ [][Next]_vars

\* Time passes and the scheduler runs the cleanup goroutine; no request and no
\* signal need ever come.
FairSpec == Spec /\ WF_vars(Tick) /\ WF_vars(CleanStep)

-----------------------------------------------------------------------------
(* Properties                                                              *)

\* The window is whole: the requests the table still has of a source that lie
\* in the window are all that were made in it, however Cleanup, with a cutoff
\* from before it waited for the lock, ran in between.  The next answer, and
\* only it, depends on them.
WindowIsWhole ==
    \A s \in Source \ Scanner :
        After(requestCounts[s], now - rateWindow) = After(history[s], now - rateWindow)

\* An answer that was just given is "attacker" exactly when more than
\* rateThreshold requests of the source, this one included, fall into the
\* window that ends now, or the query type alone is suspicious.
LabelMatchesRate ==
    [][\A s \in Source \ Scanner :
          Len(history'[s]) > Len(history[s]) =>
              (last'.label = "attacker" <=>
                  \/ Len(After(history'[s], now - rateWindow)) > rateThreshold
                  \/ last'.type \in {"ANY", "TXT"})]_vars

\* The table does not remember a source for ever: its entry goes, or a new
\* request renews it (for requests old enough that a cleanup follows their
\* expiry before the clock stops, while the application runs).
IdleSourcesForgotten ==
    \A s \in Source : \A u \in 0 .. (MaxTime - maxAge - 2 * Period) :
        (requestCounts[s] # <<>> /\ requestCounts[s][Len(requestCounts[s])] = u)
            ~> \/ requestCounts[s] = <<>>
               \/ requestCounts[s][Len(requestCounts[s])] # u
               \/ ctx = "done"
=============================================================================
