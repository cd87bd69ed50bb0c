---------------------------- MODULE EgressPolicy ----------------------------
(***************************************************************************)
(* What the per-source egress limiter promises to the protocol use cases:  *)
(* every source address owns one account of at most Burst tokens that      *)
(* earns one token per unit of time.  There is no table, no bucket object, *)
(* no eviction and no lock here.  An answer may be based on a clock read   *)
(* up to Slack units ago, the only inaccuracy the promise allows.          *)
(***************************************************************************)
EXTENDS Integers

CONSTANTS
    Source,     \* source addresses
    Proc,       \* goroutines that may call Allow concurrently
    Cost,       \* prices a reply may have, in tokens
    Burst,      \* capacity of an account
    Slack       \* age of the oldest clock reading an answer may rest on

VARIABLES
    credit,     \* credit[s]: tokens source s may spend now
    request,    \* request[p]: the call goroutine p is in, or NoRequest
    granted     \* granted[p]: the last call of goroutine p was granted

vars == <<credit, request, granted>>

NoRequest == [cost |-> 0]

Capped(n) == IF n > Burst THEN Burst ELSE n

Init ==
    /\ credit = [s \in Source |-> Burst]
    /\ request = [p \in Proc |-> NoRequest]
    /\ granted = [p \in Proc |-> FALSE]

Begin(p) ==
    /\ request[p] = NoRequest
    /\ \E s \in Source, c \in Cost :
            request' = [request EXCEPT ![p] = [src |-> s, cost |-> c]]
    /\ granted' = [granted EXCEPT ![p] = FALSE]
    /\ UNCHANGED credit

\* A grant is covered by the account and charged to it in full; a stale clock
\* may leave the account at most Slack tokens too rich.
Grant(p) ==
    /\ request[p] # NoRequest
    /\ LET s == request[p].src
           left == credit[s] - request[p].cost
       IN  /\ left >= 0
           /\ \E c \in left .. Capped(left + Slack) :
                    credit' = [credit EXCEPT ![s] = c]
    /\ request' = [request EXCEPT ![p] = NoRequest]
    /\ granted' = [granted EXCEPT ![p] = TRUE]

\* A refusal costs nothing and is given only to a source that cannot pay.
Deny(p) ==
    /\ request[p] # NoRequest
    /\ request[p].cost > credit[request[p].src] - Slack
    /\ request' = [request EXCEPT ![p] = NoRequest]
    /\ granted' = [granted EXCEPT ![p] = FALSE]
    /\ UNCHANGED credit

Earn ==
    /\ credit' = [s \in Source |-> Capped(credit[s] + 1)]
    /\ UNCHANGED <<request, granted>>

Next ==
    \/ \E p \in Proc : Begin(p) \/ Grant(p) \/ Deny(p)
    \/ Earn

Spec == Init /\ [][Next]_vars
=============================================================================
