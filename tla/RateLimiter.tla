----------------------------- MODULE RateLimiter -----------------------------
(***************************************************************************)
(* The per-source-IP rate limiter of internal/adapters/ratelimit: a table  *)
(* of token buckets (IPAggregate) that packet goroutines query through     *)
(* Allow, and a kick_out loop that evicts idle entries.                    *)
(*                                                                         *)
(* Time is counted in ticks of 1/RefillPerSec seconds, so a bucket earns   *)
(* exactly one token per tick.  Allow is three steps, because the table's  *)
(* mutex is released before the bucket is asked: Lookup (the critical      *)
(* section), Stamp (the time.Now() of Bucket.AllowN) and Consume (the      *)
(* critical section inside golang.org/x/time/rate).  kick_out is two: its  *)
(* cutoff is computed before it takes the mutex.                           *)
(***************************************************************************)
EXTENDS Integers

CONSTANTS
    Source,     \* source addresses
    Proc,       \* goroutines that call Allow
    BucketId,   \* addresses a *Bucket may have
    Sizes,      \* reply sizes, in bytes, Allow is called with
    Burst,      \* IPBucketConfig.Burst, in tokens
    TTL,        \* IPBucketConfig.TTL, in ticks
    Second,     \* ticks in a second
    MaxStall,   \* longest time between the Unlock of Allow and its answer
    MaxTime,    \* bound on the clock
    None        \* an absent map entry, an idle goroutine

ASSUME ConstantsAssumption ==
    /\ Sizes \subseteq Int
    /\ Burst \in Nat \ {0}
    /\ TTL \in Nat
    /\ Second \in Nat \ {0}
    /\ MaxStall \in Nat
    /\ MaxTime \in Nat

\* The time-to-live outlasts a full refill plus one stalled call.  With the
\* default configuration TTL is 3000 ticks and Burst 100.
ASSUME RefillBeforeExpiry == MaxStall + Burst <= TTL

VARIABLES
    now,        \* the clock
    entries,    \* IPAggregate.entries: source -> *ipEntry or None
    bucket,     \* the *Bucket objects: address -> tokens and last update
    call,       \* call[p]: the Allow call goroutine p is in, or None
    granted,    \* granted[p]: the last Allow of p returned true
    kicker,     \* where the kick_out_loop goroutine is
    cutoff,     \* the local cutoff of kick_out
    tickC,      \* ticks waiting in the one-slot channel of the loop's ticker
    done,       \* the done channel: open, or closed by Close
    spent       \* history: tokens granted to each source, less the age of
                \* the clock readings the grants rested on

limiterVars == <<entries, bucket>>
kickVars == <<kicker, cutoff, tickC, done>>
vars == <<now, entries, bucket, call, granted, kickVars, spent>>

egressBytesPerToken == 128

\* one token per started block of 128 bytes, at least one
egressTokenCost(bytes) ==
    IF bytes <= 0 THEN 1
    ELSE LET cost == (bytes + egressBytesPerToken - 1) \div egressBytesPerToken
         IN  IF cost < 1 THEN 1 ELSE cost

Cost == { egressTokenCost(b) : b \in Sizes }

EntryType == [bucket : BucketId, lastUsed : Nat]

CallType ==
    [at : {"unlocked", "stamped"}, src : Source, bucket : BucketId,
     since : Nat, cost : Cost, stamp : Nat]

ASSUME NoneAssumption == None \notin EntryType /\ None \notin CallType

Interval == IF TTL \div 2 < Second THEN Second ELSE TTL \div 2

Capped(n) == IF n > Burst THEN Burst ELSE n

NewBucket == [tokens |-> Burst, last |-> now]

Reachable == { entries[s].bucket : s \in { t \in Source : entries[t] # None } }
               \cup { call[p].bucket : p \in { q \in Proc : call[q] # None } }

Init ==
    /\ now = 0
    /\ entries = [s \in Source |-> None]
    /\ bucket = [b \in BucketId |-> NewBucket]
    /\ call = [p \in Proc |-> None]
    /\ granted = [p \in Proc |-> FALSE]
    /\ kicker = "select"
    /\ cutoff = 0
    /\ tickC = 0
    /\ done = "open"
    /\ spent = [s \in Source |-> 0]

-----------------------------------------------------------------------------
(* Allow                                                                   *)

Enter(p, s, b, bytes) ==
    /\ entries' = [entries EXCEPT ![s] = [bucket |-> b, lastUsed |-> now]]
    /\ call' = [call EXCEPT ![p] =
                   [at |-> "unlocked", src |-> s, bucket |-> b, since |-> now,
                    cost |-> egressTokenCost(bytes), stamp |-> now]]
    /\ granted' = [granted EXCEPT ![p] = FALSE]
    /\ UNCHANGED <<now, kickVars, spent>>

\* Mutant: a hit forgets to refresh lastUsed.
LookupHitNoTouch(p, s, bytes) ==
    /\ call[p] = None
    /\ entries[s] # None
    /\ call' = [call EXCEPT ![p] =
                   [at |-> "unlocked", src |-> s, bucket |-> entries[s].bucket,
                    since |-> now, cost |-> egressTokenCost(bytes), stamp |-> now]]
    /\ granted' = [granted EXCEPT ![p] = FALSE]
    /\ UNCHANGED <<now, limiterVars, kickVars, spent>>

\* the entry exists: touch it
LookupHit(p, s, bytes) ==
    /\ call[p] = None
    /\ entries[s] # None
    /\ Enter(p, s, entries[s].bucket, bytes)
    /\ UNCHANGED bucket

\* first encounter: install a full bucket at a fresh address
LookupMiss(p, s, bytes) ==
    /\ call[p] = None
    /\ entries[s] = None
    /\ \E b \in BucketId \ Reachable :
            /\ bucket' = [bucket EXCEPT ![b] = NewBucket]
            /\ Enter(p, s, b, bytes)

\* Bucket.AllowN reads the clock before the library takes its lock
Stamp(p) ==
    /\ call[p] # None
    /\ call[p].at = "unlocked"
    /\ call' = [call EXCEPT ![p].at = "stamped", ![p].stamp = now]
    /\ UNCHANGED <<now, limiterVars, granted, kickVars, spent>>

\* rate.Limiter.advance: a stamp older than the last update earns nothing
Advance(b, t) == Capped(b.tokens + (IF t < b.last THEN 0 ELSE t - b.last))

Answer(p, ok) ==
    /\ call' = [call EXCEPT ![p] = None]
    /\ granted' = [granted EXCEPT ![p] = ok]
    /\ UNCHANGED <<now, entries, kickVars>>

\* Mutant: the bucket is charged without comparing the cost with its level.
ConsumeUnchecked(p) ==
    /\ call[p] # None
    /\ call[p].at = "stamped"
    /\ LET c == call[p]
           have == Advance(bucket[c.bucket], c.stamp)
       IN  /\ bucket' = [bucket EXCEPT ![c.bucket] =
                            [tokens |-> have - c.cost, last |-> c.stamp]]
           /\ spent' = [spent EXCEPT ![c.src] = @ + c.cost - (now - c.stamp)]
    /\ Answer(p, TRUE)

\* rate.Limiter.AllowN succeeds: charge the bucket and move its clock to the
\* stamp, backwards too
ConsumeGrant(p) ==
    /\ call[p] # None
    /\ call[p].at = "stamped"
    /\ LET c == call[p]
           have == Advance(bucket[c.bucket], c.stamp)
       IN  /\ c.cost > 0 /\ c.cost <= have
           /\ bucket' = [bucket EXCEPT ![c.bucket] =
                            [tokens |-> have - c.cost, last |-> c.stamp]]
           /\ spent' = [spent EXCEPT ![c.src] = @ + c.cost - (now - c.stamp)]
    /\ Answer(p, TRUE)

ConsumeDeny(p) ==
    /\ call[p] # None
    /\ call[p].at = "stamped"
    /\ LET c == call[p]
       IN  c.cost <= 0 \/ c.cost > Advance(bucket[c.bucket], c.stamp)
    /\ Answer(p, FALSE)
    /\ UNCHANGED <<bucket, spent>>

-----------------------------------------------------------------------------
(* kick_out_loop                                                           *)

\* Mutant: the cutoff forgets the time-to-live.
KickStartNoTTL ==
    /\ kicker = "select"
    /\ tickC = 1
    /\ tickC' = 0
    /\ kicker' = "kick_out"
    /\ cutoff' = now
    /\ UNCHANGED <<now, limiterVars, call, granted, done, spent>>

KickStart ==
    /\ kicker = "select"
    /\ tickC = 1
    /\ tickC' = 0
    /\ kicker' = "kick_out"
    /\ cutoff' = now - TTL
    /\ UNCHANGED <<now, limiterVars, call, granted, done, spent>>

\* Mutant: the time-to-live is subtracted a second time.
ExpiredTwice(s) == entries[s] # None /\ entries[s].lastUsed < cutoff - TTL

Expired(s) == entries[s] # None /\ entries[s].lastUsed < cutoff

KickSweep ==
    /\ kicker = "kick_out"
    /\ entries' = [s \in Source |-> IF Expired(s) THEN None ELSE entries[s]]
    /\ kicker' = "select"
    /\ cutoff' = 0
    /\ UNCHANGED <<now, bucket, call, granted, tickC, done, spent>>

KickExit ==
    /\ kicker = "select"
    /\ done = "closed"
    /\ kicker' = "stopped"
    /\ UNCHANGED <<now, limiterVars, call, granted, cutoff, tickC, done, spent>>

\* a second Close would panic; nothing calls it twice
Close ==
    /\ done = "open"
    /\ done' = "closed"
    /\ UNCHANGED <<now, limiterVars, call, granted, kicker, cutoff, tickC, spent>>

-----------------------------------------------------------------------------
(* Time passes; no call stays unanswered for more than MaxStall ticks.  The *)
(* ticker drops a tick while its channel is full.                          *)

Tick ==
    /\ now < MaxTime
    /\ \A p \in Proc : call[p] # None => now - call[p].since < MaxStall
    /\ now' = now + 1
    /\ tickC' = IF (now + 1) % Interval = 0 THEN 1 ELSE tickC
    /\ UNCHANGED <<limiterVars, call, granted, kicker, cutoff, done, spent>>

CallStep(p) == Stamp(p) \/ ConsumeGrant(p) \/ ConsumeDeny(p)

KickStep == KickStart \/ KickSweep \/ KickExit

Next ==
    \/ \E p \in Proc :
        \/ \E s \in Source, bytes \in Sizes :
                LookupHit(p, s, bytes) \/ LookupMiss(p, s, bytes)
        \/ CallStep(p)
    \/ KickStep
    \/ Close
    \/ Tick

Spec == Init /\ [][Next]_vars

\* The Go scheduler runs every runnable goroutine eventually, and time passes.
FairSpec ==
    /\ Spec
    /\ \A p \in Proc : WF_vars(CallStep(p))
    /\ WF_vars(KickStep)
    /\ WF_vars(Tick)

-----------------------------------------------------------------------------
(* Properties                                                              *)

\* The type of every variable.
TypeOK ==
    /\ now \in Nat
    /\ entries \in [Source -> EntryType \cup {None}]
    /\ bucket \in [BucketId -> [tokens : 0..Burst, last : Nat]]
    /\ call \in [Proc -> CallType \cup {None}]
    /\ granted \in [Proc -> BOOLEAN]
    /\ kicker \in {"select", "kick_out", "stopped"}
    /\ cutoff \in Int
    /\ tickC \in 0..1
    /\ done \in {"open", "closed"}
    /\ spent \in [Source -> Int]

\* Allow asks a bucket after it has released the mutex; the bucket it asks is
\* still the one in the table, whatever kick_out deleted in between, so no two
\* calls of one source are ever charged to different buckets.
HeldBucketIsCurrent ==
    \A p \in Proc : call[p] # None =>
        /\ entries[call[p].src] # None
        /\ entries[call[p].src].bucket = call[p].bucket

Level(b) == Capped(b.tokens + (now - b.last))

\* What a source could spend at this instant.
Credit(s) == IF entries[s] = None THEN Burst ELSE Level(bucket[entries[s].bucket])

\* kick_out only deletes buckets that are full again: when a sweep finds an
\* entry expired, its source has its whole burst, so the full bucket that
\* replaces it later gives the source nothing.
EvictionForfeitsNothing ==
    \A s \in Source : kicker = "kick_out" /\ Expired(s) => Credit(s) = Burst

\* Over the whole life of the process a source is never granted more than one
\* burst plus what the elapsed time earned, however often its entry was evicted
\* and created again; only the age of the clock readings used adds to it.
EgressBudget ==
    \A s \in Source : spent[s] + Credit(s) <= Burst + now

-----------------------------------------------------------------------------
(* The inductive invariant behind the properties above.                    *)

OneBucketPerSource ==
    \A s, t \in Source :
        entries[s] # None /\ entries[t] # None /\ s # t
            => entries[s].bucket # entries[t].bucket

\* An unanswered call is recent, and its entry was touched no earlier.
CallIsRecent ==
    \A p \in Proc : call[p] # None =>
        /\ call[p].since <= entries[call[p].src].lastUsed
        /\ call[p].since <= call[p].stamp /\ call[p].stamp <= now
        /\ now - call[p].since <= MaxStall

\* No bucket in the table was charged long after its entry was last touched.
ChargeFollowsTouch ==
    \A s \in Source : entries[s] # None =>
        /\ entries[s].lastUsed <= now
        /\ bucket[entries[s].bucket].last <= now
        /\ bucket[entries[s].bucket].last <= entries[s].lastUsed + MaxStall

CutoffIsOld == kicker = "kick_out" => cutoff <= now - TTL

SafeInv ==
    /\ HeldBucketIsCurrent
    /\ OneBucketPerSource
    /\ CallIsRecent
    /\ ChargeFollowsTouch
    /\ CutoffIsOld

IndInv == TypeOK /\ SafeInv /\ EgressBudget

-----------------------------------------------------------------------------

\* The limiter implements the account-per-source policy.
Policy == INSTANCE EgressPolicy WITH
    Slack <- MaxStall,
    credit <- [s \in Source |-> Credit(s)],
    request <- [p \in Proc |->
                   IF call[p] = None THEN [cost |-> 0]
                   ELSE [src |-> call[p].src, cost |-> call[p].cost]]

PolicySpec == Policy!Spec

\* An entry that is never touched again is evicted: the table does not keep the
\* addresses of sources that went away (entries young enough that a tick of the
\* loop still follows their expiry, in a process that never calls Close).
IdleEntriesExpire ==
    \A s \in Source : \A u \in 0 .. (MaxTime - TTL - Interval) :
        (entries[s] # None /\ entries[s].lastUsed = u)
            ~> (entries[s] = None \/ entries[s].lastUsed # u \/ done = "closed")
=============================================================================
