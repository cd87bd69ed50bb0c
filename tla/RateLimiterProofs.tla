-------------------------- MODULE RateLimiterProofs --------------------------
(***************************************************************************)
(* Proofs about RateLimiter for every set of sources, goroutines and       *)
(* bucket addresses and every configuration that satisfies the named       *)
(* assumptions.                                                            *)
(***************************************************************************)
EXTENDS RateLimiter, TLAPS

\* egressTokenCost always charges a positive whole number of tokens.
LEMMA CostPositive == \A c \in Cost : c \in Int /\ c >= 1
<1> SUFFICES ASSUME NEW b \in Sizes
             PROVE  egressTokenCost(b) \in Int /\ egressTokenCost(b) >= 1
    BY DEF Cost
<1>1. b \in Int
    BY ConstantsAssumption
<1> DEFINE q == (b + 128 - 1) \div 128
<1>2. q \in Int
    BY <1>1, SMT
<1>3. egressTokenCost(b) = IF b <= 0 THEN 1 ELSE IF q < 1 THEN 1 ELSE q
    BY DEF egressTokenCost, egressBytesPerToken
<1> HIDE DEF q
<1> QED
    BY <1>2, <1>3

\* Every step keeps the variables in their types.
LEMMA TypePreserved == TypeOK /\ [Next]_vars => TypeOK'
<1> SUFFICES ASSUME TypeOK, [Next]_vars PROVE TypeOK'
    OBVIOUS
<1> USE ConstantsAssumption
<1>1. ASSUME NEW p \in Proc, NEW s \in Source, NEW bytes \in Sizes,
             LookupHit(p, s, bytes)
      PROVE  TypeOK'
  <2>1. egressTokenCost(bytes) \in Cost
      BY DEF Cost
  <2>2. entries[s] \in EntryType
      BY <1>1 DEF TypeOK, LookupHit
  <2> QED
      BY <1>1, <2>1, <2>2 DEF TypeOK, LookupHit, Enter, EntryType, CallType, kickVars
<1>2. ASSUME NEW p \in Proc, NEW s \in Source, NEW bytes \in Sizes,
             LookupMiss(p, s, bytes)
      PROVE  TypeOK'
  <2>1. egressTokenCost(bytes) \in Cost
      BY DEF Cost
  <2>2. NewBucket \in [tokens : 0..Burst, last : Nat]
      BY DEF TypeOK, NewBucket
  <2>3. PICK b \in BucketId : /\ bucket' = [bucket EXCEPT ![b] = NewBucket]
                              /\ Enter(p, s, b, bytes)
      BY <1>2 DEF LookupMiss
  <2> QED
      BY <2>1, <2>2, <2>3 DEF TypeOK, Enter, EntryType, CallType, kickVars
<1>3. ASSUME NEW p \in Proc, Stamp(p) PROVE TypeOK'
  <2>1. call[p] \in CallType
      BY <1>3 DEF TypeOK, Stamp
  <2>2. [call[p] EXCEPT !.at = "stamped", !.stamp = now] \in CallType
      BY <2>1 DEF CallType, TypeOK
  <2> QED
      BY <1>3, <2>2 DEF TypeOK, Stamp, limiterVars, kickVars
<1>4. ASSUME NEW p \in Proc, ConsumeGrant(p) PROVE TypeOK'
  <2>1. call[p] \in CallType
      BY <1>4 DEF TypeOK, ConsumeGrant
  <2> DEFINE c == call[p]
             have == Advance(bucket[c.bucket], c.stamp)
  <2>2. bucket[c.bucket] \in [tokens : 0..Burst, last : Nat] /\ c.stamp \in Nat
      BY <2>1 DEF TypeOK, CallType
  <2>3. have \in 0..Burst
      BY <2>2 DEF Advance, Capped
  <2>4. c.cost \in Int /\ c.cost >= 1
      BY <2>1, CostPositive DEF CallType
  <2>5. have - c.cost \in 0..Burst
      BY <1>4, <2>3, <2>4 DEF ConsumeGrant
  <2>6. bucket' \in [BucketId -> [tokens : 0..Burst, last : Nat]]
      BY <1>4, <2>1, <2>2, <2>5 DEF ConsumeGrant, TypeOK, CallType
  <2>7. spent' \in [Source -> Int]
      BY <1>4, <2>1, <2>2, <2>4 DEF ConsumeGrant, TypeOK, CallType
  <2> QED
      BY <1>4, <2>6, <2>7 DEF TypeOK, ConsumeGrant, Answer, kickVars
<1>5. ASSUME NEW p \in Proc, ConsumeDeny(p) PROVE TypeOK'
    BY <1>5 DEF TypeOK, ConsumeDeny, Answer, kickVars
<1>6. CASE KickStart
    BY <1>6 DEF TypeOK, KickStart, limiterVars
<1>7. CASE KickSweep
    BY <1>7 DEF TypeOK, KickSweep
<1>8. CASE KickExit
    BY <1>8 DEF TypeOK, KickExit, limiterVars
<1>9. CASE Close
    BY <1>9 DEF TypeOK, Close, limiterVars
<1>10. CASE Tick
    BY <1>10 DEF TypeOK, Tick, limiterVars
<1>11. CASE UNCHANGED vars
    BY <1>11 DEF TypeOK, vars, kickVars
<1> QED
    BY <1>1, <1>2, <1>3, <1>4, <1>5, <1>6, <1>7, <1>8, <1>9, <1>10, <1>11
    DEF Next, CallStep, KickStep

\* Initially every variable has its type.
LEMMA TypeInit == Init => TypeOK
<1> SUFFICES ASSUME Init PROVE TypeOK
    OBVIOUS
<1>1. NewBucket \in [tokens : 0..Burst, last : Nat]
    BY ConstantsAssumption DEF Init, NewBucket
<1>2. bucket \in [BucketId -> [tokens : 0..Burst, last : Nat]]
    BY <1>1 DEF Init
<1> QED
    BY <1>2 DEF Init, TypeOK

\* Every variable of the limiter keeps its type, for all constants.
THEOREM TypeCorrect == Spec => []TypeOK
    BY TypeInit, TypePreserved, PTL DEF Spec

-----------------------------------------------------------------------------

\* An entry is touched or created by Lookup: the facts both branches share.
LEMMA EnterKeepsSafe ==
    ASSUME TypeOK, SafeInv,
           NEW p \in Proc, NEW s \in Source, NEW bytes \in Sizes,
           NEW b \in BucketId,
           call[p] = None, Enter(p, s, b, bytes),
           bucket' \in [BucketId -> [tokens : 0..Burst, last : Nat]],
           \A d \in BucketId \ {b} : bucket'[d] = bucket[d],
           bucket'[b].last <= now,
           \A t \in Source \ {s} : entries[t] # None => entries[t].bucket # b,
           \A q \in Proc : call[q] # None /\ call[q].src = s => call[q].bucket = b
    PROVE  SafeInv'
<1> DEFINE new == [at |-> "unlocked", src |-> s, bucket |-> b, since |-> now,
                   cost |-> egressTokenCost(bytes), stamp |-> now]
           ent == [bucket |-> b, lastUsed |-> now]
<1>1. now' = now /\ now \in Nat /\ UNCHANGED kickVars
    BY DEF Enter, TypeOK
<1>2. entries' = [entries EXCEPT ![s] = ent] /\ call' = [call EXCEPT ![p] = new]
    BY DEF Enter
<1>3. ent \in EntryType /\ ent # None
    BY <1>1, NoneAssumption DEF EntryType
<1>4. new \in CallType /\ new # None
    BY <1>1, NoneAssumption DEF CallType, Cost
<1>5. entries'[s] = ent /\ \A t \in Source \ {s} : entries'[t] = entries[t]
    BY <1>2 DEF TypeOK
<1>6. call'[p] = new /\ \A q \in Proc \ {p} : call'[q] = call[q]
    BY <1>2 DEF TypeOK
<1>7. ent.bucket = b /\ ent.lastUsed = now
    OBVIOUS
<1>8. new.src = s /\ new.bucket = b /\ new.since = now /\ new.stamp = now
    OBVIOUS
<1>9. \A q \in Proc : call[q] # None => call[q] \in CallType
    BY DEF TypeOK
<1>10. \A t \in Source : entries[t] # None => entries[t] \in EntryType
    BY DEF TypeOK
<1> HIDE DEF new, ent
<1>11. HeldBucketIsCurrent'
    BY <1>3, <1>5, <1>6, <1>7, <1>8, <1>9 DEF HeldBucketIsCurrent, SafeInv, CallType
<1>12. OneBucketPerSource'
    BY <1>5, <1>7 DEF OneBucketPerSource, SafeInv
<1>13. CallIsRecent'
  <2> SUFFICES ASSUME NEW q \in Proc, call'[q] # None
               PROVE  /\ call'[q].since <= entries'[call'[q].src].lastUsed
                      /\ call'[q].since <= call'[q].stamp /\ call'[q].stamp <= now
                      /\ now - call'[q].since <= MaxStall
      BY <1>1 DEF CallIsRecent
  <2>1. CASE q = p
      BY <2>1, <1>1, <1>5, <1>6, <1>7, <1>8, ConstantsAssumption
  <2>2. CASE q # p
    <3>1. call'[q] = call[q] /\ call[q] # None /\ call[q] \in CallType
        BY <2>2, <1>6, <1>9
    <3>2. /\ call[q].since <= entries[call[q].src].lastUsed
          /\ call[q].since <= call[q].stamp /\ call[q].stamp <= now
          /\ now - call[q].since <= MaxStall
        BY <3>1 DEF SafeInv, CallIsRecent
    <3>3. CASE call[q].src = s
        BY <3>1, <3>2, <3>3, <1>1, <1>5, <1>7 DEF CallType
    <3>4. CASE call[q].src # s
        BY <3>1, <3>2, <3>4, <1>1, <1>5 DEF CallType
    <3> QED
        BY <3>3, <3>4
  <2> QED
      BY <2>1, <2>2
<1>14. ChargeFollowsTouch'
  <2> SUFFICES ASSUME NEW t \in Source, entries'[t] # None
               PROVE  /\ entries'[t].lastUsed <= now
                      /\ bucket'[entries'[t].bucket].last <= now
                      /\ bucket'[entries'[t].bucket].last <= entries'[t].lastUsed + MaxStall
      BY <1>1 DEF ChargeFollowsTouch
  <2>1. CASE t = s
      BY <2>1, <1>1, <1>5, <1>7, ConstantsAssumption
  <2>2. CASE t # s
    <3>1. entries'[t] = entries[t] /\ entries[t] \in EntryType /\ entries[t].bucket # b
        BY <2>2, <1>5, <1>10
    <3>2. bucket'[entries[t].bucket] = bucket[entries[t].bucket]
        BY <3>1 DEF EntryType
    <3> QED
        BY <3>1, <3>2 DEF SafeInv, ChargeFollowsTouch
  <2> QED
      BY <2>1, <2>2
<1>15. CutoffIsOld'
    BY <1>1 DEF SafeInv, CutoffIsOld, kickVars
<1> QED
    BY <1>11, <1>12, <1>13, <1>14, <1>15 DEF SafeInv

\* A sweep never deletes the entry a call in progress was given: such an entry
\* was touched at most MaxStall ticks ago.
LEMMA SweepSparesHeld ==
    ASSUME TypeOK, SafeInv, kicker = "kick_out",
           NEW p \in Proc, call[p] # None
    PROVE  ~ Expired(call[p].src)
<1>1. call[p] \in CallType /\ entries[call[p].src] \in EntryType
    BY DEF TypeOK, SafeInv, HeldBucketIsCurrent, CallType
<1>2. /\ call[p].since <= entries[call[p].src].lastUsed
      /\ now - call[p].since <= MaxStall
    BY DEF SafeInv, CallIsRecent
<1>3. cutoff <= now - TTL /\ now \in Nat /\ cutoff \in Int
    BY DEF SafeInv, CutoffIsOld, TypeOK
<1> QED
    BY <1>1, <1>2, <1>3, ConstantsAssumption, RefillBeforeExpiry
    DEF Expired, EntryType, CallType

\* Every step preserves the parts of the inductive invariant about buckets,
\* calls and times.
LEMMA SafePreserved == TypeOK /\ SafeInv /\ [Next]_vars => SafeInv'
<1> SUFFICES ASSUME TypeOK, SafeInv, [Next]_vars PROVE SafeInv'
    OBVIOUS
<1>0. TypeOK'
    BY TypePreserved
<1>a. \A q \in Proc : call[q] # None => call[q] \in CallType
    BY DEF TypeOK
<1>b. \A t \in Source : entries[t] # None => entries[t] \in EntryType
    BY DEF TypeOK
<1>1. ASSUME NEW p \in Proc, NEW s \in Source, NEW bytes \in Sizes,
             LookupHit(p, s, bytes)
      PROVE  SafeInv'
  <2> DEFINE b == entries[s].bucket
  <2>1. b \in BucketId /\ bucket' = bucket /\ Enter(p, s, b, bytes) /\ call[p] = None
      BY <1>1, <1>b DEF LookupHit, EntryType
  <2>2. bucket'[b].last <= now
      BY <1>1, <2>1 DEF SafeInv, ChargeFollowsTouch, LookupHit
  <2>3. \A t \in Source \ {s} : entries[t] # None => entries[t].bucket # b
      BY <1>1 DEF SafeInv, OneBucketPerSource, LookupHit
  <2>4. \A q \in Proc : call[q] # None /\ call[q].src = s => call[q].bucket = b
      BY DEF SafeInv, HeldBucketIsCurrent
  <2>5. bucket' \in [BucketId -> [tokens : 0..Burst, last : Nat]]
      BY <1>0 DEF TypeOK
  <2> HIDE DEF b
  <2> QED
      BY <2>1, <2>2, <2>3, <2>4, <2>5, EnterKeepsSafe
<1>2. ASSUME NEW p \in Proc, NEW s \in Source, NEW bytes \in Sizes,
             LookupMiss(p, s, bytes)
      PROVE  SafeInv'
  <2>1. PICK b \in BucketId \ Reachable :
            /\ bucket' = [bucket EXCEPT ![b] = NewBucket]
            /\ Enter(p, s, b, bytes)
      BY <1>2 DEF LookupMiss
  <2>2. bucket'[b].last <= now
      BY <2>1 DEF NewBucket, TypeOK
  <2>3. \A d \in BucketId \ {b} : bucket'[d] = bucket[d]
      BY <2>1 DEF TypeOK
  <2>4. \A t \in Source \ {s} : entries[t] # None => entries[t].bucket # b
      BY <2>1 DEF Reachable
  <2>5. \A q \in Proc : call[q] # None /\ call[q].src = s => call[q].bucket = b
      BY <1>2 DEF SafeInv, HeldBucketIsCurrent, LookupMiss
  <2>6. call[p] = None
      BY <1>2 DEF LookupMiss
  <2>7. bucket' \in [BucketId -> [tokens : 0..Burst, last : Nat]]
      BY <1>0 DEF TypeOK
  <2> QED
      BY <2>1, <2>2, <2>3, <2>4, <2>5, <2>6, <2>7, EnterKeepsSafe
<1>3. ASSUME NEW p \in Proc, Stamp(p) PROVE SafeInv'
  <2>1. /\ call'[p].src = call[p].src /\ call'[p].bucket = call[p].bucket
        /\ call'[p].since = call[p].since /\ call'[p].stamp = now
        /\ \A q \in Proc \ {p} : call'[q] = call[q]
        /\ call[p] # None /\ call[p] \in CallType
      BY <1>3, <1>a DEF Stamp, TypeOK, CallType
  <2>2. now' = now /\ entries' = entries /\ bucket' = bucket /\ UNCHANGED kickVars
      BY <1>3 DEF Stamp, limiterVars
  <2>3. HeldBucketIsCurrent'
      BY <2>1, <2>2 DEF SafeInv, HeldBucketIsCurrent
  <2>4. CallIsRecent'
    <3> SUFFICES ASSUME NEW q \in Proc, call'[q] # None
                 PROVE  /\ call'[q].since <= entries[call'[q].src].lastUsed
                        /\ call'[q].since <= call'[q].stamp /\ call'[q].stamp <= now
                        /\ now - call'[q].since <= MaxStall
        BY <2>2 DEF CallIsRecent
    <3>1. CASE q = p
      <4>1. call[p].since <= call[p].stamp /\ call[p].stamp <= now /\ now \in Nat
          BY <2>1 DEF SafeInv, CallIsRecent, TypeOK
      <4> QED
          BY <3>1, <4>1, <2>1 DEF SafeInv, CallIsRecent, CallType
    <3>2. CASE q # p
        BY <3>2, <2>1 DEF SafeInv, CallIsRecent
    <3> QED
        BY <3>1, <3>2
  <2> QED
      BY <2>2, <2>3, <2>4 DEF SafeInv, OneBucketPerSource, ChargeFollowsTouch,
                              CutoffIsOld, kickVars
<1>4. ASSUME NEW p \in Proc, ConsumeGrant(p) PROVE SafeInv'
  <2>1. call[p] # None /\ call[p] \in CallType
      BY <1>4, <1>a DEF ConsumeGrant
  <2>2. call'[p] = None /\ \A q \in Proc \ {p} : call'[q] = call[q]
      BY <1>4 DEF ConsumeGrant, Answer, TypeOK
  <2>3. now' = now /\ entries' = entries /\ UNCHANGED kickVars
      BY <1>4 DEF ConsumeGrant, Answer
  <2>4. /\ bucket'[call[p].bucket].last = call[p].stamp
        /\ \A d \in BucketId \ {call[p].bucket} : bucket'[d] = bucket[d]
      BY <1>4, <2>1 DEF ConsumeGrant, TypeOK, CallType
  <2>5. ChargeFollowsTouch'
    <3> SUFFICES ASSUME NEW t \in Source, entries[t] # None
                 PROVE  /\ entries[t].lastUsed <= now
                        /\ bucket'[entries[t].bucket].last <= now
                        /\ bucket'[entries[t].bucket].last <= entries[t].lastUsed + MaxStall
        BY <2>3 DEF ChargeFollowsTouch
    <3>1. CASE entries[t].bucket = call[p].bucket
      <4>1. t = call[p].src
          BY <2>1, <3>1 DEF SafeInv, HeldBucketIsCurrent, OneBucketPerSource, CallType
      <4>2. /\ call[p].since <= entries[t].lastUsed
            /\ call[p].since <= call[p].stamp /\ call[p].stamp <= now
            /\ now - call[p].since <= MaxStall
          BY <2>1, <4>1 DEF SafeInv, CallIsRecent
      <4>3. entries[t] \in EntryType /\ now \in Nat /\ entries[t].lastUsed <= now
          BY <1>b DEF TypeOK, SafeInv, ChargeFollowsTouch
      <4> QED
          BY <2>1, <2>4, <3>1, <4>2, <4>3, ConstantsAssumption DEF CallType, EntryType
    <3>2. CASE entries[t].bucket # call[p].bucket
        BY <3>2, <2>4, <1>b DEF SafeInv, ChargeFollowsTouch, EntryType
    <3> QED
        BY <3>1, <3>2
  <2> QED
      BY <2>2, <2>3, <2>5 DEF SafeInv, HeldBucketIsCurrent, OneBucketPerSource,
                              CallIsRecent, CutoffIsOld, kickVars
<1>5. ASSUME NEW p \in Proc, ConsumeDeny(p) PROVE SafeInv'
  <2>1. call'[p] = None /\ \A q \in Proc \ {p} : call'[q] = call[q]
      BY <1>5 DEF ConsumeDeny, Answer, TypeOK
  <2>2. now' = now /\ entries' = entries /\ bucket' = bucket /\ UNCHANGED kickVars
      BY <1>5 DEF ConsumeDeny, Answer
  <2> QED
      BY <2>1, <2>2 DEF SafeInv, HeldBucketIsCurrent, OneBucketPerSource,
                        CallIsRecent, ChargeFollowsTouch, CutoffIsOld, kickVars
<1>6. CASE KickStart
    BY <1>6, ConstantsAssumption
    DEF KickStart, limiterVars, TypeOK, SafeInv, HeldBucketIsCurrent,
        OneBucketPerSource, CallIsRecent, ChargeFollowsTouch, CutoffIsOld
<1>7. CASE KickSweep
  <2>1. /\ now' = now /\ bucket' = bucket /\ call' = call /\ kicker' = "select"
        /\ \A t \in Source : entries'[t] = IF Expired(t) THEN None ELSE entries[t]
      BY <1>7 DEF KickSweep
  <2>2. \A q \in Proc : call[q] # None => /\ call[q].src \in Source
                                         /\ ~ Expired(call[q].src)
      BY <1>7, <1>a, SweepSparesHeld DEF KickSweep, CallType
  <2>3. \A q \in Proc : call[q] # None => entries'[call[q].src] = entries[call[q].src]
      BY <2>1, <2>2
  <2>4. \A t \in Source : entries'[t] # None => entries'[t] = entries[t]
      BY <2>1
  <2>5. HeldBucketIsCurrent'
      BY <2>1, <2>3 DEF SafeInv, HeldBucketIsCurrent
  <2>6. CallIsRecent'
      BY <2>1, <2>3 DEF SafeInv, CallIsRecent
  <2>7. OneBucketPerSource' /\ ChargeFollowsTouch'
      BY <2>1, <2>4 DEF SafeInv, OneBucketPerSource, ChargeFollowsTouch
  <2>8. CutoffIsOld'
      BY <2>1 DEF CutoffIsOld
  <2> QED
      BY <2>5, <2>6, <2>7, <2>8 DEF SafeInv
<1>8. CASE KickExit
    BY <1>8
    DEF KickExit, limiterVars, SafeInv, HeldBucketIsCurrent,
        OneBucketPerSource, CallIsRecent, ChargeFollowsTouch, CutoffIsOld
<1>9. CASE Close
    BY <1>9
    DEF Close, limiterVars, SafeInv, HeldBucketIsCurrent,
        OneBucketPerSource, CallIsRecent, ChargeFollowsTouch, CutoffIsOld
<1>10. CASE Tick
  <2>1. /\ now' = now + 1 /\ entries' = entries /\ bucket' = bucket /\ call' = call
        /\ kicker' = kicker /\ cutoff' = cutoff /\ now \in Nat
      BY <1>10 DEF Tick, limiterVars, TypeOK
  <2>2. CallIsRecent'
      BY <1>10, <1>a, <2>1, ConstantsAssumption
      DEF Tick, SafeInv, CallIsRecent, CallType
  <2>3. ChargeFollowsTouch'
    <3> SUFFICES ASSUME NEW t \in Source, entries[t] # None
                 PROVE  /\ entries[t].lastUsed <= now + 1
                        /\ bucket[entries[t].bucket].last <= now + 1
                        /\ bucket[entries[t].bucket].last <= entries[t].lastUsed + MaxStall
        BY <2>1 DEF ChargeFollowsTouch
    <3>1. /\ entries[t].lastUsed \in Nat
          /\ bucket[entries[t].bucket] \in [tokens : 0..Burst, last : Nat]
        BY <1>b DEF TypeOK, EntryType
    <3> QED
        BY <3>1, <2>1 DEF SafeInv, ChargeFollowsTouch
  <2>4. CutoffIsOld'
      BY <2>1, ConstantsAssumption DEF TypeOK, SafeInv, CutoffIsOld
  <2> QED
      BY <2>1, <2>2, <2>3, <2>4 DEF SafeInv, HeldBucketIsCurrent, OneBucketPerSource
<1>11. CASE UNCHANGED vars
    BY <1>11
    DEF vars, kickVars, SafeInv, HeldBucketIsCurrent,
        OneBucketPerSource, CallIsRecent, ChargeFollowsTouch, CutoffIsOld
<1> QED
    BY <1>1, <1>2, <1>3, <1>4, <1>5, <1>6, <1>7, <1>8, <1>9, <1>10, <1>11
    DEF Next, CallStep, KickStep

\* The initial table is empty and no call is in progress.
LEMMA SafeInit == Init => SafeInv
    BY DEF Init, SafeInv, HeldBucketIsCurrent, OneBucketPerSource, CallIsRecent,
           ChargeFollowsTouch, CutoffIsOld

\* The two inductive facts together.
LEMMA SafeAlways == Spec => [](TypeOK /\ SafeInv)
<1>1. TypeOK /\ SafeInv /\ [Next]_vars => (TypeOK /\ SafeInv)'
    BY TypePreserved, SafePreserved
<1>2. Init => TypeOK /\ SafeInv
    BY TypeInit, SafeInit
<1> QED
    BY <1>1, <1>2, PTL DEF Spec

\* Allow charges the bucket that is in the table, although it asks it after
\* releasing the mutex.
THEOREM AllowChargesCurrentBucket == Spec => []HeldBucketIsCurrent
<1>1. SafeInv => HeldBucketIsCurrent
    BY DEF SafeInv
<1> QED
    BY <1>1, SafeAlways, PTL

-----------------------------------------------------------------------------

\* A bucket of the table was last charged so long before its entry expires
\* that it is full again.
LEMMA ExpiredIsFull == TypeOK /\ SafeInv => EvictionForfeitsNothing
<1> SUFFICES ASSUME TypeOK, SafeInv, NEW s \in Source, kicker = "kick_out", Expired(s)
             PROVE  Credit(s) = Burst
    BY DEF EvictionForfeitsNothing
<1> DEFINE b == bucket[entries[s].bucket]
<1>1. entries[s] # None /\ entries[s] \in EntryType /\ entries[s].lastUsed < cutoff
    BY DEF Expired, TypeOK
<1>2. b \in [tokens : 0..Burst, last : Nat]
    BY <1>1 DEF TypeOK, EntryType
<1>3. b.last <= entries[s].lastUsed + MaxStall
    BY <1>1 DEF SafeInv, ChargeFollowsTouch
<1>4. cutoff <= now - TTL /\ cutoff \in Int /\ now \in Nat
    BY DEF SafeInv, CutoffIsOld, TypeOK
<1>5. entries[s].lastUsed \in Nat
    BY <1>1 DEF EntryType
<1>6. Credit(s) = Capped(b.tokens + (now - b.last))
    BY <1>1 DEF Credit, Level
<1> HIDE DEF b
<1>7. b.tokens + (now - b.last) >= Burst
    BY <1>1, <1>2, <1>3, <1>4, <1>5, ConstantsAssumption, RefillBeforeExpiry
<1> QED
    BY <1>2, <1>4, <1>6, <1>7, ConstantsAssumption DEF Capped

\* kick_out never deletes a bucket that is not full.
THEOREM EvictionIsFree == Spec => []EvictionForfeitsNothing
    BY SafeAlways, ExpiredIsFull, PTL

\* A credit is a number of tokens.
CreditOK == \A s \in Source : Credit(s) \in 0..Burst

\* Every credit is between zero and the burst.
LEMMA CreditTyped == TypeOK /\ SafeInv => CreditOK
<1> SUFFICES ASSUME TypeOK, SafeInv, NEW s \in Source PROVE Credit(s) \in 0..Burst
    BY DEF CreditOK
<1>1. CASE entries[s] = None
    BY <1>1, ConstantsAssumption DEF Credit
<1>2. CASE entries[s] # None
  <2> DEFINE b == bucket[entries[s].bucket]
  <2>1. b \in [tokens : 0..Burst, last : Nat] /\ b.last <= now /\ now \in Nat
      BY <1>2 DEF TypeOK, EntryType, SafeInv, ChargeFollowsTouch
  <2>2. Credit(s) = Capped(b.tokens + (now - b.last))
      BY <1>2 DEF Credit, Level
  <2> HIDE DEF b
  <2> QED
      BY <2>1, <2>2, ConstantsAssumption DEF Capped
<1> QED
    BY <1>1, <1>2

\* The same after the step.
LEMMA CreditTypedNext == TypeOK' /\ SafeInv' => CreditOK'
    BY CreditTyped, PTL

\* Steps that neither charge a bucket nor move the clock leave every credit
\* alone, the creation and the eviction of entries included.
LEMMA CreditUnchanged ==
    ASSUME TypeOK, SafeInv,
           \/ \E p \in Proc, s \in Source, bytes \in Sizes :
                    LookupHit(p, s, bytes) \/ LookupMiss(p, s, bytes)
           \/ \E p \in Proc : Stamp(p) \/ ConsumeDeny(p)
           \/ KickStep \/ Close \/ UNCHANGED vars
    PROVE  \A t \in Source : Credit(t)' = Credit(t)
<1> SUFFICES ASSUME NEW t \in Source PROVE Credit(t)' = Credit(t)
    OBVIOUS
<1>1. ASSUME NEW p \in Proc, NEW s \in Source, NEW bytes \in Sizes,
             LookupHit(p, s, bytes)
      PROVE  Credit(t)' = Credit(t)
  <2>1. now' = now /\ bucket' = bucket /\ entries[s] # None
      BY <1>1 DEF LookupHit, Enter
  <2>2. entries' = [entries EXCEPT ![s] = [bucket |-> entries[s].bucket, lastUsed |-> now]]
      BY <1>1 DEF LookupHit, Enter
  <2>3. [bucket |-> entries[s].bucket, lastUsed |-> now] # None
      BY <2>1, NoneAssumption DEF EntryType, TypeOK
  <2>4. /\ entries'[t] = None <=> entries[t] = None
        /\ entries[t] # None => entries'[t].bucket = entries[t].bucket
      BY <2>1, <2>2, <2>3 DEF TypeOK
  <2> QED
      BY <2>1, <2>4 DEF Credit, Level, Capped
<1>2. ASSUME NEW p \in Proc, NEW s \in Source, NEW bytes \in Sizes,
             LookupMiss(p, s, bytes)
      PROVE  Credit(t)' = Credit(t)
  <2>1. PICK b \in BucketId \ Reachable :
            /\ bucket' = [bucket EXCEPT ![b] = NewBucket]
            /\ Enter(p, s, b, bytes)
      BY <1>2 DEF LookupMiss
  <2>2. now' = now /\ now \in Nat /\ entries[s] = None
      BY <1>2, <2>1 DEF LookupMiss, Enter, TypeOK
  <2>3. entries' = [entries EXCEPT ![s] = [bucket |-> b, lastUsed |-> now]]
      BY <2>1 DEF Enter
  <2>4. CASE t = s
    <3>1. entries'[t] = [bucket |-> b, lastUsed |-> now] /\ entries'[t] # None
        BY <2>1, <2>2, <2>3, <2>4, NoneAssumption DEF EntryType, TypeOK
    <3>2. bucket'[b] = [tokens |-> Burst, last |-> now]
        BY <2>1 DEF TypeOK, NewBucket
    <3>3. Credit(t)' = Burst
        BY <3>1, <3>2, <2>2, ConstantsAssumption DEF Credit, Level, Capped
    <3> QED
        BY <3>3, <2>2, <2>4 DEF Credit
  <2>5. CASE t # s
    <3>1. entries'[t] = entries[t]
        BY <2>3, <2>5 DEF TypeOK
    <3>2. entries[t] # None => bucket'[entries[t].bucket] = bucket[entries[t].bucket]
        BY <2>1 DEF Reachable, TypeOK, EntryType
    <3> QED
        BY <3>1, <3>2, <2>2 DEF Credit, Level, Capped
  <2> QED
      BY <2>4, <2>5
<1>3. ASSUME NEW p \in Proc, Stamp(p) PROVE Credit(t)' = Credit(t)
    BY <1>3 DEF Stamp, limiterVars, Credit, Level, Capped
<1>4. ASSUME NEW p \in Proc, ConsumeDeny(p) PROVE Credit(t)' = Credit(t)
    BY <1>4 DEF ConsumeDeny, Answer, Credit, Level, Capped
<1>5. CASE KickStart
    BY <1>5 DEF KickStart, limiterVars, Credit, Level, Capped
<1>6. CASE KickSweep
  <2>1. now' = now /\ bucket' = bucket /\ kicker = "kick_out"
      BY <1>6 DEF KickSweep
  <2>2. entries'[t] = IF Expired(t) THEN None ELSE entries[t]
      BY <1>6 DEF KickSweep
  <2>3. CASE Expired(t)
    <3>1. Credit(t) = Burst
        BY <2>1, <2>3, ExpiredIsFull DEF EvictionForfeitsNothing
    <3> QED
        BY <2>2, <2>3, <3>1 DEF Credit
  <2>4. CASE ~ Expired(t)
      BY <2>1, <2>2, <2>4 DEF Credit, Level, Capped
  <2> QED
      BY <2>3, <2>4
<1>7. CASE KickExit
    BY <1>7 DEF KickExit, limiterVars, Credit, Level, Capped
<1>8. CASE Close
    BY <1>8 DEF Close, limiterVars, Credit, Level, Capped
<1>9. CASE UNCHANGED vars
    BY <1>9 DEF vars, Credit, Level, Capped
<1> QED
    BY <1>1, <1>2, <1>3, <1>4, <1>5, <1>6, <1>7, <1>8, <1>9 DEF KickStep

\* A grant is covered by the credit of its source and lowers it by the cost,
\* except for the age of the clock reading it used.
LEMMA CreditGrant ==
    ASSUME TypeOK, SafeInv, NEW p \in Proc, ConsumeGrant(p),
           NEW CONSTANT s \in Source, s = call[p].src
    PROVE  /\ call[p].cost \in Nat /\ call[p].cost >= 1
           /\ now - call[p].stamp \in 0..MaxStall
           /\ Credit(s) - call[p].cost >= 0
           /\ Credit(s)' >= Credit(s) - call[p].cost
           /\ Credit(s)' <= Credit(s) - call[p].cost + (now - call[p].stamp)
           /\ Credit(s)' <= Burst
           /\ \A t \in Source \ {s} : Credit(t)' = Credit(t)
<1> DEFINE c == call[p]
           b == bucket[c.bucket]
           have == Advance(b, c.stamp)
<1>1. c \in CallType /\ c # None
    BY DEF TypeOK, ConsumeGrant
<1>2. /\ entries[s] # None /\ entries[s].bucket = c.bucket
      /\ c.bucket \in BucketId
    BY <1>1 DEF SafeInv, HeldBucketIsCurrent, CallType
<1>3. b \in [tokens : 0..Burst, last : Nat]
    BY <1>2 DEF TypeOK
<1>4. c.cost \in Nat /\ c.cost >= 1
    BY <1>1, CostPositive DEF CallType
<1>5. now \in Nat /\ c.stamp \in Nat /\ c.since \in Nat
    BY <1>1 DEF TypeOK, CallType
<1>6. c.since <= c.stamp /\ c.stamp <= now /\ now - c.since <= MaxStall
    BY <1>1 DEF SafeInv, CallIsRecent
<1>7. b.last <= now
    BY <1>2 DEF SafeInv, ChargeFollowsTouch
<1>8. c.cost <= have /\ now' = now /\ entries' = entries
    BY DEF ConsumeGrant, Answer
<1>9. bucket' = [bucket EXCEPT ![c.bucket] = [tokens |-> have - c.cost, last |-> c.stamp]]
    BY DEF ConsumeGrant
<1>10. Credit(s) = Capped(b.tokens + (now - b.last))
    BY <1>2 DEF Credit, Level
<1>11. Credit(s)' = Capped((have - c.cost) + (now - c.stamp))
  <2>1. bucket'[c.bucket] = [tokens |-> have - c.cost, last |-> c.stamp]
      BY <1>2, <1>9 DEF TypeOK
  <2> QED
      BY <2>1, <1>2, <1>8 DEF Credit, Level, Capped
<1>12. \A t \in Source \ {s} : Credit(t)' = Credit(t)
  <2> SUFFICES ASSUME NEW t \in Source \ {s} PROVE Credit(t)' = Credit(t)
      OBVIOUS
  <2>1. entries[t] # None => entries[t].bucket # c.bucket /\ entries[t].bucket \in BucketId
      BY <1>2 DEF SafeInv, OneBucketPerSource, TypeOK, EntryType
  <2>2. entries[t] # None => bucket'[entries[t].bucket] = bucket[entries[t].bucket]
      BY <2>1, <1>9 DEF TypeOK
  <2> QED
      BY <2>2, <1>8 DEF Credit, Level, Capped
<1>13. have = Capped(b.tokens + (IF c.stamp < b.last THEN 0 ELSE c.stamp - b.last))
    BY DEF Advance
<1>14. now - c.stamp \in 0..MaxStall
    BY <1>5, <1>6, ConstantsAssumption
<1> DEFINE cs == Credit(s)
           cs1 == Credit(s)'
           tk == b.tokens
           la == b.last
           st == c.stamp
           co == c.cost
<1>15. tk \in 0..Burst /\ la \in Nat /\ st \in Nat /\ co \in Nat /\ co >= 1 /\ st <= now
       /\ la <= now
    BY <1>3, <1>4, <1>5, <1>6, <1>7
<1> HIDE DEF cs, cs1, tk, la, st, co, have
<1>16. have = Capped(tk + (IF st < la THEN 0 ELSE st - la))
    BY <1>13 DEF tk, la, st
<1>17. cs = Capped(tk + (now - la)) /\ cs1 = Capped((have - co) + (now - st)) /\ co <= have
    BY <1>8, <1>10, <1>11 DEF tk, la, st, co, cs, cs1
<1>18. have \in 0..Burst /\ have <= cs /\ cs <= Burst
    BY <1>5, <1>15, <1>16, <1>17, ConstantsAssumption DEF Capped
<1>19. /\ cs - co >= 0
       /\ cs1 >= cs - co
       /\ cs1 <= cs - co + (now - st)
       /\ cs1 <= Burst
    BY <1>5, <1>15, <1>16, <1>17, <1>18, ConstantsAssumption DEF Capped
<1> QED
    BY <1>2, <1>4, <1>12, <1>14, <1>19 DEF cs, cs1, co, st

\* A tick earns every source one token, up to the burst.
LEMMA CreditTick ==
    ASSUME TypeOK, SafeInv, Tick, NEW t \in Source
    PROVE  Credit(t)' = Capped(Credit(t) + 1)
<1>1. now' = now + 1 /\ now \in Nat /\ entries' = entries /\ bucket' = bucket
    BY DEF Tick, limiterVars, TypeOK
<1>2. CASE entries[t] = None
    BY <1>1, <1>2, ConstantsAssumption DEF Credit, Capped
<1>3. CASE entries[t] # None
  <2> DEFINE b == bucket[entries[t].bucket]
  <2>1. b \in [tokens : 0..Burst, last : Nat] /\ b.last <= now
      BY <1>3 DEF TypeOK, EntryType, SafeInv, ChargeFollowsTouch
  <2>2. Credit(t) = Capped(b.tokens + (now - b.last))
      BY <1>3 DEF Credit, Level
  <2>3. Credit(t)' = Capped(b.tokens + ((now + 1) - b.last))
      BY <1>1, <1>3 DEF Credit, Level, Capped
  <2> DEFINE tk == b.tokens
             la == b.last
  <2>4. tk \in 0..Burst /\ la \in Nat /\ la <= now
      BY <2>1
  <2>5. Credit(t) = Capped(tk + (now - la)) /\ Credit(t)' = Capped(tk + ((now + 1) - la))
      BY <2>2, <2>3
  <2> HIDE DEF tk, la
  <2>6. Capped(tk + ((now + 1) - la)) = Capped(Capped(tk + (now - la)) + 1)
      BY <1>1, <2>4, ConstantsAssumption DEF Capped
  <2> QED
      BY <2>5, <2>6
<1> QED
    BY <1>2, <1>3

-----------------------------------------------------------------------------

\* Every step keeps what was granted within one burst plus the elapsed time.
LEMMA BudgetPreserved == IndInv /\ [Next]_vars => EgressBudget'
<1> SUFFICES ASSUME IndInv, [Next]_vars, NEW t \in Source
             PROVE  spent'[t] + Credit(t)' <= Burst + now'
    BY DEF EgressBudget
<1>1. TypeOK /\ SafeInv /\ spent[t] + Credit(t) <= Burst + now
    BY DEF IndInv, EgressBudget
<1>2. now \in Nat /\ spent[t] \in Int /\ Credit(t) \in 0..Burst
    BY <1>1, CreditTyped DEF TypeOK, CreditOK
<1>3. ASSUME NEW p \in Proc, ConsumeGrant(p)
      PROVE  spent'[t] + Credit(t)' <= Burst + now'
  <2>1. call[p].src \in Source /\ call[p].stamp \in Nat /\ now' = now
      BY <1>1, <1>3 DEF ConsumeGrant, Answer, TypeOK, CallType
  <2>2. spent' = [spent EXCEPT ![call[p].src] = @ + call[p].cost - (now - call[p].stamp)]
      BY <1>3 DEF ConsumeGrant
  <2>3. PICK s \in Source : s = call[p].src
      BY <2>1
  <2>4. /\ call[p].cost \in Nat
        /\ Credit(s)' >= Credit(s) - call[p].cost
        /\ Credit(s)' <= Credit(s) - call[p].cost + (now - call[p].stamp)
        /\ \A u \in Source \ {s} : Credit(u)' = Credit(u)
      BY <1>1, <1>3, <2>3, CreditGrant
  <2>5. CASE t = s
    <3>1. spent'[t] = spent[t] + call[p].cost - (now - call[p].stamp)
        BY <1>1, <2>2, <2>3, <2>5 DEF TypeOK
    <3>2. Credit(t)' \in 0..Burst
        BY <1>1, TypePreserved, SafePreserved, CreditTypedNext DEF CreditOK
    <3>3. Credit(t)' <= Credit(t) - call[p].cost + (now - call[p].stamp)
        BY <2>4, <2>5
    <3> DEFINE c0 == Credit(t)
               c1 == Credit(t)'
               s1 == spent'[t]
               s0 == spent[t]
               co == call[p].cost
               st == call[p].stamp
    <3> HIDE DEF c0, c1, s1, s0, co, st
    <3>4. /\ s1 = s0 + co - (now - st) /\ c1 <= c0 - co + (now - st)
          /\ s0 + c0 <= Burst + now
          /\ s0 \in Int /\ c0 \in Int /\ c1 \in Int /\ co \in Int /\ st \in Int
        BY <1>1, <1>2, <2>1, <2>4, <3>1, <3>2, <3>3 DEF c0, c1, s1, s0, co, st
    <3>5. s1 + c1 <= Burst + now
        BY <3>4, <1>2, ConstantsAssumption
    <3> QED
        BY <3>5, <2>1 DEF s1, c1
  <2>6. CASE t # s
    <3>1. spent'[t] = spent[t]
        BY <1>1, <2>2, <2>3, <2>6 DEF TypeOK
    <3> QED
        BY <3>1, <2>1, <2>4, <2>6, <1>1
  <2> QED
      BY <2>5, <2>6
<1>4. CASE Tick
  <2>1. now' = now + 1 /\ spent' = spent
      BY <1>4 DEF Tick
  <2>2. Credit(t)' <= Credit(t) + 1 /\ Credit(t)' \in Int
      BY <1>1, <1>2, <1>4, CreditTick, ConstantsAssumption DEF Capped
  <2> DEFINE c0 == Credit(t)
             c1 == Credit(t)'
  <2> HIDE DEF c0, c1
  <2>3. c1 <= c0 + 1 /\ c1 \in Int /\ c0 \in Int /\ spent[t] + c0 <= Burst + now
      BY <1>1, <1>2, <2>2 DEF c0, c1
  <2>4. spent[t] + c1 <= Burst + (now + 1)
      BY <2>3, <1>2, ConstantsAssumption
  <2> QED
      BY <2>1, <2>4 DEF c1
<1>5. CASE \/ \E p \in Proc, s \in Source, bytes \in Sizes :
                  LookupHit(p, s, bytes) \/ LookupMiss(p, s, bytes)
           \/ \E p \in Proc : Stamp(p) \/ ConsumeDeny(p)
           \/ KickStep \/ Close \/ UNCHANGED vars
  <2>1. Credit(t)' = Credit(t)
      BY <1>1, <1>5, CreditUnchanged
  <2>2. now' = now /\ spent' = spent
      BY <1>5 DEF LookupHit, LookupMiss, Enter, Stamp, ConsumeDeny, Answer, KickStep,
                  KickStart, KickSweep, KickExit, Close, vars
  <2> QED
      BY <1>1, <2>1, <2>2
<1> QED
    BY <1>3, <1>4, <1>5 DEF Next, CallStep

\* The inductive invariant holds in every reachable state.
LEMMA IndInvAlways == Spec => []IndInv
<1>1. Init => IndInv
  <2> SUFFICES ASSUME Init, NEW s \in Source PROVE spent[s] + Credit(s) <= Burst + now
      BY TypeInit, SafeInit DEF IndInv, EgressBudget
  <2>1. spent[s] = 0 /\ now = 0 /\ entries[s] = None
      BY DEF Init
  <2>2. Credit(s) = Burst
      BY <2>1 DEF Credit
  <2> QED
      BY <2>1, <2>2, ConstantsAssumption
<1>2. IndInv /\ [Next]_vars => IndInv'
    BY TypePreserved, SafePreserved, BudgetPreserved DEF IndInv
<1> QED
    BY <1>1, <1>2, PTL DEF Spec

\* No source is ever granted more than a burst plus the elapsed time, evictions
\* and re-creations of its bucket included.
THEOREM BudgetHolds == Spec => []EgressBudget
<1>1. IndInv => EgressBudget
    BY DEF IndInv
<1> QED
    BY <1>1, IndInvAlways, PTL

-----------------------------------------------------------------------------
(* The limiter implements the account-per-source policy.                   *)

request == [p \in Proc |->
               IF call[p] = None THEN [cost |-> 0]
               ELSE [src |-> call[p].src, cost |-> call[p].cost]]

credit == [s \in Source |-> Credit(s)]

\* Requests in progress differ from the absence of one.
LEMMA RequestIsReal ==
    ASSUME TypeOK, NEW p \in Proc
    PROVE  /\ call[p] = None => request[p] = Policy!NoRequest
           /\ call[p] # None => /\ request[p] = [src |-> call[p].src, cost |-> call[p].cost]
                               /\ request[p] # Policy!NoRequest
<1>1. call[p] # None => call[p].cost \in Int /\ call[p].cost >= 1
    BY CostPositive DEF TypeOK, CallType
<1>2. ASSUME call[p] # None
      PROVE  [src |-> call[p].src, cost |-> call[p].cost] # [cost |-> 0]
  <2>1. SUFFICES ASSUME [src |-> call[p].src, cost |-> call[p].cost] = [cost |-> 0]
                 PROVE  FALSE
      OBVIOUS
  <2>2. [src |-> call[p].src, cost |-> call[p].cost].cost = call[p].cost
      OBVIOUS
  <2>3. [cost |-> 0].cost = 0
      OBVIOUS
  <2> QED
      BY <1>1, <1>2, <2>1, <2>2, <2>3
<1> QED
    BY <1>2 DEF request, Policy!NoRequest

\* Initial states of the limiter are initial states of the policy.
LEMMA PolicyInit == Init => Policy!Init
    BY DEF Init, Policy!Init, Policy!NoRequest, Credit

\* A step of the limiter is a step of the policy or changes nothing it sees.
LEMMA PolicyStep == IndInv /\ IndInv' /\ [Next]_vars => [Policy!Next]_(Policy!vars)
<1> SUFFICES ASSUME IndInv, IndInv', [Next]_vars
             PROVE  Policy!Next \/ (credit' = credit /\ request' = request /\ granted' = granted)
    BY DEF Policy!vars, credit, request
<1>0. TypeOK /\ SafeInv /\ TypeOK' /\ SafeInv'
    BY DEF IndInv
<1>1. ASSUME NEW p \in Proc, NEW s \in Source, NEW bytes \in Sizes,
             LookupHit(p, s, bytes) \/ LookupMiss(p, s, bytes)
      PROVE  Policy!Begin(p)
  <2>1. PICK b \in BucketId : Enter(p, s, b, bytes)
      BY <1>0, <1>1 DEF LookupHit, LookupMiss, TypeOK, EntryType
  <2>2. call[p] = None /\ egressTokenCost(bytes) \in Cost
      BY <1>1 DEF LookupHit, LookupMiss, Cost
  <2> DEFINE new == [at |-> "unlocked", src |-> s, bucket |-> b, since |-> now,
                     cost |-> egressTokenCost(bytes), stamp |-> now]
  <2>3. call' = [call EXCEPT ![p] = new]
      BY <2>1 DEF Enter
  <2>4. new # None /\ new.src = s /\ new.cost = egressTokenCost(bytes)
      BY <1>0, <2>2, NoneAssumption DEF CallType, TypeOK
  <2> HIDE DEF new
  <2>5. request' = [request EXCEPT ![p] = [src |-> s, cost |-> egressTokenCost(bytes)]]
      BY <1>0, <2>3, <2>4 DEF request, TypeOK
  <2>6. credit' = credit
      BY <1>0, <1>1, CreditUnchanged DEF credit
  <2>7. request[p] = Policy!NoRequest
      BY <1>0, <2>2, RequestIsReal
  <2>8. granted' = [granted EXCEPT ![p] = FALSE]
      BY <2>1 DEF Enter
  <2> QED
      BY <2>2, <2>5, <2>6, <2>7, <2>8 DEF Policy!Begin, credit, request
<1>2. ASSUME NEW p \in Proc, Stamp(p)
      PROVE  credit' = credit /\ request' = request /\ granted' = granted
  <2>1. credit' = credit
      BY <1>0, <1>2, CreditUnchanged DEF credit
  <2>2. /\ \A q \in Proc \ {p} : call'[q] = call[q]
        /\ call'[p].src = call[p].src /\ call'[p].cost = call[p].cost
        /\ call[p] # None /\ call'[p] \in CallType
      BY <1>0, <1>2 DEF Stamp, TypeOK, CallType
  <2>3. call'[p] # None
      BY <2>2, NoneAssumption
  <2>4. request' = request
      BY <2>2, <2>3 DEF request
  <2> QED
      BY <1>2, <2>1, <2>4 DEF Stamp
<1>3. ASSUME NEW p \in Proc, ConsumeGrant(p)
      PROVE  Policy!Grant(p)
  <2>1. call[p] # None /\ call[p] \in CallType
      BY <1>0, <1>3 DEF ConsumeGrant, TypeOK
  <2>2. PICK s \in Source : s = call[p].src
      BY <2>1 DEF CallType
  <2>3. /\ request[p] # Policy!NoRequest
        /\ request[p].src = s /\ request[p].cost = call[p].cost
    <3>1. /\ request[p] # Policy!NoRequest
          /\ request[p] = [src |-> call[p].src, cost |-> call[p].cost]
        BY <1>0, <2>1, RequestIsReal
    <3> QED
        BY <2>2, <3>1
  <2>4. /\ call[p].cost \in Nat /\ call[p].cost >= 1
        /\ now - call[p].stamp \in 0..MaxStall
        /\ Credit(s) - call[p].cost >= 0
        /\ Credit(s)' >= Credit(s) - call[p].cost
        /\ Credit(s)' <= Credit(s) - call[p].cost + (now - call[p].stamp)
        /\ Credit(s)' <= Burst
        /\ \A t \in Source \ {s} : Credit(t)' = Credit(t)
      BY <1>0, <1>3, <2>2, CreditGrant
  <2>5. Credit(s) \in 0..Burst /\ Credit(s)' \in 0..Burst
      BY <1>0, CreditTyped, CreditTypedNext DEF CreditOK
  <2>6. Credit(s)' \in (Credit(s) - call[p].cost) ..
                        Policy!Capped(Credit(s) - call[p].cost + MaxStall)
    <3> DEFINE c0 == Credit(s)
               c1 == Credit(s)'
               co == call[p].cost
               lag == now - call[p].stamp
    <3> HIDE DEF c0, c1, co, lag
    <3>1. /\ c0 \in 0..Burst /\ c1 \in 0..Burst /\ co \in Nat /\ lag \in 0..MaxStall
          /\ c1 >= c0 - co /\ c1 <= c0 - co + lag
        BY <2>4, <2>5 DEF c0, c1, co, lag
    <3>2. c1 \in (c0 - co) .. Policy!Capped(c0 - co + MaxStall)
        BY <3>1, ConstantsAssumption DEF Policy!Capped
    <3> QED
        BY <3>2 DEF c0, c1, co
  <2>7. credit' = [credit EXCEPT ![s] = Credit(s)']
      BY <2>4 DEF credit
  <2>8. call' = [call EXCEPT ![p] = None] /\ granted' = [granted EXCEPT ![p] = TRUE]
      BY <1>3 DEF ConsumeGrant, Answer
  <2>9. request' = [request EXCEPT ![p] = Policy!NoRequest]
      BY <1>0, <2>8 DEF request, Policy!NoRequest, TypeOK
  <2>10. credit[s] = Credit(s)
      BY DEF credit
  <2>11. /\ credit[request[p].src] - request[p].cost >= 0
         /\ \E c \in (credit[request[p].src] - request[p].cost) ..
                       Policy!Capped((credit[request[p].src] - request[p].cost) + MaxStall) :
                credit' = [credit EXCEPT ![request[p].src] = c]
      BY <2>3, <2>4, <2>6, <2>7, <2>10
  <2> QED
      BY <2>3, <2>8, <2>9, <2>11 DEF Policy!Grant, credit, request
<1>4. ASSUME NEW p \in Proc, ConsumeDeny(p)
      PROVE  Policy!Deny(p)
  <2>1. call[p] # None /\ call[p] \in CallType
      BY <1>0, <1>4 DEF ConsumeDeny, TypeOK
  <2>2. PICK s \in Source : s = call[p].src
      BY <2>1 DEF CallType
  <2>3. /\ request[p] # Policy!NoRequest
        /\ request[p].src = s /\ request[p].cost = call[p].cost
    <3>1. /\ request[p] # Policy!NoRequest
          /\ request[p] = [src |-> call[p].src, cost |-> call[p].cost]
        BY <1>0, <2>1, RequestIsReal
    <3> QED
        BY <2>2, <3>1
  <2>4. call[p].cost > Credit(s) - MaxStall
    <3> DEFINE b == bucket[call[p].bucket]
               co == call[p].cost
               st == call[p].stamp
               tk == b.tokens
               la == b.last
    <3>1. /\ entries[s] # None /\ entries[s].bucket = call[p].bucket
          /\ call[p].bucket \in BucketId
        BY <1>0, <2>1, <2>2 DEF SafeInv, HeldBucketIsCurrent, CallType
    <3>2. co \in Int /\ co >= 1 /\ st \in Nat /\ now \in Nat
        BY <1>0, <2>1, CostPositive DEF CallType, TypeOK
    <3>3. b \in [tokens : 0..Burst, last : Nat] /\ la <= now
        BY <1>0, <3>1 DEF TypeOK, SafeInv, ChargeFollowsTouch
    <3>4. st <= now /\ now - st <= MaxStall
        BY <1>0, <2>1, ConstantsAssumption DEF SafeInv, CallIsRecent, CallType, TypeOK
    <3>5. co > Capped(tk + (IF st < la THEN 0 ELSE st - la))
        BY <1>4, <3>2 DEF ConsumeDeny, Advance
    <3>6. Credit(s) = Capped(tk + (now - la))
        BY <3>1 DEF Credit, Level
    <3>7. tk \in 0..Burst /\ la \in Nat
        BY <3>3
    <3> HIDE DEF b, co, st, tk, la
    <3>8. co > Capped(tk + (now - la)) - MaxStall
        BY <3>2, <3>3, <3>4, <3>5, <3>7, ConstantsAssumption DEF Capped
    <3> QED
        BY <3>6, <3>8 DEF co
  <2>5. credit' = credit
      BY <1>0, <1>4, CreditUnchanged DEF credit
  <2>6. call' = [call EXCEPT ![p] = None] /\ granted' = [granted EXCEPT ![p] = FALSE]
      BY <1>4 DEF ConsumeDeny, Answer
  <2>7. request' = [request EXCEPT ![p] = Policy!NoRequest]
      BY <1>0, <2>6 DEF request, Policy!NoRequest, TypeOK
  <2>8. request[p].cost > credit[request[p].src] - MaxStall
      BY <2>3, <2>4 DEF credit
  <2> QED
      BY <2>3, <2>5, <2>6, <2>7, <2>8 DEF Policy!Deny, credit, request
<1>5. CASE KickStep \/ Close \/ UNCHANGED vars
  <2>1. credit' = credit
      BY <1>0, <1>5, CreditUnchanged DEF credit
  <2>2. call' = call /\ granted' = granted
      BY <1>5 DEF KickStep, KickStart, KickSweep, KickExit, Close, vars
  <2> QED
      BY <2>1, <2>2 DEF request
<1>6. CASE Tick
  <2>1. call' = call /\ granted' = granted
      BY <1>6 DEF Tick
  <2>2. credit' = [s \in Source |-> Policy!Capped(credit[s] + 1)]
      BY <1>0, <1>6, CreditTick DEF credit, Capped, Policy!Capped
  <2>3. request' = request
      BY <2>1 DEF request
  <2>4. Policy!Earn
      BY <2>1, <2>2, <2>3 DEF Policy!Earn, credit, request
  <2> QED
      BY <2>4 DEF Policy!Next
<1> QED
    BY <1>1, <1>2, <1>3, <1>4, <1>5, <1>6 DEF Next, CallStep, Policy!Next

\* The table of buckets with its non-atomic Allow and its evictions implements
\* the simple policy of one account per source.
THEOREM LimiterImplementsPolicy == Spec => PolicySpec
    BY IndInvAlways, PolicyInit, PolicyStep, PTL DEF Spec, PolicySpec, Policy!Spec
=============================================================================
