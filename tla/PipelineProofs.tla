--------------------------- MODULE PipelineProofs ---------------------------
(***************************************************************************)
(* Proofs about Pipeline, for any number of goroutines, sources, requests  *)
(* and packets: what the sockets send was paid for and is in the log.      *)
(***************************************************************************)
EXTENDS Pipeline, FiniteSetTheorems, SequenceTheorems, TLAPS

-----------------------------------------------------------------------------
(* Sums.  The sum of c over S is the number of pairs <<x, k>> with x in S  *)
(* and k in 1 .. c[x], which turns what is needed of sums into facts about *)
(* cardinalities.                                                          *)

\* f[s] is the sum of c over s, taken in the order of MapThenSumSet
IsSum(f, c, S) ==
    f = [s \in SUBSET S |->
            IF s = {} THEN 0
            ELSE c[CHOOSE x \in s : TRUE] + f[s \ {CHOOSE x \in s : TRUE}]]

Tokens(c, S) == UNION { {x} \X (1 .. c[x]) : x \in S }

Sum(c, S) == Cardinality(Tokens(c, S))

\* A set of naturals that is not empty has a least element.
LEMMA LeastNat ==
    ASSUME NEW T, T \subseteq Nat, T # {}
    PROVE  \E x \in T : \A y \in T : x <= y
<1> DEFINE R == {ss \in Nat \X Nat : ss[1] < ss[2]}
<1>1. IsWellFoundedOn(R, Nat)
    BY NatLessThanWellFounded DEF OpToRel
<1>2. \A x, y \in Nat : ~ (<<y, x>> \in R) => x <= y
    OBVIOUS
<1> HIDE DEF R
<1>3. \E x \in T : \A y \in T : ~ (<<y, x>> \in R)
    BY WFMin, <1>1, Zenon
<1>4. QED
    BY <1>2, <1>3, Zenon

\* Induction over the naturals.
LEMMA NatInduct ==
    ASSUME NEW T, 0 \in T, \A n \in Nat : n \in T => n + 1 \in T
    PROVE  Nat \subseteq T
<1>1. SUFFICES ASSUME Nat \ T # {} PROVE FALSE
    OBVIOUS
<1>2. PICK m \in Nat \ T : \A k \in Nat \ T : m <= k
    BY <1>1, LeastNat
<1>3. m # 0 /\ m \in Nat
    BY <1>2
<1>4. m - 1 \in Nat /\ m - 1 \in T
    BY <1>2, <1>3
<1>5. QED
    BY <1>2, <1>4

\* The pairs behind a sum are finitely many, c[x] for every x.
LEMMA TokensFinite ==
    ASSUME NEW S, IsFiniteSet(S), NEW c, \A x \in S : c[x] \in Nat
    PROVE  /\ IsFiniteSet(Tokens(c, S))
           /\ Sum(c, S) \in Nat
           /\ \A x \in S : IsFiniteSet(Tokens(c, {x})) /\ Cardinality(Tokens(c, {x})) = c[x]
<1> DEFINE Of(x) == {x} \X (1 .. c[x])
           All == { Of(x) : x \in S }
<1>1. ASSUME NEW x \in S
      PROVE  IsFiniteSet(Of(x)) /\ Cardinality(Of(x)) = c[x]
    <2>1. PICK n \in Nat : n = c[x]
        OBVIOUS
    <2>2. 1 \in Int /\ n \in Int
        OBVIOUS
    <2>3. /\ IsFiniteSet(1 .. n)
          /\ Cardinality(1 .. n) = IF 1 > n THEN 0 ELSE n - 1 + 1
        BY <2>2, FS_Interval, Zenon
    <2>4. Cardinality(1 .. n) = n
        BY <2>3
    <2>5. IsFiniteSet({x}) /\ Cardinality({x}) = 1
        BY FS_Singleton
    <2>6. IsFiniteSet({x} \X (1 .. n)) /\ Cardinality({x} \X (1 .. n)) = 1 * n
        BY <2>3, <2>4, <2>5, FS_Product
    <2>7. QED
        BY <2>1, <2>6
<1>2. IsFiniteSet(All)
    <2> HIDE DEF Of
    <2> DEFINE f == [x \in S |-> Of(x)]
    <2>1. f \in Surjection(S, All)
        BY DEF Surjection
    <2> HIDE DEF f, All
    <2>2. QED
        BY <2>1, FS_Surjection
<1>3. Tokens(c, S) = UNION All
    BY DEF Tokens
<1>4. \A s \in All : IsFiniteSet(s)
    BY <1>1
<1>5. IsFiniteSet(Tokens(c, S))
    <2> HIDE DEF All
    <2>1. QED
        BY <1>2, <1>3, <1>4, FS_UNION
<1>6. \A x \in S : Tokens(c, {x}) = Of(x)
    BY DEF Tokens
<1>7. QED
    BY <1>1, <1>5, <1>6, FS_CardinalityType DEF Sum

\* One element of a sum.
LEMMA SumSplit ==
    ASSUME NEW S, IsFiniteSet(S), NEW c, \A x \in S : c[x] \in Nat, NEW x \in S
    PROVE  Sum(c, S) = c[x] + Sum(c, S \ {x})
<1>1. Tokens(c, S) \ Tokens(c, {x}) = Tokens(c, S \ {x})
    BY DEF Tokens
<1>2. Tokens(c, S) \cap Tokens(c, {x}) = Tokens(c, {x})
    BY DEF Tokens
<1>3. /\ IsFiniteSet(Tokens(c, S)) /\ Sum(c, S) \in Nat
      /\ Cardinality(Tokens(c, {x})) = c[x]
    BY TokensFinite
<1>4. IsFiniteSet(S \ {x}) /\ Sum(c, S \ {x}) \in Nat
    <2>1. IsFiniteSet(S \ {x})
        BY FS_RemoveElement
    <2>2. \A y \in S \ {x} : c[y] \in Nat
        OBVIOUS
    <2>3. QED
        BY <2>1, <2>2, TokensFinite
<1>5. IsFiniteSet(Tokens(c, {x}))
    BY TokensFinite
<1>6. Cardinality(Tokens(c, S) \ Tokens(c, {x})) =
          Cardinality(Tokens(c, S)) - Cardinality(Tokens(c, S) \cap Tokens(c, {x}))
    BY <1>3, <1>5, FS_Difference
<1>7. Sum(c, S \ {x}) = Sum(c, S) - c[x]
    BY <1>1, <1>2, <1>3, <1>6, Zenon DEF Sum
<1>8. QED
    BY <1>3, <1>4, <1>7

\* More summands, and larger ones, have a larger sum.
LEMMA SumGrows ==
    ASSUME NEW S, NEW R, IsFiniteSet(R), S \subseteq R, NEW c, NEW d,
           \A x \in R : d[x] \in Nat,
           \A x \in S : c[x] \in Nat /\ c[x] <= d[x]
    PROVE  Sum(c, S) <= Sum(d, R)
<1>1. Tokens(c, S) \in SUBSET Tokens(d, R)
    BY DEF Tokens
<1>2. IsFiniteSet(Tokens(d, R))
    BY TokensFinite
<1>3. QED
    BY <1>1, <1>2, FS_Subset DEF Sum

\* A sum depends on the summands only.
LEMMA SumAgrees ==
    ASSUME NEW S, NEW c, NEW d, \A x \in S : c[x] = d[x]
    PROVE  Sum(c, S) = Sum(d, S)
<1>1. Tokens(c, S) = Tokens(d, S)
    BY DEF Tokens
<1>2. QED
    BY <1>1 DEF Sum

\* What MapThenSumSet computes: its recursion has a solution, and every solution
\* yields the sum.
LEMMA SumSolves ==
    ASSUME NEW S, IsFiniteSet(S), NEW c, \A x \in S : c[x] \in Nat
    PROVE  /\ \E g : IsSum(g, c, S)
           /\ \A f : IsSum(f, c, S) => f[S] = Sum(c, S)
<1> DEFINE pick(s) == CHOOSE x \in s : TRUE
           g == [s \in SUBSET S |-> Sum(c, s)]
<1>1. ASSUME NEW s \in SUBSET S, s # {}
      PROVE  pick(s) \in s /\ Sum(c, s) = c[pick(s)] + Sum(c, s \ {pick(s)})
    <2>1. pick(s) \in s
        BY <1>1, Zenon
    <2>2. PICK x \in s : x = pick(s)
        BY <2>1
    <2> HIDE DEF pick
    <2>3. IsFiniteSet(s)
        BY FS_Subset
    <2>4. Sum(c, s) = c[x] + Sum(c, s \ {x})
        BY <2>3, SumSplit
    <2>5. QED
        BY <2>2, <2>4
<1>2. Sum(c, {}) = 0
    <2>1. Tokens(c, {}) = {}
        BY DEF Tokens
    <2>2. QED
        BY <2>1, FS_EmptySet DEF Sum
<1>3. IsSum(g, c, S)
    <2>1. \A s \in SUBSET S :
              g[s] = IF s = {} THEN 0 ELSE c[pick(s)] + g[s \ {pick(s)}]
        <3> HIDE DEF pick
        <3>1. QED
            BY <1>1, <1>2
    <2>2. g = [s \in SUBSET S |-> g[s]]
        OBVIOUS
    <2> HIDE DEF g
    <2>3. QED
        BY <2>1, <2>2, Zenon DEF IsSum
<1>4. ASSUME NEW f, IsSum(f, c, S) PROVE f[S] = Sum(c, S)
    <2>1. \A s \in SUBSET S : f[s] = IF s = {} THEN 0 ELSE c[pick(s)] + f[s \ {pick(s)}]
        BY <1>4, Zenon DEF IsSum
    <2> HIDE DEF g, pick
    <2> DEFINE T == { n \in Nat : \A s \in SUBSET S : Cardinality(s) = n => f[s] = Sum(c, s) }
    <2>2. 0 \in T
        <3>1. \A s \in SUBSET S : Cardinality(s) = 0 => s = {}
            BY FS_Subset, FS_EmptySet
        <3>2. QED
            BY <1>2, <2>1, <3>1
    <2>3. ASSUME NEW n \in Nat, n \in T PROVE n + 1 \in T
        <3>1. SUFFICES ASSUME NEW s \in SUBSET S, Cardinality(s) = n + 1
                       PROVE  f[s] = Sum(c, s)
            OBVIOUS
        <3>2. s # {}
            BY <3>1, FS_EmptySet
        <3>3. pick(s) \in s /\ Sum(c, s) = c[pick(s)] + Sum(c, s \ {pick(s)})
            BY <1>1, <3>2
        <3>4. Cardinality(s \ {pick(s)}) = n
            <4>1. IsFiniteSet(s)
                BY FS_Subset
            <4>2. Cardinality(s \ {pick(s)}) = Cardinality(s) - 1
                BY <3>3, <4>1, FS_RemoveElement
            <4>3. QED
                BY <3>1, <4>2
        <3>5. f[s \ {pick(s)}] = Sum(c, s \ {pick(s)})
            BY <2>3, <3>4
        <3>6. f[s] = c[pick(s)] + f[s \ {pick(s)}]
            BY <2>1, <3>2
        <3>7. QED
            BY <3>3, <3>5, <3>6
    <2>4. Nat \subseteq T
        <3> HIDE DEF T
        <3>1. QED
            BY <2>2, <2>3, NatInduct
    <2>5. Cardinality(S) \in T
        <3> HIDE DEF T
        <3>1. QED
            BY <2>4, FS_CardinalityType
    <2>6. QED
        BY <2>5
<1>5. QED
    BY <1>3, <1>4

Costs(packets) == [i \in 1 .. Len(packets) |-> egressTokenCost(packets[i])]

\* The bytes and the price of a list of packets are sums.
LEMMA BytesIsSum ==
    ASSUME NEW p \in Seq(Nat)
    PROVE  Bytes(p) = Sum(p, 1 .. Len(p))
<1> DEFINE S == 1 .. Len(p)
<1>1. IsFiniteSet(S)
    <2>1. 1 \in Int /\ Len(p) \in Int
        OBVIOUS
    <2>2. QED
        BY <2>1, FS_Interval, Zenon
<1>2. \A x \in S : p[x] \in Nat
    OBVIOUS
<1> HIDE DEF S
<1> DEFINE h == CHOOSE f : IsSum(f, p, S)
<1>3. IsSum(h, p, S)
    <2>1. \E g : IsSum(g, p, S)
        BY <1>1, <1>2, SumSolves, Zenon
    <2>2. QED
        BY <2>1, Zenon
<1>4. Bytes(p) = h[S]
    BY Zenon DEF Bytes, MapThenSumSet, MapThenFoldSet, IsSum, S
<1> HIDE DEF h
<1>5. h[S] = Sum(p, S)
    BY <1>1, <1>2, <1>3, SumSolves, Zenon
<1>6. QED
    BY <1>4, <1>5, Zenon DEF S

\* egressTokenCost is at least one token.
LEMMA CostIsPositive == \A b \in Nat : egressTokenCost(b) \in Nat /\ egressTokenCost(b) >= 1
    BY DEF egressTokenCost

\* likewise for the price
LEMMA PriceIsSum ==
    ASSUME NEW p \in Seq(Nat)
    PROVE  Price(p) = Sum(Costs(p), 1 .. Len(p))
<1> DEFINE S == 1 .. Len(p)
           c == Costs(p)
           P(f) == f = [s \in SUBSET S |->
                          IF s = {} THEN 0
                          ELSE egressTokenCost(p[CHOOSE x \in s : TRUE])
                                 + f[s \ {CHOOSE x \in s : TRUE}]]
<1>1. IsFiniteSet(S)
    <2>1. 1 \in Int /\ Len(p) \in Int
        OBVIOUS
    <2>2. QED
        BY <2>1, FS_Interval, Zenon
<1>2. \A x \in S : c[x] \in Nat /\ c[x] = egressTokenCost(p[x])
    <2>1. \A x \in S : p[x] \in Nat
        OBVIOUS
    <2>2. \A x \in S : egressTokenCost(p[x]) \in Nat
        BY <2>1, CostIsPositive
    <2>3. QED
        BY <2>2 DEF Costs
<1> HIDE DEF S, c
<1>3. ASSUME NEW f PROVE P(f) <=> IsSum(f, c, S)
    <2> DEFINE pick(s) == CHOOSE x \in s : TRUE
    <2>1. \A s \in SUBSET S : s # {} => pick(s) \in s
        BY Zenon
    <2>2. \A s \in SUBSET S : s # {} => egressTokenCost(p[pick(s)]) = c[pick(s)]
        BY <1>2, <2>1, Zenon
    <2>3. P(f) <=> f = [s \in SUBSET S |-> IF s = {} THEN 0
                          ELSE egressTokenCost(p[pick(s)]) + f[s \ {pick(s)}]]
        BY Zenon
    <2>4. IsSum(f, c, S) <=> f = [s \in SUBSET S |-> IF s = {} THEN 0
                          ELSE c[pick(s)] + f[s \ {pick(s)}]]
        BY Zenon DEF IsSum
    <2> HIDE DEF pick, P
    <2>5. [s \in SUBSET S |-> IF s = {} THEN 0
                          ELSE egressTokenCost(p[pick(s)]) + f[s \ {pick(s)}]]
          = [s \in SUBSET S |-> IF s = {} THEN 0 ELSE c[pick(s)] + f[s \ {pick(s)}]]
        BY <2>2
    <2>6. QED
        BY <2>3, <2>4, <2>5, Zenon
<1> DEFINE h == CHOOSE f : P(f)
<1>4. Price(p) = h[S]
    BY Zenon DEF Price, MapThenSumSet, MapThenFoldSet, S
<1> HIDE DEF P
<1>5. P(h)
    <2>1. \E g : IsSum(g, c, S)
        BY <1>1, <1>2, SumSolves, Zenon
    <2>2. \E g : P(g)
        BY <1>3, <2>1, Zenon
    <2>3. QED
        BY <2>2, Zenon
<1> HIDE DEF h
<1>6. h[S] = Sum(c, S)
    <2>1. IsSum(h, c, S)
        BY <1>3, <1>5, Zenon
    <2>2. QED
        BY <1>1, <1>2, <2>1, SumSolves, Zenon
<1>7. QED
    BY <1>4, <1>6, Zenon DEF S, c

\* likewise for what was sent for the requests in a set
LEMMA SpentIsSum ==
    ASSUME NEW S, IsFiniteSet(S), NEW w, NEW c,
           \A i \in S : c[i] \in Nat /\ c[i] = Price(w[i].packets)
    PROVE  MapThenSumSet(LAMBDA i : Price(w[i].packets), S) = Sum(c, S)
<1> DEFINE P(f) == f = [s \in SUBSET S |->
                          IF s = {} THEN 0
                          ELSE Price(w[CHOOSE x \in s : TRUE].packets)
                                 + f[s \ {CHOOSE x \in s : TRUE}]]
           h == CHOOSE f : P(f)
<1>1. MapThenSumSet(LAMBDA i : Price(w[i].packets), S) = h[S]
    BY Zenon DEF MapThenSumSet, MapThenFoldSet
<1>2. h[S] = Sum(c, S)
    <2>1. ASSUME NEW f PROVE P(f) <=> IsSum(f, c, S)
        <3> DEFINE pick(s) == CHOOSE x \in s : TRUE
        <3>1. \A s \in SUBSET S : s # {} => pick(s) \in s
            BY Zenon
        <3>2. \A s \in SUBSET S : s # {} => Price(w[pick(s)].packets) = c[pick(s)]
            BY <3>1, Zenon
        <3>3. P(f) <=> f = [s \in SUBSET S |-> IF s = {} THEN 0
                              ELSE Price(w[pick(s)].packets) + f[s \ {pick(s)}]]
            BY Zenon
        <3>4. IsSum(f, c, S) <=> f = [s \in SUBSET S |-> IF s = {} THEN 0
                              ELSE c[pick(s)] + f[s \ {pick(s)}]]
            BY Zenon DEF IsSum
        <3> HIDE DEF pick, P
        <3>5. [s \in SUBSET S |-> IF s = {} THEN 0
                              ELSE Price(w[pick(s)].packets) + f[s \ {pick(s)}]]
              = [s \in SUBSET S |-> IF s = {} THEN 0 ELSE c[pick(s)] + f[s \ {pick(s)}]]
            BY <3>2
        <3>6. QED
            BY <3>3, <3>4, <3>5, Zenon
    <2> HIDE DEF P
    <2>2. P(h)
        <3>1. \E g : IsSum(g, c, S)
            BY SumSolves, Zenon
        <3>2. \E g : P(g)
            BY <2>1, <3>1, Zenon
        <3>3. QED
            BY <3>2, Zenon
    <2> HIDE DEF h
    <2>3. IsSum(h, c, S)
        BY <2>1, <2>2, Zenon
    <2>4. QED
        BY <2>3, SumSolves, Zenon
<1>3. QED
    BY <1>1, <1>2, Zenon

\* Bytes and price of the first packets of a reply grow with their number, the
\* price by the cost of the packet that is added.
LEMMA PrefixSums ==
    ASSUME NEW p \in Seq(Nat), NEW m \in 0 .. Len(p), NEW n \in 0 .. m
    PROVE  /\ SubSeq(p, 1, m) \in Seq(Nat) /\ Len(SubSeq(p, 1, m)) = m
           /\ Bytes(SubSeq(p, 1, m)) \in Nat /\ Price(SubSeq(p, 1, m)) \in Nat
           /\ Bytes(SubSeq(p, 1, n)) <= Bytes(SubSeq(p, 1, m))
           /\ Price(SubSeq(p, 1, n)) <= Price(SubSeq(p, 1, m))
           /\ m = n + 1 => Price(SubSeq(p, 1, m)) =
                               Price(SubSeq(p, 1, n)) + egressTokenCost(p[m])
<1>1. Len(p) \in Nat /\ \A i \in 1 .. Len(p) : p[i] \in Nat
    OBVIOUS
<1>2. ASSUME NEW k \in 0 .. Len(p)
      PROVE  /\ SubSeq(p, 1, k) \in Seq(Nat) /\ Len(SubSeq(p, 1, k)) = k
             /\ \A i \in 1 .. k : SubSeq(p, 1, k)[i] = p[i]
    BY <1>1, SubSeqProperties
<1>3. ASSUME NEW k \in 0 .. Len(p)
      PROVE  IsFiniteSet(1 .. k)
    <2>1. 1 \in Int /\ k \in Int
        BY <1>1
    <2>2. QED
        BY <2>1, FS_Interval, Zenon
<1>4. \A i \in 1 .. Len(p) : Costs(p)[i] = egressTokenCost(p[i]) /\ Costs(p)[i] \in Nat
    BY <1>1, CostIsPositive DEF Costs
<1>5. ASSUME NEW k \in 0 .. Len(p)
      PROVE  Bytes(SubSeq(p, 1, k)) = Sum(p, 1 .. k) /\ Sum(p, 1 .. k) \in Nat
    <2>1. Bytes(SubSeq(p, 1, k)) = Sum(SubSeq(p, 1, k), 1 .. k)
        BY <1>2, BytesIsSum
    <2>2. Sum(SubSeq(p, 1, k), 1 .. k) = Sum(p, 1 .. k)
        BY <1>2, SumAgrees
    <2>3. \A i \in 1 .. k : p[i] \in Nat
        BY <1>1
    <2>4. QED
        BY <1>3, <2>1, <2>2, <2>3, TokensFinite
<1>6. ASSUME NEW k \in 0 .. Len(p)
      PROVE  Price(SubSeq(p, 1, k)) = Sum(Costs(p), 1 .. k) /\ Sum(Costs(p), 1 .. k) \in Nat
    <2>1. Price(SubSeq(p, 1, k)) = Sum(Costs(SubSeq(p, 1, k)), 1 .. k)
        BY <1>2, PriceIsSum
    <2>2. \A i \in 1 .. k : Costs(SubSeq(p, 1, k))[i] = Costs(p)[i]
        BY <1>1, <1>2 DEF Costs
    <2>3. Sum(Costs(SubSeq(p, 1, k)), 1 .. k) = Sum(Costs(p), 1 .. k)
        BY <2>2, SumAgrees
    <2>4. \A i \in 1 .. k : Costs(p)[i] \in Nat
        BY <1>1, <1>4
    <2>5. QED
        BY <1>3, <2>1, <2>3, <2>4, TokensFinite
<1>7. m \in Nat /\ n \in 0 .. Len(p) /\ 1 .. n \subseteq 1 .. m /\ 1 .. m \subseteq 1 .. Len(p)
    BY <1>1
<1>8. Sum(p, 1 .. n) <= Sum(p, 1 .. m)
    <2>1. /\ \A i \in 1 .. m : p[i] \in Nat
          /\ \A i \in 1 .. n : p[i] \in Nat /\ p[i] <= p[i]
        BY <1>1, <1>7
    <2>2. QED
        BY <1>3, <1>7, <2>1, SumGrows
<1>9. Sum(Costs(p), 1 .. n) <= Sum(Costs(p), 1 .. m)
    <2>1. /\ \A i \in 1 .. m : Costs(p)[i] \in Nat
          /\ \A i \in 1 .. n : Costs(p)[i] \in Nat /\ Costs(p)[i] <= Costs(p)[i]
        BY <1>4, <1>7
    <2>2. QED
        BY <1>3, <1>7, <2>1, SumGrows
<1>10. ASSUME m = n + 1
       PROVE  Sum(Costs(p), 1 .. m) = Sum(Costs(p), 1 .. n) + egressTokenCost(p[m])
    <2>1. m \in 1 .. m /\ (1 .. m) \ {m} = 1 .. n
        BY <1>7, <1>10
    <2>2. \A i \in 1 .. m : Costs(p)[i] \in Nat
        BY <1>4, <1>7
    <2>3. Sum(Costs(p), 1 .. m) = Costs(p)[m] + Sum(Costs(p), 1 .. n)
        <3>1. Sum(Costs(p), 1 .. m) = Costs(p)[m] + Sum(Costs(p), (1 .. m) \ {m})
            BY <1>3, <2>1, <2>2, SumSplit
        <3>2. QED
            BY <2>1, <3>1
    <2>4. Costs(p)[m] = egressTokenCost(p[m]) /\ Costs(p)[m] \in Nat
        BY <1>4, <1>7, <2>1
    <2>5. QED
        BY <1>6, <1>7, <2>3, <2>4
<1>11. QED
    BY <1>2, <1>5, <1>6, <1>7, <1>8, <1>9, <1>10

-----------------------------------------------------------------------------
(* The inductive invariant                                                 *)

TypeInv ==
    /\ TypeOK
    /\ request = [w \in Worker |-> request[w]]

\* a request knows whom it answers and how much of its answer is on the wire
JobWire ==
    \A w \in Worker : job[w] # None =>
        /\ job[w].id <= received
        /\ wire[job[w].id].to = <<job[w].proto, job[w].src>>
        /\ wire[job[w].id].packets = SubSeq(job[w].packets, 1, job[w].out)

\* what a request has at each point of its handler; the call it is in is the
\* one for its next packet
JobAt ==
    \A w \in Worker : job[w] # None =>
        /\ job[w].at \in {"allow", "limiter"} => job[w].sent < Len(job[w].packets)
        /\ job[w].at = "limiter" =>
              request[w] = [src |-> <<job[w].proto, job[w].src>>,
                            cost |-> egressTokenCost(job[w].packets[job[w].sent + 1])]
        /\ job[w].at = "map" => job[w].proto = "chargen"
        /\ job[w].at = "write" => job[w].out < job[w].sent
        /\ job[w].at # "write" => job[w].out = 0

\* no two goroutines handle the same request
Distinct ==
    \A v, w \in Worker :
        job[v] # None /\ job[w] # None /\ job[v].id = job[w].id => v = w

\* nothing is sent for a request that has not arrived
Fresh == \A i \in 1 .. MaxRequests : i > received => wire[i].packets = <<>>

\* an event belongs to a request and names its source
LogInv ==
    \A e \in log :
        /\ e.id \in 1 .. received
        /\ e.bytes \in Nat
        /\ wire[e.id].to = <<e.proto, e.src>>

\* a request at the socket has its event, or it was lost and is not one of DNS
Answered ==
    \A w \in Worker : job[w] # None /\ job[w].at = "write" =>
        \/ \E e \in log : e.id = job[w].id /\ e.bytes = Bytes(SentPackets(job[w]))
        \/ job[w].id \in lost /\ job[w].proto # "dns"

Replies(a) == { i \in 1 .. MaxRequests : wire[i].to = a }

\* what account a may have spent
Allowance(a) == Burst + earned + Slack * grants[a]

\* paid[i] tokens cover what was sent for request i and what it was granted and
\* has not sent yet, and each account could afford it
Covers(paid) ==
    /\ \A i \in 1 .. MaxRequests :
          Price(wire[i].packets) <= paid[i] /\ (i > received => paid[i] = 0)
    /\ \A w \in Worker : job[w] # None => Price(SentPackets(job[w])) <= paid[job[w].id]
    /\ \A a \in Account : Sum(paid, Replies(a)) + credit[a] <= Allowance(a)

Budget == \E paid \in [1 .. MaxRequests -> Nat] : Covers(paid)

PipelineInv ==
    /\ TypeInv
    /\ JobWire
    /\ JobAt
    /\ Distinct
    /\ Fresh
    /\ LogInv
    /\ Answered
    /\ WireIsAccountedFor
    /\ Budget

-----------------------------------------------------------------------------
(* The replies                                                             *)

\* A function on 1 .. n is a list.
LEMMA FunctionIsSeq ==
    ASSUME NEW S, NEW n \in Nat, NEW f \in [1 .. n -> S]
    PROVE  f \in Seq(S)
    BY SeqDef

\* A reply is a list of datagrams that are not empty.
LEMMA PacketsType ==
    ASSUME NEW query \in Query, NEW variant \in Variant \cup {None}
    PROVE  PacketsFor(query, variant) \in Seq(Nat \ {0})
<1>1. /\ query.proto \in {"dns", "ntp", "ssdp", "chargen"}
      /\ query.proto = "dns" /\ query.kind # "malformed" => query.qname \in Nat
      /\ query.proto = "ssdp" /\ query.kind # "malformed" => query.st \in Nat
    BY QueryAssumption, ConstantsAssumption
<1>2. /\ DNSConfig(variant).size \in Int
      /\ NTPConfig(variant).peers \in Int
      /\ SSDPConfig(variant).services \in Int
    BY VariantAssumption DEF DNSConfig, NTPConfig, SSDPConfig
<1>3. CASE query.proto = "dns"
    <2>1. ASSUME NEW q \in Nat, NEW cfg, cfg.size \in Int
          PROVE  DNSPackets(q, cfg) \in Seq(Nat \ {0})
        <3>1. Baseline(q) \in Nat \ {0}
            BY DEF Baseline, assembleResponse, dnsHeaderSize, ARecord
        <3>2. \A b \in Int : buildTXTRecordOfSize(b) \in Nat
            BY DEF buildTXTRecordOfSize, buildTXTRecord, RData, RROverhead
        <3>3. \A t \in Nat : assembleResponse(q, ARecord + t) \in Nat \ {0}
            BY DEF assembleResponse, ARecord, dnsHeaderSize
        <3>4. buildSizedResponse(q, cfg.size) \in Nat \ {0}
            BY <2>1, <3>1, <3>2, <3>3 DEF buildSizedResponse
        <3>5. (amplifiedTXTCount - 1) * buildTXTRecord(amplifiedTXTPayload) \in Nat
            BY DEF amplifiedTXTCount, amplifiedTXTPayload, buildTXTRecord, RROverhead
        <3>6. QED
            <4>1. CASE cfg.size > 0
                <5>1. DNSPackets(q, cfg) = << buildSizedResponse(q, cfg.size) >>
                    BY <4>1 DEF DNSPackets
                <5>2. QED
                    BY <3>4, <5>1
            <4>2. CASE ~ (cfg.size > 0) /\ cfg.mode = "minimal"
                <5>1. DNSPackets(q, cfg) = << Baseline(q) >>
                    BY <4>2 DEF DNSPackets
                <5>2. QED
                    BY <3>1, <5>1
            <4>3. CASE ~ (cfg.size > 0) /\ cfg.mode = "amplified"
                <5>1. PICK t \in Nat : t = (amplifiedTXTCount - 1) * buildTXTRecord(amplifiedTXTPayload)
                    BY <3>5
                <5>2. DNSPackets(q, cfg) = << assembleResponse(q, ARecord + t) >>
                    BY <4>3, <5>1 DEF DNSPackets
                <5>3. QED
                    BY <3>3, <5>2
            <4>4. CASE ~ (cfg.size > 0) /\ cfg.mode # "minimal" /\ cfg.mode # "amplified"
                <5>1. DNSPackets(q, cfg) = << >>
                    BY <4>4 DEF DNSPackets
                <5>2. QED
                    BY <5>1
            <4>5. QED
                BY <4>1, <4>2, <4>3, <4>4
    <2>2. QED
        BY <1>1, <1>2, <1>3, <2>1 DEF PacketsFor, DNSReply, Malformed
<1>4. CASE query.proto = "ntp"
    <2>1. ASSUME NEW mode, NEW cfg, cfg.peers \in Int
          PROVE  NTPPackets(mode, cfg) \in Seq(Nat \ {0})
        <3>1. NumPeers(cfg) \in Nat \ {0}
            BY <2>1 DEF NumPeers
        <3>2. ASSUME NEW n \in Nat \ {0}
              PROVE  /\ numPackets(n) \in Nat
                     /\ \A i \in 1 .. numPackets(n) :
                           MonlistPacket(ItemsInPacket(n, i)) \in Nat \ {0}
            <4>1. numPackets(n) \in Nat /\ 6 * numPackets(n) <= n + 5
                BY DEF numPackets, itemsPerMonlistPkt
            <4>2. \A i \in 1 .. numPackets(n) : ItemsInPacket(n, i) \in Nat
                BY <4>1 DEF ItemsInPacket, itemsPerMonlistPkt
            <4>3. QED
                BY <4>1, <4>2 DEF MonlistPacket, ntpPrivateHeaderSize, monGetlist1ItemSize
        <3>3. QED
            <4>1. CASE mode = 3
                BY <4>1 DEF NTPPackets, ntpPacketSize
            <4>2. CASE mode = 7 /\ cfg.mode # "amplified"
                BY <4>2 DEF NTPPackets, ntpPrivateHeaderSize
            <4>3. CASE mode = 7 /\ cfg.mode = "amplified"
                <5>1. PICK n \in Nat \ {0} : n = NumPeers(cfg)
                    BY <3>1
                <5> DEFINE f == [i \in 1 .. numPackets(n) |-> MonlistPacket(ItemsInPacket(n, i))]
                <5>2. NTPPackets(mode, cfg) = f
                    BY <4>3, <5>1 DEF NTPPackets
                <5>3. numPackets(n) \in Nat /\ f \in [1 .. numPackets(n) -> Nat \ {0}]
                    BY <3>2
                <5> HIDE DEF f
                <5>4. QED
                    BY <5>2, <5>3, FunctionIsSeq
            <4>4. CASE mode # 3 /\ mode # 7
                <5>1. NTPPackets(mode, cfg) = << >>
                    BY <4>4 DEF NTPPackets
                <5>2. QED
                    BY <5>1
            <4>5. QED
                BY <4>1, <4>2, <4>3, <4>4
    <2>2. QED
        BY <1>1, <1>2, <1>4, <2>1 DEF PacketsFor, NTPReply, Malformed
<1>5. CASE query.proto = "ssdp"
    <2>1. ASSUME NEW st \in Nat, NEW cfg, cfg.services \in Int
          PROVE  SSDPPackets(st, cfg) \in Seq(Nat \ {0})
        <3>1. /\ Len(fakeServiceTypes) = 10
              /\ \A i \in 1 .. 10 : fakeServiceTypes[i] \in Nat
            BY DEF fakeServiceTypes
        <3>2. NumServices(cfg) \in 1 .. 10
            BY <2>1, <3>1 DEF NumServices
        <3>3. \A i \in 1 .. 10 : buildResponsePacket(st, fakeServiceTypes[i]) \in Nat \ {0}
            BY <3>1 DEF buildResponsePacket
        <3>4. QED
            <4>1. CASE cfg.mode # "amplified"
                <5>1. SSDPPackets(st, cfg) = << buildResponsePacket(st, fakeServiceTypes[1]) >>
                    BY <4>1 DEF SSDPPackets
                <5>2. QED
                    BY <3>3, <5>1
            <4>2. CASE cfg.mode = "amplified"
                <5>1. PICK n \in 1 .. 10 : n = NumServices(cfg)
                    BY <3>2
                <5> DEFINE f == [i \in 1 .. n |-> buildResponsePacket(st, fakeServiceTypes[i])]
                <5>2. SSDPPackets(st, cfg) = f
                    BY <4>2, <5>1 DEF SSDPPackets
                <5>3. n \in Nat /\ f \in [1 .. n -> Nat \ {0}]
                    BY <3>3
                <5> HIDE DEF f
                <5>4. QED
                    BY <5>2, <5>3, FunctionIsSeq
            <4>3. QED
                BY <4>1, <4>2
    <2>2. QED
        BY <1>1, <1>2, <1>5, <2>1 DEF PacketsFor, SSDPReply, Malformed
<1>6. CASE query.proto = "chargen"
    BY <1>6 DEF PacketsFor, ChargenPackets
<1>7. QED
    BY <1>1, <1>3, <1>4, <1>5, <1>6

-----------------------------------------------------------------------------
(* The steps                                                               *)

Points == {"allow", "limiter", "classify", "save", "map", "write"}

\* A product of numbers is a number, and grows with its second factor.
LEMMA Multiples ==
    ASSUME NEW m \in Nat, NEW n \in Nat
    PROVE  m * n \in Nat /\ m * (n + 1) = m * n + m /\ m * 0 = 0
    OBVIOUS

\* What an account may have spent is a number.
LEMMA AllowanceType ==
    ASSUME TypeOK, NEW a \in Account
    PROVE  Allowance(a) \in Nat
<1>1. PICK g \in Nat : g = grants[a]
    BY DEF TypeOK
<1>2. Slack \in Nat /\ Burst \in Nat /\ earned \in Nat
    BY ConstantsAssumption DEF TypeOK
<1>3. PICK m \in Nat : m = Slack * grants[a]
    BY <1>1, <1>2, Multiples
<1>4. QED
    BY <1>2, <1>3 DEF Allowance

\* Nothing has no price.
LEMMA PriceOfNothing == Price(<< >>) = 0
<1>1. << >> \in Seq(Nat) /\ Len(<< >>) = 0
    BY EmptySeq
<1>2. Price(<< >>) = Sum(Costs(<< >>), 1 .. 0)
    BY <1>1, PriceIsSum
<1>3. Tokens(Costs(<< >>), 1 .. 0) = {}
    BY DEF Tokens
<1>4. QED
    BY <1>2, <1>3, FS_EmptySet DEF Sum

\* The first state.
LEMMA InitInv == Init => PipelineInv
<1> SUFFICES ASSUME Init PROVE PipelineInv
    OBVIOUS
<1>1. TypeInv
    <2>1. credit \in [Account -> 0 .. Burst]
        BY ConstantsAssumption DEF Init, Limiter!Init
    <2>2. wire \in [1 .. MaxRequests -> [to : Account \cup {None}, packets : Seq(Nat)]]
        BY EmptySeq DEF Init
    <2>3. request = [w \in Worker |-> request[w]]
        BY DEF Init, Limiter!Init
    <2>4. QED
        BY <2>1, <2>2, <2>3, ConstantsAssumption DEF Init, TypeInv, TypeOK
<1>2. JobWire /\ JobAt /\ Distinct /\ Fresh /\ LogInv /\ Answered /\ WireIsAccountedFor
    BY DEF Init, JobWire, JobAt, Distinct, Fresh, LogInv, Answered, WireIsAccountedFor
<1>3. Budget
    <2>1. IsFiniteSet(1 .. MaxRequests)
        <3>1. 1 \in Int /\ MaxRequests \in Int
            BY ConstantsAssumption
        <3>2. QED
            BY <3>1, FS_Interval, Zenon
    <2> DEFINE paid == [i \in 1 .. MaxRequests |-> 0]
    <2>2. \A a : Sum(paid, Replies(a)) = 0
        <3>1. \A a : Tokens(paid, Replies(a)) = {}
            BY DEF Tokens, Replies
        <3>2. QED
            BY <3>1, FS_EmptySet DEF Sum
    <2>3. Price(<< >>) = 0
        BY PriceOfNothing
    <2>4. paid \in [1 .. MaxRequests -> Nat] /\ \A i \in 1 .. MaxRequests : paid[i] = 0
        OBVIOUS
    <2> HIDE DEF paid
    <2>5. Covers(paid)
        <3>1. \A a \in Account : Allowance(a) = Burst /\ credit[a] = Burst
            <4>1. Slack * 0 = 0
                BY Multiples, ConstantsAssumption
            <4>2. QED
                BY <4>1, ConstantsAssumption DEF Allowance, Init, Limiter!Init
        <3>2. QED
            BY <2>2, <2>3, <2>4, <3>1, ConstantsAssumption DEF Covers, Init
    <2>6. QED
        BY <2>4, <2>5 DEF Budget
<1>4. QED
    BY <1>1, <1>2, <1>3 DEF PipelineInv

\* The fields of a request whose handler goes on to point a.
LEMMA PointChanges ==
    ASSUME TypeOK, NEW w \in Worker, job[w] # None, NEW a \in Points,
           job' = [job EXCEPT ![w].at = a]
    PROVE  /\ job' \in [Worker -> JobType \cup {None}]
           /\ \A v \in Worker \ {w} : job'[v] = job[v]
           /\ job'[w].at = a
           /\ job'[w].id = job[w].id /\ job'[w].proto = job[w].proto
           /\ job'[w].src = job[w].src /\ job'[w].port = job[w].port
           /\ job'[w].packets = job[w].packets
           /\ job'[w].sent = job[w].sent /\ job'[w].out = job[w].out
<1>1. job \in [Worker -> JobType \cup {None}]
    BY DEF TypeOK
<1>2. PICK j \in JobType : j = job[w]
    BY <1>1
<1>3. [j EXCEPT !.at = a] \in JobType
    BY DEF JobType, Points
<1>4. job' = [job EXCEPT ![w] = [j EXCEPT !.at = a]]
    BY <1>2
<1>5. /\ [j EXCEPT !.at = a].at = a
      /\ [j EXCEPT !.at = a].id = j.id /\ [j EXCEPT !.at = a].proto = j.proto
      /\ [j EXCEPT !.at = a].src = j.src /\ [j EXCEPT !.at = a].port = j.port
      /\ [j EXCEPT !.at = a].packets = j.packets
      /\ [j EXCEPT !.at = a].sent = j.sent /\ [j EXCEPT !.at = a].out = j.out
    BY DEF JobType
<1>6. PICK k \in JobType : k = [j EXCEPT !.at = a]
    BY <1>3
<1>7. job' = [job EXCEPT ![w] = k] /\ job'[w] = k
    BY <1>1, <1>4, <1>6
<1>8. QED
    BY <1>1, <1>2, <1>5, <1>6, <1>7

\* The limiter's table of calls, of which one changes.
Calls(w) == /\ request' = [v \in Worker |-> request'[v]]
            /\ \A v \in Worker \ {w} : request'[v] = request[v]

\* An event stays in the log, or is lost and is not one of DNS.
Retained == \A e \in log : e \in log' \/ (e.id \in lost' /\ e.proto # "dns")

\* what is left alone by a step that neither sends nor pays
Quiet == UNCHANGED <<wire, received, earned, grants, credit>>

\* A request that ends, or goes on to point a with what that point needs, neither
\* sends nor pays: nothing the invariant says is disturbed.
LEMMA MoveStep ==
    ASSUME PipelineInv, NEW w \in Worker, job[w] # None, NEW a \in Points,
           Quiet, Calls(w), Retained, LogInv',
           lost \subseteq lost', lost' \subseteq 1 .. MaxRequests,
           chargenMap' \subseteq Worker,
           conn' = conn, process' \in {"up", "stopping", "exited", "crashed"},
           \/ job' = [job EXCEPT ![w] = None]
           \/ /\ job' = [job EXCEPT ![w].at = a]
              /\ a \in {"allow", "limiter"} => job[w].sent < Len(job[w].packets)
              /\ a = "limiter" =>
                    request'[w] = [src |-> <<job[w].proto, job[w].src>>,
                                   cost |-> egressTokenCost(job[w].packets[job[w].sent + 1])]
              /\ a = "map" => job[w].proto = "chargen"
              /\ a # "write" => job[w].out = 0
              /\ a = "write" =>
                    /\ job[w].out < job[w].sent
                    /\ \/ \E e \in log' : e.id = job[w].id /\ e.bytes = Bytes(SentPackets(job[w]))
                       \/ job[w].id \in lost' /\ job[w].proto # "dns"
    PROVE  PipelineInv'
<1>1. /\ TypeInv /\ TypeOK /\ JobWire /\ JobAt /\ Distinct /\ Fresh /\ LogInv /\ Answered
      /\ WireIsAccountedFor /\ Budget
    BY DEF PipelineInv, TypeInv
<1>2. /\ job' \in [Worker -> JobType \cup {None}]
      /\ \A v \in Worker \ {w} : job'[v] = job[v]
      /\ job'[w] # None =>
            /\ job'[w].at = a /\ job' = [job EXCEPT ![w].at = a]
            /\ job'[w].id = job[w].id /\ job'[w].proto = job[w].proto
            /\ job'[w].src = job[w].src /\ job'[w].packets = job[w].packets
            /\ job'[w].sent = job[w].sent /\ job'[w].out = job[w].out
    <2>1. CASE job' = [job EXCEPT ![w] = None]
        BY <1>1, <2>1 DEF TypeOK
    <2>2. CASE job' = [job EXCEPT ![w].at = a]
        BY <1>1, <2>2, PointChanges
    <2>3. QED
        BY <2>1, <2>2
<1>3. \A v \in Worker : job'[v] # None =>
          /\ job[v] # None
          /\ job'[v].id = job[v].id /\ job'[v].proto = job[v].proto
          /\ job'[v].src = job[v].src /\ job'[v].packets = job[v].packets
          /\ job'[v].sent = job[v].sent /\ job'[v].out = job[v].out
    BY <1>2
<1>4. wire' = wire /\ received' = received /\ earned' = earned /\ grants' = grants
      /\ credit' = credit
    BY DEF Quiet
<1>5. TypeInv'
    <2>1. \A v \in Worker : job'[v] # None =>
              job'[v].sent <= Len(job'[v].packets) /\ job'[v].out <= job'[v].sent
        BY <1>1, <1>3 DEF TypeOK
    <2>2. TypeOK'
        BY <1>1, <1>2, <1>4, <2>1 DEF TypeOK
    <2>3. QED
        BY <2>2 DEF TypeInv, Calls
<1>6. JobWire'
    BY <1>1, <1>3, <1>4 DEF JobWire
<1>7. JobAt'
    <2>1. SUFFICES ASSUME NEW v \in Worker, job'[v] # None
                   PROVE  /\ job'[v].at \in {"allow", "limiter"} =>
                                job'[v].sent < Len(job'[v].packets)
                          /\ job'[v].at = "limiter" =>
                                request'[v] = [src |-> <<job'[v].proto, job'[v].src>>,
                                    cost |-> egressTokenCost(job'[v].packets[job'[v].sent + 1])]
                          /\ job'[v].at = "map" => job'[v].proto = "chargen"
                          /\ job'[v].at = "write" => job'[v].out < job'[v].sent
                          /\ job'[v].at # "write" => job'[v].out = 0
        BY DEF JobAt
    <2>2. CASE v # w
        <3>1. job'[v] = job[v] /\ request'[v] = request[v]
            BY <1>2, <2>2 DEF Calls
        <3>2. QED
            BY <1>1, <2>1, <3>1 DEF JobAt
    <2>3. CASE v = w
        <3>1. job'[w] # None /\ job' # [job EXCEPT ![w] = None]
            BY <1>1, <2>1, <2>3 DEF TypeOK
        <3>2. QED
            BY <1>2, <2>3, <3>1
    <2>4. QED
        BY <2>2, <2>3
<1>8. Distinct'
    BY <1>1, <1>3 DEF Distinct
<1>9. Fresh'
    BY <1>1, <1>4 DEF Fresh
<1>10. Answered'
    <2>1. SUFFICES ASSUME NEW v \in Worker, job'[v] # None, job'[v].at = "write"
                   PROVE  \/ \E e \in log' : e.id = job'[v].id
                                            /\ e.bytes = Bytes(SentPackets(job'[v]))
                          \/ job'[v].id \in lost' /\ job'[v].proto # "dns"
        BY DEF Answered
    <2>2. Bytes(SentPackets(job'[v])) = Bytes(SentPackets(job[v]))
        BY <1>3, <2>1 DEF SentPackets
    <2>3. CASE v # w
        <3>1. job'[v] = job[v]
            BY <1>2, <2>3
        <3>2. CASE job[v].id \in lost /\ job[v].proto # "dns"
            BY <3>1, <3>2
        <3>3. CASE \E e \in log : e.id = job[v].id /\ e.bytes = Bytes(SentPackets(job[v]))
            <4>1. PICK e \in log : e.id = job[v].id /\ e.bytes = Bytes(SentPackets(job[v]))
                BY <3>3
            <4>2. wire[e.id].to = <<e.proto, e.src>> /\ wire[e.id].to = <<job[v].proto, job[v].src>>
                BY <1>1, <2>1, <3>1, <4>1 DEF LogInv, JobWire
            <4>3. e.proto = job[v].proto
                BY <4>2
            <4>4. QED
                BY <2>2, <3>1, <4>1, <4>3 DEF Retained
        <3>4. QED
            BY <1>1, <2>1, <3>1, <3>2, <3>3 DEF Answered
    <2>4. CASE v = w
        <3>1. job' # [job EXCEPT ![w] = None]
            BY <1>1, <2>1, <2>4 DEF TypeOK
        <3>2. a = "write"
            BY <1>2, <2>1, <2>4
        <3>3. QED
            BY <1>3, <2>1, <2>2, <2>4, <3>1, <3>2
    <2>5. QED
        BY <2>3, <2>4
<1>11. WireIsAccountedFor'
    <2>1. SUFFICES ASSUME NEW i \in 1 .. MaxRequests, wire[i].packets # <<>>
                   PROVE  \/ \E e \in log' : e.id = i /\ Bytes(wire[i].packets) <= e.bytes
                          \/ i \in lost' /\ wire[i].to[1] # "dns"
        BY <1>4, Zenon DEF WireIsAccountedFor
    <2>2. CASE i \in lost /\ wire[i].to[1] # "dns"
        BY <2>2
    <2>3. CASE \E e \in log : e.id = i /\ Bytes(wire[i].packets) <= e.bytes
        <3>1. PICK e \in log : e.id = i /\ Bytes(wire[i].packets) <= e.bytes
            BY <2>3
        <3>2. wire[i].to[1] = e.proto
            <4>1. wire[i].to = <<e.proto, e.src>>
                BY <1>1, <3>1 DEF LogInv
            <4>2. QED
                BY <4>1
        <3>3. QED
            BY <3>1, <3>2 DEF Retained
    <2>4. QED
        BY <1>1, <2>1, <2>2, <2>3 DEF WireIsAccountedFor
<1>12. Budget'
    <2>1. PICK paid \in [1 .. MaxRequests -> Nat] : Covers(paid)
        BY <1>1 DEF Budget
    <2>2. \A v \in Worker : job'[v] # None => SentPackets(job'[v]) = SentPackets(job[v])
        BY <1>3 DEF SentPackets
    <2>3. Covers(paid)'
        BY <1>3, <1>4, <2>1, <2>2 DEF Covers, Replies, Allowance
    <2>4. QED
        BY <2>1, <2>3 DEF Budget
<1>13. QED
    BY <1>5, <1>6, <1>7, <1>8, <1>9, <1>10, <1>11, <1>12 DEF PipelineInv

\* Up to the event: the calls of the limiter that grant nothing, and the classifier.
LEMMA HandlerStep ==
    ASSUME PipelineInv, NEW w \in Worker,
           CallAllow(w) \/ RateLimited(w) \/ BreakOff(w) \/ Classify(w) \/ WriteFails(w)
    PROVE  PipelineInv'
<1>1. TypeInv /\ TypeOK /\ JobAt /\ LogInv
    BY DEF PipelineInv, TypeInv
<1>2. job[w] # None
    BY DEF CallAllow, RateLimited, BreakOff, Classify, WriteFails, At
<1>3. Quiet /\ log' = log /\ lost' = lost /\ chargenMap' = chargenMap /\ conn' = conn
      /\ process' = process
    BY DEF CallAllow, RateLimited, BreakOff, Classify, WriteFails, Quiet, limiterVars, ioVars,
           Limiter!Begin, Limiter!Deny
<1>4. Retained /\ LogInv' /\ lost \subseteq lost' /\ lost' \subseteq 1 .. MaxRequests
      /\ chargenMap' \subseteq Worker /\ process' \in {"up", "stopping", "exited", "crashed"}
    BY <1>1, <1>3 DEF Retained, LogInv, TypeOK, Quiet
<1>5. Calls(w)
    <2>1. PICK r : request' = [request EXCEPT ![w] = r]
        <3>1. CASE CallAllow(w)
            BY <3>1 DEF CallAllow, Limiter!Begin
        <3>2. CASE RateLimited(w) \/ BreakOff(w)
            BY <3>2 DEF RateLimited, BreakOff, Limiter!Deny
        <3>3. CASE Classify(w) \/ WriteFails(w)
            <4>1. request' = request
                BY <3>3 DEF Classify, WriteFails, limiterVars
            <4>2. request' = [request EXCEPT ![w] = request[w]]
                BY <1>1, <4>1 DEF TypeInv
            <4>3. QED
                BY <4>2
        <3>4. QED
            BY <3>1, <3>2, <3>3
    <2>2. QED
        BY <1>1, <2>1 DEF TypeInv, Calls
<1>6. CASE CallAllow(w)
    <2>1. /\ job' = [job EXCEPT ![w].at = "limiter"]
          /\ request'[w] = [src |-> <<job[w].proto, job[w].src>>,
                            cost |-> egressTokenCost(job[w].packets[job[w].sent + 1])]
          /\ job[w].sent < Len(job[w].packets) /\ job[w].out = 0
        BY <1>1, <1>2, <1>6 DEF CallAllow, At, JobAt
    <2>2. "limiter" \in Points
        BY DEF Points
    <2>3. QED
        BY <1>2, <1>3, <1>4, <1>5, <2>1, <2>2, MoveStep
<1>7. CASE RateLimited(w) \/ WriteFails(w)
    <2>1. job' = [job EXCEPT ![w] = None]
        BY <1>7 DEF RateLimited, WriteFails
    <2>2. "save" \in Points
        BY DEF Points
    <2>3. QED
        BY <1>2, <1>3, <1>4, <1>5, <2>1, <2>2, MoveStep
<1>8. CASE BreakOff(w)
    <2>1. job' = [job EXCEPT ![w].at = "classify"] /\ job[w].out = 0
        BY <1>1, <1>2, <1>8 DEF BreakOff, At, JobAt
    <2>2. "classify" \in Points
        BY DEF Points
    <2>3. QED
        BY <1>2, <1>3, <1>4, <1>5, <2>1, <2>2, MoveStep
<1>9. CASE Classify(w)
    <2>1. job' = [job EXCEPT ![w].at = "save"] /\ job[w].out = 0
        BY <1>1, <1>2, <1>9 DEF Classify, At, JobAt
    <2>2. "save" \in Points
        BY DEF Points
    <2>3. QED
        BY <1>2, <1>3, <1>4, <1>5, <2>1, <2>2, MoveStep
<1>10. QED
    BY <1>6, <1>7, <1>8, <1>9

\* The event of a request: it names the request and the bytes it will send.
LEMMA EventFields ==
    ASSUME PipelineInv, NEW w \in Worker, job[w] # None
    PROVE  /\ EventOf(job[w]).id = job[w].id /\ job[w].id \in 1 .. received
           /\ job[w].id \in 1 .. MaxRequests
           /\ EventOf(job[w]).proto = job[w].proto /\ EventOf(job[w]).src = job[w].src
           /\ EventOf(job[w]).bytes = Bytes(SentPackets(job[w]))
           /\ Bytes(SentPackets(job[w])) \in Nat
           /\ wire[job[w].id].to = <<job[w].proto, job[w].src>>
<1>1. job[w] \in JobType /\ job[w].sent <= Len(job[w].packets) /\ JobWire /\ received \in Nat
    BY DEF PipelineInv, TypeInv, TypeOK
<1>2. /\ job[w].packets \in Seq(Nat) /\ job[w].sent \in 0 .. Len(job[w].packets)
      /\ job[w].id \in 1 .. MaxRequests
    <2>1. job[w].packets \in Seq(Nat \ {0}) /\ job[w].sent \in Nat /\ job[w].id \in 1 .. MaxRequests
        BY <1>1 DEF JobType
    <2>2. QED
        BY <1>1, <2>1
<1>3. Bytes(SentPackets(job[w])) \in Nat
    BY <1>2, PrefixSums DEF SentPackets
<1>4. job[w].id <= received /\ wire[job[w].id].to = <<job[w].proto, job[w].src>>
    BY <1>1 DEF JobWire
<1>5. /\ EventOf(job[w]).id = job[w].id
      /\ EventOf(job[w]).proto = job[w].proto /\ EventOf(job[w]).src = job[w].src
      /\ EventOf(job[w]).bytes = Bytes(SentPackets(job[w]))
    BY DEF EventOf
<1>6. QED
    BY <1>1, <1>2, <1>3, <1>4, <1>5

\* The event: saved, not saved, and saved in the map of CHARGEN.
LEMMA SaveStep ==
    ASSUME PipelineInv, NEW w \in Worker,
           \/ Save(w) \/ SaveFails(w) \/ SaveFailsAnyway(w)
           \/ LeaveChargenMap(w)
    PROVE  PipelineInv'
<1>1. TypeInv /\ TypeOK /\ JobAt /\ LogInv /\ JobWire
    BY DEF PipelineInv, TypeInv
<1>2. job[w] # None /\ job[w].at \in {"save", "map"} /\ job[w].out = 0
    <2>1. job[w] # None /\ job[w].at \in {"save", "map"}
        BY DEF Save, SaveFails, SaveFailsAnyway, LeaveChargenMap, At
    <2>2. QED
        BY <1>1, <2>1 DEF JobAt
<1>3. PICK e : e = EventOf(job[w])
    OBVIOUS
<1>4. /\ e.id = job[w].id /\ job[w].id \in 1 .. received /\ job[w].id \in 1 .. MaxRequests
      /\ e.proto = job[w].proto /\ e.src = job[w].src
      /\ e.bytes = Bytes(SentPackets(job[w])) /\ e.bytes \in Nat
      /\ wire[job[w].id].to = <<job[w].proto, job[w].src>>
    BY <1>2, <1>3, EventFields
<1>5. /\ Quiet /\ conn' = conn /\ process' = process /\ request' = request
      /\ wire' = wire /\ received' = received
      /\ chargenMap' \subseteq Worker
    BY <1>1 DEF Save, SaveFails, SaveFailsAnyway, LeaveChargenMap, Quiet, limiterVars, ioVars, TypeOK
<1>6. Calls(w) /\ process' \in {"up", "stopping", "exited", "crashed"}
    BY <1>1, <1>5 DEF TypeInv, TypeOK, Calls
<1>7. "write" \in Points
    BY DEF Points
<1>8. job[w].sent \in Nat
    BY <1>1, <1>2 DEF TypeOK, JobType
<1>9. LogInv' /\ Retained /\ lost \subseteq lost' /\ lost' \subseteq 1 .. MaxRequests
    <2>1. CASE log' = log /\ lost' = lost \cup {job[w].id}
        BY <1>1, <1>4, <1>5, <2>1 DEF LogInv, Retained, TypeOK
    <2>2. CASE log' = log \cup {e} /\ lost' = lost
        BY <1>1, <1>4, <1>5, <2>2 DEF LogInv, Retained, TypeOK
    <2>3. CASE /\ log' = (log \ SameKey(job[w])) \cup {e}
               /\ lost' = lost \cup { f.id : f \in SameKey(job[w]) }
        <3>1. PICK K : K = SameKey(job[w])
            OBVIOUS
        <3>2. \A f \in K : f \in log /\ f.proto = "chargen"
            BY <3>1 DEF SameKey
        <3>3. \A f \in K : f.id \in 1 .. MaxRequests
            <4>1. received \in 0 .. MaxRequests /\ MaxRequests \in Nat
                BY <1>1, ConstantsAssumption DEF TypeOK
            <4>2. \A f \in K : f.id \in 1 .. received
                BY <1>1, <3>2 DEF LogInv
            <4>3. QED
                BY <4>1, <4>2
        <3>4. log' = (log \ K) \cup {e} /\ lost' = lost \cup { f.id : f \in K }
            BY <2>3, <3>1
        <3>5. LogInv'
            BY <1>1, <1>4, <1>5, <3>4 DEF LogInv
        <3>6. Retained
            BY <3>2, <3>4 DEF Retained
        <3>7. lost \subseteq lost' /\ lost' \subseteq 1 .. MaxRequests
            BY <1>1, <3>3, <3>4 DEF TypeOK
        <3>8. QED
            BY <3>5, <3>6, <3>7
    <2>4. QED
        BY <1>3, <2>1, <2>2, <2>3 DEF Save, SaveFails, SaveFailsAnyway, LeaveChargenMap
<1>10. CASE SaveFails(w)
    <2>1. job' = [job EXCEPT ![w] = None]
        BY <1>10 DEF SaveFails
    <2>2. QED
        BY <1>2, <1>5, <1>6, <1>7, <1>9, <2>1, MoveStep
<1>11. CASE Save(w) \/ SaveFailsAnyway(w) \/ LeaveChargenMap(w)
    <2>1. \/ e \in log'
          \/ job[w].id \in lost' /\ job[w].proto # "dns"
        <3>1. CASE Save(w)
            BY <1>3, <3>1 DEF Save
        <3>2. CASE SaveFailsAnyway(w)
            BY <3>2 DEF SaveFailsAnyway, MultiPacket
        <3>3. CASE LeaveChargenMap(w)
            <4>1. job[w].proto = "chargen"
                BY <1>1, <1>2, <3>3 DEF LeaveChargenMap, At, JobAt
            <4>2. QED
                BY <1>3, <3>3, <4>1 DEF LeaveChargenMap
        <3>4. QED
            BY <1>11, <3>1, <3>2, <3>3
    <2>2. \/ \E f \in log' : f.id = job[w].id /\ f.bytes = Bytes(SentPackets(job[w]))
          \/ job[w].id \in lost' /\ job[w].proto # "dns"
        BY <1>4, <2>1
    <2>3. \/ job' = [job EXCEPT ![w] = None]
          \/ job' = [job EXCEPT ![w].at = "write"] /\ job[w].out < job[w].sent
        BY <1>2, <1>8, <1>11 DEF Save, SaveFailsAnyway, LeaveChargenMap, ToSocket
    <2>4. QED
        BY <1>2, <1>5, <1>6, <1>7, <1>9, <2>2, <2>3, MoveStep
<1>12. QED
    BY <1>10, <1>11

\* The map of CHARGEN, entered while another goroutine is inside or not.
LEMMA EnterMapStep ==
    ASSUME PipelineInv, NEW w \in Worker, EnterChargenMap(w)
    PROVE  PipelineInv'
<1>1. TypeInv /\ TypeOK /\ JobAt /\ LogInv
    BY DEF PipelineInv, TypeInv
<1>2. /\ job[w] # None /\ job[w].proto = "chargen" /\ job[w].out = 0
      /\ UNCHANGED <<limiterVars, earned, grants, received, log, lost, wire, conn>>
    BY <1>1 DEF EnterChargenMap, At, JobAt
<1>3. CASE process' = "crashed" /\ UNCHANGED <<job, chargenMap>>
    <2>1. TypeInv'
        BY <1>1, <1>2, <1>3 DEF TypeInv, TypeOK, limiterVars
    <2>2. JobWire' /\ JobAt' /\ Distinct' /\ Fresh' /\ LogInv'
        BY <1>2, <1>3, Zenon
            DEF PipelineInv, JobWire, JobAt, Distinct, Fresh, LogInv, limiterVars
    <2>3. Answered' /\ WireIsAccountedFor' /\ Budget'
        BY <1>2, <1>3, Zenon
            DEF PipelineInv, Answered, WireIsAccountedFor, Budget, Covers, Replies, Allowance,
                limiterVars
    <2>4. QED
        BY <2>1, <2>2, <2>3 DEF PipelineInv
<1>4. CASE /\ chargenMap' = chargenMap \cup {w} /\ process' = process
           /\ job' = [job EXCEPT ![w].at = "map"]
    <2>1. "map" \in Points
        BY DEF Points
    <2>2. /\ Quiet /\ Calls(w) /\ Retained /\ LogInv'
          /\ lost \subseteq lost' /\ lost' \subseteq 1 .. MaxRequests
          /\ chargenMap' \subseteq Worker /\ conn' = conn
          /\ process' \in {"up", "stopping", "exited", "crashed"}
        BY <1>1, <1>2, <1>4
            DEF Quiet, Calls, Retained, LogInv, TypeInv, TypeOK, limiterVars
    <2>3. QED
        BY <1>2, <1>4, <2>1, <2>2, MoveStep
<1>5. QED
    BY <1>3, <1>4 DEF EnterChargenMap

\* Shutdown, which ends every request, and the refill of the accounts.
LEMMA ProcessStep ==
    ASSUME PipelineInv, EarnToken \/ Cancel \/ (\E q \in Proto : CloseSocket(q)) \/ Exit
    PROVE  PipelineInv'
<1>1. TypeInv /\ TypeOK /\ Budget
    BY DEF PipelineInv, TypeInv
<1>2. UNCHANGED <<received, log, lost, wire, request, grants>>
    BY DEF EarnToken, Cancel, CloseSocket, Exit, ioVars, limiterVars, Limiter!Earn
<1>3. job' = job \/ job' = [w \in Worker |-> None]
    BY DEF EarnToken, Cancel, CloseSocket, Exit
<1>4. \A w \in Worker : job'[w] # None => job'[w] = job[w]
    BY <1>3
<1>5. Burst \in Nat /\ MaxEarned \in Nat /\ earned \in 0 .. MaxEarned
    BY <1>1, ConstantsAssumption DEF TypeOK
<1>6. /\ credit' \in [Account -> 0 .. Burst] /\ earned' \in 0 .. MaxEarned
      /\ \A a \in Account : credit'[a] - earned' <= credit[a] - earned
    <2>1. CASE EarnToken
        <3>1. /\ credit' = [a \in Account |-> IF credit[a] + 1 > Burst THEN Burst ELSE credit[a] + 1]
              /\ earned' = earned + 1 /\ earned < MaxEarned
            BY <2>1 DEF EarnToken, Limiter!Earn, Limiter!Capped
        <3>2. \A a \in Account : credit[a] \in 0 .. Burst
            BY <1>1 DEF TypeOK
        <3>3. QED
            BY <1>5, <3>1, <3>2
    <2>2. CASE Cancel \/ (\E q \in Proto : CloseSocket(q)) \/ Exit
        <3>1. credit' = credit /\ earned' = earned
            BY <2>2 DEF Cancel, CloseSocket, Exit, limiterVars
        <3>2. \A a \in Account : credit[a] \in 0 .. Burst
            BY <1>1 DEF TypeOK
        <3>3. QED
            BY <1>1, <1>5, <3>1, <3>2 DEF TypeOK
    <2>3. QED
        BY <2>1, <2>2
<1>7. TypeInv'
    <2>1. chargenMap' \subseteq Worker /\ conn' \in [Proto -> {"open", "closed"}]
          /\ process' \in {"up", "stopping", "exited", "crashed"}
        BY <1>1 DEF EarnToken, Cancel, CloseSocket, Exit, ioVars, TypeOK
    <2>2. job' \in [Worker -> JobType \cup {None}]
        BY <1>1, <1>3 DEF TypeOK
    <2>3. \A w \in Worker : job'[w] # None =>
              job'[w].sent <= Len(job'[w].packets) /\ job'[w].out <= job'[w].sent
        BY <1>1, <1>4 DEF TypeOK
    <2>4. TypeOK'
        BY <1>1, <1>2, <1>6, <2>1, <2>2, <2>3 DEF TypeOK
    <2>5. QED
        BY <1>1, <1>2, <2>4 DEF TypeInv
<1>8. JobWire' /\ JobAt' /\ Answered'
    BY <1>2, <1>4 DEF PipelineInv, JobWire, JobAt, Answered
<1>9. Distinct'
    BY <1>4 DEF PipelineInv, Distinct
<1>10. Fresh' /\ LogInv' /\ WireIsAccountedFor'
    BY <1>2, Zenon DEF PipelineInv, Fresh, LogInv, WireIsAccountedFor
<1>11. Budget'
    <2>1. PICK paid \in [1 .. MaxRequests -> Nat] : Covers(paid)
        BY <1>1 DEF Budget
    <2>2. ASSUME NEW a \in Account PROVE Sum(paid, Replies(a)') + credit'[a] <= Allowance(a)'
        <3>1. Replies(a)' = Replies(a)
            BY <1>2 DEF Replies
        <3>2. Sum(paid, Replies(a)) \in Nat
            <4>1. 1 \in Int /\ MaxRequests \in Int
                BY ConstantsAssumption
            <4>2. IsFiniteSet(1 .. MaxRequests) /\ Replies(a) \in SUBSET (1 .. MaxRequests)
                BY <4>1, FS_Interval DEF Replies
            <4>3. IsFiniteSet(Replies(a)) /\ \A x \in Replies(a) : paid[x] \in Nat
                BY <4>2, FS_Subset
            <4>4. QED
                BY <4>3, TokensFinite
        <3>3. Sum(paid, Replies(a)) + credit[a] <= Allowance(a)
            BY <2>1 DEF Covers
        <3>4. credit[a] \in 0 .. Burst /\ credit'[a] \in 0 .. Burst
            BY <1>1, <1>6 DEF TypeOK
        <3>5. PICK m \in Nat : m = Slack * grants[a]
            BY <1>1, Multiples, ConstantsAssumption DEF TypeOK
        <3>6. Allowance(a) = Burst + earned + m /\ Allowance(a)' = Burst + earned' + m
            BY <1>2, <3>5 DEF Allowance
        <3>7. QED
            <4>1. credit'[a] - earned' <= credit[a] - earned
                BY <1>6
            <4>2. PICK n \in Nat : n = Sum(paid, Replies(a))
                BY <3>2
            <4>3. n + credit[a] <= Burst + earned + m
                BY <3>3, <3>6, <4>2
            <4>4. earned \in Nat /\ earned' \in Nat
                BY <1>5, <1>6
            <4>5. n + credit'[a] <= Burst + earned' + m
                <5>1. \A x, y, e, f \in Nat : y - f <= x - e /\ n + x <= Burst + e + m
                                              => n + y <= Burst + f + m
                    BY <1>5
                <5>2. credit[a] \in Nat /\ credit'[a] \in Nat
                    BY <1>5, <3>4
                <5>3. QED
                    BY ONLY <4>1, <4>3, <4>4, <5>1, <5>2, Zenon
            <4>6. QED
                BY <3>1, <3>6, <4>2, <4>5
    <2>3. \A i \in 1 .. MaxRequests :
              Price(wire'[i].packets) <= paid[i] /\ (i > received' => paid[i] = 0)
        BY <1>2, <2>1 DEF Covers
    <2>4. \A w \in Worker : job'[w] # None => Price(SentPackets(job'[w])) <= paid[job'[w].id]
        BY <1>4, <2>1 DEF Covers
    <2>5. Covers(paid)'
        BY <2>2, <2>3, <2>4 DEF Covers
    <2>6. QED
        BY <2>1, <2>5 DEF Budget
<1>12. QED
    BY <1>7, <1>8, <1>9, <1>10, <1>11 DEF PipelineInv

\* The accounts' requests are finitely many.
LEMMA RepliesSum ==
    ASSUME NEW paid \in [1 .. MaxRequests -> Nat], NEW R \in SUBSET (1 .. MaxRequests)
    PROVE  IsFiniteSet(R) /\ (\A x \in R : paid[x] \in Nat) /\ Sum(paid, R) \in Nat
<1>1. 1 \in Int /\ MaxRequests \in Int
    BY ConstantsAssumption
<1>2. IsFiniteSet(1 .. MaxRequests)
    BY <1>1, FS_Interval, Zenon
<1>3. IsFiniteSet(R) /\ \A x \in R : paid[x] \in Nat
    BY <1>2, FS_Subset
<1>4. QED
    BY <1>3, TokensFinite

\* A packet is granted: its cost moves from the account to what is paid.
LEMMA GrantStep ==
    ASSUME PipelineInv, NEW w \in Worker, AllowReturnsTrue(w)
    PROVE  PipelineInv'
<1>1. /\ TypeInv /\ TypeOK /\ JobWire /\ JobAt /\ Distinct /\ Fresh /\ LogInv /\ Answered
      /\ WireIsAccountedFor /\ Budget
    BY DEF PipelineInv, TypeInv
<1>2. job[w] # None /\ job[w].at = "limiter"
    BY DEF AllowReturnsTrue, At
<1>3. PICK j \in JobType : j = job[w]
    BY <1>1, <1>2 DEF TypeOK
<1>4. /\ j.packets \in Seq(Nat) /\ j.sent \in Nat /\ j.sent < Len(j.packets) /\ j.out = 0
      /\ Len(j.packets) \in Nat
      /\ j.id \in 1 .. MaxRequests /\ j.proto \in Proto /\ j.src \in Source
    <2>1. j.packets \in Seq(Nat \ {0}) /\ j.sent \in Nat
          /\ j.id \in 1 .. MaxRequests /\ j.proto \in Proto /\ j.src \in Source
        BY DEF JobType
    <2>2. j.sent < Len(j.packets) /\ j.out = 0
        BY <1>1, <1>2, <1>3 DEF JobAt
    <2>3. QED
        BY <2>1, <2>2
<1>5. PICK s \in Account : s = <<j.proto, j.src>>
    BY <1>4 DEF Account
<1>6. PICK c \in Nat : c = egressTokenCost(j.packets[j.sent + 1])
    <2>1. j.packets[j.sent + 1] \in Nat
        BY <1>4
    <2>2. QED
        BY <2>1, CostIsPositive
<1>7. request[w].src = s /\ request[w].cost = c
    <2>1. request[w] = [src |-> s, cost |-> c]
        BY <1>1, <1>2, <1>3, <1>5, <1>6 DEF JobAt
    <2>2. QED
        BY <2>1
<1>8. PICK b \in Points :
          b = IF j.sent + 1 < Len(j.packets) THEN "allow" ELSE AfterLimiter(j.proto)
    BY DEF Points, AfterLimiter
<1>9. PICK k \in JobType : k = [j EXCEPT !.sent = @ + 1, !.at = b]
    <2>1. j.sent + 1 \in Nat
        BY <1>4
    <2>2. PICK n \in Nat : n = j.sent + 1
        BY <2>1
    <2>3. [j EXCEPT !.sent = n, !.at = b] \in JobType
        BY DEF JobType, Points
    <2>4. [j EXCEPT !.sent = @ + 1, !.at = b] \in JobType
        BY <2>2, <2>3
    <2>5. QED
        BY <2>4
<1>10. /\ k.id = j.id /\ k.proto = j.proto /\ k.src = j.src /\ k.packets = j.packets
       /\ k.out = j.out /\ k.sent = j.sent + 1 /\ k.at = b
    BY <1>9 DEF JobType
<1>11. job' = [job EXCEPT ![w] = k]
    <2>1. job' = [job EXCEPT ![w].sent = @ + 1, ![w].at = b]
        BY <1>3, <1>8 DEF AllowReturnsTrue
    <2>2. QED
        BY <1>1, <1>3, <1>9, <2>1 DEF TypeOK
<1>12. /\ job' \in [Worker -> JobType \cup {None}] /\ job'[w] = k
       /\ \A v \in Worker \ {w} : job'[v] = job[v]
    BY <1>1, <1>11 DEF TypeOK
<1>13. UNCHANGED <<earned, received, log, chargenMap, lost, wire, conn, process>>
    BY DEF AllowReturnsTrue, ioVars
<1>14. PICK d \in 0 .. Burst : credit' = [credit EXCEPT ![s] = d] /\ d <= credit[s] - c + Slack
    <2>1. credit[s] \in 0 .. Burst /\ Burst \in Nat /\ Slack \in Nat
        BY <1>1, ConstantsAssumption DEF TypeOK
    <2>2. PICK left : left = credit[s] - c
        OBVIOUS
    <2>3. left >= 0 /\ \E d \in left .. (IF left + Slack > Burst THEN Burst ELSE left + Slack) :
                          credit' = [credit EXCEPT ![s] = d]
        BY <1>7, <2>2 DEF AllowReturnsTrue, Limiter!Grant, Limiter!Capped
    <2>4. left \in Int
        BY <2>1, <2>2
    <2>5. PICK d \in left .. (IF left + Slack > Burst THEN Burst ELSE left + Slack) :
                          credit' = [credit EXCEPT ![s] = d]
        BY <2>3
    <2>6. d \in 0 .. Burst /\ d <= left + Slack
        BY <2>1, <2>3, <2>4
    <2>7. QED
        BY <2>2, <2>5, <2>6
<1>15. TypeInv'
    <2>1. credit' \in [Account -> 0 .. Burst]
        BY <1>1, <1>14 DEF TypeOK
    <2>2. \A v \in Worker : job'[v] # None =>
              job'[v].sent <= Len(job'[v].packets) /\ job'[v].out <= job'[v].sent
        <3>1. k.sent <= Len(k.packets) /\ k.out <= k.sent
            BY <1>4, <1>10
        <3>2. QED
            BY <1>1, <1>12, <3>1 DEF TypeOK
    <2>3. TypeOK'
        <3>1. grants' \in [Account -> Nat]
            BY <1>1, <1>3, <1>5 DEF TypeOK, AllowReturnsTrue
        <3>2. QED
            BY <1>1, <1>12, <1>13, <2>1, <2>2, <3>1 DEF TypeOK
    <2>4. request' = [v \in Worker |-> request'[v]]
        BY <1>1 DEF TypeInv, AllowReturnsTrue, Limiter!Grant
    <2>5. QED
        BY <2>3, <2>4 DEF TypeInv
<1>16. \A v \in Worker \ {w} : request'[v] = request[v]
    BY <1>1 DEF TypeInv, AllowReturnsTrue, Limiter!Grant
<1>17. JobWire' /\ JobAt'
    <2>1. JobWire'
        BY <1>1, <1>2, <1>3, <1>10, <1>12, <1>13 DEF JobWire
    <2>2. b # "limiter" /\ b # "map" /\ b # "write"
          /\ (b = "allow" => k.sent < Len(k.packets)) /\ k.out = 0
        BY <1>4, <1>8, <1>10 DEF AfterLimiter
    <2>3. QED
        BY <1>1, <1>10, <1>12, <1>16, <2>1, <2>2 DEF JobAt
<1>18. Distinct'
    BY <1>1, <1>2, <1>3, <1>10, <1>12 DEF Distinct
<1>19. Answered'
    <2>1. k.at # "write"
        BY <1>8, <1>10 DEF AfterLimiter
    <2>2. QED
        BY <1>1, <1>12, <1>13, <2>1 DEF Answered
<1>20. Fresh' /\ LogInv' /\ WireIsAccountedFor'
    BY <1>1, <1>13, Zenon DEF Fresh, LogInv, WireIsAccountedFor
<1>21. Budget'
    <2>1. PICK paid \in [1 .. MaxRequests -> Nat] : Covers(paid)
        BY <1>1 DEF Budget
    <2>2. PICK id \in 1 .. MaxRequests : id = j.id
        BY <1>4
    <2>3. PICK now \in [1 .. MaxRequests -> Nat] : now = [paid EXCEPT ![id] = paid[id] + c]
        <3>1. paid[id] + c \in Nat
            OBVIOUS
        <3>2. [paid EXCEPT ![id] = paid[id] + c] \in [1 .. MaxRequests -> Nat]
            BY <3>1
        <3>3. QED
            BY <3>2
    <2>4. now[id] = paid[id] + c /\ \A i \in 1 .. MaxRequests : i # id => now[i] = paid[i]
        BY <2>3
    <2>5. \A i \in 1 .. MaxRequests : paid[i] <= now[i] /\ paid[i] \in Nat /\ now[i] \in Nat
        BY <2>4
    <2>6. id <= received /\ wire[id].to = s /\ received \in Nat
        BY <1>1, <1>2, <1>3, <1>5, <2>2 DEF JobWire, TypeOK
    <2>7. \A i \in 1 .. MaxRequests :
              Price(wire'[i].packets) <= now[i] /\ (i > received' => now[i] = 0)
        <3>1. SUFFICES ASSUME NEW i \in 1 .. MaxRequests
                       PROVE  Price(wire[i].packets) <= now[i] /\ (i > received => now[i] = 0)
            BY <1>13
        <3>2. Price(wire[i].packets) <= paid[i] /\ (i > received => paid[i] = 0)
            BY <2>1 DEF Covers
        <3>3. Price(wire[i].packets) \in Nat
            <4>1. wire[i].packets \in Seq(Nat)
                BY <1>1 DEF TypeOK
            <4>2. PICK p \in Seq(Nat) : p = wire[i].packets
                BY <4>1
            <4>3. Len(p) \in 0 .. Len(p) /\ SubSeq(p, 1, Len(p)) = p
                BY SubSeqFull
            <4>4. Price(p) \in Nat
                BY <4>3, PrefixSums
            <4>5. QED
                BY <4>2, <4>4
        <3>4. QED
            BY <2>4, <2>5, <2>6, <3>2, <3>3
    <2>8. ASSUME NEW v \in Worker, job'[v] # None
          PROVE  Price(SentPackets(job'[v])) <= now[job'[v].id]
        <3>1. CASE v = w
            <4>1. Price(SentPackets(j)) <= paid[id]
                BY <1>2, <1>3, <2>1, <2>2 DEF Covers
            <4>2. /\ Price(SubSeq(j.packets, 1, j.sent + 1)) = Price(SubSeq(j.packets, 1, j.sent)) + c
                  /\ Price(SubSeq(j.packets, 1, j.sent)) \in Nat
                <5>1. j.sent + 1 \in 0 .. Len(j.packets) /\ j.sent \in 0 .. j.sent + 1
                      /\ j.sent \in 0 .. Len(j.packets) /\ j.sent \in 0 .. j.sent
                    BY <1>4
                <5>2. QED
                    BY <1>4, <1>6, <5>1, PrefixSums
            <4>3. SentPackets(job'[v]) = SubSeq(j.packets, 1, j.sent + 1) /\ job'[v].id = id
                BY <1>10, <1>12, <2>2, <3>1 DEF SentPackets
            <4>4. QED
                <5>1. Price(SubSeq(j.packets, 1, j.sent)) <= paid[id]
                    BY <4>1 DEF SentPackets
                <5>2. \A x, y \in Nat : x <= y => x + c <= y + c
                    OBVIOUS
                <5>3. Price(SubSeq(j.packets, 1, j.sent)) + c <= paid[id] + c
                    BY <4>2, <5>1, <5>2
                <5>4. QED
                    BY <2>4, <4>2, <4>3, <5>3, Zenon
        <3>2. CASE v # w
            <4>1. PICK m \in JobType : m = job[v]
                BY <1>1, <1>12, <2>8, <3>2 DEF TypeOK
            <4>2. job'[v] = m /\ m # None /\ Price(SentPackets(m)) <= paid[m.id]
                BY <1>12, <2>1, <2>8, <3>2, <4>1 DEF Covers
            <4>3. m.id \in 1 .. MaxRequests /\ Price(SentPackets(m)) \in Nat
                <5>1. m.id \in 1 .. MaxRequests
                    BY DEF JobType
                <5>2. m.packets \in Seq(Nat) /\ m.sent \in 0 .. Len(m.packets)
                    <6>1. m.packets \in Seq(Nat \ {0}) /\ m.sent \in Nat
                        BY DEF JobType
                    <6>2. m.sent <= Len(m.packets)
                        BY <1>1, <4>1, <4>2 DEF TypeOK
                    <6>3. QED
                        BY <6>1, <6>2
                <5>3. QED
                    BY <5>1, <5>2, PrefixSums DEF SentPackets
            <4>4. QED
                BY <2>5, <4>2, <4>3
        <3>3. QED
            BY <3>1, <3>2
    <2>9. ASSUME NEW a \in Account
          PROVE  Sum(now, Replies(a)') + credit'[a] <= Allowance(a)'
        <3>1. Replies(a)' = Replies(a) /\ earned' = earned /\ earned \in Nat
              /\ Replies(a) \in SUBSET (1 .. MaxRequests)
            BY <1>1, <1>13 DEF Replies, TypeOK
        <3>2. PICK R \in SUBSET (1 .. MaxRequests) : R = Replies(a)
            BY <3>1
        <3>3. Sum(paid, R) + credit[a] <= Allowance(a) /\ Allowance(a) \in Nat
            BY <1>1, <2>1, <3>2, AllowanceType DEF Covers
        <3>4. /\ IsFiniteSet(R) /\ (\A x \in R : paid[x] \in Nat) /\ Sum(paid, R) \in Nat
              /\ (\A x \in R : now[x] \in Nat)
            BY RepliesSum
        <3>5. CASE a = s
            <4>1. id \in R
                BY <2>6, <3>2, <3>5 DEF Replies
            <4>2. Sum(paid, R) = paid[id] + Sum(paid, R \ {id})
                BY <3>4, <4>1, SumSplit
            <4>3. Sum(now, R) = now[id] + Sum(now, R \ {id})
                BY <3>4, <4>1, SumSplit
            <4>4. Sum(now, R \ {id}) = Sum(paid, R \ {id})
                BY <2>4, SumAgrees
            <4>5. R \ {id} \in SUBSET (1 .. MaxRequests)
                OBVIOUS
            <4>6. Sum(paid, R \ {id}) \in Nat
                BY <4>5, RepliesSum
            <4>7. Sum(now, R) = Sum(paid, R) + c
                BY <2>4, <2>5, <4>2, <4>3, <4>4, <4>6
            <4>8. credit'[a] = d /\ credit[a] \in Nat /\ d <= credit[a] - c + Slack
                BY <1>1, <1>14, <3>5 DEF TypeOK
            <4>9. Allowance(a)' = Allowance(a) + Slack
                <5>1. PICK g \in Nat : g = grants[a] /\ grants'[a] = g + 1
                    BY <1>1, <1>3, <1>5, <3>5 DEF TypeOK, AllowReturnsTrue
                <5>2. PICK m \in Nat : m = Slack * g
                    BY Multiples, ConstantsAssumption
                <5>3. Slack * (g + 1) = m + Slack
                    BY <5>2, Multiples, ConstantsAssumption
                <5>4. Allowance(a) = Burst + earned + m
                    BY <5>1, <5>2 DEF Allowance
                <5>5. Allowance(a)' = Burst + earned + (m + Slack)
                    BY <3>1, <5>1, <5>3 DEF Allowance
                <5>6. QED
                    BY <3>1, <5>4, <5>5, ConstantsAssumption
            <4>10. Sum(paid, R) + c + d <= Allowance(a) + Slack
                BY <3>3, <3>4, <4>8, ConstantsAssumption
            <4>11. QED
                BY <3>1, <3>2, <4>7, <4>8, <4>9, <4>10
        <3>6. CASE a # s
            <4>1. id \notin R
                BY <2>6, <3>2, <3>6 DEF Replies
            <4>2. \A x \in R : now[x] = paid[x]
                BY <2>4, <4>1
            <4>3. Sum(now, R) = Sum(paid, R)
                BY <4>2, SumAgrees
            <4>4. credit'[a] = credit[a]
                BY <1>1, <1>14, <3>6 DEF TypeOK
            <4>5. grants'[a] = grants[a]
                BY <1>1, <1>3, <1>5, <3>6 DEF TypeOK, AllowReturnsTrue
            <4>6. Allowance(a)' = Allowance(a)
                BY <3>1, <4>5 DEF Allowance
            <4>7. QED
                BY <3>1, <3>2, <3>3, <4>3, <4>4, <4>6
        <3>7. QED
            BY <3>5, <3>6
    <2>10. Covers(now)'
        BY <2>7, <2>8, <2>9 DEF Covers
    <2>11. QED
        BY <2>3, <2>10 DEF Budget
<1>22. QED
    BY <1>15, <1>17, <1>18, <1>19, <1>20, <1>21 DEF PipelineInv

\* A packet is sent: it was granted, and its event is in the log or lost.
LEMMA WriteStep ==
    ASSUME PipelineInv, NEW w \in Worker, WriteToUDP(w)
    PROVE  PipelineInv'
<1>1. /\ TypeInv /\ TypeOK /\ JobWire /\ JobAt /\ Distinct /\ Fresh /\ LogInv /\ Answered
      /\ WireIsAccountedFor /\ Budget
    BY DEF PipelineInv, TypeInv
<1>2. job[w] # None /\ job[w].at = "write"
    BY DEF WriteToUDP, At
<1>3. PICK j \in JobType : j = job[w]
    BY <1>1, <1>2 DEF TypeOK
<1>4. /\ j.packets \in Seq(Nat) /\ j.sent \in Nat /\ j.out \in Nat
      /\ j.out < j.sent /\ j.sent <= Len(j.packets) /\ Len(j.packets) \in Nat
      /\ j.id \in 1 .. MaxRequests
    <2>1. j.packets \in Seq(Nat \ {0}) /\ j.sent \in Nat /\ j.out \in Nat
          /\ j.id \in 1 .. MaxRequests
        BY DEF JobType
    <2>2. j.out < j.sent /\ j.sent <= Len(j.packets)
        BY <1>1, <1>2, <1>3 DEF JobAt, TypeOK
    <2>3. QED
        BY <2>1, <2>2
<1>5. PICK id \in 1 .. MaxRequests : id = j.id
    BY <1>4
<1>6. PICK p \in Seq(Nat) : p = SubSeq(j.packets, 1, j.out + 1)
    <2>1. j.out + 1 \in 0 .. Len(j.packets) /\ j.out \in 0 .. j.out + 1
        BY <1>4
    <2>2. QED
        BY <1>4, <2>1, PrefixSums
<1>7. Append(SubSeq(j.packets, 1, j.out), j.packets[j.out + 1]) = p
    <2>1. j.out + 1 \in 1 .. Len(j.packets) /\ 1 \in 1 .. Len(j.packets)
          /\ j.out + 1 \in 1 .. Len(j.packets) /\ (j.out + 1) - 1 = j.out
        BY <1>4
    <2>2. SubSeq(j.packets, 1, j.out + 1) = SubSeq(j.packets, 1, j.out) \o << j.packets[j.out + 1] >>
        BY <1>4, <2>1, SubSeqRecursiveSecond
    <2>3. SubSeq(j.packets, 1, j.out) \in Seq(Nat) /\ j.packets[j.out + 1] \in Nat
        <3>1. j.out \in 0 .. Len(j.packets) /\ j.out \in 0 .. j.out
            BY <1>4
        <3>2. SubSeq(j.packets, 1, j.out) \in Seq(Nat)
            BY <1>4, <3>1, PrefixSums
        <3>3. j.packets[j.out + 1] \in Nat
            BY <1>4, <2>1, ElementOfSeq
        <3>4. QED
            BY <3>2, <3>3
    <2>4. QED
        BY <1>6, <2>2, <2>3, AppendIsConcat
<1>8. /\ wire' \in [1 .. MaxRequests -> [to : Account \cup {None}, packets : Seq(Nat)]]
      /\ wire'[id].packets = p /\ wire'[id].to = wire[id].to
      /\ \A i \in 1 .. MaxRequests : i # id => wire'[i] = wire[i]
    <2>1. wire[id].packets = SubSeq(j.packets, 1, j.out)
        BY <1>1, <1>2, <1>3, <1>5 DEF JobWire
    <2>2. wire' = [wire EXCEPT ![id].packets = p]
        BY <1>3, <1>5, <1>7, <2>1 DEF WriteToUDP
    <2>3. wire \in [1 .. MaxRequests -> [to : Account \cup {None}, packets : Seq(Nat)]]
        BY <1>1 DEF TypeOK
    <2>4. PICK r \in [to : Account \cup {None}, packets : Seq(Nat)] : r = wire[id]
        BY <2>3
    <2>5. PICK t \in [to : Account \cup {None}, packets : Seq(Nat)] : t = [r EXCEPT !.packets = p]
        OBVIOUS
    <2>6. t.packets = p /\ t.to = r.to
        BY <2>5
    <2>7. wire' = [wire EXCEPT ![id] = t]
        BY <2>2, <2>4, <2>5
    <2>8. QED
        BY <2>3, <2>4, <2>6, <2>7
<1>9. UNCHANGED <<credit, request, earned, grants, received, log, chargenMap, lost, conn, process>>
    BY DEF WriteToUDP, limiterVars
<1>10. /\ job' \in [Worker -> JobType \cup {None}]
       /\ \A v \in Worker \ {w} : job'[v] = job[v]
       /\ job'[w] # None =>
             /\ job'[w].id = j.id /\ job'[w].proto = j.proto /\ job'[w].src = j.src
             /\ job'[w].packets = j.packets /\ job'[w].sent = j.sent
             /\ job'[w].out = j.out + 1 /\ job'[w].at = "write"
             /\ j.out + 1 < j.sent
    <2>1. CASE j.out + 1 < j.sent
        <3>1. PICK n \in Nat : n = j.out + 1
            BY <1>4
        <3>2. PICK k \in JobType : k = [j EXCEPT !.out = n]
            BY DEF JobType
        <3>3. /\ k.id = j.id /\ k.proto = j.proto /\ k.src = j.src
              /\ k.packets = j.packets /\ k.sent = j.sent
              /\ k.out = n /\ k.at = j.at
            BY <3>2 DEF JobType
        <3>4. job' = [job EXCEPT ![w] = k]
            <4>1. job' = [job EXCEPT ![w].out = @ + 1]
                BY <1>3, <2>1 DEF WriteToUDP
            <4>2. QED
                BY <1>1, <1>3, <3>1, <3>2, <4>1 DEF TypeOK
        <3>5. job'[w] = k
            BY <1>1, <3>4 DEF TypeOK
        <3>6. QED
            BY <1>1, <1>2, <1>3, <2>1, <3>1, <3>3, <3>4, <3>5 DEF TypeOK
    <2>2. CASE ~ (j.out + 1 < j.sent)
        <3>1. job' = [job EXCEPT ![w] = None]
            BY <1>3, <2>2 DEF WriteToUDP
        <3>2. QED
            BY <1>1, <3>1 DEF TypeOK
    <2>3. QED
        BY <2>1, <2>2
<1>11. \A v \in Worker : job'[v] # None =>
           /\ job[v] # None /\ job'[v].id = job[v].id
           /\ job'[v].proto = job[v].proto /\ job'[v].at = job[v].at
           /\ SentPackets(job'[v]) = SentPackets(job[v])
    BY <1>2, <1>3, <1>10 DEF SentPackets
<1>12. \A v \in Worker : v # w /\ job[v] # None => job[v].id # id /\ job[v].id \in 1 .. MaxRequests
    <2>1. \A v \in Worker : v # w /\ job[v] # None => job[v].id # id
        BY <1>1, <1>2, <1>3, <1>5 DEF Distinct
    <2>2. \A v \in Worker : job[v] # None => job[v].id \in 1 .. MaxRequests
        BY <1>1 DEF TypeOK, JobType
    <2>3. QED
        BY <2>1, <2>2
<1>13. TypeInv'
    <2>1. job'[w] # None => job'[w].sent <= Len(job'[w].packets) /\ job'[w].out <= job'[w].sent
        BY <1>4, <1>10
    <2>2. \A v \in Worker : job'[v] # None =>
              job'[v].sent <= Len(job'[v].packets) /\ job'[v].out <= job'[v].sent
        BY <1>1, <1>10, <2>1 DEF TypeOK
    <2>3. TypeOK'
        BY <1>1, <1>8, <1>9, <1>10, <2>2 DEF TypeOK
    <2>4. QED
        BY <1>1, <1>9, <2>3 DEF TypeInv
<1>14. JobWire'
    <2>1. SUFFICES ASSUME NEW v \in Worker, job'[v] # None
                   PROVE  /\ job'[v].id <= received
                          /\ wire'[job'[v].id].to = <<job'[v].proto, job'[v].src>>
                          /\ wire'[job'[v].id].packets = SubSeq(job'[v].packets, 1, job'[v].out)
        BY <1>9 DEF JobWire
    <2>2. CASE v = w
        BY <1>1, <1>2, <1>3, <1>5, <1>6, <1>8, <1>10, <2>1, <2>2 DEF JobWire
    <2>3. CASE v # w
        <3>1. job'[v] = job[v] /\ job[v] # None
            BY <1>10, <2>1, <2>3
        <3>2. wire'[job[v].id] = wire[job[v].id]
            BY <1>8, <1>12, <2>3, <3>1
        <3>3. QED
            BY <1>1, <3>1, <3>2 DEF JobWire
    <2>4. QED
        BY <2>2, <2>3
<1>15. JobAt' /\ Distinct'
    <2>1. JobAt'
        BY <1>1, <1>9, <1>10 DEF JobAt
    <2>2. Distinct'
        BY <1>1, <1>11 DEF Distinct
    <2>3. QED
        BY <2>1, <2>2
<1>16. Fresh'
    <2>1. id <= received /\ received \in Nat
        BY <1>1, <1>2, <1>3, <1>5 DEF JobWire, TypeOK
    <2>2. QED
        BY <1>1, <1>8, <1>9, <2>1 DEF Fresh
<1>17. LogInv'
    <2>1. \A e \in log : e.id \in 1 .. MaxRequests
        <3>1. received \in 0 .. MaxRequests /\ MaxRequests \in Nat
            BY <1>1, ConstantsAssumption DEF TypeOK
        <3>2. QED
            BY <1>1, <3>1 DEF LogInv
    <2>2. \A i \in 1 .. MaxRequests : wire'[i].to = wire[i].to
        BY <1>8
    <2>3. QED
        BY <1>1, <1>9, <2>1, <2>2 DEF LogInv
<1>18. Answered'
    BY <1>1, <1>9, <1>11 DEF Answered
<1>19. WireIsAccountedFor'
    <2>1. SUFFICES ASSUME NEW i \in 1 .. MaxRequests, wire'[i].packets # <<>>
                   PROVE  \/ \E e \in log : e.id = i /\ Bytes(wire'[i].packets) <= e.bytes
                          \/ i \in lost /\ wire'[i].to[1] # "dns"
        BY <1>9, Zenon DEF WireIsAccountedFor
    <2>2. CASE i # id
        BY <1>1, <1>8, <2>1, <2>2 DEF WireIsAccountedFor
    <2>3. CASE i = id
        <3>1. \/ \E e \in log : e.id = id /\ e.bytes = Bytes(SentPackets(j))
              \/ id \in lost /\ j.proto # "dns"
            BY <1>1, <1>2, <1>3, <1>5 DEF Answered
        <3>2. Bytes(p) <= Bytes(SentPackets(j))
            <4>1. j.sent \in 0 .. Len(j.packets) /\ j.out + 1 \in 0 .. j.sent
                BY <1>4
            <4>2. QED
                BY <1>4, <1>6, <4>1, PrefixSums DEF SentPackets
        <3>3. wire'[id].to[1] = j.proto
            <4>1. wire'[id].to = <<j.proto, j.src>>
                BY <1>1, <1>2, <1>3, <1>5, <1>8 DEF JobWire
            <4>2. QED
                BY <4>1
        <3>4. QED
            BY <1>8, <2>3, <3>1, <3>2, <3>3
    <2>4. QED
        BY <2>2, <2>3
<1>20. Budget'
    <2>1. PICK paid \in [1 .. MaxRequests -> Nat] : Covers(paid)
        BY <1>1 DEF Budget
    <2>2. Price(p) <= paid[id]
        <3>1. Price(SentPackets(j)) <= paid[id]
            BY <1>2, <1>3, <1>5, <2>1 DEF Covers
        <3>2. j.sent \in 0 .. Len(j.packets) /\ j.out + 1 \in 0 .. j.sent
              /\ j.out + 1 \in 0 .. Len(j.packets) /\ j.out + 1 \in 0 .. j.out + 1
            BY <1>4
        <3>3. Price(p) <= Price(SentPackets(j)) /\ Price(SentPackets(j)) \in Nat
            BY <1>4, <1>6, <3>2, PrefixSums DEF SentPackets
        <3>4. Price(p) \in Nat
            BY <1>4, <1>6, <3>2, PrefixSums
        <3>5. QED
            BY <3>1, <3>3, <3>4
    <2>3. \A i \in 1 .. MaxRequests :
              Price(wire'[i].packets) <= paid[i] /\ (i > received' => paid[i] = 0)
        BY <1>8, <1>9, <2>1, <2>2 DEF Covers
    <2>4. \A v \in Worker : job'[v] # None => Price(SentPackets(job'[v])) <= paid[job'[v].id]
        BY <1>11, <2>1 DEF Covers
    <2>5. \A a \in Account : Replies(a)' = Replies(a)
        BY <1>8 DEF Replies
    <2>6. \A a \in Account : Sum(paid, Replies(a)') + credit'[a] <= Allowance(a)'
        BY <1>9, <2>1, <2>5 DEF Covers, Allowance
    <2>7. Covers(paid)'
        BY <2>3, <2>4, <2>6 DEF Covers
    <2>8. QED
        BY <2>1, <2>7 DEF Budget
<1>21. QED
    BY <1>13, <1>14, <1>15, <1>16, <1>17, <1>18, <1>19, <1>20 DEF PipelineInv

\* A datagram arrives: its request is new and has sent and paid nothing.
LEMMA ReceiveStep ==
    ASSUME PipelineInv, NEW w \in Worker, NEW s \in Source, NEW query \in Query,
           NEW variant \in Variant \cup {None}, Receive(w, s, query, variant)
    PROVE  PipelineInv'
<1>1. /\ TypeInv /\ TypeOK /\ JobWire /\ JobAt /\ Distinct /\ Fresh /\ LogInv /\ Answered
      /\ WireIsAccountedFor /\ Budget
    BY DEF PipelineInv, TypeInv
<1>2. /\ received' = received + 1 /\ received < MaxRequests /\ w \in Worker
      /\ UNCHANGED <<credit, request, earned, grants, log, chargenMap, lost, conn, process>>
    BY DEF Receive, limiterVars
<1>3. received \in Nat /\ MaxRequests \in Nat
    BY <1>1, ConstantsAssumption DEF TypeOK
<1>4. PICK n \in 1 .. MaxRequests : n = received + 1
    BY <1>2, <1>3
<1>5. PICK a \in Account : a = <<query.proto, s>>
    BY QueryAssumption DEF Account
<1>6. /\ wire' \in [1 .. MaxRequests -> [to : Account \cup {None}, packets : Seq(Nat)]]
      /\ wire'[n].packets = << >> /\ wire'[n].to = a
      /\ \A i \in 1 .. MaxRequests : wire'[i].packets = wire[i].packets
      /\ \A i \in 1 .. MaxRequests : i # n => wire'[i] = wire[i]
    <2>1. wire \in [1 .. MaxRequests -> [to : Account \cup {None}, packets : Seq(Nat)]]
        BY <1>1 DEF TypeOK
    <2>2. PICK r \in [to : Account \cup {None}, packets : Seq(Nat)] : r = wire[n]
        BY <2>1
    <2>3. PICK t \in [to : Account \cup {None}, packets : Seq(Nat)] : t = [r EXCEPT !.to = a]
        OBVIOUS
    <2>4. t.packets = r.packets /\ t.to = a
        BY <2>3
    <2>5. wire' = [wire EXCEPT ![n].to = a]
        BY <1>4, <1>5 DEF Receive
    <2>6. wire' = [wire EXCEPT ![n] = t]
        BY <2>2, <2>3, <2>5
    <2>7. wire'[n] = t /\ \A i \in 1 .. MaxRequests : i # n => wire'[i] = wire[i]
        BY <2>1, <2>6
    <2>8. r.packets = << >>
        BY <1>1, <1>3, <1>4, <2>2 DEF Fresh
    <2>9. wire' \in [1 .. MaxRequests -> [to : Account \cup {None}, packets : Seq(Nat)]]
        BY <2>1, <2>6
    <2>10. QED
        BY <2>2, <2>4, <2>7, <2>8, <2>9
<1>7. /\ job' \in [Worker -> JobType \cup {None}]
      /\ \A v \in Worker : job'[v] # None =>
            \/ job'[v] = job[v]
            \/ /\ v = w /\ job'[v].id = n /\ job'[v].proto = query.proto /\ job'[v].src = s
               /\ job'[v].at = "allow" /\ job'[v].sent = 0 /\ job'[v].out = 0
               /\ job'[v].packets \in Seq(Nat) /\ Len(job'[v].packets) \in Nat \ {0}
    <2>1. PICK packets \in Seq(Nat \ {0}) : packets = PacketsFor(query, variant)
        BY PacketsType
    <2>2. CASE packets = << >>
        <3>1. job' = job
            BY <2>1, <2>2 DEF Receive
        <3>2. QED
            BY <1>1, <3>1 DEF TypeOK
    <2>3. CASE packets # << >>
        <3>1. PICK k : k = [id |-> n, proto |-> query.proto, src |-> s, port |-> query.port,
                            at |-> "allow", packets |-> packets, sent |-> 0, out |-> 0]
            OBVIOUS
        <3>2. k \in JobType
            BY <3>1, QueryAssumption DEF JobType
        <3>3. /\ k.id = n /\ k.proto = query.proto /\ k.src = s
              /\ k.at = "allow" /\ k.sent = 0 /\ k.out = 0 /\ k.packets = packets
            BY <3>1
        <3>4. job' = [job EXCEPT ![w] = k]
            BY <1>4, <2>1, <2>3, <3>1 DEF Receive
        <3>5. packets \in Seq(Nat) /\ Len(packets) \in Nat \ {0}
            BY <2>3, EmptySeq
        <3>6. QED
            BY <1>1, <3>2, <3>3, <3>4, <3>5 DEF TypeOK
    <2>4. QED
        BY <2>2, <2>3
<1>8. \A v \in Worker : job[v] # None => job[v].id \in 1 .. MaxRequests /\ job[v].id # n
    <2>1. \A v \in Worker : job[v] # None => job[v].id \in 1 .. MaxRequests
        BY <1>1 DEF TypeOK, JobType
    <2>2. \A v \in Worker : job[v] # None => job[v].id <= received
        BY <1>1 DEF JobWire
    <2>3. QED
        BY <1>3, <1>4, <2>1, <2>2
<1>9. TypeInv'
    <2>1. \A v \in Worker : job'[v] # None =>
              job'[v].sent <= Len(job'[v].packets) /\ job'[v].out <= job'[v].sent
        BY <1>1, <1>7 DEF TypeOK
    <2>2. received' \in 0 .. MaxRequests
        BY <1>2, <1>3
    <2>3. TypeOK'
        BY <1>1, <1>2, <1>6, <1>7, <2>1, <2>2 DEF TypeOK
    <2>4. QED
        BY <1>1, <1>2, <2>3 DEF TypeInv
<1>10. JobWire'
    <2>1. SUFFICES ASSUME NEW v \in Worker, job'[v] # None
                   PROVE  /\ job'[v].id <= received'
                          /\ wire'[job'[v].id].to = <<job'[v].proto, job'[v].src>>
                          /\ wire'[job'[v].id].packets = SubSeq(job'[v].packets, 1, job'[v].out)
        BY DEF JobWire
    <2>2. CASE job'[v] = job[v]
        <3>1. job[v].id <= received /\ job[v].id \in 1 .. MaxRequests
              /\ wire'[job[v].id] = wire[job[v].id]
            BY <1>1, <1>6, <1>8, <2>1, <2>2 DEF JobWire
        <3>2. job[v].id <= received'
            BY <1>2, <1>3, <3>1
        <3>3. QED
            BY <1>1, <2>1, <2>2, <3>1, <3>2 DEF JobWire
    <2>3. CASE job'[v] # job[v]
        <3>1. /\ job'[v].id = n /\ job'[v].proto = query.proto /\ job'[v].src = s
              /\ job'[v].out = 0
            BY <1>7, <2>1, <2>3
        <3>2. SubSeq(job'[v].packets, 1, 0) = << >>
            BY SubSeqEmpty
        <3>3. QED
            BY <1>2, <1>3, <1>4, <1>5, <1>6, <3>1, <3>2
    <2>4. QED
        BY <2>2, <2>3
<1>11. JobAt'
    <2>1. SUFFICES ASSUME NEW v \in Worker, job'[v] # None
                   PROVE  /\ job'[v].at \in {"allow", "limiter"} =>
                                job'[v].sent < Len(job'[v].packets)
                          /\ job'[v].at = "limiter" =>
                                request'[v] = [src |-> <<job'[v].proto, job'[v].src>>,
                                    cost |-> egressTokenCost(job'[v].packets[job'[v].sent + 1])]
                          /\ job'[v].at = "map" => job'[v].proto = "chargen"
                          /\ job'[v].at = "write" => job'[v].out < job'[v].sent
                          /\ job'[v].at # "write" => job'[v].out = 0
        BY DEF JobAt
    <2>2. CASE job'[v] = job[v]
        BY <1>1, <1>2, <2>1, <2>2 DEF JobAt
    <2>3. CASE job'[v] # job[v]
        BY <1>7, <2>1, <2>3
    <2>4. QED
        BY <2>2, <2>3
<1>12. Distinct'
    BY <1>1, <1>7, <1>8 DEF Distinct
<1>13. Fresh'
    BY <1>1, <1>2, <1>3, <1>6 DEF Fresh
<1>14. LogInv'
    <2>1. \A e \in log : e.id \in 1 .. received' /\ e.id \in 1 .. MaxRequests /\ e.id # n
        <3>1. \A e \in log : e.id \in 1 .. received
            BY <1>1 DEF LogInv
        <3>2. QED
            BY <1>2, <1>3, <1>4, <3>1
    <2>2. \A e \in log : wire'[e.id] = wire[e.id]
        BY <1>6, <2>1
    <2>3. QED
        BY <1>1, <1>2, <2>1, <2>2 DEF LogInv
<1>15. Answered'
    BY <1>1, <1>2, <1>7 DEF Answered
<1>16. WireIsAccountedFor'
    <2>1. SUFFICES ASSUME NEW i \in 1 .. MaxRequests, wire'[i].packets # <<>>
                   PROVE  \/ \E e \in log : e.id = i /\ Bytes(wire'[i].packets) <= e.bytes
                          \/ i \in lost /\ wire'[i].to[1] # "dns"
        BY <1>2, Zenon DEF WireIsAccountedFor
    <2>2. wire'[i] = wire[i]
        BY <1>6, <2>1
    <2>3. QED
        BY <1>1, <2>1, <2>2 DEF WireIsAccountedFor
<1>17. Budget'
    <2>1. PICK paid \in [1 .. MaxRequests -> Nat] : Covers(paid)
        BY <1>1 DEF Budget
    <2>2. paid[n] = 0
        BY <1>3, <1>4, <2>1 DEF Covers
    <2>3. \A i \in 1 .. MaxRequests :
              Price(wire'[i].packets) <= paid[i] /\ (i > received' => paid[i] = 0)
        BY <1>2, <1>3, <1>6, <2>1 DEF Covers
    <2>4. ASSUME NEW v \in Worker, job'[v] # None
          PROVE  Price(SentPackets(job'[v])) <= paid[job'[v].id]
        <3>1. CASE job'[v] = job[v]
            BY <2>1, <2>4, <3>1 DEF Covers
        <3>2. CASE job'[v] # job[v]
            <4>1. job'[v].id = n /\ job'[v].sent = 0
                BY <1>7, <2>4, <3>2
            <4>2. SentPackets(job'[v]) = << >>
                BY <4>1, SubSeqEmpty DEF SentPackets
            <4>3. QED
                BY <2>2, <4>1, <4>2, PriceOfNothing
        <3>3. QED
            BY <3>1, <3>2
    <2>5. ASSUME NEW b \in Account
          PROVE  Sum(paid, Replies(b)') + credit'[b] <= Allowance(b)'
        <3>1. PICK R \in SUBSET (1 .. MaxRequests) : R = Replies(b)
            BY DEF Replies
        <3>2. PICK Q \in SUBSET (1 .. MaxRequests) : Q = Replies(b)'
            BY DEF Replies
        <3>3. Q \subseteq R \cup {n}
            BY <1>6, <3>1, <3>2 DEF Replies
        <3>4. Tokens(paid, Q) \in SUBSET Tokens(paid, R)
            <4>1. \A x \in Q : x \notin R => 1 .. paid[x] = {}
                BY <2>2, <3>3
            <4>2. QED
                BY <4>1 DEF Tokens
        <3>5. IsFiniteSet(R) /\ (\A x \in R : paid[x] \in Nat) /\ Sum(paid, R) \in Nat
              /\ Sum(paid, Q) \in Nat
            BY RepliesSum
        <3>6. IsFiniteSet(Tokens(paid, R))
            BY <3>5, TokensFinite
        <3>7. Sum(paid, Q) <= Sum(paid, R)
            BY <3>4, <3>6, FS_Subset DEF Sum
        <3>8. Sum(paid, R) + credit[b] <= Allowance(b)
            BY <2>1, <3>1 DEF Covers
        <3>9. credit[b] \in Nat /\ Allowance(b) \in Nat /\ Allowance(b)' = Allowance(b)
            <4>1. credit[b] \in Nat /\ Allowance(b) \in Nat
                <5>1. credit[b] \in Nat
                    BY <1>1, ConstantsAssumption DEF TypeOK
                <5>2. Allowance(b) \in Nat
                    BY <1>1, AllowanceType
                <5>3. QED
                    BY <5>1, <5>2
            <4>2. Allowance(b)' = Allowance(b)
                BY <1>2 DEF Allowance
            <4>3. QED
                BY <4>1, <4>2
        <3>10. QED
            BY <1>2, <3>2, <3>5, <3>7, <3>8, <3>9
    <2>6. Covers(paid)'
        BY <2>3, <2>4, <2>5 DEF Covers
    <2>7. QED
        BY <2>1, <2>6 DEF Budget
<1>18. QED
    BY <1>9, <1>10, <1>11, <1>12, <1>13, <1>14, <1>15, <1>16, <1>17 DEF PipelineInv

\* Every step keeps the invariant.
LEMMA PipelineStep == PipelineInv /\ [Next]_vars => PipelineInv'
<1> SUFFICES ASSUME PipelineInv, [Next]_vars PROVE PipelineInv'
    OBVIOUS
<1>1. CASE Next
    <2>1. ASSUME NEW w \in Worker, Handle(w) PROVE PipelineInv'
        BY <2>1, HandlerStep, SaveStep, EnterMapStep, GrantStep, WriteStep DEF Handle
    <2>2. QED
        BY <1>1, <2>1, ReceiveStep, ProcessStep DEF Next
<1>2. CASE UNCHANGED vars
    <2>1. /\ UNCHANGED <<credit, request, earned, grants, job, received, log, chargenMap, lost, wire,
                          conn, process>>
        BY <1>2 DEF vars, limiterVars, ioVars
    <2>2. TypeInv' /\ JobWire' /\ JobAt' /\ Distinct' /\ Fresh' /\ LogInv'
        BY <2>1, Zenon
            DEF PipelineInv, TypeInv, TypeOK, JobWire, JobAt, Distinct, Fresh, LogInv
    <2>3. Answered' /\ WireIsAccountedFor' /\ Budget'
        BY <2>1, Zenon
            DEF PipelineInv, Answered, WireIsAccountedFor, Budget, Covers, Replies, Allowance
    <2>4. QED
        BY <2>2, <2>3 DEF PipelineInv
<1>3. QED
    BY <1>1, <1>2

\* The invariant holds in every state.
LEMMA PipelineInvariance == Spec => []PipelineInv
    BY InitInv, PipelineStep, PTL DEF Spec

-----------------------------------------------------------------------------
(* The theorems                                                            *)

\* The types of the pipeline's state, and a goroutine never sends more than the
\* limiter granted it, for any number of requests.
THEOREM TypeCorrect == Spec => []TypeOK
<1>1. PipelineInv => TypeOK
    BY DEF PipelineInv, TypeInv
<1>2. QED
    BY <1>1, PipelineInvariance, PTL

\* No packet leaves before its event is in the log, but for the replies that NTP
\* and SSDP send although Save failed and the CHARGEN events that are overwritten.
THEOREM WireAccounted == Spec => []WireIsAccountedFor
<1>1. PipelineInv => WireIsAccountedFor
    BY DEF PipelineInv
<1>2. QED
    BY <1>1, PipelineInvariance, PTL

\* What was sent to a source for a protocol was paid for out of the burst and the
\* tokens it earned, and Slack tokens for each packet that a stale clock may have
\* granted, whatever was sent by how many goroutines at the same time.
THEOREM WirePaidFor == Spec => []WireWithinBudget
<1>1. ASSUME PipelineInv, NEW a \in Account
      PROVE  MapThenSumSet(LAMBDA i : Price(wire[i].packets),
                           { i \in 1 .. MaxRequests : wire[i].to = a }) + credit[a]
                <= Burst + earned + Slack * grants[a]
    <2>1. PICK paid \in [1 .. MaxRequests -> Nat] : Covers(paid)
        BY <1>1 DEF PipelineInv, Budget
    <2>2. PICK R \in SUBSET (1 .. MaxRequests) : R = Replies(a)
        BY DEF Replies
    <2>3. PICK c : c = [i \in 1 .. MaxRequests |-> Price(wire[i].packets)]
        OBVIOUS
    <2>4. \A i \in R : c[i] \in Nat /\ c[i] = Price(wire[i].packets) /\ c[i] <= paid[i]
        <3>1. SUFFICES ASSUME NEW i \in 1 .. MaxRequests
                       PROVE  Price(wire[i].packets) \in Nat /\ Price(wire[i].packets) <= paid[i]
            BY <2>3
        <3>2. PICK p \in Seq(Nat) : p = wire[i].packets
            BY <1>1 DEF PipelineInv, TypeInv, TypeOK
        <3>3. Len(p) \in 0 .. Len(p) /\ SubSeq(p, 1, Len(p)) = p
            BY SubSeqFull
        <3>4. Price(p) \in Nat
            BY <3>3, PrefixSums
        <3>5. QED
            BY <2>1, <3>2, <3>4 DEF Covers
    <2>5. IsFiniteSet(R) /\ (\A i \in R : paid[i] \in Nat) /\ Sum(paid, R) \in Nat
        BY RepliesSum
    <2>6. Sum(c, R) <= Sum(paid, R)
        BY <2>4, <2>5, SumGrows
    <2>7. Sum(c, R) \in Nat
        BY <2>4, <2>5, TokensFinite
    <2>8. Sum(paid, R) + credit[a] <= Allowance(a)
        BY <2>1, <2>2 DEF Covers
    <2>9. credit[a] \in Nat /\ Allowance(a) \in Nat
        <3>1. TypeOK
            BY <1>1 DEF PipelineInv, TypeInv
        <3>2. QED
            BY <3>1, AllowanceType, ConstantsAssumption DEF TypeOK
    <2>10. Sum(c, R) + credit[a] <= Burst + earned + Slack * grants[a]
        <3>1. Sum(c, R) + credit[a] <= Allowance(a)
            BY <2>5, <2>6, <2>7, <2>8, <2>9
        <3>2. QED
            BY <3>1, Zenon DEF Allowance
    <2>11. MapThenSumSet(LAMBDA i : Price(wire[i].packets), R) = Sum(c, R)
        BY ONLY <2>4, <2>5, SpentIsSum, Zenon
    <2>12. R = { i \in 1 .. MaxRequests : wire[i].to = a }
        BY <2>2 DEF Replies
    <2>13. QED
        BY ONLY <2>10, <2>11, <2>12, Zenon
<1>2. PipelineInv => WireWithinBudget
    BY <1>1, Zenon DEF WireWithinBudget
<1>3. QED
    BY <1>2, PipelineInvariance, PTL
=============================================================================
