-------------------------- MODULE ClassifierProofs --------------------------
(***************************************************************************)
(* Proofs about Classifier, for any sources, window, threshold and period: *)
(* however Cleanup interleaves with Classify, the window is whole and the  *)
(* label is the one the rate of the source calls for.                      *)
(*                                                                         *)
(* The loop of Classify is a recursive function of the position in the     *)
(* list.  What it computes is proved by induction in the form of           *)
(* SeqInduct: a set of sequences that holds the empty one and is closed    *)
(* under Append holds them all.                                            *)
(***************************************************************************)
EXTENDS Classifier, SequenceTheorems, WellFoundedInduction, TLAPS

Times == Seq(Int)

\* one pass of the loop, with the times kept before it
Pass(times, t, i, before) ==
    IF times[i] > t THEN Append(before, times[i]) ELSE before

\* f[i] are the times kept after i passes
IsKept(f, times, t) ==
    f = [i \in 0 .. Len(times) |-> IF i = 0 THEN <<>> ELSE Pass(times, t, i, f[i - 1])]

\* the clock, the table and a running Cleanup, whose cutoff only gets older
\* while it waits for the mutex
TypeInv ==
    /\ now \in Nat
    /\ requestCounts \in [Source -> Times]
    /\ history \in [Source -> Times]
    /\ cutoff \in Int

CutoffIsOld == cleaner = "locked" => cutoff <= now - maxAge

ClassifierInv == TypeInv /\ CutoffIsOld /\ WindowIsWhole

-----------------------------------------------------------------------------
(* Induction                                                               *)

\* A set of naturals that is not empty has a least element.
LEMMA LeastNat ==
    ASSUME NEW T, T \subseteq Nat, T # {}
    PROVE  \E x \in T : \A y \in T : x <= y
<1> DEFINE R == {ss \in Nat \X Nat : ss[1] < ss[2]}
<1>1. IsWellFoundedOn(R, Nat)
    BY NatLessThanWellFounded DEF OpToRel
<1>2. \A x, y \in Nat : ~ (<<y, x>> \in R) => x <= y
    OBVIOUS
<1> HIDE DEF R
<1>3. \E x \in T : \A y \in T : ~ (<<y, x>> \in R)
    BY WFMin, <1>1, Zenon
<1>4. QED
    BY <1>2, <1>3, Zenon

\* Induction over the naturals.
LEMMA NatInduct ==
    ASSUME NEW T, 0 \in T, \A n \in Nat : n \in T => n + 1 \in T
    PROVE  Nat \subseteq T
<1>1. SUFFICES ASSUME Nat \ T # {} PROVE FALSE
    OBVIOUS
<1>2. PICK m \in Nat \ T : \A k \in Nat \ T : m <= k
    BY <1>1, LeastNat
<1>3. m # 0 /\ m \in Nat
    BY <1>2
<1>4. m - 1 \in Nat /\ m - 1 \in T
    BY <1>2, <1>3
<1>5. QED
    BY <1>2, <1>4

\* Induction over sequences, by appending.
LEMMA SeqInduct ==
    ASSUME NEW S, NEW T, <<>> \in T, \A s \in Seq(S), x \in S : s \in T => Append(s, x) \in T
    PROVE  Seq(S) \subseteq T
<1> DEFINE N == { n \in Nat : \A s \in Seq(S) : Len(s) = n => s \in T }
<1>1. 0 \in N
    BY EmptySeq
<1>2. ASSUME NEW n \in Nat, n \in N PROVE n + 1 \in N
    <2>1. SUFFICES ASSUME NEW s \in Seq(S), Len(s) = n + 1 PROVE s \in T
        OBVIOUS
    <2>2. s # <<>>
        BY <2>1
    <2>3. PICK r \in Seq(S), x \in S : s = Append(r, x)
        BY <2>2, SequenceEmptyOrAppend
    <2>4. Len(r) = n
        <3>1. Len(s) = Len(r) + 1 /\ Len(r) \in Nat
            BY <2>3, AppendProperties, LenProperties
        <3>2. QED
            BY <2>1, <3>1
    <2>5. r \in T
        BY <1>2, <2>4
    <2>6. QED
        BY <2>3, <2>5
<1>3. Nat \subseteq N
    <2> HIDE DEF N
    <2>1. QED
        BY <1>1, <1>2, NatInduct
<1>4. QED
    <2>1. SUFFICES ASSUME NEW s \in Seq(S) PROVE s \in T
        OBVIOUS
    <2>2. Len(s) \in N
        <3> HIDE DEF N
        <3>1. QED
            BY <1>3, LenProperties
    <2>3. QED
        BY <2>2

-----------------------------------------------------------------------------
(* What the loop computes                                                  *)

\* After(times, t) is the last value of a function that IsKept describes, if
\* there is one.
LEMMA AfterUnfolds ==
    ASSUME NEW times, NEW t, NEW g, IsKept(g, times, t)
    PROVE  \E f : IsKept(f, times, t) /\ After(times, t) = f[Len(times)]
<1> DEFINE h == CHOOSE f : IsKept(f, times, t)
<1>1. IsKept(h, times, t)
    BY Zenon
<1>2. After(times, t) = h[Len(times)]
    BY Zenon DEF After, IsKept, Pass
<1>3. QED
    BY <1>1, <1>2, Zenon

\* The equations of IsKept.
LEMMA KeptEquations ==
    ASSUME NEW times \in Times, NEW t, NEW f, IsKept(f, times, t)
    PROVE  /\ f[0] = <<>>
           /\ \A i \in 1 .. Len(times) :
                 f[i] = IF times[i] > t THEN Append(f[i - 1], times[i]) ELSE f[i - 1]
<1>1. Len(times) \in Nat
    BY DEF Times
<1>2. \A i \in 0 .. Len(times) :
          f[i] = IF i = 0 THEN <<>> ELSE Pass(times, t, i, f[i - 1])
    BY Zenon DEF IsKept
<1>3. QED
    BY <1>1, <1>2 DEF Pass

\* The loop over a longer list starts like the loop over the list.
LEMMA KeptAgree ==
    ASSUME NEW s \in Times, NEW x \in Int, NEW t, NEW f, NEW g,
           IsKept(f, s, t), IsKept(g, Append(s, x), t)
    PROVE  f[Len(s)] = g[Len(s)]
<1>1. /\ Append(s, x) \in Times /\ Len(s) \in Nat /\ Len(Append(s, x)) = Len(s) + 1
      /\ \A i \in 1 .. Len(s) : Append(s, x)[i] = s[i]
    BY AppendProperties DEF Times
<1>2. /\ f[0] = <<>>
      /\ \A i \in 1 .. Len(s) :
            f[i] = IF s[i] > t THEN Append(f[i - 1], s[i]) ELSE f[i - 1]
    BY KeptEquations
<1>3. /\ g[0] = <<>>
      /\ \A i \in 1 .. Len(s) + 1 :
            g[i] = IF Append(s, x)[i] > t THEN Append(g[i - 1], Append(s, x)[i]) ELSE g[i - 1]
    <2>1. Append(s, x) \in Times
        BY <1>1
    <2>2. PICK r \in Times : r = Append(s, x)
        BY <2>1
    <2>3. /\ g[0] = <<>>
          /\ \A i \in 1 .. Len(r) :
                g[i] = IF r[i] > t THEN Append(g[i - 1], r[i]) ELSE g[i - 1]
        BY <2>2, KeptEquations
    <2>4. QED
        BY <1>1, <2>2, <2>3
<1> DEFINE T == { i \in Nat : i <= Len(s) => f[i] = g[i] }
<1>4. 0 \in T
    BY <1>2, <1>3
<1>5. ASSUME NEW i \in Nat, i \in T PROVE i + 1 \in T
    <2>1. SUFFICES ASSUME i + 1 <= Len(s) PROVE f[i + 1] = g[i + 1]
        OBVIOUS
    <2>2. i + 1 \in 1 .. Len(s) /\ i + 1 \in 1 .. Len(s) + 1 /\ (i + 1) - 1 = i
        BY <1>1, <2>1
    <2>3. f[i] = g[i]
        BY <1>1, <1>5, <2>1
    <2>4. QED
        BY <1>1, <1>2, <1>3, <2>2, <2>3
<1>6. Nat \subseteq T
    <2> HIDE DEF T
    <2>1. QED
        BY <1>4, <1>5, NatInduct
<1>7. QED
    BY <1>1, <1>6

\* The loop ends, and keeps times.
LEMMA KeptExists ==
    ASSUME NEW t
    PROVE  \A s \in Times : \E f : IsKept(f, s, t) /\ f[Len(s)] \in Times
<1> DEFINE T == { s \in Times : \E f : IsKept(f, s, t) /\ f[Len(s)] \in Times }
<1>1. <<>> \in T
    <2> DEFINE f == [i \in 0 .. 0 |-> <<>>]
    <2>1. <<>> \in Times /\ Len(<<>>) = 0
        BY EmptySeq DEF Times
    <2>2. IsKept(f, <<>>, t)
        BY <2>1 DEF IsKept
    <2>3. f[Len(<<>>)] = <<>>
        BY <2>1
    <2> HIDE DEF f
    <2>4. QED
        BY <2>1, <2>2, <2>3
<1>2. ASSUME NEW s \in Times, NEW x \in Int, s \in T PROVE Append(s, x) \in T
    <2>1. PICK f : IsKept(f, s, t) /\ f[Len(s)] \in Times
        BY <1>2
    <2>2. /\ Append(s, x) \in Times /\ Len(s) \in Nat /\ Len(Append(s, x)) = Len(s) + 1
          /\ \A i \in 1 .. Len(s) : Append(s, x)[i] = s[i]
          /\ Append(s, x)[Len(s) + 1] = x
        BY AppendProperties DEF Times
    <2>3. /\ f[0] = <<>>
          /\ \A i \in 1 .. Len(s) :
                f[i] = IF s[i] > t THEN Append(f[i - 1], s[i]) ELSE f[i - 1]
        BY <2>1, KeptEquations
    <2> DEFINE kept == IF x > t THEN Append(f[Len(s)], x) ELSE f[Len(s)]
               g == [i \in 0 .. Len(s) + 1 |-> IF i <= Len(s) THEN f[i] ELSE kept]
    <2>4. kept \in Times
        <3>1. Append(f[Len(s)], x) \in Times
            BY <2>1, AppendProperties DEF Times
        <3>2. QED
            BY <2>1, <3>1
    <2> HIDE DEF kept
    <2>5. \A i \in 1 .. Len(s) + 1 : i - 1 \in 0 .. Len(s) /\ g[i - 1] = f[i - 1]
        BY <2>2
    <2>6. \A i \in 0 .. Len(s) + 1 :
              g[i] = IF i = 0 THEN <<>> ELSE Pass(Append(s, x), t, i, g[i - 1])
        <3>1. SUFFICES ASSUME NEW i \in 0 .. Len(s) + 1
                       PROVE  g[i] = IF i = 0 THEN <<>> ELSE Pass(Append(s, x), t, i, g[i - 1])
            OBVIOUS
        <3>2. CASE i = 0
            BY <2>2, <2>3, <3>2
        <3>3. CASE i \in 1 .. Len(s)
            <4>1. g[i] = f[i] /\ i # 0 /\ g[i - 1] = f[i - 1]
                BY <2>2, <2>5, <3>3
            <4> HIDE DEF g
            <4>2. QED
                BY <2>2, <2>3, <3>3, <4>1 DEF Pass
        <3>4. CASE i = Len(s) + 1
            <4>1. g[i] = kept /\ i # 0 /\ g[i - 1] = f[Len(s)]
                BY <2>2, <2>5, <3>4
            <4> HIDE DEF g
            <4>2. QED
                BY <2>2, <3>4, <4>1 DEF Pass, kept
        <3>5. QED
            BY <2>2, <3>2, <3>3, <3>4
    <2>7. IsKept(g, Append(s, x), t)
        <3>1. g = [i \in 0 .. Len(s) + 1 |-> g[i]]
            OBVIOUS
        <3> HIDE DEF g
        <3>2. QED
            BY <2>2, <2>6, <3>1 DEF IsKept
    <2>8. g[Len(Append(s, x))] = kept
        BY <2>2
    <2> HIDE DEF g
    <2>9. QED
        BY <2>2, <2>4, <2>7, <2>8
<1>3. Seq(Int) \subseteq T
    <2> HIDE DEF T
    <2>1. QED
        BY <1>1, <1>2, SeqInduct DEF Times
<1>4. QED
    BY <1>3 DEF Times

\* The filter of the empty list, and of one more request.
LEMMA AfterAppend ==
    ASSUME NEW t
    PROVE  /\ After(<<>>, t) = <<>>
           /\ \A s \in Times : After(s, t) \in Times
           /\ \A s \in Times, x \in Int :
                 After(Append(s, x), t) =
                     IF x > t THEN Append(After(s, t), x) ELSE After(s, t)
<1>1. \A s \in Times : \E f : IsKept(f, s, t) /\ After(s, t) = f[Len(s)]
    BY KeptExists, AfterUnfolds
<1>2. <<>> \in Times /\ Len(<<>>) = 0
    BY EmptySeq DEF Times
<1>3. After(<<>>, t) = <<>>
    <2>1. PICK f : IsKept(f, <<>>, t) /\ After(<<>>, t) = f[Len(<<>>)]
        BY <1>1, <1>2
    <2>2. f[0] = <<>>
        BY <1>2, <2>1, KeptEquations
    <2>3. QED
        BY <1>2, <2>1, <2>2
<1>4. ASSUME NEW s \in Times, NEW x \in Int
      PROVE  After(Append(s, x), t) = IF x > t THEN Append(After(s, t), x) ELSE After(s, t)
    <2>1. /\ Append(s, x) \in Times /\ Len(s) \in Nat /\ Len(Append(s, x)) = Len(s) + 1
          /\ Append(s, x)[Len(s) + 1] = x
        BY AppendProperties DEF Times
    <2>2. PICK f : IsKept(f, s, t) /\ After(s, t) = f[Len(s)]
        BY <1>1
    <2>3. PICK g : IsKept(g, Append(s, x), t) /\ After(Append(s, x), t) = g[Len(s) + 1]
        BY <1>1, <2>1
    <2>4. f[Len(s)] = g[Len(s)]
        BY <2>2, <2>3, KeptAgree
    <2>5. g[Len(s) + 1] = IF x > t THEN Append(g[Len(s)], x) ELSE g[Len(s)]
        <3>1. \A i \in 1 .. Len(s) + 1 :
                  g[i] = IF Append(s, x)[i] > t THEN Append(g[i - 1], Append(s, x)[i])
                         ELSE g[i - 1]
            <4>1. PICK r \in Times : r = Append(s, x)
                BY <2>1
            <4>2. \A i \in 1 .. Len(r) :
                      g[i] = IF r[i] > t THEN Append(g[i - 1], r[i]) ELSE g[i - 1]
                BY <2>3, <4>1, KeptEquations
            <4>3. QED
                BY <2>1, <4>1, <4>2
        <3>2. Len(s) + 1 \in 1 .. Len(s) + 1 /\ (Len(s) + 1) - 1 = Len(s)
            BY <2>1
        <3>3. QED
            BY <2>1, <3>1, <3>2
    <2>6. QED
        BY <2>2, <2>3, <2>4, <2>5
<1> DEFINE T == { s \in Times : After(s, t) \in Times }
<1>5. Seq(Int) \subseteq T
    <2>1. <<>> \in T
        BY <1>2, <1>3
    <2>2. ASSUME NEW s \in Seq(Int), NEW x \in Int, s \in T PROVE Append(s, x) \in T
        <3>1. Append(s, x) \in Times /\ Append(After(s, t), x) \in Times
            BY <2>2, AppendProperties DEF Times
        <3>2. s \in Times /\ After(s, t) \in Times
            BY <2>2
        <3>3. QED
            BY <1>4, <3>1, <3>2
    <2> HIDE DEF T
    <2>3. QED
        BY <2>1, <2>2, SeqInduct
<1>6. QED
    BY <1>3, <1>4, <1>5 DEF Times

\* Filtering again, with a later bound, is filtering with that bound.
LEMMA AfterAfter ==
    ASSUME NEW t \in Int, NEW u \in Int, t <= u
    PROVE  \A s \in Times : After(After(s, t), u) = After(s, u)
<1> DEFINE T == { s \in Times : After(After(s, t), u) = After(s, u) }
<1>1. <<>> \in T
    BY AfterAppend, EmptySeq DEF Times
<1>2. ASSUME NEW s \in Seq(Int), NEW x \in Int, s \in T PROVE Append(s, x) \in T
    <2>1. Append(s, x) \in Times
        BY AppendProperties DEF Times
    <2>2. s \in Times /\ After(s, t) \in Times /\ After(After(s, t), u) = After(s, u)
        BY <1>2, AfterAppend
    <2>3. After(Append(s, x), t) = IF x > t THEN Append(After(s, t), x) ELSE After(s, t)
        BY <2>2, AfterAppend
    <2>4. After(Append(s, x), u) = IF x > u THEN Append(After(s, u), x) ELSE After(s, u)
        BY <2>2, AfterAppend
    <2>5. After(Append(After(s, t), x), u) =
              IF x > u THEN Append(After(After(s, t), u), x) ELSE After(After(s, t), u)
        BY <2>2, AfterAppend
    <2>6. x > u => x > t
        OBVIOUS
    <2>7. After(After(Append(s, x), t), u) = After(Append(s, x), u)
        BY <2>2, <2>3, <2>4, <2>5, <2>6
    <2>8. QED
        BY <2>1, <2>7
<1>3. Seq(Int) \subseteq T
    <2> HIDE DEF T
    <2>1. QED
        BY <1>1, <1>2, SeqInduct
<1>4. QED
    BY <1>3 DEF Times

\* A list without a later time is filtered to nothing.
LEMMA AfterNone ==
    ASSUME NEW t \in Int
    PROVE  \A s \in Times : (\A i \in 1 .. Len(s) : s[i] <= t) => After(s, t) = <<>>
<1> DEFINE T == { s \in Times : (\A i \in 1 .. Len(s) : s[i] <= t) => After(s, t) = <<>> }
<1>1. <<>> \in T
    BY AfterAppend, EmptySeq DEF Times
<1>2. ASSUME NEW s \in Seq(Int), NEW x \in Int, s \in T PROVE Append(s, x) \in T
    <2>1. /\ Append(s, x) \in Seq(Int) /\ Len(s) \in Nat /\ Len(Append(s, x)) = Len(s) + 1
          /\ \A i \in 1 .. Len(s) : Append(s, x)[i] = s[i]
          /\ Append(s, x)[Len(s) + 1] = x
        BY AppendProperties
    <2>2. ASSUME \A i \in 1 .. Len(Append(s, x)) : Append(s, x)[i] <= t
          PROVE  After(Append(s, x), t) = <<>>
        <3>1. x <= t /\ \A i \in 1 .. Len(s) : s[i] <= t
            BY <2>1, <2>2
        <3>2. s \in Times /\ After(s, t) = <<>> /\ ~(x > t)
            BY <1>2, <3>1
        <3>3. QED
            BY <3>2, AfterAppend
    <2>3. QED
        BY <2>1, <2>2 DEF Times
<1>3. Seq(Int) \subseteq T
    <2> HIDE DEF T
    <2>1. QED
        BY <1>1, <1>2, SeqInduct
<1>4. QED
    BY <1>3 DEF Times

-----------------------------------------------------------------------------
(* The invariant                                                           *)

\* The window is empty before the first request.
LEMMA InitInv == Init => ClassifierInv
<1> SUFFICES ASSUME Init PROVE ClassifierInv
    OBVIOUS
<1>1. TypeInv
    BY EmptySeq DEF Init, TypeInv, Times
<1>2. QED
    BY <1>1 DEF Init, ClassifierInv, CutoffIsOld, WindowIsWhole

\* The table and the history get the same request.
LEMMA ClassifyWindow ==
    ASSUME ClassifierInv, NEW s \in Source \ Scanner, NEW type, Classify(s, type)
    PROVE  /\ requestCounts' \in [Source -> Times] /\ history' \in [Source -> Times]
           /\ After(requestCounts'[s], now - rateWindow)
                  = Append(After(requestCounts[s], now - rateWindow), now)
           /\ After(history'[s], now - rateWindow)
                  = Append(After(requestCounts[s], now - rateWindow), now)
           /\ requestCounts'[s] = Append(After(requestCounts[s], now - rateWindow), now)
           /\ Len(history'[s]) > Len(history[s])
           /\ \A r \in Source : r # s =>
                 requestCounts'[r] = requestCounts[r] /\ history'[r] = history[r]
<1> DEFINE cut == now - rateWindow
           old == After(requestCounts[s], cut)
<1>1. /\ now \in Int /\ cut \in Int /\ now > cut /\ cut <= cut
      /\ requestCounts[s] \in Times /\ history[s] \in Times
    BY ConstantsAssumption DEF ClassifierInv, TypeInv
<1>2. old = After(history[s], cut)
    BY DEF ClassifierInv, WindowIsWhole
<1>3. /\ requestCounts' = [requestCounts EXCEPT ![s] = Append(old, now)]
      /\ history' = [history EXCEPT ![s] = Append(history[s], now)]
    BY DEF Classify
<1> HIDE DEF cut
<1>4. old \in Times /\ After(old, cut) = old
    BY <1>1, AfterAppend, AfterAfter
<1>5. /\ After(Append(old, now), cut) = Append(After(old, cut), now)
      /\ After(Append(history[s], now), cut) = Append(After(history[s], cut), now)
    BY <1>1, <1>4, AfterAppend
<1>6. /\ Append(old, now) \in Times /\ Append(history[s], now) \in Times
      /\ Len(Append(history[s], now)) = Len(history[s]) + 1 /\ Len(history[s]) \in Nat
    <2>1. old \in Seq(Int) /\ history[s] \in Seq(Int)
        BY <1>1, <1>4 DEF Times
    <2>2. QED
        BY <1>1, <2>1, AppendProperties, LenProperties DEF Times
<1> HIDE DEF old
<1>7. requestCounts \in [Source -> Times] /\ history \in [Source -> Times]
    BY DEF ClassifierInv, TypeInv
<1>8. /\ requestCounts' \in [Source -> Times] /\ history' \in [Source -> Times]
      /\ requestCounts'[s] = Append(old, now) /\ history'[s] = Append(history[s], now)
      /\ \A r \in Source : r # s =>
            requestCounts'[r] = requestCounts[r] /\ history'[r] = history[r]
    BY <1>3, <1>6, <1>7
<1>9. Len(history'[s]) > Len(history[s])
    BY <1>6, <1>8
<1>10. /\ After(requestCounts'[s], cut) = Append(old, now)
       /\ After(history'[s], cut) = Append(old, now)
    BY <1>2, <1>4, <1>5, <1>8
<1>11. QED
    BY <1>8, <1>9, <1>10 DEF cut, old

\* Every step keeps the invariant.
LEMMA ClassifierStep == ClassifierInv /\ [Next]_vars => ClassifierInv'
<1> SUFFICES ASSUME ClassifierInv, [Next]_vars PROVE ClassifierInv'
    OBVIOUS
<1>1. /\ now \in Nat /\ requestCounts \in [Source -> Times] /\ history \in [Source -> Times]
      /\ cutoff \in Int /\ CutoffIsOld /\ WindowIsWhole
    BY DEF ClassifierInv, TypeInv
<1>2. ASSUME UNCHANGED <<now, requestCounts, history, cutoff, cleaner>> PROVE ClassifierInv'
    BY <1>1, <1>2 DEF ClassifierInv, TypeInv, CutoffIsOld, WindowIsWhole
<1>3. ASSUME NEW s \in Source, NEW type \in QueryType, ClassifyScanner(s, type)
      PROVE  ClassifierInv'
    BY <1>2, <1>3 DEF ClassifyScanner, cleanVars
<1>4. ASSUME NEW s \in Source, NEW type \in QueryType, Classify(s, type)
      PROVE  ClassifierInv'
    <2>1. s \in Source \ Scanner
        BY <1>4 DEF Classify
    <2>2. UNCHANGED <<now, cutoff, cleaner>>
        BY <1>4 DEF Classify, cleanVars
    <2>3. /\ requestCounts' \in [Source -> Times] /\ history' \in [Source -> Times]
          /\ After(requestCounts'[s], now - rateWindow) = After(history'[s], now - rateWindow)
          /\ \A r \in Source : r # s =>
                requestCounts'[r] = requestCounts[r] /\ history'[r] = history[r]
        BY <1>4, <2>1, ClassifyWindow
    <2>4. WindowIsWhole'
        BY <1>1, <2>2, <2>3 DEF WindowIsWhole
    <2>5. QED
        BY <1>1, <2>2, <2>3, <2>4 DEF ClassifierInv, TypeInv, CutoffIsOld
<1>5. CASE CleanupStart
    <2>1. /\ UNCHANGED <<now, requestCounts, history>> /\ cutoff' = now - maxAge
        BY <1>5 DEF CleanupStart
    <2>2. QED
        BY <1>1, <2>1, ConstantsAssumption
            DEF ClassifierInv, TypeInv, CutoffIsOld, WindowIsWhole
<1>6. CASE CleanupSweep
    <2>1. /\ UNCHANGED <<now, cutoff, history>> /\ cleaner' = "wait" /\ cleaner = "locked"
          /\ requestCounts' = [s \in Source |-> IF HasRecent(s) THEN requestCounts[s] ELSE <<>>]
        BY <1>6 DEF CleanupSweep
    <2>2. requestCounts' \in [Source -> Times]
        BY <1>1, <2>1, EmptySeq DEF Times
    <2>3. ASSUME NEW s \in Source \ Scanner
          PROVE  After(requestCounts'[s], now - rateWindow)
                     = After(history[s], now - rateWindow)
        <3>1. After(requestCounts[s], now - rateWindow) = After(history[s], now - rateWindow)
            BY <1>1 DEF WindowIsWhole
        <3>2. CASE HasRecent(s)
            BY <2>1, <3>1, <3>2
        <3>3. CASE ~HasRecent(s)
            <4>1. cutoff <= now - rateWindow /\ now - rateWindow \in Int
                BY <1>1, <2>1, ConstantsAssumption DEF CutoffIsOld
            <4>2. requestCounts[s] \in Seq(Int)
                BY <1>1 DEF Times
            <4>3. \A i \in 1 .. Len(requestCounts[s]) : requestCounts[s][i] <= now - rateWindow
                BY <1>1, <3>3, <4>1, <4>2 DEF HasRecent
            <4>4. After(requestCounts[s], now - rateWindow) = <<>>
                BY <4>1, <4>2, <4>3, AfterNone DEF Times
            <4>5. QED
                BY <2>1, <3>1, <3>3, <4>4, AfterAppend
        <3>4. QED
            BY <3>2, <3>3
    <2>4. QED
        BY <1>1, <2>1, <2>2, <2>3 DEF ClassifierInv, TypeInv, CutoffIsOld, WindowIsWhole
<1>7. CASE CleanupExit
    <2>1. /\ UNCHANGED <<now, requestCounts, cutoff, history>> /\ cleaner' = "gone"
        BY <1>7 DEF CleanupExit
    <2>2. QED
        BY <1>1, <2>1 DEF ClassifierInv, TypeInv, CutoffIsOld, WindowIsWhole
<1>8. CASE Cancel
    BY <1>2, <1>8 DEF Cancel, cleanVars
<1>9. CASE Tick
    <2>1. now' = now + 1 /\ UNCHANGED <<requestCounts, cleaner, cutoff, history>>
        BY <1>9 DEF Tick
    <2>2. ASSUME NEW s \in Source \ Scanner
          PROVE  After(requestCounts[s], now + 1 - rateWindow)
                     = After(history[s], now + 1 - rateWindow)
        <3>1. After(requestCounts[s], now - rateWindow) = After(history[s], now - rateWindow)
            BY <1>1 DEF WindowIsWhole
        <3>2. /\ now - rateWindow \in Int /\ now + 1 - rateWindow \in Int
              /\ now - rateWindow <= now + 1 - rateWindow
              /\ requestCounts[s] \in Times /\ history[s] \in Times
            BY <1>1, ConstantsAssumption
        <3>3. /\ After(After(requestCounts[s], now - rateWindow), now + 1 - rateWindow)
                     = After(requestCounts[s], now + 1 - rateWindow)
              /\ After(After(history[s], now - rateWindow), now + 1 - rateWindow)
                     = After(history[s], now + 1 - rateWindow)
            BY <3>2, AfterAfter
        <3>4. QED
            BY <3>1, <3>3
    <2>3. WindowIsWhole'
        <3>1. now' - rateWindow = now + 1 - rateWindow
            BY <1>1, <2>1, ConstantsAssumption
        <3>2. \A s \in Source \ Scanner :
                  After(requestCounts'[s], now' - rateWindow)
                      = After(history'[s], now' - rateWindow)
            BY <2>1, <2>2, <3>1
        <3>3. QED
            BY <3>2, Zenon DEF WindowIsWhole
    <2>4. CutoffIsOld'
        BY <1>1, <2>1, ConstantsAssumption DEF CutoffIsOld
    <2>5. QED
        BY <1>1, <2>1, <2>3, <2>4 DEF ClassifierInv, TypeInv
<1>10. CASE UNCHANGED vars
    BY <1>2, <1>10 DEF vars, cleanVars
<1>11. QED
    BY <1>3, <1>4, <1>5, <1>6, <1>7, <1>8, <1>9, <1>10 DEF Next, CleanStep

-----------------------------------------------------------------------------
(* Theorems                                                                *)

\* No request of the last window is forgotten: neither by the filter of Classify
\* nor by a Cleanup whose cutoff is older than its critical section.
THEOREM WindowsAreWhole == Spec => []WindowIsWhole
<1>1. ClassifierInv => WindowIsWhole
    BY DEF ClassifierInv
<1>2. QED
    BY <1>1, InitInv, ClassifierStep, PTL DEF Spec

\* Every answer of Classify is "attacker" exactly when the window that ends with
\* this request holds more than rateThreshold requests or the type is suspicious.
THEOREM LabelsMatchRates == Spec => LabelMatchesRate
<1> DEFINE Labelled == \A s \in Source \ Scanner :
               Len(history'[s]) > Len(history[s]) =>
                   (last'.label = "attacker" <=>
                       \/ Len(After(history'[s], now - rateWindow)) > rateThreshold
                       \/ last'.type \in {"ANY", "TXT"})
<1>1. ASSUME ClassifierInv, [Next]_vars PROVE [Labelled]_vars
    <2>1. history \in [Source -> Times] /\ \A s \in Source : Len(history[s]) \in Nat
        BY <1>1 DEF ClassifierInv, TypeInv, Times
    <2>2. ASSUME history' = history PROVE Labelled
        BY <2>1, <2>2
    <2>3. ASSUME NEW s \in Source, NEW type \in QueryType, Classify(s, type)
          PROVE  Labelled
        <3>1. s \in Source \ Scanner
            BY <2>3 DEF Classify
        <3>2. /\ After(history'[s], now - rateWindow)
                     = Append(After(requestCounts[s], now - rateWindow), now)
              /\ \A r \in Source : r # s => history'[r] = history[r]
            BY <1>1, <2>3, <3>1, ClassifyWindow
        <3>3. /\ last'.type = type
              /\ last'.label =
                     Label(type, Len(Append(After(requestCounts[s], now - rateWindow), now)))
            BY <2>3 DEF Classify
        <3>4. QED
            BY <2>1, <3>2, <3>3 DEF Label
    <2>4. QED
        BY <1>1, <2>2, <2>3
            DEF Next, CleanStep, ClassifyScanner, CleanupStart, CleanupSweep, CleanupExit,
                Cancel, Tick, vars, cleanVars
<1>2. QED
    BY <1>1, InitInv, ClassifierStep, PTL DEF Spec, LabelMatchesRate
=============================================================================
