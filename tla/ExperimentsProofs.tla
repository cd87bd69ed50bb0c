------------------------- MODULE ExperimentsProofs --------------------------
(***************************************************************************)
(* Proofs about Experiments, for any number of experiments, variants,      *)
(* clients and probes.  ExperimentsInv is inductive: it says how the       *)
(* repositories refer to each other while experiments are being created,   *)
(* and what a probe in flight has read that can no longer change.          *)
(***************************************************************************)
EXTENDS Experiments, FiniteSetTheorems, SequenceTheorems, WellFoundedInduction, TLAPS

\* v is a saved variant of e
IsVariantOf(v, e) == v \in VariantId /\ variants[v] # None /\ variants[v].exp = e

\* TypeOK, and the fields of a request for details
TypeInv ==
    /\ TypeOK
    /\ viewing = [v \in Viewer |-> viewing[v]]
    /\ \A v \in Viewer : viewing[v] # None =>
          viewing[v] = [at |-> viewing[v].at, exp |-> viewing[v].exp,
                        before |-> viewing[v].before, list |-> viewing[v].list,
                        perVariant |-> viewing[v].perVariant]

\* an id that was never published is not in use
UnknownIsUnused ==
    \A e \in ExpId : experiments[e] = None =>
        byExp[e] = <<>> /\ ~BeingCreated(e) /\ Updating(e) = {}

\* the list of an experiment names saved variants of it, and is not empty when
\* its creation has finished
Listed ==
    \A e \in ExpId :
        /\ \A i \in Indices(byExp[e]) : IsVariantOf(byExp[e][i], e)
        /\ experiments[e] # None => BeingCreated(e) \/ byExp[e] # <<>>

\* a variant that is still to be saved has an id of its own
Pending ==
    \A c \in Creator : creating[c] # None =>
        /\ \A i \in Indices(creating[c].todo) :
              /\ creating[c].todo[i].exp = creating[c].exp
              /\ variants[creating[c].todo[i].id] = None
              /\ \A j \in Indices(creating[c].todo) :
                    creating[c].todo[i].id = creating[c].todo[j].id => i = j
        /\ \A d \in Creator \ {c} : creating[d] # None =>
              /\ creating[c].exp # creating[d].exp
              /\ \A i \in Indices(creating[c].todo), j \in Indices(creating[d].todo) :
                    creating[c].todo[i].id # creating[d].todo[j].id

\* an experiment that is active while it is being created is in early
ActiveIsComplete ==
    \A e \in ExpId : IsActive(status[e]) /\ BeingCreated(e) => e \in early

\* the updates under way, and what they still have to write
StatusInv ==
    \A e \in ExpId :
        /\ \A u \in Updating(e) : updating[u].to \in wanted[e]
        /\ \A to \in wanted[e] : wanted[e] = {to} =>
              \A word \in {"text", "length"} :
                  \/ status[e][word] = to
                  \/ \E u \in Updating(e) : word \in updating[u].words

\* what a probe in flight has read
ProbeOK(p) ==
    /\ experiments[probe[p].exp] # None
    /\ probe[p].exp \in early \/ ~BeingCreated(probe[p].exp)
    /\ probe[p].at # "list" =>
          /\ experiments[probe[p].exp] = "source"
          /\ \A i \in Indices(probe[p].list) :
                /\ probe[p].list[i].exp = probe[p].exp
                /\ variants[probe[p].list[i].id] = probe[p].list[i]
          /\ probe[p].exp \in early \/ probe[p].list = VariantsOf(probe[p].exp)
    /\ probe[p].at = "get" =>
          \E i \in Matching(probe[p].src, probe[p].exp) :
              assignments[i].variant = probe[p].variant
    /\ probe[p].at = "save" =>
          /\ probe[p].list # <<>>
          /\ probe[p].variant = AssignVariant(probe[p].exp, probe[p].src, probe[p].list)

ProbeInv == \A p \in Probe : probe[p] # None => ProbeOK(p)

\* the log names the variant that the hash gives, once creation has finished
AssignmentOK(a) ==
    /\ experiments[a.exp] = "source"
    /\ IsVariantOf(a.variant, a.exp)
    /\ \/ a.exp \in early
       \/ /\ ~BeingCreated(a.exp)
          /\ a.variant = AssignVariant(a.exp, a.src, VariantsOf(a.exp))

AssignInv == \A i \in 1 .. Len(assignments) : AssignmentOK(assignments[i])

\* what was served is a function of the source or the destination alone
ServedOK(a) ==
    /\ experiments[a.exp] # None
    /\ a.exp \notin early
    /\ ~BeingCreated(a.exp)
    /\ experiments[a.exp] = "destination" =>
          a.variant = AssignVariantByDestination(a.dst, VariantsOf(a.exp))
    /\ experiments[a.exp] = "source" =>
          /\ Matching(a.src, a.exp) # {}
          /\ IsVariantOf(a.variant, a.exp)
          /\ a.variant = AssignVariant(a.exp, a.src, VariantsOf(a.exp))

ServedInv == \A a \in served : ServedOK(a)

ExperimentsInv ==
    /\ TypeInv /\ UnknownIsUnused /\ Listed /\ Pending /\ ActiveIsComplete
    /\ StatusInv /\ ProbeInv /\ AssignInv /\ ServedInv

-----------------------------------------------------------------------------
(* The operators                                                           *)

\* A set of naturals that is not empty has a least element.
LEMMA LeastNat ==
    ASSUME NEW T, T \subseteq Nat, T # {}
    PROVE  \E x \in T : \A y \in T : x <= y
<1> DEFINE R == {ss \in Nat \X Nat : ss[1] < ss[2]}
<1>1. IsWellFoundedOn(R, Nat)
    BY NatLessThanWellFounded DEF OpToRel
<1>2. \A x, y \in Nat : ~ (<<y, x>> \in R) => x <= y
    OBVIOUS
<1> HIDE DEF R
<1>3. \E x \in T : \A y \in T : ~ (<<y, x>> \in R)
    BY WFMin, <1>1, Zenon
<1>4. QED
    BY <1>2, <1>3, Zenon

\* Among finitely many indices there is one with the least key.
LEMMA LeastKey ==
    ASSUME NEW n \in Nat, NEW key \in [1 .. n -> Int], NEW K \in SUBSET (1 .. n), K # {}
    PROVE  \E i \in K : \A j \in K : key[i] <= key[j]
<1> DEFINE HasLeast(m) == \A H \in SUBSET (1 .. n) :
                              H # {} /\ (\A i \in H : i <= m) =>
                                  \E i \in H : \A j \in H : key[i] <= key[j]
           Bad == { m \in 0 .. n : ~HasLeast(m) }
<1>1. SUFFICES ASSUME Bad # {} PROVE FALSE
    <2>1. n \in 0 .. n /\ \A i \in K : i <= n
        OBVIOUS
    <2>2. HasLeast(n)
        BY <1>1, <2>1
    <2>3. QED
        BY <2>1, <2>2
<1>2. PICK m \in Bad : \A k \in Bad : m <= k
    <2>1. Bad \subseteq Nat
        OBVIOUS
    <2> HIDE DEF Bad
    <2>2. QED
        BY <1>1, <2>1, LeastNat
<1>3. m \in 0 .. n /\ ~HasLeast(m)
    OBVIOUS
<1>4. PICK H \in SUBSET (1 .. n) :
          H # {} /\ (\A i \in H : i <= m) /\ ~ \E i \in H : \A j \in H : key[i] <= key[j]
    BY <1>3
<1>5. \A i \in H : i \in Nat /\ i >= 1 /\ i <= m /\ key[i] \in Int
    <2>1. \A i \in H : i \in 1 .. n /\ i <= m
        BY <1>4
    <2>2. QED
        BY <2>1
<1>6. m \in Nat /\ m > 0
    <2>1. m \in Nat
        BY <1>3
    <2>2. PICK i \in H : i \in Nat /\ i >= 1 /\ i <= m
        BY <1>4, <1>5
    <2>3. QED
        BY <2>1, <2>2
<1>7. HasLeast(m - 1)
    <2>1. m - 1 \in 0 .. n /\ m - 1 \notin Bad
        <3> HIDE DEF Bad
        <3>1. QED
            BY <1>2, <1>3, <1>6
    <2>2. QED
        BY <2>1
<1> DEFINE L == H \ {m}
<1>8. L \in SUBSET (1 .. n) /\ \A i \in L : i <= m - 1
    BY <1>4, <1>5, <1>6
<1>9. CASE L = {}
    <2>1. H = {m}
        BY <1>4, <1>9
    <2>2. QED
        BY <1>4, <1>5, <2>1
<1>10. CASE L # {}
    <2>1. PICK l \in L : \A j \in L : key[l] <= key[j]
        BY <1>7, <1>8, <1>10
    <2> HIDE DEF Bad, HasLeast
    <2>2. l \in H /\ \A j \in H : j = m \/ key[l] <= key[j]
        BY <2>1
    <2>3. CASE m \notin H
        BY <1>4, <2>2, <2>3
    <2>4. CASE m \in H /\ key[l] <= key[m]
        BY <1>4, <2>2, <2>4
    <2>5. CASE m \in H /\ key[m] < key[l]
        <3>1. \A j \in H : key[m] <= key[j]
            BY <1>5, <2>2, <2>5
        <3>2. QED
            BY <1>4, <2>5, <3>1
    <2>6. key[l] \in Int /\ (m \in H => key[m] \in Int)
        BY <1>5, <2>2
    <2>7. QED
        BY <2>3, <2>4, <2>5, <2>6
<1>11. QED
    BY <1>9, <1>10

\* AssignVariant of a list that is not empty is the id of a variant in it,
\* whatever the weights are.
LEMMA AssignVariantPicks ==
    ASSUME NEW e, NEW s, NEW list \in Seq(VariantType), list # <<>>
    PROVE  \E i \in Indices(list) : AssignVariant(e, s, list) = list[i].id
<1> DEFINE n == Len(list)
           hit == { i \in Indices(list) : Hash[e, s] < Cumulative(list, i) }
           key == [i \in 1 .. n |-> list[i].id]
           back == [i \in 1 .. n |-> 0 - list[i].id]
<1>1. n \in Nat /\ n > 0 /\ Indices(list) = 1 .. n
    BY DEF Indices
<1>2. \A i \in 1 .. n : list[i].id \in Int
    <2>1. \A i \in 1 .. n : list[i] \in VariantType
        BY <1>1
    <2>2. QED
        BY <2>1, ConstantsAssumption DEF VariantType
<1>3. key \in [1 .. n -> Int] /\ back \in [1 .. n -> Int]
    BY <1>2
<1>4. CASE hit # {}
    <2>1. hit \in SUBSET (1 .. n)
        BY <1>1
    <2>2. \E i \in hit : \A j \in hit : key[i] <= key[j]
        <3> HIDE DEF hit, key, n
        <3>1. QED
            BY <1>1, <1>3, <1>4, <2>1, LeastKey
    <2>3. \E i \in hit : \A j \in hit : list[i].id <= list[j].id
        <3> HIDE DEF hit
        <3>1. QED
            BY <2>1, <2>2
    <2>4. DEFINE c == CHOOSE i \in hit : \A j \in hit : list[i].id <= list[j].id
    <2>5. c \in hit
        <3> HIDE DEF hit
        <3>1. QED
            BY <2>3, Zenon
    <2>6. AssignVariant(e, s, list) = list[c].id
        BY <1>4, Zenon DEF AssignVariant
    <2>7. QED
        <3> HIDE DEF hit, c
        <3>1. QED
            BY <1>1, <2>1, <2>5, <2>6
<1>5. CASE hit = {}
    <2>1. \E i \in 1 .. n : \A j \in 1 .. n : back[i] <= back[j]
        <3> HIDE DEF back, n
        <3>1. (1 .. n) \in SUBSET (1 .. n) /\ 1 \in 1 .. n
            BY <1>1
        <3>2. QED
            BY <1>1, <1>3, <3>1, LeastKey
    <2>2. \E i \in Indices(list) : \A j \in Indices(list) : list[j].id <= list[i].id
        BY <1>1, <1>2, <2>1
    <2>3. DEFINE c == CHOOSE i \in Indices(list) :
                          \A j \in Indices(list) : list[j].id <= list[i].id
    <2>4. c \in Indices(list)
        BY <2>2, Zenon
    <2>5. AssignVariant(e, s, list) = list[c].id
        BY <1>5, Zenon DEF AssignVariant
    <2>6. QED
        BY <2>4, <2>5, Zenon
<1>6. QED
    BY <1>4, <1>5

\* AssignVariantByDestination is None or the id of a variant in the list.
LEMMA ByDestinationPicks ==
    ASSUME NEW d, NEW list \in Seq(VariantType)
    PROVE  \/ AssignVariantByDestination(d, list) = None
           \/ \E i \in Indices(list) : AssignVariantByDestination(d, list) = list[i].id
<1> DEFINE claim == { i \in Indices(list) : d \in list[i].ips }
<1>1. CASE claim = {}
    BY <1>1 DEF AssignVariantByDestination
<1>2. CASE claim # {}
    <2>1. claim \subseteq Nat
        BY DEF Indices
    <2>2. DEFINE c == CHOOSE i \in claim : \A j \in claim : i <= j
    <2>3. c \in claim
        <3> HIDE DEF claim
        <3>1. \E i \in claim : \A j \in claim : i <= j
            BY <1>2, <2>1, LeastNat
        <3>2. QED
            BY <3>1, Zenon
    <2>4. AssignVariantByDestination(d, list) = list[c].id
        BY <1>2, Zenon DEF AssignVariantByDestination
    <2>5. QED
        BY <2>3, <2>4
<1>3. QED
    BY <1>1, <1>2

\* FindBySourceAndExperiment returns a matching entry of the log.
LEMMA FindMatches ==
    ASSUME NEW s, NEW e, NEW S, assignments \in Seq(S), Matching(s, e) # {}
    PROVE  \E i \in Matching(s, e) : FindBySourceAndExperiment(s, e) = assignments[i]
<1>1. Matching(s, e) \subseteq Nat
    BY DEF Matching
<1>2. \E i \in Matching(s, e) : \A j \in Matching(s, e) : i <= j
    BY <1>1, LeastNat
<1>3. QED
    BY <1>2, Zenon DEF FindBySourceAndExperiment

\* A function on 1 .. n is a sequence of length n.
LEMMA SeqOfFunction ==
    ASSUME NEW S, NEW n \in Nat, NEW f \in [1 .. n -> S]
    PROVE  f \in Seq(S) /\ Len(f) = n
    OBVIOUS

\* ListVariants of an experiment returns its saved variants, one for each entry
\* of its list.
LEMMA VariantsOfType ==
    ASSUME TypeOK, Listed, NEW e \in ExpId
    PROVE  /\ VariantsOf(e) \in Seq(VariantType)
           /\ Len(VariantsOf(e)) = Len(byExp[e])
           /\ \A i \in Indices(VariantsOf(e)) :
                 /\ VariantsOf(e)[i].exp = e
                 /\ VariantsOf(e)[i].id = byExp[e][i]
                 /\ variants[VariantsOf(e)[i].id] = VariantsOf(e)[i]
<1>1. byExp[e] \in Seq(VariantId) /\ Len(byExp[e]) \in Nat
    BY DEF TypeOK
<1>2. \A i \in 1 .. Len(byExp[e]) : IsVariantOf(byExp[e][i], e)
    BY DEF Listed, Indices
<1>3. \A i \in 1 .. Len(byExp[e]) :
          /\ variants[byExp[e][i]] \in VariantType /\ variants[byExp[e][i]].id = byExp[e][i]
          /\ variants[byExp[e][i]].exp = e
    BY <1>2 DEF IsVariantOf, TypeOK
<1>4. VariantsOf(e) = [i \in 1 .. Len(byExp[e]) |-> variants[byExp[e][i]]]
    BY DEF VariantsOf, Indices
<1>5. VariantsOf(e) \in [1 .. Len(byExp[e]) -> VariantType]
    BY <1>3, <1>4
<1>6. VariantsOf(e) \in Seq(VariantType) /\ Len(VariantsOf(e)) = Len(byExp[e])
    BY <1>1, <1>5, SeqOfFunction
<1>7. QED
    BY <1>3, <1>4, <1>6 DEF Indices

-----------------------------------------------------------------------------
(* The invariant                                                           *)

\* Init establishes the invariant.
LEMMA InitInv == Init => ExperimentsInv
<1> SUFFICES ASSUME Init PROVE ExperimentsInv
    OBVIOUS
<1>1. TypeInv
    BY DEF Init, TypeInv, TypeOK, StatusType
<1>2. UnknownIsUnused /\ Listed /\ Pending /\ ActiveIsComplete
    BY DEF Init, UnknownIsUnused, Listed, Pending, ActiveIsComplete, BeingCreated, Updating,
        Indices, IsActive
<1>3. StatusInv /\ ProbeInv /\ AssignInv /\ ServedInv
    BY DEF Init, StatusInv, ProbeInv, AssignInv, ServedInv, Updating
<1>4. QED
    BY <1>1, <1>2, <1>3 DEF ExperimentsInv

\* A part of the invariant survives a step that leaves its variables alone.
LEMMA Frames ==
    /\ UnknownIsUnused /\ UNCHANGED <<experiments, byExp, creating, updating>>
          => UnknownIsUnused'
    /\ Listed /\ UNCHANGED <<experiments, byExp, variants, creating>> => Listed'
    /\ Pending /\ UNCHANGED <<variants, creating>> => Pending'
    /\ ActiveIsComplete /\ UNCHANGED <<status, creating, early>> => ActiveIsComplete'
    /\ StatusInv /\ UNCHANGED <<status, updating, wanted>> => StatusInv'
    /\ ProbeInv /\ UNCHANGED <<experiments, variants, byExp, creating, early, assignments, probe>>
          => ProbeInv'
    /\ AssignInv /\ UNCHANGED <<experiments, variants, byExp, creating, early, assignments>>
          => AssignInv'
    /\ ServedInv /\ UNCHANGED <<experiments, variants, byExp, creating, early, assignments, served>>
          => ServedInv'
<1> USE DEF Indices, IsVariantOf, BeingCreated, Updating, VariantsOf, Matching
<1>1. UnknownIsUnused /\ UNCHANGED <<experiments, byExp, creating, updating>>
          => UnknownIsUnused'
    BY DEF UnknownIsUnused
<1>2. Listed /\ UNCHANGED <<experiments, byExp, variants, creating>> => Listed'
    BY DEF Listed
<1>3. Pending /\ UNCHANGED <<variants, creating>> => Pending'
    BY DEF Pending
<1>4. ActiveIsComplete /\ UNCHANGED <<status, creating, early>> => ActiveIsComplete'
    BY DEF ActiveIsComplete
<1>5. StatusInv /\ UNCHANGED <<status, updating, wanted>> => StatusInv'
    BY DEF StatusInv
<1>6. ProbeInv /\ UNCHANGED <<experiments, variants, byExp, creating, early, assignments, probe>>
          => ProbeInv'
    BY DEF ProbeInv, ProbeOK
<1>7. AssignInv /\ UNCHANGED <<experiments, variants, byExp, creating, early, assignments>>
          => AssignInv'
    BY DEF AssignInv, AssignmentOK
<1>8. ServedInv /\ UNCHANGED <<experiments, variants, byExp, creating, early, assignments, served>>
          => ServedInv'
    BY DEF ServedInv, ServedOK
<1>9. QED
    BY <1>1, <1>2, <1>3, <1>4, <1>5, <1>6, <1>7, <1>8


\* The fields of a variant.
LEMMA VariantFields ==
    ASSUME NEW v \in VariantType
    PROVE  /\ v.id \in VariantId /\ v.exp \in ExpId /\ v # None
    BY NoneAssumption DEF VariantType

\* The fields of a probe in flight.
LEMMA ProbeFields ==
    ASSUME NEW r \in ProbeType
    PROVE  /\ r.at \in {"list", "find", "get", "save"} /\ r.src \in Source /\ r.dst \in Dest
           /\ r.exp \in ExpId /\ r.list \in Seq(VariantType)
           /\ r.variant \in VariantId \cup {None}
           /\ \A i \in Indices(r.list) : r.list[i] \in VariantType
<1>1. r.list \in Seq(VariantType)
    BY DEF ProbeType
<1>2. \A i \in Indices(r.list) : r.list[i] \in VariantType
    BY <1>1 DEF Indices
<1>3. QED
    BY <1>1, <1>2 DEF ProbeType

\* The fields of an entry of the log.
LEMMA AssignmentFields ==
    ASSUME TypeOK, NEW i \in 1 .. Len(assignments)
    PROVE  /\ assignments[i].src \in Source /\ assignments[i].exp \in ExpId
           /\ assignments[i].variant \in VariantId
<1>1. assignments[i] \in AssignmentType
    BY DEF TypeOK
<1>2. QED
    BY <1>1 DEF AssignmentType

\* What the steps of clients that create and update experiments may change: a
\* saved variant stays as it is, and so does the list of an experiment whose
\* creation has finished.
RepositoryGrows ==
    /\ UNCHANGED <<assignments, probe, served>>
    /\ \A v \in VariantId : variants[v] # None => variants'[v] = variants[v]
    /\ \A e \in ExpId : experiments[e] # None =>
          /\ experiments'[e] = experiments[e]
          /\ e \in early => e \in early'
          /\ e \in early' => e \in early \/ BeingCreated(e)
          /\ ~BeingCreated(e) => ~BeingCreated(e)' /\ VariantsOf(e)' = VariantsOf(e)

\* Such a step does not disturb what probes have read, logged and answered.
LEMMA GrowthKeeps ==
    ASSUME TypeOK, TypeOK', ProbeInv, AssignInv, ServedInv, RepositoryGrows
    PROVE  ProbeInv' /\ AssignInv' /\ ServedInv'
<1>1. /\ assignments' = assignments /\ probe' = probe /\ served' = served
      /\ \A src, x : Matching(src, x)' = Matching(src, x)
    BY DEF RepositoryGrows, Matching
<1>2. ASSUME NEW v \in VariantId, NEW e \in ExpId, IsVariantOf(v, e)
      PROVE  IsVariantOf(v, e)'
    BY <1>2 DEF RepositoryGrows, IsVariantOf
<1>3. ASSUME NEW p \in Probe, probe[p] # None
      PROVE  ProbeOK(p)'
    <2>1. probe[p] \in ProbeType
        BY <1>3 DEF TypeOK
    <2>2. /\ probe[p].exp \in ExpId
          /\ \A i \in Indices(probe[p].list) : probe[p].list[i].id \in VariantId
                                                 /\ probe[p].list[i] # None
        BY <2>1, ProbeFields, VariantFields
    <2>3. ProbeOK(p)
        BY <1>3 DEF ProbeInv
    <2>4. QED
        BY <1>1, <2>2, <2>3 DEF ProbeOK, RepositoryGrows
<1>4. ASSUME NEW i \in 1 .. Len(assignments)
      PROVE  AssignmentOK(assignments[i])'
    <2>1. /\ assignments[i].exp \in ExpId /\ assignments[i].variant \in VariantId
          /\ assignments[i] = assignments'[i]
        BY <1>1, AssignmentFields
    <2>2. AssignmentOK(assignments[i])
        BY DEF AssignInv
    <2>3. "source" # None
        BY NoneAssumption
    <2>4. QED
        BY <1>1, <1>2, <2>1, <2>2, <2>3 DEF AssignmentOK, RepositoryGrows
<1>5. ASSUME NEW a \in served
      PROVE  ServedOK(a)'
    <2>1. a.exp \in ExpId
        BY DEF TypeOK, ServedType
    <2>2. ServedOK(a)
        BY DEF ServedInv
    <2>3. QED
        BY <1>1, <1>2, <2>1, <2>2 DEF ServedOK, RepositoryGrows, IsVariantOf
<1>6. QED
    BY <1>1, <1>3, <1>4, <1>5 DEF ProbeInv, AssignInv, ServedInv

\* A new experiment takes an id nobody uses and variant ids nobody has.
LEMMA CreateExperimentStep ==
    ASSUME ExperimentsInv, NEW c \in Creator, NEW input \in Inputs,
           CreateExperiment(c, input), UNCHANGED viewing
    PROVE  ExperimentsInv'
<1> DEFINE n == Len(input.variants)
           mode == IF input.mode = "destination" THEN "destination" ELSE "source"
<1>1. /\ TypeInv /\ TypeOK /\ UnknownIsUnused /\ Listed /\ Pending /\ ActiveIsComplete
      /\ StatusInv /\ ProbeInv /\ AssignInv /\ ServedInv
    BY DEF ExperimentsInv, TypeInv
<1>2. /\ input.variants \in Seq(VariantInput) /\ n \in Nat /\ n >= 2
      /\ Indices(input.variants) = 1 .. n
    <2>1. input.variants \in Seq(VariantInput)
        BY InputsAssumption
    <2>2. n >= 2
        BY DEF CreateExperiment, Valid
    <2>3. QED
        BY <2>1, <2>2 DEF Indices
<1>3. PICK e \in ExpId :
          /\ experiments[e] = None
          /\ \E ids \in [Indices(input.variants) -> FreshVariantId] :
                /\ \A i, j \in Indices(input.variants) : i # j => ids[i] # ids[j]
                /\ experiments' = [experiments EXCEPT ![e] = mode]
                /\ status' = [status EXCEPT ![e] = [text |-> "stopped", length |-> "stopped"]]
                /\ wanted' = [wanted EXCEPT ![e] = {"stopped"}]
                /\ creating' = [creating EXCEPT ![c] =
                       [exp |-> e, todo |-> [i \in Indices(input.variants) |->
                                                NewVariant(e, ids[i], input.variants[i])]]]
    BY Zenon DEF CreateExperiment
<1>4. PICK ids \in [Indices(input.variants) -> FreshVariantId] :
          /\ \A i, j \in Indices(input.variants) : i # j => ids[i] # ids[j]
          /\ experiments' = [experiments EXCEPT ![e] = mode]
          /\ status' = [status EXCEPT ![e] = [text |-> "stopped", length |-> "stopped"]]
          /\ wanted' = [wanted EXCEPT ![e] = {"stopped"}]
          /\ creating' = [creating EXCEPT ![c] =
                 [exp |-> e, todo |-> [i \in Indices(input.variants) |->
                                          NewVariant(e, ids[i], input.variants[i])]]]
    BY <1>3, Zenon
<1> DEFINE todo == [i \in Indices(input.variants) |-> NewVariant(e, ids[i], input.variants[i])]
           new == [exp |-> e, todo |-> todo]
<1>5. /\ creating[c] = None /\ experiments[e] = None
      /\ UNCHANGED <<variants, byExp, assignments, updating, probe, served, early, viewing>>
    BY <1>3 DEF CreateExperiment
<1>6. \A i \in 1 .. n : ids[i] \in VariantId /\ variants[ids[i]] = None /\ ids[i] \notin PendingIds
    BY <1>2, <1>4 DEF FreshVariantId
<1>7. \A i \in 1 .. n : todo[i] \in VariantType /\ todo[i].id = ids[i] /\ todo[i].exp = e
    <2>1. \A i \in 1 .. n : input.variants[i] \in VariantInput
        BY <1>2
    <2>2. \A i \in 1 .. n : /\ input.variants[i].weight \in Int
                            /\ input.variants[i].ips \in SUBSET Dest
        BY <2>1 DEF VariantInput
    <2>3. QED
        BY <1>2, <1>6, <2>2 DEF NewVariant, VariantType
<1>8. /\ todo \in Seq(VariantType) /\ Len(todo) = n /\ todo # <<>>
      /\ Indices(todo) = 1 .. n
    <2>1. todo \in [1 .. n -> VariantType]
        BY <1>2, <1>7
    <2> HIDE DEF todo, n
    <2>2. todo \in Seq(VariantType) /\ Len(todo) = n
        BY <1>2, <2>1, SeqOfFunction
    <2>3. QED
        BY <1>2, <2>2 DEF Indices
<1>9. /\ new \in CreateType /\ new # None /\ new.exp = e /\ new.todo = todo
      /\ creating' = [creating EXCEPT ![c] = new]
    <2> HIDE DEF todo
    <2>1. new \in CreateType
        BY <1>8 DEF CreateType
    <2>2. QED
        BY <1>4, <2>1, NoneAssumption DEF todo
<1>10. mode \in {"source", "destination"} /\ mode # None
    BY NoneAssumption
<1> HIDE DEF todo, new, mode, n
<1>11. \A d \in Creator : creating'[d] = IF d = c THEN new ELSE creating[d]
    BY <1>1, <1>9 DEF TypeOK
<1>12. \A x \in ExpId : BeingCreated(x)' <=> BeingCreated(x) \/ x = e
    BY <1>5, <1>9, <1>11 DEF BeingCreated
<1>13. \A x \in ExpId : experiments'[x] = IF x = e THEN mode ELSE experiments[x]
    BY <1>1, <1>4 DEF TypeOK
<1>14. TypeInv'
    <2>1. TypeOK'
        <3>1. experiments' \in [ExpId -> {"source", "destination", None}]
            BY <1>1, <1>4, <1>10 DEF TypeOK
        <3>2. status' \in [ExpId -> StatusType]
            BY <1>1, <1>4 DEF TypeOK, StatusType
        <3>3. wanted' \in [ExpId -> SUBSET {"active", "stopped"}]
            BY <1>1, <1>4 DEF TypeOK
        <3>4. creating' \in [Creator -> CreateType \cup {None}]
            BY <1>1, <1>9 DEF TypeOK
        <3>5. QED
            BY <1>1, <1>5, <3>1, <3>2, <3>3, <3>4 DEF TypeOK
    <2>2. QED
        BY <1>1, <1>5, <2>1 DEF TypeInv
<1>15. UnknownIsUnused'
    <2>1. \A x \in ExpId : Updating(x)' = Updating(x)
        BY <1>5 DEF Updating
    <2>2. QED
        BY <1>1, <1>5, <1>10, <1>12, <1>13, <2>1 DEF UnknownIsUnused
<1>16. Listed'
    BY <1>1, <1>5, <1>12, <1>13 DEF Listed, IsVariantOf, Indices
<1>17. Pending'
    <2>1. ASSUME NEW d \in Creator, creating[d] # None, NEW k \in Indices(creating[d].todo),
                 NEW i \in 1 .. n
          PROVE  creating[d].todo[k].id # todo[i].id
        BY <1>6, <1>7, <2>1 DEF PendingIds
    <2>2. ASSUME NEW d \in Creator, creating[d] # None
          PROVE  creating[d].exp # e
        BY <1>1, <1>5, <2>2 DEF UnknownIsUnused, BeingCreated
    <2>3. \A i, j \in 1 .. n : todo[i].id = todo[j].id => i = j
        BY <1>2, <1>4, <1>7
    <2>4. QED
        BY <1>1, <1>5, <1>6, <1>7, <1>8, <1>9, <1>11, <2>1, <2>2, <2>3 DEF Pending
<1>18. ActiveIsComplete'
    BY <1>1, <1>4, <1>5, <1>12 DEF ActiveIsComplete, IsActive, TypeOK
<1>19. StatusInv'
    <2>1. \A x \in ExpId : Updating(x)' = Updating(x)
        BY <1>5 DEF Updating
    <2>2. Updating(e) = {}
        BY <1>1, <1>5 DEF UnknownIsUnused
    <2>3. \A x \in ExpId : /\ wanted'[x] = IF x = e THEN {"stopped"} ELSE wanted[x]
                           /\ x # e => status'[x] = status[x]
                           /\ \A word \in {"text", "length"} : status'[e][word] = "stopped"
        BY <1>1, <1>4 DEF TypeOK
    <2>4. ASSUME NEW x \in ExpId
          PROVE  /\ \A u \in Updating(x)' : updating'[u].to \in wanted'[x]
                 /\ \A to \in wanted'[x] : wanted'[x] = {to} =>
                       \A word \in {"text", "length"} :
                           \/ status'[x][word] = to
                           \/ \E u \in Updating(x)' : word \in updating'[u].words
        <3>1. CASE x = e
            BY <2>1, <2>2, <2>3, <3>1
        <3>2. CASE x # e
            BY <1>1, <1>5, <2>1, <2>3, <3>2 DEF StatusInv
        <3>3. QED
            BY <3>1, <3>2
    <2>5. QED
        BY <2>4 DEF StatusInv
<1>20. RepositoryGrows
    BY <1>1, <1>5, <1>12, <1>13 DEF RepositoryGrows, VariantsOf
<1>21. ProbeInv' /\ AssignInv' /\ ServedInv'
    BY <1>1, <1>14, <1>20, GrowthKeeps DEF TypeInv
<1>22. QED
    BY <1>14, <1>15, <1>16, <1>17, <1>18, <1>19, <1>21 DEF ExperimentsInv


\* A variant that is saved replaces none, and joins the list of an experiment
\* that is still being created.
LEMMA SaveVariantStep ==
    ASSUME ExperimentsInv, NEW c \in Creator, SaveVariant(c), UNCHANGED viewing
    PROVE  ExperimentsInv'
<1>1. /\ TypeInv /\ TypeOK /\ UnknownIsUnused /\ Listed /\ Pending /\ ActiveIsComplete
      /\ StatusInv /\ ProbeInv /\ AssignInv /\ ServedInv
    BY DEF ExperimentsInv, TypeInv
<1>2. /\ creating[c] # None
      /\ UNCHANGED <<experiments, status, assignments, updating, probe, viewing, served, early,
                     wanted>>
    BY DEF SaveVariant, history, statusHistory
<1>3. PICK e \in ExpId, todo \in Seq(VariantType) :
          creating[c].exp = e /\ creating[c].todo = todo /\ todo # <<>>
    <2>1. creating[c] \in CreateType
        BY <1>1, <1>2 DEF TypeOK
    <2>2. QED
        BY <2>1 DEF CreateType
<1> DEFINE v == Head(todo)
           rest == Tail(todo)
           next == IF rest = <<>> THEN None ELSE [exp |-> e, todo |-> rest]
<1>4. /\ Len(todo) \in Nat /\ Len(todo) > 0 /\ 1 \in Indices(todo) /\ v = todo[1]
      /\ rest \in Seq(VariantType) /\ Indices(rest) = 1 .. Len(todo) - 1
      /\ \A i \in Indices(rest) : i + 1 \in Indices(todo) /\ rest[i] = todo[i + 1]
    BY <1>3 DEF Indices
<1>5. v \in VariantType /\ v.id \in VariantId /\ v # None /\ v.exp = e /\ variants[v.id] = None
    <2>1. v \in VariantType
        BY <1>3, <1>4 DEF Indices
    <2>2. v.exp = e /\ variants[v.id] = None
        BY <1>1, <1>2, <1>3, <1>4 DEF Pending
    <2>3. QED
        BY <2>1, <2>2, VariantFields
<1>6. /\ byExp' = [byExp EXCEPT ![e] = Append(byExp[e], v.id)]
      /\ variants' = [variants EXCEPT ![v.id] = v]
      /\ creating' = [creating EXCEPT ![c] = next]
    BY <1>3, <1>5 DEF SaveVariant
<1>7. ASSUME NEW i \in Indices(rest)
      PROVE  rest[i].id # v.id /\ variants[rest[i].id] = None /\ rest[i].exp = e
             /\ \A k \in Indices(rest) : rest[i].id = rest[k].id => i = k
    <2>1. i \in Nat /\ i > 0
        BY <1>4
    <2>2. /\ todo[i + 1].id # todo[1].id /\ variants[todo[i + 1].id] = None
          /\ todo[i + 1].exp = e
        BY <1>1, <1>2, <1>3, <1>4, <2>1 DEF Pending
    <2>3. ASSUME NEW k \in Indices(rest), rest[i].id = rest[k].id
          PROVE  i = k
        <3>1. i + 1 = k + 1
            BY <1>1, <1>2, <1>3, <1>4, <2>3 DEF Pending
        <3>2. QED
            BY <1>4, <2>1, <3>1
    <2>4. QED
        BY <1>4, <2>2, <2>3
<1>8. rest # <<>> => /\ next \in CreateType /\ next # None /\ next.exp = e
                     /\ next.todo = rest
    <2> SUFFICES ASSUME rest # <<>> PROVE next \in CreateType /\ next # None /\ next.exp = e
                                          /\ next.todo = rest
        OBVIOUS
    <2> HIDE DEF rest
    <2>1. next = [exp |-> e, todo |-> rest]
        OBVIOUS
    <2>2. next \in CreateType
        BY <1>4, <2>1 DEF CreateType
    <2>3. QED
        BY <2>1, <2>2, NoneAssumption
<1>9. \A d \in Creator : creating'[d] = IF d = c THEN next ELSE creating[d]
    BY <1>1, <1>6 DEF TypeOK
<1>10. \A d \in Creator \ {c} : creating[d] # None =>
          /\ creating[d].exp # e
          /\ \A k \in Indices(creating[d].todo) :
                /\ creating[d].todo[k].id # v.id
                /\ \A i \in Indices(rest) : creating[d].todo[k].id # rest[i].id
    BY <1>1, <1>2, <1>3, <1>4 DEF Pending
<1>11. /\ BeingCreated(e)
       /\ rest # <<>> => BeingCreated(e)'
       /\ \A x \in ExpId : x # e => (BeingCreated(x)' <=> BeingCreated(x))
    <2> HIDE DEF next, rest, v
    <2>1. rest = <<>> => next = None
        BY DEF next
    <2>2. QED
        BY <1>2, <1>3, <1>8, <1>9, <1>10, <2>1 DEF BeingCreated
<1>12. \A w \in VariantId : variants'[w] = IF w = v.id THEN v ELSE variants[w]
    BY <1>1, <1>6 DEF TypeOK
<1>13. /\ byExp[e] \in Seq(VariantId) /\ byExp'[e] = Append(byExp[e], v.id)
       /\ \A x \in ExpId : x # e => byExp'[x] = byExp[x]
    BY <1>1, <1>3, <1>6 DEF TypeOK
<1>14. /\ byExp'[e] \in Seq(VariantId) /\ byExp'[e] # <<>>
       /\ Len(byExp'[e]) = Len(byExp[e]) + 1 /\ Len(byExp[e]) \in Nat
       /\ \A i \in 1 .. Len(byExp[e]) : byExp'[e][i] = byExp[e][i]
       /\ byExp'[e][Len(byExp[e]) + 1] = v.id
    <2>1. /\ Append(byExp[e], v.id) \in Seq(VariantId)
          /\ Append(byExp[e], v.id) # <<>>
          /\ Len(Append(byExp[e], v.id)) = Len(byExp[e]) + 1
          /\ \A i \in 1 .. Len(byExp[e]) : Append(byExp[e], v.id)[i] = byExp[e][i]
          /\ Append(byExp[e], v.id)[Len(byExp[e]) + 1] = v.id
        <3>1. byExp[e] \in Seq(VariantId) /\ v.id \in VariantId
            BY <1>5, <1>13
        <3>2. QED
            BY <3>1, AppendProperties
    <2> HIDE DEF v
    <2>2. QED
        BY <1>13, <2>1, LenProperties
<1> HIDE DEF next, v, rest
<1>15. TypeInv'
    <2>1. variants' \in [VariantId -> VariantType \cup {None}]
        BY <1>1, <1>5, <1>6 DEF TypeOK
    <2>2. \A w \in VariantId : variants'[w] # None => variants'[w].id = w
        BY <1>1, <1>12 DEF TypeOK
    <2>3. byExp' \in [ExpId -> Seq(VariantId)]
        BY <1>1, <1>3, <1>6, <1>13, <1>14 DEF TypeOK
    <2>4. next \in CreateType \cup {None}
        BY <1>8 DEF next
    <2>5. creating' \in [Creator -> CreateType \cup {None}]
        BY <1>1, <1>6, <2>4 DEF TypeOK
    <2>6. TypeOK'
        BY <1>1, <1>2, <2>1, <2>2, <2>3, <2>5 DEF TypeOK
    <2>7. QED
        BY <1>1, <1>2, <2>6 DEF TypeInv
<1>16. UnknownIsUnused'
    <2>1. \A x \in ExpId : Updating(x)' = Updating(x)
        BY <1>2 DEF Updating
    <2>2. QED
        BY <1>1, <1>2, <1>11, <1>13, <2>1 DEF UnknownIsUnused
<1>17. Listed'
    <2>1. ASSUME NEW x \in ExpId, x # e
          PROVE  /\ (\A i \in Indices(byExp[x]) : IsVariantOf(byExp[x][i], x))'
                 /\ experiments'[x] # None => BeingCreated(x)' \/ byExp'[x] # <<>>
        BY <1>1, <1>2, <1>5, <1>11, <1>12, <1>13, <2>1 DEF Listed, IsVariantOf, Indices
    <2>2. (\A i \in Indices(byExp[e]) : IsVariantOf(byExp[e][i], e))'
        <3>1. IsVariantOf(v.id, e)'
            BY <1>5, <1>12 DEF IsVariantOf
        <3>2. SUFFICES ASSUME NEW i \in 1 .. Len(byExp'[e]) PROVE IsVariantOf(byExp[e][i], e)'
            BY DEF Indices
        <3>3. CASE i = Len(byExp[e]) + 1
            BY <1>14, <3>1, <3>3
        <3>4. CASE i # Len(byExp[e]) + 1
            <4>1. i \in 1 .. Len(byExp[e])
                BY <1>14, <3>4
            <4>2. IsVariantOf(byExp[e][i], e)
                BY <1>1, <4>1 DEF Listed, Indices
            <4>3. byExp'[e][i] = byExp[e][i]
                BY <1>14, <4>1
            <4>4. QED
                BY <1>5, <1>12, <4>2, <4>3 DEF IsVariantOf
        <3>5. QED
            BY <3>3, <3>4
    <2>3. QED
        BY <1>14, <2>1, <2>2 DEF Listed
<1>18. Pending'
    <2>1. ASSUME NEW d \in Creator \ {c}, creating[d] # None,
                 NEW i \in Indices(creating[d].todo)
          PROVE  variants'[creating[d].todo[i].id] = None
        <3>1. creating[d].todo[i].id # v.id /\ variants[creating[d].todo[i].id] = None
            BY <1>1, <1>10, <2>1 DEF Pending
        <3>2. QED
            BY <1>1, <1>6, <3>1 DEF TypeOK
    <2>2. ASSUME NEW i \in Indices(rest)
          PROVE  variants'[rest[i].id] = None
        BY <1>1, <1>6, <1>7 DEF TypeOK
    <2>3. rest = <<>> => creating'[c] = None
        BY <1>9 DEF next
    <2>4. rest # <<>> => creating'[c].exp = e /\ creating'[c].todo = rest
        BY <1>8, <1>9
    <2>5. \A d \in Creator \ {c} : creating'[d] = creating[d]
        BY <1>9
    <2>6. ASSUME NEW d \in Creator, creating'[d] # None
          PROVE  /\ \A i \in Indices(creating'[d].todo) :
                       /\ creating'[d].todo[i].exp = creating'[d].exp
                       /\ variants'[creating'[d].todo[i].id] = None
                       /\ \A k \in Indices(creating'[d].todo) :
                             creating'[d].todo[i].id = creating'[d].todo[k].id => i = k
                 /\ \A f \in Creator \ {d} : creating'[f] # None =>
                       /\ creating'[d].exp # creating'[f].exp
                       /\ \A i \in Indices(creating'[d].todo), k \in Indices(creating'[f].todo) :
                             creating'[d].todo[i].id # creating'[f].todo[k].id
        <3>1. CASE d = c
            BY <1>7, <1>10, <2>2, <2>3, <2>4, <2>5, <2>6, <3>1
        <3>2. CASE d # c
            BY <1>1, <1>10, <2>1, <2>3, <2>4, <2>5, <2>6, <3>2 DEF Pending
        <3>3. QED
            BY <3>1, <3>2
    <2>7. QED
        BY <2>6 DEF Pending, Indices
<1>19. ActiveIsComplete'
    BY <1>1, <1>2, <1>11 DEF ActiveIsComplete
<1>20. StatusInv'
    BY <1>1, <1>2, Frames
<1>21. RepositoryGrows
    <2>1. ASSUME NEW x \in ExpId, x # e
          PROVE  VariantsOf(x)' = VariantsOf(x)
        <3>1. \A i \in Indices(byExp[x]) : variants'[byExp[x][i]] = variants[byExp[x][i]]
            BY <1>1, <1>5, <1>12, <2>1 DEF Listed, IsVariantOf
        <3>2. byExp'[x] = byExp[x] /\ Indices(byExp[x])' = Indices(byExp[x])
            BY <1>13, <2>1 DEF Indices
        <3>3. QED
            BY <3>1, <3>2 DEF VariantsOf
    <2>2. QED
        BY <1>2, <1>5, <1>11, <1>12, <2>1 DEF RepositoryGrows
<1>22. ProbeInv' /\ AssignInv' /\ ServedInv'
    BY <1>1, <1>15, <1>21, GrowthKeeps DEF TypeInv
<1>23. QED
    BY <1>15, <1>16, <1>17, <1>18, <1>19, <1>20, <1>22 DEF ExperimentsInv


\* The fields of an update under way.
LEMMA UpdateFields ==
    ASSUME TypeOK, NEW u \in Updater, updating[u] # None
    PROVE  /\ updating[u] \in UpdateType
           /\ updating[u].exp \in ExpId /\ updating[u].to \in {"active", "stopped"}
           /\ updating[u].words \in SUBSET {"text", "length"}
<1>1. updating[u] \in UpdateType
    BY DEF TypeOK
<1>2. QED
    BY <1>1 DEF UpdateType

\* A start or stop request looks the experiment up.
LEMMA GetExperimentStep ==
    ASSUME ExperimentsInv, NEW u \in Updater, NEW e \in ExpId, NEW to \in {"active", "stopped"},
           GetExperiment(u, e, to), UNCHANGED viewing
    PROVE  ExperimentsInv'
<1> DEFINE new == [exp |-> e, to |-> to, words |-> {"text", "length"}]
<1>1. /\ TypeInv /\ TypeOK /\ UnknownIsUnused /\ Listed /\ Pending /\ ActiveIsComplete
      /\ StatusInv /\ ProbeInv /\ AssignInv /\ ServedInv
    BY DEF ExperimentsInv, TypeInv
<1>2. /\ updating[u] = None /\ experiments[e] # None
      /\ updating' = [updating EXCEPT ![u] = new]
      /\ wanted' = [wanted EXCEPT ![e] = IF Updating(e) = {} THEN {to} ELSE wanted[e] \cup {to}]
      /\ UNCHANGED <<experiments, variants, byExp, status, assignments, creating, probe, served,
                     early, viewing>>
    BY <1>1 DEF GetExperiment, Published, repoVars, TypeOK
<1>3. /\ new \in UpdateType /\ new # None /\ new.exp = e /\ new.to = to
      /\ new.words = {"text", "length"}
    BY NoneAssumption DEF UpdateType
<1> HIDE DEF new
<1>4. \A w \in Updater : updating'[w] = IF w = u THEN new ELSE updating[w]
    BY <1>1, <1>2 DEF TypeOK
<1>5. /\ Updating(e)' = Updating(e) \cup {u}
      /\ u \notin Updating(e)
      /\ \A x \in ExpId : x # e => Updating(x)' = Updating(x)
      /\ \A x \in ExpId : u \notin Updating(x)
    BY <1>2, <1>3, <1>4 DEF Updating
<1>6. TypeInv'
    <2>1. updating' \in [Updater -> UpdateType \cup {None}]
        BY <1>1, <1>2, <1>3 DEF TypeOK
    <2>2. wanted' \in [ExpId -> SUBSET {"active", "stopped"}]
        <3>1. wanted[e] \in SUBSET {"active", "stopped"}
            BY <1>1 DEF TypeOK
        <3>2. QED
            BY <1>1, <1>2, <3>1 DEF TypeOK
    <2>3. TypeOK'
        BY <1>1, <1>2, <2>1, <2>2 DEF TypeOK
    <2>4. QED
        BY <1>1, <1>2, <2>3 DEF TypeInv
<1>7. UnknownIsUnused'
    <2>1. \A x \in ExpId : BeingCreated(x)' <=> BeingCreated(x)
        BY <1>2 DEF BeingCreated
    <2>2. QED
        BY <1>1, <1>2, <1>5, <2>1 DEF UnknownIsUnused
<1>8. StatusInv'
    <2>1. ASSUME NEW x \in ExpId, x # e
          PROVE  /\ \A w \in Updating(x)' : updating'[w].to \in wanted'[x]
                 /\ \A t \in wanted'[x] : wanted'[x] = {t} =>
                       \A word \in {"text", "length"} :
                           \/ status'[x][word] = t
                           \/ \E w \in Updating(x)' : word \in updating'[w].words
        <3>1. wanted'[x] = wanted[x] /\ Updating(x)' = Updating(x)
            BY <1>1, <1>2, <1>5, <2>1 DEF TypeOK
        <3>2. \A w \in Updating(x) : updating'[w] = updating[w]
            BY <1>4, <1>5 DEF Updating
        <3>3. QED
            BY <1>1, <1>2, <3>1, <3>2 DEF StatusInv
    <2>2. wanted'[e] = IF Updating(e) = {} THEN {to} ELSE wanted[e] \cup {to}
        BY <1>1, <1>2 DEF TypeOK
    <2>3. \A w \in Updating(e)' : updating'[w].to \in wanted'[e]
        BY <1>1, <1>3, <1>4, <1>5, <2>2 DEF StatusInv, Updating
    <2>4. u \in Updater /\ u \in Updating(e)' /\ updating'[u].words = {"text", "length"}
        BY <1>3, <1>4, <1>5
    <2>5. QED
        BY <2>1, <2>3, <2>4 DEF StatusInv
<1>9. QED
    BY <1>1, <1>2, <1>6, <1>7, <1>8, Frames DEF ExperimentsInv

\* A word of the status is written: the experiment becomes active in this step
\* only if both words are, and is then in early if it is still being created.
LEMMA WriteStatusStep ==
    ASSUME ExperimentsInv, NEW u \in Updater, NEW word \in {"text", "length"},
           WriteStatus(u, word), UNCHANGED viewing
    PROVE  ExperimentsInv'
<1>1. /\ TypeInv /\ TypeOK /\ UnknownIsUnused /\ Listed /\ Pending /\ ActiveIsComplete
      /\ StatusInv /\ ProbeInv /\ AssignInv /\ ServedInv
    BY DEF ExperimentsInv, TypeInv
<1>2. updating[u] # None /\ word \in updating[u].words
    BY DEF WriteStatus
<1>3. PICK e \in ExpId, to \in {"active", "stopped"} :
          updating[u].exp = e /\ updating[u].to = to
    BY <1>1, <1>2, UpdateFields
<1>4. /\ status' = [status EXCEPT ![e] = [status[e] EXCEPT ![word] = to]]
      /\ early' = IF IsActive(status'[e]) /\ BeingCreated(e) THEN early \cup {e} ELSE early
      /\ updating' = [updating EXCEPT ![u] = [updating[u] EXCEPT !.words = updating[u].words \ {word}]]
      /\ UNCHANGED <<experiments, variants, byExp, assignments, creating, probe, served, wanted,
                     viewing>>
    BY <1>1, <1>3 DEF WriteStatus, repoVars, TypeOK
<1> DEFINE left == [updating[u] EXCEPT !.words = updating[u].words \ {word}]
<1>5. /\ left \in UpdateType /\ left # None /\ left.exp = e /\ left.to = to
      /\ left.words = updating[u].words \ {word}
    <2>1. updating[u] \in UpdateType /\ updating[u].words \in SUBSET {"text", "length"}
        BY <1>1, <1>2, UpdateFields
    <2>2. left \in UpdateType /\ left.words = updating[u].words \ {word}
          /\ left.exp = updating[u].exp /\ left.to = updating[u].to
        BY <2>1 DEF UpdateType
    <2>3. QED
        BY <1>3, <2>2, NoneAssumption
<1>6. \A w \in Updater : updating'[w] = IF w = u THEN left ELSE updating[w]
    BY <1>1, <1>4 DEF TypeOK
<1> HIDE DEF left
<1>7. \A x \in ExpId : Updating(x)' = Updating(x)
    BY <1>2, <1>3, <1>5, <1>6 DEF Updating
<1>8. /\ status'[e] \in StatusType /\ status'[e][word] = to
      /\ \A w \in {"text", "length"} : w # word => status'[e][w] = status[e][w]
      /\ \A x \in ExpId : x # e => status'[x] = status[x]
    <2>1. status[e] \in StatusType
        BY <1>1 DEF TypeOK
    <2>2. status'[e] = [status[e] EXCEPT ![word] = to]
        BY <1>1, <1>4 DEF TypeOK
    <2>3. status'[e] \in StatusType
        BY <2>1, <2>2 DEF StatusType
    <2>4. status'[e][word] = to /\ \A w \in {"text", "length"} : w # word => status'[e][w] = status[e][w]
        BY <2>1, <2>2 DEF StatusType
    <2>5. QED
        BY <1>1, <1>4, <2>3, <2>4 DEF TypeOK
<1>9. \A x \in ExpId : BeingCreated(x)' <=> BeingCreated(x)
    BY <1>4 DEF BeingCreated
<1>10. TypeInv'
    <2>1. updating' \in [Updater -> UpdateType \cup {None}]
        BY <1>1, <1>4, <1>5 DEF TypeOK, left
    <2>2. status' \in [ExpId -> StatusType]
        BY <1>1, <1>4, <1>8 DEF TypeOK
    <2>3. early' \subseteq ExpId
        BY <1>1, <1>4 DEF TypeOK
    <2>4. TypeOK'
        BY <1>1, <1>4, <2>1, <2>2, <2>3 DEF TypeOK
    <2>5. QED
        BY <1>1, <1>4, <2>4 DEF TypeInv
<1>11. UnknownIsUnused'
    BY <1>1, <1>4, <1>7, <1>9 DEF UnknownIsUnused
<1>12. ActiveIsComplete'
    BY <1>1, <1>4, <1>8, <1>9 DEF ActiveIsComplete
<1>13. StatusInv'
    <2>1. \A x \in ExpId : \A w \in Updating(x) :
              /\ updating'[w].to = updating[w].to
              /\ updating[w].words \ {word} \subseteq updating'[w].words
              /\ x # e => updating'[w].words = updating[w].words
        BY <1>3, <1>5, <1>6 DEF Updating
    <2>2. u \in Updating(e)
        BY <1>2, <1>3 DEF Updating
    <2>3. to \in wanted[e]
        BY <1>1, <1>3, <2>2 DEF StatusInv
    <2>4. ASSUME NEW x \in ExpId, NEW t \in wanted[x], wanted[x] = {t}, NEW w \in {"text", "length"}
          PROVE  status'[x][w] = t \/ \E y \in Updating(x) : w \in updating'[y].words
        <3>1. status[x][w] = t \/ \E y \in Updating(x) : w \in updating[y].words
            BY <1>1, <2>4 DEF StatusInv
        <3>2. CASE x # e
            BY <1>8, <2>1, <3>1, <3>2
        <3>3. CASE x = e /\ w = word
            BY <1>8, <2>3, <2>4, <3>3
        <3>4. CASE x = e /\ w # word
            BY <1>8, <2>1, <3>1, <3>4
        <3>5. QED
            BY <3>2, <3>3, <3>4
    <2>5. QED
        BY <1>1, <1>4, <1>7, <2>1, <2>4 DEF StatusInv
<1>14. RepositoryGrows
    <2>1. \A x \in ExpId : VariantsOf(x)' = VariantsOf(x)
        BY <1>4 DEF VariantsOf
    <2>2. QED
        BY <1>4, <1>9, <2>1 DEF RepositoryGrows
<1>15. ProbeInv' /\ AssignInv' /\ ServedInv'
    BY <1>1, <1>10, <1>14, GrowthKeeps DEF TypeInv
<1>16. QED
    BY <1>1, <1>4, <1>10, <1>11, <1>12, <1>13, <1>15, Frames DEF ExperimentsInv

\* A start or stop request ends when both words are written.
LEMMA UpdateExperimentStep ==
    ASSUME ExperimentsInv, NEW u \in Updater, UpdateExperiment(u), UNCHANGED viewing
    PROVE  ExperimentsInv'
<1>1. /\ TypeInv /\ TypeOK /\ UnknownIsUnused /\ Listed /\ Pending /\ ActiveIsComplete
      /\ StatusInv /\ ProbeInv /\ AssignInv /\ ServedInv
    BY DEF ExperimentsInv, TypeInv
<1>2. /\ updating[u] # None /\ updating[u].words = {}
      /\ updating' = [updating EXCEPT ![u] = None]
      /\ UNCHANGED <<experiments, variants, byExp, status, assignments, creating, probe, served,
                     early, wanted, viewing>>
    BY DEF UpdateExperiment, repoVars, history, statusHistory
<1>3. \A w \in Updater : updating'[w] = IF w = u THEN None ELSE updating[w]
    BY <1>1, <1>2 DEF TypeOK
<1>4. \A x \in ExpId : Updating(x)' = Updating(x) \ {u}
    BY <1>3 DEF Updating
<1>5. TypeInv'
    <2>1. updating' \in [Updater -> UpdateType \cup {None}]
        BY <1>1, <1>2 DEF TypeOK
    <2>2. TypeOK'
        BY <1>1, <1>2, <2>1 DEF TypeOK
    <2>3. QED
        BY <1>1, <1>2, <2>2 DEF TypeInv
<1>6. UnknownIsUnused'
    <2>1. \A x \in ExpId : BeingCreated(x)' <=> BeingCreated(x)
        BY <1>2 DEF BeingCreated
    <2>2. QED
        BY <1>1, <1>2, <1>4, <2>1 DEF UnknownIsUnused
<1>7. StatusInv'
    <2>1. \A x \in ExpId : \A w \in Updating(x) : w # u => updating'[w] = updating[w]
        BY <1>3 DEF Updating
    <2>2. QED
        BY <1>1, <1>2, <1>4, <2>1 DEF StatusInv
<1>8. QED
    BY <1>1, <1>2, <1>5, <1>6, <1>7, Frames DEF ExperimentsInv


\* A probe that goes on: the other probes, the log and the answers stay.
LEMMA ProbeGoesOn ==
    ASSUME ExperimentsInv, NEW p \in Probe, NEW r \in ProbeType,
           probe' = [probe EXCEPT ![p] = r], ProbeOK(p)',
           UNCHANGED <<repoVars, status, assignments, creating, updating, history, viewing>>
    PROVE  ExperimentsInv'
<1>1. /\ TypeInv /\ TypeOK /\ UnknownIsUnused /\ Listed /\ Pending /\ ActiveIsComplete
      /\ StatusInv /\ ProbeInv /\ AssignInv /\ ServedInv
    BY DEF ExperimentsInv, TypeInv
<1>2. UNCHANGED <<experiments, variants, byExp, status, assignments, creating, updating, served,
                  early, wanted, viewing>>
    BY DEF repoVars, history, statusHistory
<1>3. TypeInv'
    <2>1. probe' \in [Probe -> ProbeType \cup {None}]
        BY <1>1 DEF TypeOK
    <2>2. TypeOK'
        BY <1>1, <1>2, <2>1 DEF TypeOK
    <2>3. QED
        BY <1>1, <1>2, <2>2 DEF TypeInv
<1>4. ProbeInv'
    <2>1. SUFFICES ASSUME NEW q \in Probe, q # p, probe'[q] # None PROVE ProbeOK(q)'
        BY DEF ProbeInv
    <2>2. probe'[q] = probe[q] /\ ProbeOK(q)
        BY <1>1, <2>1 DEF TypeOK, ProbeInv
    <2>3. /\ \A x : VariantsOf(x)' = VariantsOf(x) /\ (BeingCreated(x)' <=> BeingCreated(x))
          /\ \A src, x : Matching(src, x)' = Matching(src, x)
        BY <1>2 DEF BeingCreated, VariantsOf, Matching, Indices
    <2>4. QED
        BY <1>2, <2>2, <2>3 DEF ProbeOK
<1>5. QED
    BY <1>1, <1>2, <1>3, <1>4, Frames DEF ExperimentsInv

\* A probe that ends: the log may have grown, and the answer is as it must be if
\* it is recorded.
LEMMA ProbeEnds ==
    ASSUME ExperimentsInv, NEW p \in Probe, NEW r \in ProbeType, probe[p] = r,
           NEW v \in VariantId \cup {None}, Finish(p, v),
           UNCHANGED <<repoVars, status, creating, updating, statusHistory, viewing>>,
           assignments' \in Seq(AssignmentType), Len(assignments) <= Len(assignments'),
           \A i \in 1 .. Len(assignments) : assignments'[i] = assignments[i],
           AssignInv',
           r.exp \notin early =>
               ServedOK([src |-> r.src, dst |-> r.dst, exp |-> r.exp, variant |-> v])'
    PROVE  ExperimentsInv'
<1> DEFINE a == [src |-> r.src, dst |-> r.dst, exp |-> r.exp, variant |-> v]
<1>1. /\ TypeInv /\ TypeOK /\ UnknownIsUnused /\ Listed /\ Pending /\ ActiveIsComplete
      /\ StatusInv /\ ProbeInv /\ AssignInv /\ ServedInv
    BY DEF ExperimentsInv, TypeInv
<1>2. /\ UNCHANGED <<experiments, variants, byExp, status, creating, updating, early, wanted,
                     viewing>>
      /\ probe' = [probe EXCEPT ![p] = None]
      /\ served' = IF r.exp \in early THEN served ELSE served \cup {a}
    BY DEF repoVars, statusHistory, Finish
<1>3. a \in ServedType
    BY ProbeFields DEF ServedType
<1> HIDE DEF a
<1>4. TypeInv'
    <2>1. probe' \in [Probe -> ProbeType \cup {None}]
        BY <1>1, <1>2 DEF TypeOK
    <2>2. served' \subseteq ServedType
        BY <1>1, <1>2, <1>3 DEF TypeOK
    <2>3. TypeOK'
        BY <1>1, <1>2, <2>1, <2>2 DEF TypeOK
    <2>4. QED
        BY <1>1, <1>2, <2>3 DEF TypeInv
<1>5. Len(assignments) \in Nat /\ Len(assignments') \in Nat
    BY <1>1 DEF TypeOK
<1>6. \A src, x : \A i \in Matching(src, x) :
          i \in Matching(src, x)' /\ assignments'[i] = assignments[i]
    BY <1>5 DEF Matching
<1>7. ProbeInv'
    <2>1. SUFFICES ASSUME NEW q \in Probe, probe'[q] # None PROVE ProbeOK(q)'
        BY DEF ProbeInv
    <2>2. probe'[q] = probe[q] /\ ProbeOK(q)
        BY <1>1, <1>2, <2>1 DEF TypeOK, ProbeInv
    <2>3. \A x : VariantsOf(x)' = VariantsOf(x) /\ (BeingCreated(x)' <=> BeingCreated(x))
        BY <1>2 DEF BeingCreated, VariantsOf, Indices
    <2>4. QED
        BY <1>2, <1>6, <2>2, <2>3 DEF ProbeOK
<1>8. ServedInv'
    <2>1. ASSUME NEW b \in served PROVE ServedOK(b)'
        <3>1. ServedOK(b)
            BY <1>1 DEF ServedInv
        <3>2. QED
            BY <1>2, <1>6, <3>1 DEF ServedOK, BeingCreated, VariantsOf, IsVariantOf, Indices
    <2>2. r.exp \notin early => ServedOK(a)'
        BY DEF a
    <2>3. QED
        BY <1>2, <2>1, <2>2 DEF ServedInv
<1>9. QED
    BY <1>1, <1>2, <1>4, <1>7, <1>8, Frames DEF ExperimentsInv

\* The same when the log stays as it is.
LEMMA ProbeEndsWithoutLog ==
    ASSUME ExperimentsInv, NEW p \in Probe, NEW r \in ProbeType, probe[p] = r,
           NEW v \in VariantId \cup {None}, Finish(p, v),
           UNCHANGED <<repoVars, status, assignments, creating, updating, statusHistory, viewing>>,
           r.exp \notin early =>
               ServedOK([src |-> r.src, dst |-> r.dst, exp |-> r.exp, variant |-> v])
    PROVE  ExperimentsInv'
<1> DEFINE a == [src |-> r.src, dst |-> r.dst, exp |-> r.exp, variant |-> v]
<1>1. UNCHANGED <<experiments, variants, byExp, assignments, creating, early>>
    BY DEF repoVars, statusHistory
<1>2. AssignInv'
    BY <1>1, Frames DEF ExperimentsInv
<1>3. assignments' \in Seq(AssignmentType) /\ Len(assignments) <= Len(assignments')
      /\ \A i \in 1 .. Len(assignments) : assignments'[i] = assignments[i]
    BY <1>1 DEF ExperimentsInv, TypeInv, TypeOK
<1> HIDE DEF a
<1>4. r.exp \notin early => ServedOK(a)'
    <2>1. ServedOK(a) => ServedOK(a)'
        BY <1>1 DEF ServedOK, BeingCreated, VariantsOf, IsVariantOf, Indices, Matching
    <2>2. QED
        BY <2>1 DEF a
<1>5. UNCHANGED <<repoVars, status, creating, updating, statusHistory, viewing>>
    OBVIOUS
<1>6. QED
    BY <1>2, <1>3, <1>4, <1>5, ProbeEnds DEF a


\* A probe finds an active experiment: one that is not in early is complete.
LEMMA FindActiveExperimentStep ==
    ASSUME ExperimentsInv, NEW p \in Probe, NEW packet \in Packet,
           FindActiveExperiment(p, packet[1], packet[2]), UNCHANGED viewing
    PROVE  ExperimentsInv'
<1>1. PICK e \in ActiveExperiments :
          probe' = [probe EXCEPT ![p] = [at |-> "list", src |-> packet[1], dst |-> packet[2],
                                         exp |-> e, list |-> <<>>, variant |-> None]]
    BY DEF FindActiveExperiment
<1>2. PICK r \in ProbeType :
          /\ r.at = "list" /\ r.exp = e
          /\ probe' = [probe EXCEPT ![p] = r]
    <2>1. packet[1] \in Source /\ packet[2] \in Dest
        BY ConstantsAssumption
    <2>2. e \in ExpId
        BY DEF ActiveExperiments
    <2>3. [at |-> "list", src |-> packet[1], dst |-> packet[2], exp |-> e, list |-> <<>>,
           variant |-> None] \in ProbeType
        BY <2>1, <2>2 DEF ProbeType
    <2>4. QED
        BY <1>1, <2>3
<1>3. UNCHANGED <<repoVars, status, assignments, creating, updating, history>>
    BY DEF FindActiveExperiment
<1>4. ProbeOK(p)'
    <2>1. probe'[p] = r
        BY <1>2 DEF ExperimentsInv, TypeInv, TypeOK
    <2>2. e \in ExpId /\ experiments[e] # None /\ (e \in early \/ ~BeingCreated(e))
        BY DEF ActiveExperiments, ExperimentsInv, ActiveIsComplete
    <2>3. experiments' = experiments /\ early' = early /\ creating' = creating
        BY <1>3 DEF repoVars, history, statusHistory
    <2>4. QED
        BY <1>2, <2>1, <2>2, <2>3 DEF ProbeOK, BeingCreated
<1>5. QED
    BY <1>2, <1>3, <1>4, ProbeGoesOn

\* What is known of a probe in flight.
LEMMA InFlight ==
    ASSUME ExperimentsInv, NEW p \in Probe, probe[p] # None
    PROVE  /\ TypeOK /\ Listed /\ AssignInv /\ ProbeOK(p)
           /\ probe[p] \in ProbeType /\ probe[p].exp \in ExpId
           /\ experiments[probe[p].exp] \in {"source", "destination"}
<1>1. TypeOK /\ Listed /\ AssignInv /\ ProbeOK(p)
    BY DEF ExperimentsInv, TypeInv, ProbeInv
<1>2. probe[p] \in ProbeType
    BY <1>1 DEF TypeOK
<1>3. probe[p].exp \in ExpId
    BY <1>2, ProbeFields
<1>4. QED
    BY <1>1, <1>2, <1>3 DEF ProbeOK, TypeOK

\* The answer in destination mode.
LEMMA ListVariantsByDestinationStep ==
    ASSUME ExperimentsInv, NEW p \in Probe, ListVariantsByDestination(p), UNCHANGED viewing
    PROVE  ExperimentsInv'
<1>1. /\ probe[p] # None /\ experiments[probe[p].exp] = "destination"
      /\ Finish(p, AssignVariantByDestination(probe[p].dst, VariantsOf(probe[p].exp)))
      /\ UNCHANGED <<repoVars, status, assignments, creating, updating, statusHistory>>
    BY DEF ListVariantsByDestination
<1>2. /\ TypeOK /\ Listed /\ ProbeOK(p) /\ probe[p] \in ProbeType /\ probe[p].exp \in ExpId
    BY <1>1, InFlight
<1>3. PICK r \in ProbeType : probe[p] = r
    BY <1>2
<1>4. PICK v \in VariantId \cup {None} :
          v = AssignVariantByDestination(r.dst, VariantsOf(r.exp))
    <2>1. /\ VariantsOf(r.exp) \in Seq(VariantType)
          /\ \A i \in Indices(VariantsOf(r.exp)) : VariantsOf(r.exp)[i].id \in VariantId
        <3>1. VariantsOf(r.exp) \in Seq(VariantType)
            BY <1>2, <1>3, VariantsOfType
        <3>2. \A i \in Indices(VariantsOf(r.exp)) : VariantsOf(r.exp)[i] \in VariantType
            BY <3>1 DEF Indices
        <3>3. QED
            BY <3>1, <3>2, VariantFields
    <2>2. QED
        BY <2>1, ByDestinationPicks
<1>5. r.exp \notin early =>
          ServedOK([src |-> r.src, dst |-> r.dst, exp |-> r.exp, variant |-> v])
    BY <1>1, <1>2, <1>3, <1>4 DEF ServedOK, ProbeOK
<1>6. QED
    BY <1>1, <1>3, <1>4, <1>5, ProbeEndsWithoutLog

\* In source mode the probe keeps the variants it listed.
LEMMA ListVariantsStep ==
    ASSUME ExperimentsInv, NEW p \in Probe, ListVariants(p), UNCHANGED viewing
    PROVE  ExperimentsInv'
<1>1. /\ probe[p] # None /\ experiments[probe[p].exp] # "destination"
      /\ UNCHANGED <<repoVars, status, assignments, creating, updating, history>>
    BY DEF ListVariants
<1>2. /\ TypeOK /\ Listed /\ ProbeOK(p) /\ probe[p] \in ProbeType /\ probe[p].exp \in ExpId
      /\ experiments[probe[p].exp] = "source"
    BY <1>1, InFlight
<1>3. PICK e \in ExpId : probe[p].exp = e
    BY <1>2
<1>4. /\ VariantsOf(e) \in Seq(VariantType)
      /\ \A i \in Indices(VariantsOf(e)) :
            VariantsOf(e)[i].exp = e /\ variants[VariantsOf(e)[i].id] = VariantsOf(e)[i]
    BY <1>2, VariantsOfType
<1>5. PICK r \in ProbeType :
          /\ r.at = "find" /\ r.exp = e /\ r.list = VariantsOf(e)
          /\ probe' = [probe EXCEPT ![p] = r]
    <2> DEFINE r == [probe[p] EXCEPT !.at = "find", !.list = VariantsOf(e)]
    <2>1. r \in ProbeType /\ r.at = "find" /\ r.exp = e /\ r.list = VariantsOf(e)
        BY <1>2, <1>3, <1>4 DEF ProbeType
    <2>2. probe' = [probe EXCEPT ![p] = r]
        BY <1>2, <1>3 DEF ListVariants, TypeOK
    <2>3. QED
        BY <2>1, <2>2
<1>6. ProbeOK(p)'
    <2>1. probe'[p] = r
        BY <1>2, <1>5 DEF TypeOK
    <2>2. experiments' = experiments /\ early' = early /\ creating' = creating
          /\ variants' = variants /\ VariantsOf(e)' = VariantsOf(e)
        BY <1>1 DEF repoVars, history, statusHistory, VariantsOf
    <2>3. QED
        BY <1>2, <1>3, <1>4, <1>5, <2>1, <2>2 DEF ProbeOK, BeingCreated
<1>7. QED
    BY <1>1, <1>5, <1>6, ProbeGoesOn

\* A known source: the probe follows the log.
LEMMA FindAssignmentStep ==
    ASSUME ExperimentsInv, NEW p \in Probe, FindAssignment(p), UNCHANGED viewing
    PROVE  ExperimentsInv'
<1>1. /\ probe[p] # None /\ probe[p].at = "find"
      /\ Matching(probe[p].src, probe[p].exp) # {}
      /\ UNCHANGED <<repoVars, status, assignments, creating, updating, history>>
    BY DEF FindAssignment
<1>2. TypeOK /\ ProbeOK(p) /\ probe[p] \in ProbeType
    BY <1>1, InFlight
<1>3. PICK i \in Matching(probe[p].src, probe[p].exp) :
          FindBySourceAndExperiment(probe[p].src, probe[p].exp) = assignments[i]
    <2>1. assignments \in Seq(AssignmentType)
        BY <1>2 DEF TypeOK
    <2>2. QED
        BY <1>1, <2>1, FindMatches
<1>4. i \in 1 .. Len(assignments) /\ assignments[i].variant \in VariantId
    BY <1>2, <1>3, AssignmentFields DEF Matching
<1>5. PICK r \in ProbeType :
          /\ r.at = "get" /\ r.exp = probe[p].exp /\ r.src = probe[p].src
          /\ r.list = probe[p].list /\ r.variant = assignments[i].variant
          /\ probe' = [probe EXCEPT ![p] = r]
    <2> DEFINE r == [probe[p] EXCEPT !.at = "get", !.variant = assignments[i].variant]
    <2>1. r \in ProbeType /\ r.at = "get" /\ r.exp = probe[p].exp /\ r.src = probe[p].src
          /\ r.list = probe[p].list /\ r.variant = assignments[i].variant
        BY <1>2, <1>4 DEF ProbeType
    <2>2. probe' = [probe EXCEPT ![p] = r]
        BY <1>2, <1>3 DEF FindAssignment, TypeOK
    <2>3. QED
        BY <2>1, <2>2
<1>6. ProbeOK(p)'
    <2>1. probe'[p] = r
        BY <1>2, <1>5 DEF TypeOK
    <2>2. /\ experiments' = experiments /\ early' = early /\ creating' = creating
          /\ variants' = variants /\ assignments' = assignments
          /\ \A x : VariantsOf(x)' = VariantsOf(x) /\ (BeingCreated(x)' <=> BeingCreated(x))
          /\ \A src, x : Matching(src, x)' = Matching(src, x)
        BY <1>1 DEF repoVars, history, statusHistory, VariantsOf, BeingCreated, Matching
    <2>3. QED
        BY <1>1, <1>2, <1>3, <1>5, <2>1, <2>2 DEF ProbeOK
<1>7. QED
    BY <1>1, <1>5, <1>6, ProbeGoesOn

\* The variant the log names exists, and it is the one that the hash gives.
LEMMA GetVariantStep ==
    ASSUME ExperimentsInv, NEW p \in Probe, GetVariant(p), UNCHANGED viewing
    PROVE  ExperimentsInv'
<1>1. /\ probe[p] # None /\ probe[p].at = "get"
      /\ Finish(p, IF variants[probe[p].variant] = None THEN None ELSE probe[p].variant)
      /\ UNCHANGED <<repoVars, status, assignments, creating, updating, statusHistory>>
    BY DEF GetVariant
<1>2. TypeOK /\ AssignInv /\ ProbeOK(p) /\ probe[p] \in ProbeType
    BY <1>1, InFlight
<1>3. PICK r \in ProbeType : probe[p] = r
    BY <1>2
<1>4. PICK i \in Matching(r.src, r.exp) : assignments[i].variant = r.variant
    BY <1>1, <1>2, <1>3 DEF ProbeOK
<1>5. /\ i \in 1 .. Len(assignments) /\ assignments[i].src = r.src /\ assignments[i].exp = r.exp
    BY <1>4 DEF Matching
<1>6. AssignmentOK(assignments[i])
    BY <1>2, <1>5 DEF AssignInv
<1>7. /\ experiments[r.exp] = "source" /\ IsVariantOf(r.variant, r.exp)
      /\ \/ r.exp \in early
         \/ /\ ~BeingCreated(r.exp)
            /\ r.variant = AssignVariant(r.exp, r.src, VariantsOf(r.exp))
    BY <1>4, <1>5, <1>6 DEF AssignmentOK
<1>8. r.variant \in VariantId /\ Finish(p, r.variant)
    BY <1>1, <1>3, <1>7 DEF IsVariantOf
<1>9. r.exp \notin early =>
          ServedOK([src |-> r.src, dst |-> r.dst, exp |-> r.exp, variant |-> r.variant])
    BY <1>4, <1>7, NoneAssumption DEF ServedOK
<1>10. QED
    BY <1>1, <1>3, <1>8, <1>9, ProbeEndsWithoutLog

\* First contact: the hash picks one of the variants that were listed.
LEMMA PickVariantStep ==
    ASSUME ExperimentsInv, NEW p \in Probe, PickVariant(p), UNCHANGED viewing
    PROVE  ExperimentsInv'
<1> DEFINE w == AssignVariant(probe[p].exp, probe[p].src, probe[p].list)
<1>1. /\ probe[p] # None /\ probe[p].at = "find" /\ probe[p].list # <<>>
      /\ UNCHANGED <<repoVars, status, assignments, creating, updating, history>>
    BY DEF PickVariant
<1>2. TypeOK /\ ProbeOK(p) /\ probe[p] \in ProbeType
    BY <1>1, InFlight
<1>3. w \in VariantId
    <2>1. /\ probe[p].list \in Seq(VariantType)
          /\ \A i \in Indices(probe[p].list) : probe[p].list[i] \in VariantType
        BY <1>2, ProbeFields
    <2>2. PICK i \in Indices(probe[p].list) : w = probe[p].list[i].id
        BY <1>1, <2>1, AssignVariantPicks
    <2>3. QED
        BY <2>1, <2>2, VariantFields
<1>4. probe' = [probe EXCEPT ![p] = [probe[p] EXCEPT !.at = "save", !.variant = w]]
    BY <1>2 DEF PickVariant, TypeOK
<1> HIDE DEF w
<1>5. PICK r \in ProbeType :
          /\ r.at = "save" /\ r.exp = probe[p].exp /\ r.src = probe[p].src
          /\ r.list = probe[p].list /\ r.variant = w
          /\ probe' = [probe EXCEPT ![p] = r]
    <2> DEFINE r == [probe[p] EXCEPT !.at = "save", !.variant = w]
    <2>1. r \in ProbeType /\ r.at = "save" /\ r.exp = probe[p].exp /\ r.src = probe[p].src
          /\ r.list = probe[p].list /\ r.variant = w
        BY <1>2, <1>3 DEF ProbeType
    <2>2. QED
        BY <1>4, <2>1
<1>6. ProbeOK(p)'
    <2>1. probe'[p] = r
        BY <1>2, <1>5 DEF TypeOK
    <2>2. experiments' = experiments /\ early' = early /\ creating' = creating
          /\ variants' = variants
          /\ \A x : VariantsOf(x)' = VariantsOf(x) /\ (BeingCreated(x)' <=> BeingCreated(x))
        BY <1>1 DEF repoVars, history, statusHistory, VariantsOf, BeingCreated
    <2>3. r.variant = AssignVariant(r.exp, r.src, r.list)
        BY <1>5 DEF w
    <2>4. QED
        BY <1>1, <1>2, <1>5, <2>1, <2>2, <2>3 DEF ProbeOK
<1>7. QED
    BY <1>1, <1>5, <1>6, ProbeGoesOn

\* No variants: this happens only to a probe that found the experiment before
\* its creation had finished.
LEMMA NoVariantsStep ==
    ASSUME ExperimentsInv, NEW p \in Probe, NoVariants(p), UNCHANGED viewing
    PROVE  ExperimentsInv'
<1>1. /\ probe[p] # None /\ probe[p].at = "find" /\ probe[p].list = <<>> /\ Finish(p, None)
      /\ UNCHANGED <<repoVars, status, assignments, creating, updating, statusHistory>>
    BY DEF NoVariants
<1>2. /\ TypeOK /\ Listed /\ ProbeOK(p) /\ probe[p] \in ProbeType /\ probe[p].exp \in ExpId
    BY <1>1, InFlight
<1>3. PICK r \in ProbeType : probe[p] = r
    BY <1>2
<1>4. r.exp \in early
    <2>1. SUFFICES ASSUME r.exp \notin early PROVE FALSE
        OBVIOUS
    <2>2. VariantsOf(r.exp) = <<>> /\ byExp[r.exp] # <<>>
        BY <1>1, <1>2, <1>3, <2>1 DEF ProbeOK, Listed
    <2>3. Len(VariantsOf(r.exp)) = Len(byExp[r.exp])
        BY <1>2, <1>3, VariantsOfType
    <2>4. byExp[r.exp] \in Seq(VariantId)
        BY <1>2, <1>3 DEF TypeOK
    <2>5. QED
        BY <2>2, <2>3, <2>4
<1>5. QED
    BY <1>1, <1>3, <1>4, ProbeEndsWithoutLog

\* The assignment is in the log before its variant is given out.
LEMMA SaveAssignmentStep ==
    ASSUME ExperimentsInv, NEW p \in Probe, SaveAssignment(p), UNCHANGED viewing
    PROVE  ExperimentsInv'
<1>1. /\ probe[p] # None /\ probe[p].at = "save" /\ Finish(p, probe[p].variant)
      /\ UNCHANGED <<repoVars, status, creating, updating, statusHistory>>
    BY DEF SaveAssignment
<1>2. TypeOK /\ AssignInv /\ ProbeOK(p) /\ probe[p] \in ProbeType
    BY <1>1, InFlight
<1>3. PICK r \in ProbeType : probe[p] = r
    BY <1>2
<1>4. /\ r.list \in Seq(VariantType) /\ r.src \in Source /\ r.exp \in ExpId
      /\ r.list # <<>> /\ r.variant = AssignVariant(r.exp, r.src, r.list)
      /\ experiments[r.exp] = "source"
      /\ r.exp \in early \/ (~BeingCreated(r.exp) /\ r.list = VariantsOf(r.exp))
    BY <1>1, <1>2, <1>3, ProbeFields DEF ProbeOK
<1>5. r.variant \in VariantId /\ IsVariantOf(r.variant, r.exp)
    <2>1. PICK i \in Indices(r.list) : r.variant = r.list[i].id
        BY <1>4, AssignVariantPicks
    <2>2. /\ r.list[i] \in VariantType /\ r.list[i].exp = r.exp
          /\ variants[r.list[i].id] = r.list[i]
        BY <1>1, <1>2, <1>3, ProbeFields DEF ProbeOK
    <2>3. QED
        BY <2>1, <2>2, VariantFields DEF IsVariantOf
<1> DEFINE a == [src |-> r.src, exp |-> r.exp, variant |-> r.variant]
<1>6. /\ a \in AssignmentType /\ a.src = r.src /\ a.exp = r.exp /\ a.variant = r.variant
      /\ assignments' = Append(assignments, a)
    BY <1>3, <1>4, <1>5 DEF AssignmentType, SaveAssignment
<1> HIDE DEF a
<1>7. /\ assignments' \in Seq(AssignmentType) /\ Len(assignments) \in Nat
      /\ Len(assignments') = Len(assignments) + 1
      /\ \A i \in 1 .. Len(assignments) : assignments'[i] = assignments[i]
      /\ assignments'[Len(assignments) + 1] = a
    <2>1. assignments \in Seq(AssignmentType)
        BY <1>2 DEF TypeOK
    <2>2. QED
        BY <1>6, <2>1, AppendProperties
<1>8. /\ experiments' = experiments /\ early' = early /\ variants' = variants
      /\ \A x : VariantsOf(x)' = VariantsOf(x) /\ (BeingCreated(x)' <=> BeingCreated(x))
      /\ \A w, x : IsVariantOf(w, x)' <=> IsVariantOf(w, x)
    BY <1>1 DEF repoVars, statusHistory, VariantsOf, BeingCreated, IsVariantOf
<1>9. AssignInv'
    <2>1. SUFFICES ASSUME NEW i \in 1 .. Len(assignments') PROVE AssignmentOK(assignments[i])'
        BY DEF AssignInv
    <2>2. CASE i = Len(assignments) + 1
        BY <1>4, <1>5, <1>6, <1>7, <1>8, <2>2 DEF AssignmentOK
    <2>3. CASE i \in 1 .. Len(assignments)
        BY <1>2, <1>7, <1>8, <2>3 DEF AssignInv, AssignmentOK
    <2>4. QED
        BY <1>7, <2>2, <2>3
<1>10. r.exp \notin early =>
          ServedOK([src |-> r.src, dst |-> r.dst, exp |-> r.exp, variant |-> r.variant])'
    <2>1. Len(assignments) + 1 \in Matching(r.src, r.exp)'
        BY <1>6, <1>7 DEF Matching
    <2>2. QED
        BY <1>4, <1>5, <1>8, <2>1, NoneAssumption DEF ServedOK
<1>11. Finish(p, r.variant) /\ Len(assignments) <= Len(assignments')
    BY <1>1, <1>3, <1>7
<1>12. QED
    BY <1>1, <1>3, <1>5, <1>7, <1>9, <1>10, <1>11, ProbeEnds

\* A request for details changes nothing but what it has collected.
LEMMA ViewChanges ==
    ASSUME ExperimentsInv, NEW v \in Viewer, NEW r,
           viewing' = [viewing EXCEPT ![v] = r],
           r # None =>
               /\ r.at \in {"variants", "assignments", "answer"}
               /\ r.exp \in ExpId
               /\ r.list \subseteq VariantId
               /\ r = [at |-> r.at, exp |-> r.exp, before |-> r.before, list |-> r.list,
                       perVariant |-> r.perVariant],
           UNCHANGED <<repoVars, status, assignments, creating, updating, probe, history>>
    PROVE  ExperimentsInv'
<1>1. /\ TypeInv /\ TypeOK /\ UnknownIsUnused /\ Listed /\ Pending /\ ActiveIsComplete
      /\ StatusInv /\ ProbeInv /\ AssignInv /\ ServedInv
    BY DEF ExperimentsInv, TypeInv
<1>2. UNCHANGED <<experiments, variants, byExp, status, assignments, creating, updating, probe,
                  served, early, wanted>>
    BY DEF repoVars, history, statusHistory
<1>3. TypeInv'
    <2>1. /\ viewing' = [w \in Viewer |-> viewing'[w]]
          /\ \A w \in Viewer : viewing'[w] = IF w = v THEN r ELSE viewing[w]
        BY <1>1 DEF TypeInv
    <2>2. TypeOK'
        BY <1>1, <1>2, <2>1 DEF TypeOK
    <2>3. \A w \in Viewer : viewing'[w] # None =>
              viewing'[w] = [at |-> viewing'[w].at, exp |-> viewing'[w].exp,
                             before |-> viewing'[w].before, list |-> viewing'[w].list,
                             perVariant |-> viewing'[w].perVariant]
        BY <1>1, <2>1 DEF TypeInv
    <2>4. QED
        BY <2>1, <2>2, <2>3 DEF TypeInv
<1>4. QED
    BY <1>1, <1>2, <1>3, Frames DEF ExperimentsInv

\* Updates of the details collected so far.
LEMMA RecordUpdates ==
    ASSUME NEW r, r = [at |-> r.at, exp |-> r.exp, before |-> r.before, list |-> r.list,
                       perVariant |-> r.perVariant]
    PROVE  \A at, x :
              /\ [r EXCEPT !.at = at, !.list = x] =
                     [at |-> at, exp |-> r.exp, before |-> r.before, list |-> x,
                      perVariant |-> r.perVariant]
              /\ [r EXCEPT !.at = at, !.perVariant = x] =
                     [at |-> at, exp |-> r.exp, before |-> r.before, list |-> r.list,
                      perVariant |-> x]
<1> DEFINE R(at, exp, before, list, per) ==
               [at : {at}, exp : {exp}, before : {before}, list : {list}, perVariant : {per}]
<1>1. r \in R(r.at, r.exp, r.before, r.list, r.perVariant)
    OBVIOUS
<1>2. ASSUME NEW at, NEW x
      PROVE  /\ [r EXCEPT !.at = at, !.list = x]
                    \in R(at, r.exp, r.before, x, r.perVariant)
             /\ [r EXCEPT !.at = at, !.perVariant = x]
                    \in R(at, r.exp, r.before, r.list, x)
    BY <1>1
<1>3. \A at, exp, before, list, per : \A y \in R(at, exp, before, list, per) :
          y = [at |-> at, exp |-> exp, before |-> before, list |-> list, perVariant |-> per]
    OBVIOUS
<1> HIDE DEF R
<1>4. ASSUME NEW at, NEW x
      PROVE  [r EXCEPT !.at = at, !.list = x] =
                     [at |-> at, exp |-> r.exp, before |-> r.before, list |-> x,
                      perVariant |-> r.perVariant]
    <2>1. PICK y : y = [r EXCEPT !.at = at, !.list = x]
        OBVIOUS
    <2>2. y \in R(at, r.exp, r.before, x, r.perVariant)
        BY <1>2, <2>1, Zenon
    <2>3. QED
        BY <1>3, <2>1, <2>2, Zenon
<1>5. ASSUME NEW at, NEW x
      PROVE  [r EXCEPT !.at = at, !.perVariant = x] =
                     [at |-> at, exp |-> r.exp, before |-> r.before, list |-> r.list,
                      perVariant |-> x]
    <2>1. PICK y : y = [r EXCEPT !.at = at, !.perVariant = x]
        OBVIOUS
    <2>2. y \in R(at, r.exp, r.before, r.list, x)
        BY <1>2, <2>1, Zenon
    <2>3. QED
        BY <1>3, <2>1, <2>2, Zenon
<1>6. QED
    BY <1>4, <1>5

\* The four steps of GET /experiments/{id}.
LEMMA ViewStepInv ==
    ASSUME ExperimentsInv, NEW v \in Viewer, ViewStep(v),
           UNCHANGED <<repoVars, status, assignments, creating, updating, probe, history>>
    PROVE  ExperimentsInv'
<1>1. TypeInv /\ TypeOK
    BY DEF ExperimentsInv, TypeInv
<1>2. ASSUME NEW e \in ExpId, GetDetails(v, e) PROVE ExperimentsInv'
    <2> DEFINE r == [at |-> "variants", exp |-> e, before |-> Cardinality(ServedSources(e)),
                     list |-> {}, perVariant |-> <<>>]
    <2>1. /\ viewing' = [viewing EXCEPT ![v] = r]
          /\ r.at \in {"variants", "assignments", "answer"} /\ r.exp \in ExpId
          /\ r.list \subseteq VariantId
          /\ r = [at |-> r.at, exp |-> r.exp, before |-> r.before, list |-> r.list,
                  perVariant |-> r.perVariant]
        BY <1>2 DEF GetDetails
    <2> HIDE DEF r
    <2>2. QED
        BY <2>1, ViewChanges
<1>3. ASSUME viewing[v] # None
      PROVE  /\ viewing[v].at \in {"variants", "assignments", "answer"}
             /\ viewing[v].exp \in ExpId /\ viewing[v].list \subseteq VariantId
             /\ viewing[v] = [at |-> viewing[v].at, exp |-> viewing[v].exp,
                              before |-> viewing[v].before, list |-> viewing[v].list,
                              perVariant |-> viewing[v].perVariant]
    BY <1>1, <1>3 DEF TypeInv, TypeOK
<1>4. CASE GetVariants(v)
    <2>1. viewing[v] # None
        BY <1>4 DEF GetVariants, View
    <2>2. Range(byExp[viewing[v].exp]) \subseteq VariantId
        BY <1>1, <1>3, <2>1 DEF TypeOK, Range
    <2> DEFINE r == [at |-> "assignments", exp |-> viewing[v].exp,
                     before |-> viewing[v].before, list |-> Range(byExp[viewing[v].exp]),
                     perVariant |-> viewing[v].perVariant]
    <2>3. [viewing[v] EXCEPT !.at = "assignments", !.list = Range(byExp[viewing[v].exp])] = r
        BY <1>3, <2>1, RecordUpdates
    <2>4. viewing' = [viewing EXCEPT ![v] = r]
        BY <1>1, <1>4, <2>3 DEF GetVariants, TypeInv
    <2>5. /\ r.at \in {"variants", "assignments", "answer"} /\ r.exp \in ExpId
          /\ r.list \subseteq VariantId
          /\ r = [at |-> r.at, exp |-> r.exp, before |-> r.before, list |-> r.list,
                  perVariant |-> r.perVariant]
        BY <1>3, <2>1, <2>2
    <2> HIDE DEF r
    <2>6. QED
        BY <2>4, <2>5, ViewChanges
<1>5. CASE ListByExperiment(v)
    <2>1. viewing[v] # None
        BY <1>5 DEF ListByExperiment, View
    <2> DEFINE r == [at |-> "answer", exp |-> viewing[v].exp,
                     before |-> viewing[v].before, list |-> viewing[v].list,
                     perVariant |-> PerVariant(viewing[v].exp)]
    <2>2. [viewing[v] EXCEPT !.at = "answer", !.perVariant = PerVariant(viewing[v].exp)] = r
        BY <1>3, <2>1, RecordUpdates
    <2>3. viewing' = [viewing EXCEPT ![v] = r]
        BY <1>1, <1>5, <2>2 DEF ListByExperiment, TypeInv
    <2>4. /\ r.at \in {"variants", "assignments", "answer"} /\ r.exp \in ExpId
          /\ r.list \subseteq VariantId
          /\ r = [at |-> r.at, exp |-> r.exp, before |-> r.before, list |-> r.list,
                  perVariant |-> r.perVariant]
        BY <1>3, <2>1
    <2> HIDE DEF r
    <2>5. QED
        BY <2>3, <2>4, ViewChanges
<1>6. CASE WriteDetails(v)
    <2>1. viewing' = [viewing EXCEPT ![v] = None]
        BY <1>6 DEF WriteDetails
    <2>2. QED
        BY <2>1, ViewChanges
<1>7. QED
    BY <1>2, <1>4, <1>5, <1>6 DEF ViewStep

\* A step that changes nothing the invariant speaks of: a probe that finds no
\* active experiment, or stuttering.
LEMMA NothingChanges ==
    ASSUME ExperimentsInv,
           UNCHANGED <<repoVars, status, assignments, creating, updating, probe, viewing, history>>
    PROVE  ExperimentsInv'
<1>1. UNCHANGED <<experiments, variants, byExp, status, assignments, creating, updating, probe,
                  viewing, served, early, wanted>>
    BY DEF repoVars, history, statusHistory
<1>2. TypeInv'
    BY <1>1 DEF ExperimentsInv, TypeInv, TypeOK
<1>3. QED
    BY <1>1, <1>2, Frames DEF ExperimentsInv

\* Every step keeps the invariant.
LEMMA ExperimentsStep == ExperimentsInv /\ [Next]_vars => ExperimentsInv'
<1> SUFFICES ASSUME ExperimentsInv, [Next]_vars PROVE ExperimentsInv'
    OBVIOUS
<1>1. ASSUME NEW c \in Creator, CreateStep(c), UNCHANGED viewing PROVE ExperimentsInv'
    BY <1>1, CreateExperimentStep, SaveVariantStep DEF CreateStep
<1>2. ASSUME NEW u \in Updater, UpdateStep(u), UNCHANGED viewing PROVE ExperimentsInv'
    BY <1>2, GetExperimentStep, WriteStatusStep, UpdateExperimentStep DEF UpdateStep
<1>3. ASSUME NEW p \in Probe, ProbeStep(p), UNCHANGED viewing PROVE ExperimentsInv'
    <2>1. ASSUME NEW packet \in Packet, FindActiveExperiment(p, packet[1], packet[2])
          PROVE  ExperimentsInv'
        BY <1>3, <2>1, FindActiveExperimentStep, ConstantsAssumption
    <2>2. CASE NoActiveExperiment(p)
        BY <1>3, <2>2, NothingChanges DEF NoActiveExperiment
    <2>3. QED
        BY <1>3, <2>1, <2>2, ListVariantsByDestinationStep, ListVariantsStep, FindAssignmentStep,
            GetVariantStep, PickVariantStep, NoVariantsStep, SaveAssignmentStep DEF ProbeStep
<1>4. CASE UNCHANGED vars
    BY <1>4, NothingChanges DEF vars
<1>5. QED
    BY <1>1, <1>2, <1>3, <1>4, ViewStepInv DEF Next

-----------------------------------------------------------------------------
(* Theorems                                                                *)

\* The invariant holds of every reachable state.
LEMMA ExperimentsInvariance == Spec => []ExperimentsInv
<1>1. QED
    BY InitInv, ExperimentsStep, PTL DEF Spec

\* Every variable keeps its type, and a variant is stored under its own id.
THEOREM TypeCorrect == Spec => []TypeOK
<1>1. ExperimentsInv => TypeOK
    BY DEF ExperimentsInv, TypeInv
<1>2. QED
    BY <1>1, ExperimentsInvariance, PTL

\* Every entry of the assignment log names a saved variant of its experiment,
\* however creations, starts, stops and probes interleave.
THEOREM LogRefersToVariants == Spec => []AssignmentsRefer
<1>1. ExperimentsInv => AssignmentsRefer
    BY DEF ExperimentsInv, AssignInv, AssignmentOK, IsVariantOf, AssignmentsRefer
<1>2. QED
    BY <1>1, ExperimentsInvariance, PTL

\* A source keeps its variant, and the first entry of the log names it, although
\* first contacts may race: every entry, and every answer, is what the hash gives
\* on the same list of variants.
THEOREM SourcesStickToVariants == Spec => []StickyVariant
<1>1. ASSUME ExperimentsInv PROVE StickyVariant
    <2>1. TypeOK /\ AssignInv /\ ServedInv
        BY <1>1 DEF ExperimentsInv, TypeInv
    <2>2. SUFFICES ASSUME NEW a \in served
                   PROVE  IF experiments[a.exp] = "destination"
                          THEN \A b \in served : b.exp = a.exp /\ b.dst = a.dst
                                                     => b.variant = a.variant
                          ELSE /\ Matching(a.src, a.exp) # {}
                               /\ FindBySourceAndExperiment(a.src, a.exp).variant = a.variant
        BY DEF StickyVariant
    <2>3. CASE experiments[a.exp] = "destination"
        BY <2>1, <2>3 DEF ServedInv, ServedOK
    <2>4. CASE experiments[a.exp] # "destination"
        <3>1. experiments[a.exp] = "source"
            <4>1. a.exp \in ExpId /\ experiments[a.exp] # None
                BY <2>1 DEF ServedInv, ServedOK, TypeOK, ServedType
            <4>2. QED
                BY <2>1, <2>4, <4>1 DEF TypeOK
        <3>2. /\ Matching(a.src, a.exp) # {} /\ a.exp \notin early
              /\ a.variant = AssignVariant(a.exp, a.src, VariantsOf(a.exp))
            BY <2>1, <3>1 DEF ServedInv, ServedOK
        <3>3. assignments \in Seq(AssignmentType)
            BY <2>1 DEF TypeOK
        <3>4. PICK i \in Matching(a.src, a.exp) :
                  FindBySourceAndExperiment(a.src, a.exp) = assignments[i]
            BY <3>2, <3>3, FindMatches
        <3>5. /\ i \in 1 .. Len(assignments) /\ assignments[i].src = a.src
              /\ assignments[i].exp = a.exp
            BY <3>4 DEF Matching
        <3>6. assignments[i].variant = AssignVariant(a.exp, a.src, VariantsOf(a.exp))
            BY <2>1, <3>2, <3>5 DEF AssignInv, AssignmentOK
        <3>7. QED
            BY <2>4, <3>2, <3>4, <3>6
    <2>5. QED
        BY <2>3, <2>4
<1>2. QED
    BY <1>1, ExperimentsInvariance, PTL

\* When the starts and stops of an experiment have ended and agree, both words
\* of its status are what they asked for.
THEOREM StatusSettles == Spec => []StatusIsAsAsked
<1>1. ASSUME ExperimentsInv PROVE StatusIsAsAsked
    <2>1. TypeOK /\ StatusInv
        BY <1>1 DEF ExperimentsInv, TypeInv
    <2>2. SUFFICES ASSUME NEW e \in Published, Updating(e) = {}, NEW to \in wanted[e],
                          wanted[e] = {to}
                   PROVE  status[e] = [text |-> to, length |-> to]
        BY DEF StatusIsAsAsked
    <2>3. e \in ExpId
        BY DEF Published
    <2>4. status[e]["text"] = to /\ status[e]["length"] = to
        BY <2>1, <2>2, <2>3 DEF StatusInv
    <2>5. status[e] \in StatusType
        BY <2>1, <2>3 DEF TypeOK
    <2>6. QED
        BY <2>4, <2>5 DEF StatusType
<1>2. QED
    BY <1>1, ExperimentsInvariance, PTL

\* A probe of a source-mode experiment whose creation had finished leaves with a
\* saved variant of that experiment.
THEOREM CompleteExperimentsServe == Spec => []CompleteExperimentServes
<1>1. ExperimentsInv => CompleteExperimentServes
    BY NoneAssumption DEF ExperimentsInv, ServedInv, ServedOK, IsVariantOf,
        CompleteExperimentServes
<1>2. QED
    BY <1>1, ExperimentsInvariance, PTL

-----------------------------------------------------------------------------
(* The details of an experiment                                            *)

\* Induction over the naturals.
LEMMA NatInduct ==
    ASSUME NEW T, 0 \in T, \A n \in Nat : n \in T => n + 1 \in T
    PROVE  Nat \subseteq T
<1>1. SUFFICES ASSUME Nat \ T # {} PROVE FALSE
    OBVIOUS
<1>2. PICK m \in Nat \ T : \A k \in Nat \ T : m <= k
    BY <1>1, LeastNat
<1>3. m # 0 /\ m \in Nat
    BY <1>2
<1>4. m - 1 \in Nat /\ m - 1 \in T
    BY <1>2, <1>3
<1>5. QED
    BY <1>2, <1>4

\* the sum of a function over a set, as DetailsCoverServed takes it
SumOf(c, S) == MapThenSumSet(LAMBDA t : c[t], S)

\* f[s] is the sum of c over s, taken in the order of MapThenSumSet
IsSum(f, c, S) ==
    f = [s \in SUBSET S |->
            IF s = {} THEN 0
            ELSE c[CHOOSE x \in s : TRUE] + f[s \ {CHOOSE x \in s : TRUE}]]

\* A sum is the last value of a function that IsSum describes, if there is one.
LEMMA SumUnfolds ==
    ASSUME NEW c, NEW S, NEW g, IsSum(g, c, S)
    PROVE  \E f : IsSum(f, c, S) /\ SumOf(c, S) = f[S]
<1> DEFINE h == CHOOSE f : IsSum(f, c, S)
<1>1. IsSum(h, c, S)
    BY Zenon
<1>2. SumOf(c, S) = h[S]
    BY Zenon DEF SumOf, MapThenSumSet, MapThenFoldSet, IsSum
<1>3. QED
    BY <1>1, <1>2, Zenon

\* the positions whose key is in K
Keyed(D, key, K) == { i \in D : key[i] \in K }

\* Counting per key adds up to counting all.
LEMMA SumOfCounts ==
    ASSUME NEW D, IsFiniteSet(D), NEW key, NEW K, IsFiniteSet(K), NEW c,
           \A t \in K : c[t] = Cardinality(Keyed(D, key, {t}))
    PROVE  SumOf(c, K) = Cardinality(Keyed(D, key, K))
<1> DEFINE Of(s) == Keyed(D, key, s)
           pick(s) == CHOOSE x \in s : TRUE
           g == [s \in SUBSET K |-> Cardinality(Of(s))]
<1>1. \A s : IsFiniteSet(Of(s)) /\ Cardinality(Of(s)) \in Nat
    <2>1. \A s : Of(s) \in SUBSET D
        BY DEF Keyed
    <2> HIDE DEF Of
    <2>2. QED
        BY <2>1, FS_Subset, FS_CardinalityType
<1>2. ASSUME NEW s \in SUBSET K, s # {}
      PROVE  /\ pick(s) \in s
             /\ Cardinality(Of(s)) = c[pick(s)] + Cardinality(Of(s \ {pick(s)}))
    <2>1. pick(s) \in s
        BY <1>2, Zenon
    <2>2. PICK x \in s : x = pick(s)
        BY <2>1
    <2> HIDE DEF pick
    <2>3. Of(s) \ Of({x}) = Of(s \ {x}) /\ Of(s) \cap Of({x}) = Of({x})
        BY DEF Keyed
    <2>4. c[x] = Cardinality(Of({x}))
        OBVIOUS
    <2> HIDE DEF Of
    <2>5. Cardinality(Of(s) \ Of({x})) = Cardinality(Of(s)) - Cardinality(Of(s) \cap Of({x}))
        BY <1>1, FS_Difference
    <2>6. Cardinality(Of(s \ {x})) = Cardinality(Of(s)) - c[x]
        BY <2>3, <2>4, <2>5, Zenon
    <2>7. \A a, b, d \in Nat : a = b - d => b = d + a
        OBVIOUS
    <2>8. Cardinality(Of(s)) = c[x] + Cardinality(Of(s \ {x}))
        BY <1>1, <2>4, <2>6, <2>7, Zenon
    <2>9. QED
        BY <2>1, <2>2, <2>8
<1>3. Cardinality(Of({})) = 0
    <2>1. Of({}) = {}
        BY DEF Keyed
    <2>2. QED
        BY <2>1, FS_EmptySet
<1>4. IsSum(g, c, K)
    <2>1. \A s \in SUBSET K :
              g[s] = IF s = {} THEN 0 ELSE c[pick(s)] + g[s \ {pick(s)}]
        <3> HIDE DEF Of, pick
        <3>1. QED
            BY <1>2, <1>3
    <2>2. g = [s \in SUBSET K |-> g[s]]
        OBVIOUS
    <2> HIDE DEF g
    <2>3. QED
        BY <2>1, <2>2, Zenon DEF IsSum
<1>5. PICK f : IsSum(f, c, K) /\ SumOf(c, K) = f[K]
    <2> HIDE DEF g
    <2>1. QED
        BY <1>4, SumUnfolds, Zenon
<1>6. \A s \in SUBSET K : f[s] = IF s = {} THEN 0 ELSE c[pick(s)] + f[s \ {pick(s)}]
    BY <1>5, Zenon DEF IsSum
<1> HIDE DEF g, Of, pick
<1> DEFINE T == { n \in Nat : \A s \in SUBSET K : Cardinality(s) = n => f[s] = Cardinality(Of(s)) }
<1>7. 0 \in T
    <2>1. \A s \in SUBSET K : Cardinality(s) = 0 => s = {}
        BY FS_Subset, FS_EmptySet
    <2>2. QED
        BY <1>3, <1>6, <2>1
<1>8. ASSUME NEW n \in Nat, n \in T PROVE n + 1 \in T
    <2>1. SUFFICES ASSUME NEW s \in SUBSET K, Cardinality(s) = n + 1
                   PROVE  f[s] = Cardinality(Of(s))
        OBVIOUS
    <2>2. s # {}
        BY <2>1, FS_EmptySet
    <2>3. /\ pick(s) \in s
          /\ Cardinality(Of(s)) = c[pick(s)] + Cardinality(Of(s \ {pick(s)}))
        BY <1>2, <2>2
    <2>4. Cardinality(s \ {pick(s)}) = n
        <3>1. IsFiniteSet(s)
            BY FS_Subset
        <3>2. Cardinality(s \ {pick(s)}) = Cardinality(s) - 1
            BY <2>3, <3>1, FS_RemoveElement
        <3>3. QED
            BY <2>1, <3>2
    <2>5. s \ {pick(s)} \in SUBSET K
        OBVIOUS
    <2>6. f[s \ {pick(s)}] = Cardinality(Of(s \ {pick(s)}))
        BY <1>8, <2>4, <2>5
    <2>7. f[s] = c[pick(s)] + f[s \ {pick(s)}]
        BY <1>6, <2>2
    <2>8. QED
        BY <2>3, <2>6, <2>7
<1>9. Nat \subseteq T
    <2> HIDE DEF T
    <2>1. QED
        BY <1>7, <1>8, NatInduct
<1>10. Cardinality(K) \in T
    <2> HIDE DEF T
    <2>1. QED
        BY <1>9, FS_CardinalityType
<1>11. f[K] = Cardinality(Of(K))
    BY <1>10
<1>12. QED
    BY <1>5, <1>11 DEF Of


\* the entries of the log for an experiment
LogOf(e) == { i \in 1 .. Len(assignments) : assignments[i].exp = e }

\* what a request for details has collected: before it reads the log, the log
\* holds an entry for every source that was served before the request
ViewOK(v) ==
    /\ experiments[viewing[v].exp] # None
    /\ viewing[v].at # "answer" /\ experiments[viewing[v].exp] = "source" =>
          viewing[v].before \in Nat /\ viewing[v].before <= Cardinality(LogOf(viewing[v].exp))
    /\ viewing[v].at = "answer" =>
          /\ experiments[viewing[v].exp] = "source" =>
                viewing[v].before <= SumOf(viewing[v].perVariant, DOMAIN viewing[v].perVariant)
          /\ \A id \in DOMAIN viewing[v].perVariant : IsVariantOf(id, viewing[v].exp)

ViewInv == \A v \in Viewer : viewing[v] # None => ViewOK(v)

\* The log of an experiment is finite.
LEMMA LogFinite ==
    ASSUME TypeOK, NEW e
    PROVE  IsFiniteSet(LogOf(e)) /\ Cardinality(LogOf(e)) \in Nat
<1>1. 1 \in Int /\ Len(assignments) \in Int
    BY DEF TypeOK
<1>2. IsFiniteSet(1 .. Len(assignments))
    BY <1>1, FS_Interval, Zenon
<1>3. LogOf(e) \in SUBSET (1 .. Len(assignments))
    BY DEF LogOf
<1>4. QED
    BY <1>2, <1>3, FS_Subset, FS_CardinalityType

\* Every source that was served has an entry of its own.
LEMMA ServedAreLogged ==
    ASSUME ExperimentsInv, NEW e \in ExpId, experiments[e] = "source"
    PROVE  /\ Cardinality(ServedSources(e)) \in Nat
           /\ Cardinality(ServedSources(e)) <= Cardinality(LogOf(e))
<1>1. TypeOK /\ ServedInv
    BY DEF ExperimentsInv, TypeInv
<1>2. \A src \in ServedSources(e) : Matching(src, e) # {}
    BY <1>1 DEF ServedSources, ServedInv, ServedOK
<1> DEFINE S == ServedSources(e)
           entry(src) == CHOOSE i \in Matching(src, e) : TRUE
           f == [src \in S |-> entry(src)]
<1>3. \A src \in S : entry(src) \in Matching(src, e)
    BY <1>2, Zenon
<1>4. \A src \in S : entry(src) \in LogOf(e) /\ assignments[entry(src)].src = src
    <2> HIDE DEF entry, S
    <2>1. QED
        BY <1>3 DEF Matching, LogOf
<1>5. f \in Injection(S, LogOf(e))
    <2>1. f \in [S -> LogOf(e)] /\ \A x, y \in S : f[x] = f[y] => x = y
        <3> HIDE DEF entry, S
        <3>1. QED
            BY <1>4
    <2> HIDE DEF f, S
    <2>2. QED
        BY <2>1 DEF Injection, IsInjective
<1>6. IsFiniteSet(LogOf(e))
    BY <1>1, LogFinite
<1> HIDE DEF f, entry
<1>7. IsFiniteSet(S) /\ Cardinality(S) <= Cardinality(LogOf(e))
    BY <1>5, <1>6, FS_Injection
<1>8. QED
    BY <1>7, FS_CardinalityType

\* The counts per variant add up to the log of the experiment.
LEMMA CountsAddUp ==
    ASSUME ExperimentsInv, NEW e \in ExpId
    PROVE  /\ SumOf(PerVariant(e), DOMAIN PerVariant(e)) = Cardinality(LogOf(e))
           /\ \A id \in DOMAIN PerVariant(e) : IsVariantOf(id, e)
<1>1. TypeOK /\ AssignInv
    BY DEF ExperimentsInv, TypeInv
<1> DEFINE D == LogOf(e)
           key == [i \in D |-> assignments[i].variant]
           K == { assignments[i].variant : i \in D }
<1>2. IsFiniteSet(D)
    BY <1>1, LogFinite
<1>3. K = { key[i] : i \in D }
    OBVIOUS
<1>4. /\ DOMAIN PerVariant(e) = K
      /\ \A t \in K : PerVariant(e)[t] = Cardinality({ i \in D : assignments[i].variant = t })
    BY DEF PerVariant, LogOf
<1>5. IsFiniteSet(K)
    <2>1. key \in Surjection(D, K)
        <3>1. key \in [D -> K] /\ \A t \in K : \E i \in D : key[i] = t
            BY <1>3
        <3> HIDE DEF key, K, D
        <3>2. QED
            BY <3>1 DEF Surjection
    <2> HIDE DEF key, K, D
    <2>2. QED
        BY <1>2, <2>1, FS_Surjection
<1>6. \A id \in K : IsVariantOf(id, e)
    BY <1>1 DEF AssignInv, AssignmentOK, LogOf
<1>7. PICK c : c = PerVariant(e)
    OBVIOUS
<1>8. \A t \in K : c[t] = Cardinality(Keyed(D, key, {t}))
    <2>1. SUFFICES ASSUME NEW t \in K PROVE c[t] = Cardinality(Keyed(D, key, {t}))
        OBVIOUS
    <2>2. Keyed(D, key, {t}) = { i \in D : assignments[i].variant = t }
        BY DEF Keyed
    <2>3. QED
        BY <1>4, <1>7, <2>2
<1>9. Keyed(D, key, K) = D
    BY <1>3 DEF Keyed
<1> HIDE DEF key, K, D
<1>10. SumOf(c, K) = Cardinality(Keyed(D, key, K))
    BY ONLY <1>2, <1>5, <1>8, SumOfCounts, Zenon
<1>11. SumOf(c, K) = Cardinality(D)
    BY ONLY <1>9, <1>10, Zenon
<1>12. SumOf(PerVariant(e), DOMAIN PerVariant(e)) = Cardinality(LogOf(e))
    BY ONLY <1>4, <1>7, <1>11, Zenon DEF D
<1>13. QED
    BY <1>4, <1>6, <1>12, Zenon

\* What was published, saved and logged stays.
LEMMA RepositoriesGrow ==
    ASSUME ExperimentsInv,
           \/ \E c \in Creator : CreateStep(c)
           \/ \E u \in Updater : UpdateStep(u)
           \/ \E p \in Probe : ProbeStep(p)
    PROVE  /\ \A e \in ExpId : experiments[e] # None => experiments'[e] = experiments[e]
           /\ \A v \in VariantId : variants[v] # None => variants'[v] = variants[v]
           /\ \A e \in ExpId : LogOf(e) \subseteq LogOf(e)'
<1>1. TypeInv /\ TypeOK /\ Pending /\ ProbeInv
    BY DEF ExperimentsInv, TypeInv
<1>2. ASSUME NEW c \in Creator, SaveVariant(c)
      PROVE  /\ experiments' = experiments /\ assignments' = assignments
             /\ \A v \in VariantId : variants[v] # None => variants'[v] = variants[v]
    <2>1. creating[c] # None /\ creating[c] \in CreateType
        BY <1>1, <1>2 DEF SaveVariant, TypeOK
    <2>2. PICK todo \in Seq(VariantType) : todo = creating[c].todo /\ todo # <<>>
        BY <2>1 DEF CreateType
    <2>3. 1 \in Indices(todo) /\ Head(todo) = todo[1]
        BY <2>2 DEF Indices
    <2>4. variants[Head(todo).id] = None
        BY <1>1, <2>1, <2>2, <2>3 DEF Pending
    <2>5. variants' = [variants EXCEPT ![Head(todo).id] = Head(todo)]
        BY <1>2, <2>2 DEF SaveVariant
    <2>6. QED
        BY <1>1, <1>2, <2>4, <2>5 DEF SaveVariant, TypeOK
<1>3. ASSUME NEW c \in Creator, NEW input \in Inputs, CreateExperiment(c, input)
      PROVE  /\ variants' = variants /\ assignments' = assignments
             /\ \A e \in ExpId : experiments[e] # None => experiments'[e] = experiments[e]
    BY <1>1, <1>3 DEF CreateExperiment, TypeOK
<1>4. ASSUME NEW u \in Updater, UpdateStep(u)
      PROVE  experiments' = experiments /\ variants' = variants /\ assignments' = assignments
    BY <1>4 DEF UpdateStep, GetExperiment, WriteStatus, UpdateExperiment, repoVars
<1>5. ASSUME NEW p \in Probe, ProbeStep(p)
      PROVE  /\ experiments' = experiments /\ variants' = variants
             /\ \/ assignments' = assignments
                \/ SaveAssignment(p)
    BY <1>5 DEF ProbeStep, FindActiveExperiment, NoActiveExperiment, ListVariantsByDestination,
        ListVariants, FindAssignment, GetVariant, PickVariant, NoVariants, SaveAssignment, repoVars
<1>6. ASSUME NEW p \in Probe, SaveAssignment(p), NEW e \in ExpId
      PROVE  LogOf(e) \subseteq LogOf(e)'
    <2>1. PICK a : assignments' = Append(assignments, a)
        BY <1>6 DEF SaveAssignment
    <2>2. PICK S : S = AssignmentType \cup {a}
        OBVIOUS
    <2>3. assignments \in Seq(S) /\ a \in S
        BY <1>1, <2>2 DEF TypeOK
    <2>4. /\ Len(assignments) \in Nat /\ Len(assignments') = Len(assignments) + 1
          /\ \A i \in 1 .. Len(assignments) : assignments'[i] = assignments[i]
        BY <2>1, <2>3, AppendProperties, LenProperties
    <2>5. QED
        BY <2>4 DEF LogOf
<1>7. \A e : assignments' = assignments => LogOf(e)' = LogOf(e)
    BY DEF LogOf
<1>8. QED
    BY <1>2, <1>3, <1>4, <1>5, <1>6, <1>7 DEF CreateStep

\* Steps of others do not disturb a request for details.
LEMMA ViewFrame ==
    ASSUME ExperimentsInv, ExperimentsInv', ViewInv,
           NEW v \in Viewer, viewing[v] # None, viewing'[v] = viewing[v],
           \A e \in ExpId : experiments[e] # None => experiments'[e] = experiments[e],
           \A x \in VariantId : variants[x] # None => variants'[x] = variants[x],
           \A e \in ExpId : LogOf(e) \subseteq LogOf(e)'
    PROVE  ViewOK(v)'
<1>1. ViewOK(v) /\ TypeOK /\ TypeOK' /\ viewing[v].exp \in ExpId
    BY DEF ViewInv, ExperimentsInv, TypeInv, TypeOK
<1>2. PICK e \in ExpId : e = viewing[v].exp
    BY <1>1
<1>3. experiments[e] # None /\ experiments'[e] = experiments[e]
    BY <1>1, <1>2 DEF ViewOK
<1>4. Cardinality(LogOf(e)) <= Cardinality(LogOf(e)')
      /\ Cardinality(LogOf(e)) \in Nat /\ Cardinality(LogOf(e)') \in Nat
    <2>1. IsFiniteSet(LogOf(e)) /\ Cardinality(LogOf(e)) \in Nat
        BY <1>1, LogFinite
    <2>2. IsFiniteSet(LogOf(e)') /\ Cardinality(LogOf(e)') \in Nat
        <3>1. 1 \in Int /\ Len(assignments') \in Int
            BY <1>1 DEF TypeOK
        <3>2. IsFiniteSet(1 .. Len(assignments'))
            BY <3>1, FS_Interval, Zenon
        <3>3. LogOf(e)' \in SUBSET (1 .. Len(assignments'))
            BY DEF LogOf
        <3>4. QED
            BY <3>2, <3>3, FS_Subset, FS_CardinalityType
    <2>3. LogOf(e) \in SUBSET LogOf(e)'
        OBVIOUS
    <2>4. QED
        BY <2>1, <2>2, <2>3, FS_Subset
<1>5. \A id : IsVariantOf(id, e) => IsVariantOf(id, e)'
    BY DEF IsVariantOf
<1>6. ASSUME viewing[v].at # "answer", experiments[e] = "source"
      PROVE  viewing[v].before \in Nat /\ viewing[v].before <= Cardinality(LogOf(e)')
    <2>1. viewing[v].before \in Nat /\ viewing[v].before <= Cardinality(LogOf(e))
        BY <1>1, <1>2, <1>6 DEF ViewOK
    <2>2. QED
        BY <1>4, <2>1
<1>7. ASSUME viewing[v].at = "answer"
      PROVE  /\ experiments[e] = "source" =>
                viewing[v].before <= SumOf(viewing[v].perVariant, DOMAIN viewing[v].perVariant)
             /\ \A id \in DOMAIN viewing[v].perVariant : IsVariantOf(id, e)
    BY <1>1, <1>2, <1>7, Zenon DEF ViewOK
<1>8. QED
    BY <1>2, <1>3, <1>5, <1>6, <1>7, Zenon DEF ViewOK

\* One of a viewer's own steps.
LEMMA ViewerStep ==
    ASSUME ExperimentsInv, ExperimentsInv', ViewInv, NEW v \in Viewer, ViewStep(v),
           UNCHANGED <<repoVars, status, assignments, creating, updating, probe, history>>
    PROVE  ViewInv'
<1>1. TypeInv /\ TypeOK
    BY DEF ExperimentsInv, TypeInv
<1>2. experiments' = experiments /\ variants' = variants /\ assignments' = assignments
    BY DEF repoVars
<1>3. /\ \A e : LogOf(e)' = LogOf(e)
      /\ \A id, e : IsVariantOf(id, e)' = IsVariantOf(id, e)
    BY <1>2 DEF LogOf, IsVariantOf
<1>4. ASSUME NEW w \in Viewer, w # v, viewing'[w] # None
      PROVE  ViewOK(w)'
    <2>1. viewing'[w] = viewing[w]
        BY <1>1, <1>4 DEF TypeInv, ViewStep, GetDetails, GetVariants, ListByExperiment, WriteDetails
    <2>2. QED
        BY <1>2, <1>3, <1>4, <2>1, ViewFrame
<1>5. ASSUME viewing'[v] # None
      PROVE  ViewOK(v)'
    <2>1. ASSUME NEW e \in ExpId, GetDetails(v, e) PROVE ViewOK(v)'
        <3>1. PICK r : r = [at |-> "variants", exp |-> e,
                            before |-> Cardinality(ServedSources(e)),
                            list |-> {}, perVariant |-> <<>>]
            OBVIOUS
        <3>2. viewing' = [viewing EXCEPT ![v] = r]
            BY <2>1, <3>1 DEF GetDetails
        <3>3. viewing'[v] = r
            BY <1>1, <3>2 DEF TypeInv
        <3>4. r.at = "variants" /\ r.exp = e /\ r.before = Cardinality(ServedSources(e))
            BY <3>1
        <3>5. experiments[e] # None
            BY <2>1 DEF GetDetails, Published
        <3>6. experiments[e] = "source" =>
                  r.before \in Nat /\ r.before <= Cardinality(LogOf(e))
            BY <3>4, ServedAreLogged
        <3>7. QED
            BY <1>2, <1>3, <3>3, <3>4, <3>5, <3>6 DEF ViewOK
    <2>2. ASSUME GetVariants(v) \/ ListByExperiment(v)
          PROVE  /\ viewing[v] # None /\ viewing[v].at # "answer" /\ viewing[v].exp \in ExpId
                 /\ ViewOK(v)
                 /\ viewing[v] = [at |-> viewing[v].at, exp |-> viewing[v].exp,
                                  before |-> viewing[v].before, list |-> viewing[v].list,
                                  perVariant |-> viewing[v].perVariant]
        BY <1>1, <2>2 DEF GetVariants, ListByExperiment, View, ViewInv, TypeInv, TypeOK
    <2>3. CASE GetVariants(v)
        <3>1. PICK r : r = [at |-> "assignments", exp |-> viewing[v].exp,
                            before |-> viewing[v].before, list |-> Range(byExp[viewing[v].exp]),
                            perVariant |-> viewing[v].perVariant]
            OBVIOUS
        <3>2. viewing' = [viewing EXCEPT ![v] = r]
            <4>1. [viewing[v] EXCEPT !.at = "assignments",
                                     !.list = Range(byExp[viewing[v].exp])] = r
                <5>1. viewing[v] = [at |-> viewing[v].at, exp |-> viewing[v].exp,
                                    before |-> viewing[v].before, list |-> viewing[v].list,
                                    perVariant |-> viewing[v].perVariant]
                    BY <2>2, <2>3
                <5>2. \A at, x :
                         [viewing[v] EXCEPT !.at = at, !.list = x] =
                             [at |-> at, exp |-> viewing[v].exp, before |-> viewing[v].before,
                              list |-> x, perVariant |-> viewing[v].perVariant]
                    BY ONLY <5>1, RecordUpdates, Zenon
                <5>3. QED
                    BY ONLY <3>1, <5>2, Zenon
            <4>2. QED
                BY <1>1, <2>3, <4>1 DEF GetVariants, TypeInv
        <3>3. viewing'[v] = r
            BY <1>1, <3>2 DEF TypeInv
        <3>4. r.at = "assignments" /\ r.exp = viewing[v].exp /\ r.before = viewing[v].before
            BY <3>1
        <3>5. /\ experiments[r.exp] # None
              /\ experiments[r.exp] = "source" =>
                    r.before \in Nat /\ r.before <= Cardinality(LogOf(r.exp))
            BY <2>2, <2>3, <3>4 DEF ViewOK
        <3>6. QED
            BY <1>2, <1>3, <3>3, <3>4, <3>5 DEF ViewOK
    <2>4. CASE ListByExperiment(v)
        <3>1. PICK r : r = [at |-> "answer", exp |-> viewing[v].exp,
                            before |-> viewing[v].before, list |-> viewing[v].list,
                            perVariant |-> PerVariant(viewing[v].exp)]
            OBVIOUS
        <3>2. viewing' = [viewing EXCEPT ![v] = r]
            <4>1. [viewing[v] EXCEPT !.at = "answer",
                                     !.perVariant = PerVariant(viewing[v].exp)] = r
                <5>1. viewing[v] = [at |-> viewing[v].at, exp |-> viewing[v].exp,
                                    before |-> viewing[v].before, list |-> viewing[v].list,
                                    perVariant |-> viewing[v].perVariant]
                    BY <2>2, <2>4
                <5>2. \A at, x :
                         [viewing[v] EXCEPT !.at = at, !.perVariant = x] =
                             [at |-> at, exp |-> viewing[v].exp, before |-> viewing[v].before,
                              list |-> viewing[v].list, perVariant |-> x]
                    BY ONLY <5>1, RecordUpdates, Zenon
                <5>3. QED
                    BY ONLY <3>1, <5>2, Zenon
            <4>2. QED
                BY <1>1, <2>4, <4>1 DEF ListByExperiment, TypeInv
        <3>3. viewing'[v] = r
            BY <1>1, <3>2 DEF TypeInv
        <3>4. PICK e \in ExpId : e = viewing[v].exp
            BY <2>2, <2>4
        <3>5. r.at = "answer" /\ r.exp = e /\ r.before = viewing[v].before
              /\ r.perVariant = PerVariant(e)
            BY <3>1, <3>4
        <3>6. /\ experiments[e] # None
              /\ experiments[e] = "source" => r.before <= Cardinality(LogOf(e))
            BY <2>2, <2>4, <3>4, <3>5 DEF ViewOK
        <3>7. /\ SumOf(PerVariant(e), DOMAIN PerVariant(e)) = Cardinality(LogOf(e))
              /\ \A id \in DOMAIN PerVariant(e) : IsVariantOf(id, e)
            BY CountsAddUp
        <3>8. /\ experiments[e] = "source" => r.before <= SumOf(r.perVariant, DOMAIN r.perVariant)
              /\ \A id \in DOMAIN r.perVariant : IsVariantOf(id, e)'
            BY ONLY <1>3, <3>5, <3>6, <3>7, Zenon
        <3>9. r.at = "answer" /\ r.exp = e /\ experiments'[e] = experiments[e]
            BY <1>2, <3>5
        <3>10. QED
            BY <3>3, <3>6, <3>8, <3>9, Zenon DEF ViewOK
    <2>5. CASE WriteDetails(v)
        BY <1>1, <1>5, <2>5 DEF WriteDetails, TypeInv
    <2>6. QED
        BY <2>1, <2>3, <2>4, <2>5 DEF ViewStep
<1>6. QED
    BY <1>4, <1>5 DEF ViewInv

\* Every step keeps what viewers have collected.
LEMMA ViewInvStep ==
    ExperimentsInv /\ ExperimentsInv' /\ ViewInv /\ [Next]_vars => ViewInv'
<1> SUFFICES ASSUME ExperimentsInv, ExperimentsInv', ViewInv, [Next]_vars PROVE ViewInv'
    OBVIOUS
<1>1. ASSUME viewing' = viewing,
             \/ \E c \in Creator : CreateStep(c)
             \/ \E u \in Updater : UpdateStep(u)
             \/ \E p \in Probe : ProbeStep(p)
      PROVE  ViewInv'
    <2>1. /\ \A e \in ExpId : experiments[e] # None => experiments'[e] = experiments[e]
          /\ \A v \in VariantId : variants[v] # None => variants'[v] = variants[v]
          /\ \A e \in ExpId : LogOf(e) \subseteq LogOf(e)'
        BY <1>1, RepositoriesGrow
    <2>2. ASSUME NEW v \in Viewer, viewing'[v] # None PROVE ViewOK(v)'
        BY <1>1, <2>1, <2>2, ViewFrame
    <2>3. QED
        BY <2>2 DEF ViewInv
<1>2. CASE UNCHANGED vars
    <2>1. UNCHANGED <<experiments, variants, assignments, viewing>>
        BY <1>2 DEF vars, repoVars
    <2>2. QED
        BY <2>1, Zenon DEF ViewInv, ViewOK, LogOf, IsVariantOf
<1>3. QED
    BY <1>1, <1>2, ViewerStep DEF Next

\* The details of an experiment count every source that was served before they
\* were asked for, and only variants of the experiment, although they are
\* collected in three steps while probes go on.
THEOREM DetailsAreCovered == Spec => []DetailsCoverServed
<1>1. Init => ViewInv
    BY DEF Init, ViewInv
<1>2. ViewInv => DetailsCoverServed
    <2>1. SUFFICES ASSUME ViewInv, NEW v \in Viewer, View(v, "answer"),
                          experiments[viewing[v].exp] = "source"
                   PROVE  /\ viewing[v].before <=
                                 MapThenSumSet(LAMBDA id : viewing[v].perVariant[id],
                                               DOMAIN viewing[v].perVariant)
                          /\ \A id \in DOMAIN viewing[v].perVariant :
                                 variants[id] # None /\ variants[id].exp = viewing[v].exp
        BY Zenon DEF DetailsCoverServed
    <2>2. ViewOK(v) /\ viewing[v].at = "answer"
        BY ONLY <2>1, Zenon DEF ViewInv, View
    <2>3. /\ viewing[v].before <= SumOf(viewing[v].perVariant, DOMAIN viewing[v].perVariant)
          /\ \A id \in DOMAIN viewing[v].perVariant : IsVariantOf(id, viewing[v].exp)
        BY ONLY <2>1, <2>2, Zenon DEF ViewOK
    <2>4. QED
        BY ONLY <2>3, Zenon DEF SumOf, IsVariantOf
<1>3. QED
    BY <1>1, <1>2, ViewInvStep, ExperimentsInvariance, PTL DEF Spec

=============================================================================
