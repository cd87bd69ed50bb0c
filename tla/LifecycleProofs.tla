-------------------------- MODULE LifecycleProofs ---------------------------
(***************************************************************************)
(* Proofs about Lifecycle, for every list of addresses, every experiments  *)
(* file, every set of addresses that cannot be bound and every fault.      *)
(* LifecycleInv is the inductive invariant behind the three safety         *)
(* properties.                                                             *)
(***************************************************************************)
EXTENDS Lifecycle, FiniteSetTheorems, SequenceTheorems, TLAPS

\* the servers whose goroutine has come to its end
Returned == { s \in Server : server[s] = "returned" }

\* a server may fail to bind its address
BindMayFail ==
    \/ \E s \in Server : Addr(s) \in taken
    \/ \E s, t \in Server : s # t /\ Addr(s) = Addr(t)

\* NewApplication may fail
BuildMayFail ==
    \/ "events" \in given /\ "open" \in faults
    \/ "experiments" \in given /\ ("read" \in faults \/ "yaml" \in faults)
    \/ \E i \in DOMAIN file : ~file[i].valid

\* a server may fail
ServerMayFail == BindMayFail \/ "accept" \in faults

TypeInv ==
    /\ parseIPs(ipList) \in Seq(STRING)
    /\ file \in Seq(ExperimentSpec)
    /\ experiments \in Seq([name : STRING, status : {"active", "stopped"}])
    /\ next \in Nat \ {0}
    /\ "experiments" \notin given => file = <<>>
    /\ main = "reading" => "experiments" \in given
    /\ opened \in Nat
    /\ main \in {"opening", "reading", "loading", "built", "waiting", "ended"}
    /\ server \in [Server -> {"none", "starting", "serving", "failed", "returned"}]
    /\ errCh \in Nat

\* the repository holds the specs that were read so far, in their order
Loaded ==
    /\ next <= Len(file) + 1
    /\ Len(experiments) = next - 1
    /\ \A i \in 1 .. next - 1 :
          /\ experiments[i].name = file[i].name
          /\ experiments[i].status = "active" <=> file[i].autoStart

\* the servers are launched when the whole file has been read
LaunchedAfterLoading ==
    /\ main \in {"opening", "reading", "loading", "built"} => \A s \in Server : server[s] = "none"
    /\ main \in {"built", "waiting"} => next > Len(file)
    /\ (\E s \in Server : server[s] = "serving") => next > Len(file)

\* an error in the channel was sent by a goroutine that has returned
ErrorsAreFromReturned == errCh <= Cardinality(Returned)

\* the failure of a server, also while its error is in the channel, has a cause
FailuresHaveCause ==
    /\ errCh > 0 \/ (\E s \in Server : server[s] = "failed") => ServerMayFail
    /\ result = "error" => ServerMayFail \/ BuildMayFail

LifecycleInv ==
    TypeInv /\ Loaded /\ LaunchedAfterLoading /\ ErrorsAreFromReturned /\ FailuresHaveCause

-----------------------------------------------------------------------------

\* A set with one more element.
LEMMA AddOne ==
    ASSUME NEW S, IsFiniteSet(S), NEW x, x \notin S
    PROVE  IsFiniteSet(S \cup {x}) /\ Cardinality(S \cup {x}) = Cardinality(S) + 1
    BY FS_AddElement, Zenon

\* A set of two elements.
LEMMA PairCard ==
    ASSUME NEW a, NEW b, a # b
    PROVE  IsFiniteSet({a, b}) /\ Cardinality({a, b}) = 2
<1>1. IsFiniteSet({a}) /\ Cardinality({a}) = 1
    BY FS_Singleton, Zenon
<1>2. IsFiniteSet({a} \cup {b}) /\ Cardinality({a} \cup {b}) = 1 + 1
    BY <1>1, AddOne, Zenon
<1>3. {a, b} = {a} \cup {b}
    OBVIOUS
<1>4. QED
    BY <1>2, <1>3

\* A set of three elements.
LEMMA TripleCard ==
    ASSUME NEW a, NEW b, NEW c, a # b, a # c, b # c
    PROVE  IsFiniteSet({a, b, c}) /\ Cardinality({a, b, c}) = 3
<1>1. IsFiniteSet({a, b}) /\ Cardinality({a, b}) = 2
    BY PairCard, Zenon
<1>2. IsFiniteSet({a, b} \cup {c}) /\ Cardinality({a, b} \cup {c}) = 2 + 1
    BY <1>1, AddOne, Zenon
<1>3. {a, b, c} = {a, b} \cup {c}
    OBVIOUS
<1>4. QED
    BY <1>2, <1>3

\* The number of addresses is a number, the default address included.
LEMMA IpsLength ==
    ASSUME parseIPs(ipList) \in Seq(STRING)
    PROVE  Len(ips) \in Nat
<1>1. CASE parseIPs(ipList) = <<>>
    BY <1>1 DEF ips
<1>2. CASE parseIPs(ipList) # <<>>
    BY <1>2 DEF ips
<1>3. QED
    BY <1>1, <1>2

\* There are finitely many servers, and the capacity of the error channel is
\* their number.
LEMMA ServerCount ==
    ASSUME parseIPs(ipList) \in Seq(STRING)
    PROVE  IsFiniteSet(Server) /\ Cardinality(Server) = serverCount /\ serverCount \in Nat
<1> DEFINE Own == { <<"chargen", 0>>, <<"coordinator", 0>> }
           Kinds == {"dns", "ntp", "ssdp"}
           Places == 1 .. Len(ips)
           PerIP == Kinds \X Places
<1>1. Len(ips) \in Nat
    BY IpsLength
<1>2. IsFiniteSet(Places) /\ Cardinality(Places) = Len(ips)
    <2>1. 1 \in Int /\ Len(ips) \in Int
        BY <1>1
    <2>2. /\ IsFiniteSet(Places)
          /\ Cardinality(Places) = IF 1 > Len(ips) THEN 0 ELSE Len(ips) - 1 + 1
        BY <2>1, FS_Interval, Zenon
    <2>3. QED
        BY <1>1, <2>2
<1>3. IsFiniteSet(Kinds) /\ Cardinality(Kinds) = 3
    BY TripleCard
<1>4. IsFiniteSet(Own) /\ Cardinality(Own) = 2
    <2>1. <<"chargen", 0>> # <<"coordinator", 0>>
        OBVIOUS
    <2>2. QED
        BY <2>1, PairCard, Zenon
<1>5. IsFiniteSet(PerIP) /\ Cardinality(PerIP) = 3 * Len(ips)
    <2> HIDE DEF Kinds, Places
    <2>1. /\ IsFiniteSet(PerIP)
          /\ Cardinality(PerIP) = Cardinality(Kinds) * Cardinality(Places)
        BY <1>2, <1>3, FS_Product, Zenon
    <2>2. QED
        BY <1>2, <1>3, <2>1, Zenon
<1>6. Own \cap PerIP = {}
    OBVIOUS
<1>7. Cardinality(Own \cap PerIP) = 0
    BY <1>6, FS_EmptySet, Zenon
<1>8. IsFiniteSet(Own \cup PerIP) /\ Cardinality(Own \cup PerIP) = 2 + 3 * Len(ips)
    <2> HIDE DEF Own, PerIP
    <2>1. /\ IsFiniteSet(Own \cup PerIP)
          /\ Cardinality(Own \cup PerIP) =
                Cardinality(Own) + Cardinality(PerIP) - Cardinality(Own \cap PerIP)
        BY <1>4, <1>5, FS_Union, Zenon
    <2>2. QED
        BY <1>1, <1>4, <1>5, <1>7, <2>1
<1>9. Server = Own \cup PerIP
    BY Zenon DEF Server
<1>10. QED
    <2> HIDE DEF Own, PerIP
    <2>1. QED
        BY <1>1, <1>8, <1>9 DEF serverCount

\* The goroutines that have returned are finitely many, and one that has not
\* leaves room in the error channel.
LEMMA ReturnedCount ==
    ASSUME parseIPs(ipList) \in Seq(STRING)
    PROVE  /\ IsFiniteSet(Returned)
           /\ Cardinality(Returned) \in Nat
           /\ \A s \in Server : server[s] # "returned" => Cardinality(Returned) < serverCount
<1>1. Returned \in SUBSET Server
    BY DEF Returned
<1>2. IsFiniteSet(Server) /\ Cardinality(Server) = serverCount /\ serverCount \in Nat
    BY ServerCount
<1>3. /\ IsFiniteSet(Returned)
      /\ Cardinality(Returned) <= Cardinality(Server)
      /\ Cardinality(Server) = Cardinality(Returned) => Server = Returned
    BY <1>1, <1>2, FS_Subset, Zenon
<1>4. Cardinality(Returned) \in Nat
    BY <1>3, FS_CardinalityType, Zenon
<1>5. ASSUME NEW s \in Server, server[s] # "returned"
      PROVE  Server # Returned
    BY <1>5 DEF Returned
<1>6. QED
    BY <1>2, <1>3, <1>4, <1>5

\* Init establishes the invariant.
LEMMA InitLifecycle == Init => LifecycleInv
<1> SUFFICES ASSUME Init PROVE LifecycleInv
    OBVIOUS
<1>1. /\ parseIPs(ipList) \in Seq(STRING) /\ file \in Seq(ExperimentSpec)
      /\ "experiments" \notin given => file = <<>>
    BY ConfigsAssumption DEF Init
<1>2. TypeInv
    BY <1>1 DEF Init, TypeInv
<1>3. Loaded /\ LaunchedAfterLoading /\ FailuresHaveCause
    BY <1>1 DEF Init, Loaded, LaunchedAfterLoading, FailuresHaveCause
<1>4. ErrorsAreFromReturned
    BY <1>1, ReturnedCount DEF Init, ErrorsAreFromReturned
<1>5. QED
    BY <1>2, <1>3, <1>4 DEF LifecycleInv

\* What the configuration determines does not change.
LEMMA ConfigStep ==
    ASSUME UNCHANGED config
    PROVE  /\ UNCHANGED <<ipList, given, file, taken, faults>>
           /\ Server' = Server /\ serverCount' = serverCount /\ ips' = ips
           /\ ServerMayFail' = ServerMayFail /\ BuildMayFail' = BuildMayFail
<1>1. UNCHANGED <<ipList, given, file, taken, faults>>
    BY DEF config
<1>2. Server' = Server /\ serverCount' = serverCount /\ ips' = ips
    BY <1>1 DEF Server, serverCount, ips
<1>3. ServerMayFail' = ServerMayFail
    BY <1>1, <1>2, Zenon DEF ServerMayFail, BindMayFail, Addr
<1>4. BuildMayFail' = BuildMayFail
    BY <1>1, Zenon DEF BuildMayFail
<1>5. QED
    BY <1>1, <1>2, <1>3, <1>4

\* A spec that is read is appended to the repository with the status it asks for.
LEMMA LoadSpecStep == LifecycleInv /\ LoadSpec => LifecycleInv'
<1> SUFFICES ASSUME LifecycleInv, LoadSpec PROVE LifecycleInv'
    OBVIOUS
<1> DEFINE new == [name |-> file[next].name,
                   status |-> IF file[next].autoStart THEN "active" ELSE "stopped"]
           Repo == [name : STRING, status : {"active", "stopped"}]
<1>1. /\ UNCHANGED config /\ UNCHANGED <<opened, main, result, server, errCh>>
      /\ next' = next + 1 /\ experiments' = Append(experiments, new)
      /\ main = "loading" /\ next <= Len(file)
    BY DEF LoadSpec, existingByName
<1>2. TypeInv /\ Loaded /\ LaunchedAfterLoading /\ ErrorsAreFromReturned /\ FailuresHaveCause
    BY DEF LifecycleInv
<1>3. /\ file \in Seq(ExperimentSpec) /\ next \in Nat \ {0} /\ next \in 1 .. Len(file)
      /\ experiments \in Seq(Repo) /\ Len(experiments) = next - 1
    BY <1>1, <1>2 DEF TypeInv, Loaded
<1>4. file[next] \in ExperimentSpec
    BY <1>3, ElementOfSeq, Zenon
<1>5. new \in Repo /\ new.name = file[next].name
      /\ (new.status = "active" <=> file[next].autoStart)
    BY <1>4 DEF ExperimentSpec
<1>6. /\ experiments' \in Seq(Repo) /\ Len(experiments') = next
      /\ \A i \in 1 .. next - 1 : experiments'[i] = experiments[i]
      /\ experiments'[next] = new
    <2> HIDE DEF new, Repo
    <2>1. /\ Append(experiments, new) \in Seq(Repo)
          /\ Len(Append(experiments, new)) = Len(experiments) + 1
          /\ \A i \in 1 .. Len(experiments) : Append(experiments, new)[i] = experiments[i]
          /\ Append(experiments, new)[Len(experiments) + 1] = new
        <3>1. experiments \in Seq(Repo) /\ new \in Repo
            BY <1>3, <1>5
        <3>2. QED
            BY <3>1, AppendProperties
    <2>2. QED
        BY <1>1, <1>3, <2>1
<1>7. /\ Server' = Server /\ ServerMayFail' = ServerMayFail /\ BuildMayFail' = BuildMayFail
      /\ file' = file /\ given' = given /\ ipList' = ipList
    BY <1>1, ConfigStep
<1>8. TypeInv'
    BY <1>1, <1>2, <1>3, <1>6, <1>7 DEF TypeInv
<1>9. Loaded'
    <2>1. next' <= Len(file') + 1 /\ Len(experiments') = next' - 1
        BY <1>1, <1>3, <1>6, <1>7
    <2>2. ASSUME NEW i \in 1 .. next' - 1
          PROVE  /\ experiments'[i].name = file'[i].name
                 /\ experiments'[i].status = "active" <=> file'[i].autoStart
        <3> HIDE DEF new
        <3>1. i \in 1 .. next - 1 \/ i = next
            BY <1>1, <1>3
        <3>2. QED
            BY <1>2, <1>5, <1>6, <1>7, <3>1 DEF Loaded
    <2>3. QED
        BY <2>1, <2>2 DEF Loaded
<1>10. LaunchedAfterLoading' /\ FailuresHaveCause'
    BY <1>1, <1>2, <1>7 DEF LaunchedAfterLoading, FailuresHaveCause
<1>11. ErrorsAreFromReturned'
    <2>1. Returned' = Returned
        BY <1>1, <1>7 DEF Returned
    <2>2. QED
        BY <1>1, <1>2, <2>1 DEF ErrorsAreFromReturned
<1>12. QED
    BY <1>8, <1>9, <1>10, <1>11 DEF LifecycleInv

\* The other steps of NewApplication: they read and decide, and an error has its
\* cause in the files.
BuildStep ==
    OpenEvents \/ OpenFails \/ ReposReady \/ ReadFile \/ ReadFails \/ LoadFails
        \/ NewApplicationReturns

LEMMA BuildStepKeeps == LifecycleInv /\ BuildStep => LifecycleInv'
<1> SUFFICES ASSUME LifecycleInv, BuildStep PROVE LifecycleInv'
    OBVIOUS
<1>1. /\ UNCHANGED config /\ UNCHANGED <<experiments, next, server, errCh>>
      /\ main \in {"opening", "reading", "loading"}
      /\ main' \in {"opening", "reading", "loading", "built", "ended"}
    BY DEF BuildStep, OpenEvents, OpenFails, ReposReady, ReadFile, ReadFails, LoadFails,
        NewApplicationReturns, loadVars
<1>2. TypeInv /\ Loaded /\ LaunchedAfterLoading /\ ErrorsAreFromReturned /\ FailuresHaveCause
    BY DEF LifecycleInv
<1>3. /\ Server' = Server /\ ServerMayFail' = ServerMayFail /\ BuildMayFail' = BuildMayFail
      /\ file' = file /\ given' = given /\ ipList' = ipList
    BY <1>1, ConfigStep
<1>4. TypeInv' /\ Loaded'
    <2>1. opened' \in Nat /\ (main' = "reading" => "experiments" \in given)
        BY <1>2 DEF TypeInv, BuildStep, OpenEvents, OpenFails, ReposReady, ReadFile, ReadFails,
            LoadFails, NewApplicationReturns, loadVars
    <2>2. QED
        BY <1>1, <1>2, <1>3, <2>1 DEF TypeInv, Loaded
<1>5. main' = "built" => next > Len(file)
    <2>1. CASE ReposReady
        <3>1. main' = "built" => file = <<>>
            BY <1>2, <2>1 DEF ReposReady, TypeInv
        <3>2. QED
            BY <1>2, <3>1 DEF TypeInv
    <2>2. CASE NewApplicationReturns
        BY <2>2 DEF NewApplicationReturns
    <2>3. CASE ~ReposReady /\ ~NewApplicationReturns
        BY <1>1, <2>3 DEF BuildStep, OpenEvents, OpenFails, ReadFile, ReadFails, LoadFails
    <2>4. QED
        BY <2>1, <2>2, <2>3
<1>6. LaunchedAfterLoading'
    BY <1>1, <1>2, <1>3, <1>5 DEF LaunchedAfterLoading
<1>7. result' = result \/ BuildMayFail
    <2>1. CASE OpenFails
        BY <1>2, <2>1 DEF OpenFails, eventRepos, BuildMayFail, TypeInv
    <2>2. CASE ReadFails
        BY <1>2, <2>2 DEF ReadFails, BuildMayFail, TypeInv
    <2>3. CASE LoadFails
        <3>1. next \in DOMAIN file
            BY <1>2, <2>3 DEF TypeInv, LoadFails
        <3>2. QED
            BY <2>3, <3>1 DEF LoadFails, BuildMayFail
    <2>4. CASE OpenEvents \/ ReposReady \/ ReadFile \/ NewApplicationReturns
        BY <2>4 DEF OpenEvents, ReposReady, ReadFile, NewApplicationReturns
    <2>5. QED
        BY <2>1, <2>2, <2>3, <2>4 DEF BuildStep
<1>8. FailuresHaveCause'
    BY <1>1, <1>2, <1>3, <1>7 DEF FailuresHaveCause
<1>9. ErrorsAreFromReturned'
    <2>1. Returned' = Returned
        BY <1>1, <1>3 DEF Returned
    <2>2. QED
        BY <1>1, <1>2, <2>1 DEF ErrorsAreFromReturned
<1>10. QED
    BY <1>4, <1>6, <1>8, <1>9 DEF LifecycleInv

\* The steps of main after NewApplication: only Launch touches the servers, and
\* it finds that none of them has run yet.
LEMMA MainStepKeeps ==
    LifecycleInv /\ (Launch \/ ReceiveError \/ ReceiveDone \/ Signal) => LifecycleInv'
<1> SUFFICES ASSUME LifecycleInv, Launch \/ ReceiveError \/ ReceiveDone \/ Signal
             PROVE  LifecycleInv'
    OBVIOUS
<1>1. UNCHANGED config /\ UNCHANGED loadVars
    BY DEF Launch, ReceiveError, ReceiveDone, Signal
<1>2. TypeInv /\ Loaded /\ LaunchedAfterLoading /\ ErrorsAreFromReturned /\ FailuresHaveCause
    BY DEF LifecycleInv
<1>3. /\ Server' = Server /\ ServerMayFail' = ServerMayFail /\ BuildMayFail' = BuildMayFail
      /\ file' = file /\ given' = given /\ ipList' = ipList
      /\ experiments' = experiments /\ next' = next /\ opened' = opened
    BY <1>1, ConfigStep DEF loadVars
<1>4. TypeInv'
    BY <1>2, <1>3 DEF TypeInv, Launch, ReceiveError, ReceiveDone, Signal
<1>5. Loaded'
    BY <1>2, <1>3 DEF Loaded
<1>6. LaunchedAfterLoading'
    BY <1>2, <1>3 DEF LaunchedAfterLoading, TypeInv, Launch, ReceiveError, ReceiveDone, Signal
<1>7. FailuresHaveCause'
    <2>1. CASE Launch
        BY <1>2, <1>3, <2>1 DEF FailuresHaveCause, Launch
    <2>2. CASE ReceiveError
        BY <1>2, <1>3, <2>2 DEF FailuresHaveCause, ReceiveError, TypeInv
    <2>3. CASE ReceiveDone \/ Signal
        BY <1>2, <1>3, <2>3 DEF FailuresHaveCause, ReceiveDone, Signal
    <2>4. QED
        BY <2>1, <2>2, <2>3
<1>8. ErrorsAreFromReturned'
    <2>1. CASE Launch
        <3>1. Returned' = Returned
            BY <1>2, <1>3, <2>1 DEF Returned, Launch, LaunchedAfterLoading
        <3>2. QED
            BY <1>2, <2>1, <3>1 DEF ErrorsAreFromReturned, Launch
    <2>2. CASE ~Launch
        <3>1. server' = server /\ (errCh' = errCh \/ errCh' = errCh - 1)
            BY <2>2 DEF ReceiveError, ReceiveDone, Signal
        <3>2. Returned' = Returned
            BY <1>3, <3>1 DEF Returned
        <3>3. Cardinality(Returned) \in Nat
            BY <1>2, ReturnedCount DEF TypeInv
        <3>4. QED
            BY <1>2, <3>1, <3>2, <3>3 DEF ErrorsAreFromReturned, TypeInv
    <2>3. QED
        BY <2>1, <2>2
<1>9. QED
    BY <1>4, <1>5, <1>6, <1>7, <1>8 DEF LifecycleInv

\* A step of a server: it serves only after the whole file was read, it fails
\* only with a cause, and it leaves one error at most, when it returns.
LEMMA ServerStepKeeps ==
    ASSUME LifecycleInv, NEW s \in Server, ServerStep(s) \/ AcceptFails(s)
    PROVE  LifecycleInv'
<1>1. /\ UNCHANGED config /\ UNCHANGED loadVars /\ main = "waiting" /\ main' = main
      /\ result' = result
    BY DEF ServerStep, Bind, BindFails, SendError, ShutDown, AcceptFails
<1>2. TypeInv /\ Loaded /\ LaunchedAfterLoading /\ ErrorsAreFromReturned /\ FailuresHaveCause
    BY DEF LifecycleInv
<1>3. /\ Server' = Server /\ ServerMayFail' = ServerMayFail /\ BuildMayFail' = BuildMayFail
      /\ file' = file /\ given' = given /\ ipList' = ipList
      /\ experiments' = experiments /\ next' = next /\ opened' = opened
    BY <1>1, ConfigStep DEF loadVars
<1>4. PICK st \in {"serving", "failed", "returned"} : server' = [server EXCEPT ![s] = st]
    BY DEF ServerStep, Bind, BindFails, SendError, ShutDown, AcceptFails
<1>5. errCh' = errCh \/ (errCh' = errCh + 1 /\ SendError(s))
    BY DEF ServerStep, Bind, BindFails, SendError, ShutDown, AcceptFails
<1>6. TypeInv'
    BY <1>1, <1>2, <1>3, <1>4, <1>5 DEF TypeInv
<1>7. Loaded'
    BY <1>2, <1>3 DEF Loaded
<1>8. LaunchedAfterLoading'
    BY <1>1, <1>2, <1>3 DEF LaunchedAfterLoading
<1>9. FailuresHaveCause'
    <2>1. CASE BindFails(s)
        <3>1. ServerMayFail
            <4>1. CASE Addr(s) \in taken
                BY <4>1 DEF ServerMayFail, BindMayFail
            <4>2. CASE Addr(s) \in Bound
                <5>1. PICK t \in Server : server[t] = "serving" /\ Addr(t) = Addr(s)
                    BY <4>2 DEF Bound
                <5>2. s # t
                    BY <2>1, <5>1 DEF BindFails
                <5>3. QED
                    BY <5>1, <5>2 DEF ServerMayFail, BindMayFail
            <4>3. QED
                BY <2>1, <4>1, <4>2 DEF BindFails
        <3>2. QED
            BY <1>3, <3>1 DEF FailuresHaveCause
    <2>2. CASE SendError(s)
        <3>1. ServerMayFail
            BY <1>2, <2>2 DEF FailuresHaveCause, SendError
        <3>2. QED
            BY <1>3, <3>1 DEF FailuresHaveCause
    <2>3. CASE Bind(s) \/ ShutDown(s)
        <3>1. /\ errCh' = errCh
              /\ \A t \in Server : server'[t] = "failed" => server[t] = "failed"
            BY <1>2, <2>3 DEF Bind, ShutDown, TypeInv
        <3>2. QED
            BY <1>1, <1>2, <1>3, <3>1 DEF FailuresHaveCause
    <2>4. CASE AcceptFails(s)
        <3>1. ServerMayFail
            BY <2>4 DEF AcceptFails, ServerMayFail
        <3>2. QED
            BY <1>3, <3>1 DEF FailuresHaveCause
    <2>5. QED
        BY <2>1, <2>2, <2>3, <2>4 DEF ServerStep
<1>10. ErrorsAreFromReturned'
    <2>1. IsFiniteSet(Returned) /\ Cardinality(Returned) \in Nat
        BY <1>2, ReturnedCount DEF TypeInv
    <2>2. CASE st = "returned"
        <3>1. server[s] # "returned"
            BY DEF ServerStep, Bind, BindFails, SendError, ShutDown, AcceptFails
        <3>2. s \notin Returned /\ Returned' = Returned \cup {s}
            BY <1>2, <1>3, <1>4, <2>2, <3>1 DEF Returned, TypeInv
        <3>3. Cardinality(Returned') = Cardinality(Returned) + 1
            BY <2>1, <3>2, AddOne
        <3>4. QED
            BY <1>2, <1>5, <2>1, <3>3 DEF ErrorsAreFromReturned, TypeInv
    <2>3. CASE st # "returned"
        <3>1. ~SendError(s)
            BY <1>2, <1>4, <2>3 DEF SendError, TypeInv
        <3>2. server[s] # "returned"
            BY DEF ServerStep, Bind, BindFails, SendError, ShutDown, AcceptFails
        <3>3. Returned' = Returned
            BY <1>2, <1>3, <1>4, <2>3, <3>2 DEF Returned, TypeInv
        <3>4. QED
            BY <1>2, <1>5, <3>1, <3>3 DEF ErrorsAreFromReturned
    <2>4. QED
        BY <2>2, <2>3
<1>11. QED
    BY <1>6, <1>7, <1>8, <1>9, <1>10 DEF LifecycleInv

\* Every step keeps the invariant.
LEMMA LifecycleStep == LifecycleInv /\ [Next]_vars => LifecycleInv'
<1> SUFFICES ASSUME LifecycleInv, [Next]_vars PROVE LifecycleInv'
    OBVIOUS
<1>1. CASE MainStep \/ Signal
    BY <1>1, LoadSpecStep, BuildStepKeeps, MainStepKeeps DEF MainStep, BuildStep
<1>2. CASE \E s \in Server : ServerStep(s) \/ AcceptFails(s)
    BY <1>2, ServerStepKeeps
<1>3. CASE UNCHANGED vars
    <2>1. /\ UNCHANGED config /\ UNCHANGED loadVars
          /\ UNCHANGED <<main, result, server, errCh>>
        BY <1>3 DEF vars
    <2>2. /\ Server' = Server /\ ServerMayFail' = ServerMayFail /\ BuildMayFail' = BuildMayFail
          /\ file' = file /\ given' = given /\ ipList' = ipList
          /\ experiments' = experiments /\ next' = next /\ opened' = opened
        BY <2>1, ConfigStep DEF loadVars
    <2>3. Returned' = Returned
        BY <2>1, <2>2 DEF Returned
    <2>4. QED
        BY <2>1, <2>2, <2>3 DEF LifecycleInv, TypeInv, Loaded, LaunchedAfterLoading,
            ErrorsAreFromReturned, FailuresHaveCause
<1>4. QED
    BY <1>1, <1>2, <1>3 DEF Next

-----------------------------------------------------------------------------

\* Whatever servers there are and however many of them fail, the error channel
\* of Application.Start has room for the error of each: no goroutine blocks.
THEOREM SendersNeverBlock == Spec => []NoSenderBlocks
<1>1. LifecycleInv => NoSenderBlocks
    <2> SUFFICES ASSUME LifecycleInv, NEW s \in Server, server[s] = "failed"
                 PROVE  errCh < serverCount
        BY DEF NoSenderBlocks
    <2>1. /\ errCh \in Nat /\ errCh <= Cardinality(Returned)
          /\ parseIPs(ipList) \in Seq(STRING)
        BY DEF LifecycleInv, TypeInv, ErrorsAreFromReturned
    <2>2. Cardinality(Returned) \in Nat /\ Cardinality(Returned) < serverCount
        BY <2>1, ReturnedCount
    <2>3. serverCount \in Nat
        BY <2>1, ServerCount
    <2>4. QED
        BY <2>1, <2>2, <2>3
<1>2. QED
    BY <1>1, InitLifecycle, LifecycleStep, PTL DEF Spec

\* For every experiments file: whenever a server serves, the repository holds
\* the whole file in its order, the auto_start experiments active.
THEOREM FileIsWholeWhenServing == Spec => []ServedFileIsWhole
<1>1. LifecycleInv => ServedFileIsWhole
    <2> SUFFICES ASSUME LifecycleInv, \E s \in Server : server[s] = "serving"
                 PROVE  /\ Len(experiments) = Len(file)
                        /\ \A i \in DOMAIN file :
                              /\ experiments[i].name = file[i].name
                              /\ experiments[i].status = "active" <=> file[i].autoStart
        BY DEF ServedFileIsWhole
    <2>1. /\ file \in Seq(ExperimentSpec) /\ next \in Nat \ {0} /\ next = Len(file) + 1
        BY DEF LifecycleInv, TypeInv, Loaded, LaunchedAfterLoading
    <2>2. DOMAIN file = 1 .. next - 1 /\ Len(experiments) = next - 1
        BY <2>1 DEF LifecycleInv, Loaded
    <2>3. QED
        BY <2>1, <2>2 DEF LifecycleInv, Loaded
<1>2. QED
    BY <1>1, InitLifecycle, LifecycleStep, PTL DEF Spec

\* The process ends with an error only for a given file that cannot be opened,
\* read or parsed, a spec that validation refuses, an address that cannot be
\* bound or a listener that fails; closing the sockets on a signal is no error.
THEOREM ErrorsHaveCause == Spec => []ErrorHasCause
<1>1. LifecycleInv => ErrorHasCause
    BY Zenon DEF LifecycleInv, FailuresHaveCause, ServerMayFail, BindMayFail, BuildMayFail,
        ErrorHasCause
<1>2. QED
    BY <1>1, InitLifecycle, LifecycleStep, PTL DEF Spec
=============================================================================
