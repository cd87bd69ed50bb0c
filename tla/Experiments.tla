----------------------------- MODULE Experiments -----------------------------
(***************************************************************************)
(* The A/B experiment engine: the create, start/stop and assign-variant    *)
(* use cases of internal/usecases/experiment on the in-memory experiment   *)
(* and assignment repositories.                                            *)
(*                                                                         *)
(* Every repository method takes and releases its own lock, so each is one *)
(* step, and a use case is as many steps as it makes repository calls.     *)
(* UpdateStatus assigns exp.Status, a Go string of two machine words, to   *)
(* the shared object outside any lock: each word is a step of its own.     *)
(***************************************************************************)
EXTENDS Integers, Sequences, FiniteSetsExt, Functions

CONSTANTS
    ExpId,      \* experiment UUIDs
    VariantId,  \* variant UUIDs, ordered
    Creator,    \* goroutines serving POST /experiments
    Updater,    \* goroutines serving POST /experiments/{id}/start and /stop
    Probe,      \* packet goroutines
    Viewer,     \* goroutines serving GET /experiments/{id}
    Source,     \* source addresses
    Dest,       \* addresses of the honeypot
    Packet,     \* source and destination of the packets that may arrive
    Inputs,     \* CreateExperimentInput values clients send
    Scale,      \* weights and hashes are multiples of 1/Scale
    Epsilon,    \* weightEpsilon, in the same unit
    Hash,       \* FNV-1a of (experiment, source), scaled to [0, 1)
    None        \* nil

VARIABLES
    experiments,    \* id -> assignment mode, or None
    status,         \* id -> the two words of Experiment.Status
    variants,       \* id -> Variant, or None
    byExp,          \* experiment id -> its variant ids, in order of saving
    assignments,    \* the assignment log
    creating,       \* creating[c]: experiment and variants c has still to save
    updating,       \* updating[u]: experiment, new status, words to write
    probe,          \* probe[p]: where AssignVariant.Execute of p is
    viewing,        \* viewing[v]: the details v has collected so far
    served,         \* history: what probes were given (None: the default) by
                    \* experiments that are not in early
    early,          \* history: experiments that were active before all their
                    \* variants were saved
    wanted          \* history: what the last update of an experiment asked for,
                    \* and those that overlapped it

repoVars == <<experiments, variants, byExp>>
statusHistory == <<early, wanted>>
history == <<served, statusHistory>>
vars == <<repoVars, status, assignments, creating, updating, probe, viewing, history>>

VariantType == [id : VariantId, exp : ExpId, weight : Int, ips : SUBSET Dest]

CreateType == [exp : ExpId, todo : Seq(VariantType) \ {<<>>}]

UpdateType == [exp : ExpId, to : {"active", "stopped"}, words : SUBSET {"text", "length"}]

StatusType == [text : {"active", "stopped"}, length : {"active", "stopped"}]

AssignmentType == [src : Source, exp : ExpId, variant : VariantId]

ServedType == [src : Source, dst : Dest, exp : ExpId, variant : VariantId \cup {None}]

ProbeType ==
    [at : {"list", "find", "get", "save"}, src : Source, dst : Dest, exp : ExpId,
     list : Seq(VariantType), variant : VariantId \cup {None}]

VariantInput == [weight : Int, ips : SUBSET Dest, ntp : STRING, peers : Int]

ASSUME ConstantsAssumption ==
    /\ VariantId \subseteq Int
    /\ Scale \in Nat \ {0}
    /\ Packet \subseteq Source \X Dest
    /\ Hash \in [ExpId \X Source -> 0 .. Scale - 1]

ASSUME InputsAssumption ==
    \A input \in Inputs : input.variants \in Seq(VariantInput)

\* nil is none of the values it stands in for
ASSUME NoneAssumption ==
    /\ None \notin VariantId
    /\ None \notin {"source", "destination"}
    /\ None \notin VariantType
    /\ None \notin CreateType
    /\ None \notin UpdateType

-----------------------------------------------------------------------------
(* ExperimentService                                                       *)

Indices(list) == 1 .. Len(list)

TotalWeight(list) == MapThenSumSet(LAMBDA i : list[i].weight, Indices(list))

\* ValidateExperiment
Valid(input) ==
    LET vs == input.variants
    IN  /\ input.name # ""
        /\ Len(vs) >= 2
        /\ IF input.mode = "destination"
           THEN \A i \in Indices(vs) : vs[i].ips # {}
           ELSE /\ \A i \in Indices(vs) : vs[i].weight \in 0 .. Scale
                /\ TotalWeight(vs) \in Scale - Epsilon .. Scale + Epsilon
        /\ \A i \in Indices(vs) :
              \/ vs[i].ntp \in {"", "minimal"}
              \/ vs[i].ntp = "amplified" /\ vs[i].peers > 0

\* Weight of the variants up to and including the i-th, in order of their ids.
Cumulative(list, i) ==
    MapThenSumSet(LAMBDA j : list[j].weight,
                  { j \in Indices(list) : list[j].id <= list[i].id })

\* Mutant: no variant when rounding leaves the hash above the sum of weights.
AssignVariantNoFallback(e, s, list) ==
    LET hit == { i \in Indices(list) : Hash[e, s] < Cumulative(list, i) }
    IN  IF hit # {}
        THEN list[CHOOSE i \in hit : \A j \in hit : list[i].id <= list[j].id].id
        ELSE None

\* AssignVariant on a list that is not empty: the first variant, in order of
\* ids, whose cumulative weight exceeds the hash, otherwise the last one.
AssignVariant(e, s, list) ==
    LET hit == { i \in Indices(list) : Hash[e, s] < Cumulative(list, i) }
    IN  IF hit # {}
        THEN list[CHOOSE i \in hit : \A j \in hit : list[i].id <= list[j].id].id
        ELSE list[CHOOSE i \in Indices(list) :
                      \A j \in Indices(list) : list[j].id <= list[i].id].id

\* AssignVariantByDestination: the first variant that claims the address
AssignVariantByDestination(d, list) ==
    LET claim == { i \in Indices(list) : d \in list[i].ips }
    IN  IF claim = {} THEN None
        ELSE list[CHOOSE i \in claim : \A j \in claim : i <= j].id

-----------------------------------------------------------------------------
(* CreateExperiment                                                        *)

PendingIds == UNION { { creating[c].todo[i].id : i \in Indices(creating[c].todo) } :
                         c \in { d \in Creator : creating[d] # None } }

FreshVariantId == { v \in VariantId : variants[v] = None } \ PendingIds

NewVariant(e, id, in) == [id |-> id, exp |-> e, weight |-> in.weight, ips |-> in.ips]

\* Validation and the assignment of ids are local; SaveExperiment publishes the
\* experiment, stopped, before any of its variants.
CreateExperiment(c, input) ==
    /\ creating[c] = None
    /\ Valid(input)
    /\ \E e \in ExpId :
        /\ experiments[e] = None
        /\ \E ids \in [Indices(input.variants) -> FreshVariantId] :
            /\ \A i, j \in Indices(input.variants) : i # j => ids[i] # ids[j]
            /\ experiments' = [experiments EXCEPT ![e] =
                   IF input.mode = "destination" THEN "destination" ELSE "source"]
            /\ status' = [status EXCEPT ![e] = [text |-> "stopped", length |-> "stopped"]]
            /\ wanted' = [wanted EXCEPT ![e] = {"stopped"}]
            /\ creating' = [creating EXCEPT ![c] =
                   [exp |-> e,
                    todo |-> [i \in Indices(input.variants) |->
                                  NewVariant(e, ids[i], input.variants[i])]]]
    /\ UNCHANGED <<variants, byExp, assignments, updating, probe, served, early>>

\* the loop over SaveVariant; the request ends with the last one
SaveVariant(c) ==
    /\ creating[c] # None
    /\ LET v == Head(creating[c].todo)
           rest == Tail(creating[c].todo)
       IN  /\ byExp' = IF variants[v.id] = None
                       THEN [byExp EXCEPT ![v.exp] = Append(@, v.id)]
                       ELSE byExp
           /\ variants' = [variants EXCEPT ![v.id] = v]
           /\ creating' = [creating EXCEPT ![c] =
                              IF rest = <<>> THEN None
                              ELSE [exp |-> creating[c].exp, todo |-> rest]]
    /\ UNCHANGED <<experiments, status, assignments, updating, probe, history>>

BeingCreated(e) == \E c \in Creator : creating[c] # None /\ creating[c].exp = e

-----------------------------------------------------------------------------
(* UpdateStatus                                                            *)

\* ListExperiments: an experiment is listed as soon as it is published, and from
\* then on clients know its id
Published == { e \in ExpId : experiments[e] # None }

Updating(e) == { u \in Updater : updating[u] # None /\ updating[u].exp = e }

GetExperiment(u, e, to) ==
    /\ updating[u] = None
    /\ e \in Published
    /\ updating' = [updating EXCEPT ![u] =
                       [exp |-> e, to |-> to, words |-> {"text", "length"}]]
    /\ wanted' = [wanted EXCEPT ![e] = IF Updating(e) = {} THEN {to} ELSE @ \cup {to}]
    /\ UNCHANGED <<repoVars, status, assignments, creating, probe, served, early>>

IsActive(st) == st.text = "active" /\ st.length = "active"

\* Mutant: the repository returned a copy, and the update is lost.
WriteStatusOfCopy(u, word) ==
    /\ updating[u] # None
    /\ word \in updating[u].words
    /\ updating' = [updating EXCEPT ![u].words = @ \ {word}]
    /\ UNCHANGED <<repoVars, status, assignments, creating, probe, history>>

\* exp.Status = status, one word of the string at a time
WriteStatus(u, word) ==
    /\ updating[u] # None
    /\ word \in updating[u].words
    /\ LET e == updating[u].exp
       IN  /\ status' = [status EXCEPT ![e] = [@ EXCEPT ![word] = updating[u].to]]
           /\ early' = IF IsActive(status'[e]) /\ BeingCreated(e)
                       THEN early \cup {e} ELSE early
    /\ updating' = [updating EXCEPT ![u].words = @ \ {word}]
    /\ UNCHANGED <<repoVars, assignments, creating, probe, served, wanted>>

\* stores the pointer that is already in the map
UpdateExperiment(u) ==
    /\ updating[u] # None
    /\ updating[u].words = {}
    /\ updating' = [updating EXCEPT ![u] = None]
    /\ UNCHANGED <<repoVars, status, assignments, creating, probe, history>>

-----------------------------------------------------------------------------
(* AssignVariant.Execute                                                   *)

ActiveExperiments == { e \in ExpId : experiments[e] # None /\ IsActive(status[e]) }

\* the use case returns variant v, None standing for any of its errors
Finish(p, v) ==
    /\ probe' = [probe EXCEPT ![p] = None]
    /\ served' = IF probe[p].exp \in early THEN served
                 ELSE served \cup {[src |-> probe[p].src, dst |-> probe[p].dst,
                                    exp |-> probe[p].exp, variant |-> v]}

\* FindActiveExperiment ranges over a map: any active experiment may be found
FindActiveExperiment(p, s, d) ==
    /\ probe[p] = None
    /\ \E e \in ActiveExperiments :
          probe' = [probe EXCEPT ![p] =
                       [at |-> "list", src |-> s, dst |-> d, exp |-> e,
                        list |-> <<>>, variant |-> None]]
    /\ UNCHANGED <<repoVars, status, assignments, creating, updating, history>>

NoActiveExperiment(p) ==
    /\ probe[p] = None
    /\ ActiveExperiments = {}
    /\ UNCHANGED <<repoVars, status, assignments, creating, updating, probe, history>>

VariantsOf(e) == [i \in Indices(byExp[e]) |-> variants[byExp[e][i]]]

\* Mutant: the probe lists the variants of all experiments.
ListVariantsOfAll(p) ==
    /\ probe[p] # None
    /\ probe[p].at = "list"
    /\ experiments[probe[p].exp] # "destination"
    /\ \E e \in ExpId :
          probe' = [probe EXCEPT ![p].at = "find", ![p].list = VariantsOf(e)]
    /\ UNCHANGED <<repoVars, status, assignments, creating, updating, history>>

\* Mutant: variants are listed in the order of a Go map.
ListVariantsAnyOrder(p) ==
    /\ probe[p] # None
    /\ probe[p].at = "list"
    /\ experiments[probe[p].exp] = "destination"
    /\ \E i \in Indices(byExp[probe[p].exp]) :
          LET v == variants[byExp[probe[p].exp][i]]
          IN  probe[p].dst \in v.ips /\ Finish(p, v.id)
    /\ UNCHANGED <<repoVars, status, assignments, creating, updating, statusHistory>>

\* ListVariants, then in destination mode the answer
ListVariantsByDestination(p) ==
    /\ probe[p] # None
    /\ probe[p].at = "list"
    /\ experiments[probe[p].exp] = "destination"
    /\ Finish(p, AssignVariantByDestination(probe[p].dst, VariantsOf(probe[p].exp)))
    /\ UNCHANGED <<repoVars, status, assignments, creating, updating, statusHistory>>

ListVariants(p) ==
    /\ probe[p] # None
    /\ probe[p].at = "list"
    /\ experiments[probe[p].exp] # "destination"
    /\ probe' = [probe EXCEPT ![p].at = "find", ![p].list = VariantsOf(probe[p].exp)]
    /\ UNCHANGED <<repoVars, status, assignments, creating, updating, history>>

Matching(s, e) ==
    { i \in 1 .. Len(assignments) : assignments[i].src = s /\ assignments[i].exp = e }

\* the first match in the log
FindBySourceAndExperiment(s, e) ==
    assignments[CHOOSE i \in Matching(s, e) : \A j \in Matching(s, e) : i <= j]

FindAssignment(p) ==
    /\ probe[p] # None
    /\ probe[p].at = "find"
    /\ Matching(probe[p].src, probe[p].exp) # {}
    /\ probe' = [probe EXCEPT ![p].at = "get",
            ![p].variant = FindBySourceAndExperiment(probe[p].src, probe[p].exp).variant]
    /\ UNCHANGED <<repoVars, status, assignments, creating, updating, history>>

GetVariant(p) ==
    /\ probe[p] # None
    /\ probe[p].at = "get"
    /\ Finish(p, IF variants[probe[p].variant] = None THEN None ELSE probe[p].variant)
    /\ UNCHANGED <<repoVars, status, assignments, creating, updating, statusHistory>>

\* first contact: pick from the variants that were listed
PickVariant(p) ==
    /\ probe[p] # None
    /\ probe[p].at = "find"
    /\ Matching(probe[p].src, probe[p].exp) = {}
    /\ probe[p].list # <<>>
    /\ probe' = [probe EXCEPT ![p].at = "save",
            ![p].variant = AssignVariant(probe[p].exp, probe[p].src, probe[p].list)]
    /\ UNCHANGED <<repoVars, status, assignments, creating, updating, history>>

NoVariants(p) ==
    /\ probe[p] # None
    /\ probe[p].at = "find"
    /\ Matching(probe[p].src, probe[p].exp) = {}
    /\ probe[p].list = <<>>
    /\ Finish(p, None)
    /\ UNCHANGED <<repoVars, status, assignments, creating, updating, statusHistory>>

\* Mutant: the variant is given out before its assignment is in the log.
SaveAssignmentLater(p) ==
    /\ probe[p] # None
    /\ probe[p].at = "save"
    /\ Finish(p, probe[p].variant)
    /\ UNCHANGED <<repoVars, status, assignments, creating, updating, statusHistory>>

SaveAssignment(p) ==
    /\ probe[p] # None
    /\ probe[p].at = "save"
    /\ assignments' = Append(assignments, [src |-> probe[p].src, exp |-> probe[p].exp,
                                           variant |-> probe[p].variant])
    /\ Finish(p, probe[p].variant)
    /\ UNCHANGED <<repoVars, status, creating, updating, statusHistory>>

-----------------------------------------------------------------------------
(* GetExperiment, the details of GET /experiments/{id}                     *)

View(v, at) == viewing[v] # None /\ viewing[v].at = at

ServedSources(e) == { a.src : a \in { b \in served : b.exp = e /\ b.variant # None } }

\* the first of three repository calls; before is a history of what was served
GetDetails(v, e) ==
    /\ viewing[v] = None
    /\ e \in Published
    /\ viewing' = [viewing EXCEPT ![v] =
                      [at |-> "variants", exp |-> e, before |-> Cardinality(ServedSources(e)),
                       list |-> {}, perVariant |-> <<>>]]

GetVariants(v) ==
    /\ View(v, "variants")
    /\ viewing' = [viewing EXCEPT ![v].at = "assignments",
                                  ![v].list = Range(byExp[viewing[v].exp])]

PerVariant(e) ==
    LET log == { i \in 1 .. Len(assignments) : assignments[i].exp = e }
    IN  [id \in { assignments[i].variant : i \in log } |->
            Cardinality({ i \in log : assignments[i].variant = id })]

ListByExperiment(v) ==
    /\ View(v, "assignments")
    /\ viewing' = [viewing EXCEPT ![v].at = "answer",
                                  ![v].perVariant = PerVariant(viewing[v].exp)]

WriteDetails(v) ==
    /\ View(v, "answer")
    /\ viewing' = [viewing EXCEPT ![v] = None]

-----------------------------------------------------------------------------

Init ==
    /\ experiments = [e \in ExpId |-> None]
    /\ status = [e \in ExpId |-> [text |-> "stopped", length |-> "stopped"]]
    /\ variants = [v \in VariantId |-> None]
    /\ byExp = [e \in ExpId |-> <<>>]
    /\ assignments = <<>>
    /\ creating = [c \in Creator |-> None]
    /\ updating = [u \in Updater |-> None]
    /\ probe = [p \in Probe |-> None]
    /\ viewing = [v \in Viewer |-> None]
    /\ served = {}
    /\ early = {}
    /\ wanted = [e \in ExpId |-> {}]

CreateStep(c) == SaveVariant(c) \/ \E input \in Inputs : CreateExperiment(c, input)

UpdateStep(u) ==
    \/ \E e \in ExpId, to \in {"active", "stopped"} : GetExperiment(u, e, to)
    \/ \E word \in {"text", "length"} : WriteStatus(u, word)
    \/ UpdateExperiment(u)

ProbeStep(p) ==
    \/ \E packet \in Packet : FindActiveExperiment(p, packet[1], packet[2])
    \/ NoActiveExperiment(p)
    \/ ListVariantsByDestination(p)
    \/ ListVariants(p)
    \/ FindAssignment(p)
    \/ GetVariant(p)
    \/ PickVariant(p)
    \/ NoVariants(p)
    \/ SaveAssignment(p)

ViewStep(v) ==
    \/ \E e \in ExpId : GetDetails(v, e)
    \/ GetVariants(v)
    \/ ListByExperiment(v)
    \/ WriteDetails(v)

Next ==
    \/ /\ \/ \E c \in Creator : CreateStep(c)
          \/ \E u \in Updater : UpdateStep(u)
          \/ \E p \in Probe : ProbeStep(p)
       /\ UNCHANGED viewing
    \/ /\ \E v \in Viewer : ViewStep(v)
       /\ UNCHANGED <<repoVars, status, assignments, creating, updating, probe, history>>

Spec == Init /\ [][Next]_vars

-----------------------------------------------------------------------------
(* Properties                                                              *)

\* The type of every variable; a variant is stored under its own id.
TypeOK ==
    /\ experiments \in [ExpId -> {"source", "destination", None}]
    /\ status \in [ExpId -> StatusType]
    /\ variants \in [VariantId -> VariantType \cup {None}]
    /\ \A v \in VariantId : variants[v] # None => variants[v].id = v
    /\ byExp \in [ExpId -> Seq(VariantId)]
    /\ assignments \in Seq(AssignmentType)
    /\ creating \in [Creator -> CreateType \cup {None}]
    /\ updating \in [Updater -> UpdateType \cup {None}]
    /\ probe \in [Probe -> ProbeType \cup {None}]
    /\ served \subseteq ServedType
    /\ early \subseteq ExpId
    /\ wanted \in [ExpId -> SUBSET {"active", "stopped"}]
    /\ \A v \in Viewer : viewing[v] # None =>
          /\ viewing[v].at \in {"variants", "assignments", "answer"}
          /\ viewing[v].exp \in ExpId
          /\ viewing[v].list \subseteq VariantId

\* A probe that has read the log of assignments while experiments were being
\* created, started and stopped around it never follows an assignment to a
\* variant that does not exist or that belongs to another experiment.
AssignmentsRefer ==
    \A i \in 1 .. Len(assignments) :
        LET a == assignments[i]
        IN  variants[a.variant] # None /\ variants[a.variant].exp = a.exp

\* All probes of one source (in destination mode: to one address) are given the
\* same variant of an experiment, although two first probes may race and both
\* save an assignment, and for a source it is the variant that the assignment
\* log names first, so that later probes and the log agree with what was sent;
\* provided the experiment was not started before its creation finished.
StickyVariant ==
    \A a \in served :
        IF experiments[a.exp] = "destination"
        THEN \A b \in served : b.exp = a.exp /\ b.dst = a.dst => b.variant = a.variant
        ELSE /\ Matching(a.src, a.exp) # {}
             /\ FindBySourceAndExperiment(a.src, a.exp).variant = a.variant

\* When no start or stop of an experiment is under way and the last ones did not
\* contradict each other, its status is the one they asked for, both words of
\* it, however the writes and the reads of probes interleaved.
StatusIsAsAsked ==
    \A e \in Published : Updating(e) = {} =>
        \A to \in wanted[e] :
            wanted[e] = {to} => status[e] = [text |-> to, length |-> to]

\* The details of a source-mode experiment, collected in three steps while
\* probes go on, count every source that was served before the request, and
\* count assignments only to variants of this experiment.
DetailsCoverServed ==
    \A v \in Viewer :
        View(v, "answer") /\ experiments[viewing[v].exp] = "source" =>
            LET counts == viewing[v].perVariant
            IN  /\ viewing[v].before <=
                       MapThenSumSet(LAMBDA id : counts[id], DOMAIN counts)
                /\ \A id \in DOMAIN counts :
                       variants[id] # None /\ variants[id].exp = viewing[v].exp

\* A probe that found a source-mode experiment whose creation had finished
\* leaves with one of its variants, never with the default configuration.
CompleteExperimentServes ==
    \A a \in served :
        experiments[a.exp] = "source" =>
            /\ a.variant # None
            /\ variants[a.variant].exp = a.exp
=============================================================================
