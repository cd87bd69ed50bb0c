-------------------------- MODULE EventStoreProofs --------------------------
(***************************************************************************)
(* Proofs about EventStore, for any number of writers and readers and for  *)
(* any sequence of saves, short writes and restarts: a List that does not  *)
(* fail is complete, only a short write makes it fail, and the answers     *)
(* computed from a list are right for that list.  At the end, what the     *)
(* dashboard, which asks for these answers, makes of them on its page.     *)
(***************************************************************************)
EXTENDS EventStore, Dashboard, FiniteSetTheorems, SequenceTheorems, TLAPS

TypeInv ==
    /\ backend \in {"memory", "file"}
    /\ clock \in Nat
    /\ pending \in [Writer -> Event \cup {None}]
    /\ mem \in [Proto -> Seq(Event)]
    /\ lines \in Seq(Event \cup {Garbage})
    /\ tail \in Event \cup {Garbage, None}
    /\ acked \subseteq Event
    /\ IsFiniteSet(acked)
    /\ shorts \in Nat
    /\ restarts \in Nat

\* in memory: until the first restart the lists hold every event that was saved
MemoryKeeps ==
    backend = "memory" /\ restarts = 0 =>
        \A e \in acked : \E i \in DOMAIN mem[e.proto] : mem[e.proto][i] = e

\* events whose Save succeeded and that are no line of the file
Missing == { e \in acked : \A i \in DOMAIN lines : lines[i] # e }

\* in the file: only a short write leaves a piece of a line or a spoilt line, and
\* an event is missing only where a line was spoilt
Spoilt == \E i \in DOMAIN lines : lines[i] = Garbage

Confined ==
    backend = "file" =>
        /\ tail # None \/ Spoilt => shorts > 0
        /\ Missing # {} => Spoilt

\* a time stamp that was given out is never given out again
Stamped ==
    /\ \A w \in Writer : pending[w] # None => pending[w].time <= clock
    /\ \A q \in Proto : \A i \in DOMAIN mem[q] : mem[q][i].time <= clock
    /\ \A i \in DOMAIN lines : lines[i].time <= clock
    /\ tail # None => tail.time <= clock

\* the event of a writer is not stored yet
Fresh ==
    \A w \in Writer : pending[w] # None =>
        /\ \A v \in Writer \ {w} : pending[v] # None => pending[v].time # pending[w].time
        /\ \A q \in Proto : \A i \in DOMAIN mem[q] : mem[q][i].time # pending[w].time
        /\ \A i \in DOMAIN lines : lines[i].time # pending[w].time
        /\ tail # None => tail.time # pending[w].time

\* an event is stored once
Once ==
    /\ \A q \in Proto : \A i, j \in DOMAIN mem[q] : mem[q][i].time = mem[q][j].time => i = j
    /\ \A i, j \in DOMAIN lines :
          lines[i].time = lines[j].time => i = j \/ lines[i] = Garbage
    /\ tail # None /\ tail # Garbage => \A i \in DOMAIN lines : lines[i].time # tail.time

\* what a reader remembers and what it answered
ReaderInv ==
    /\ reader = [r \in Reader |-> reader[r]]
    /\ response = [r \in Reader |-> response[r]]
    /\ \A r \in Reader :
          reader[r] # None /\ reader[r].doing = "series" => reader[r].now \in Nat

StoreInv == TypeInv /\ MemoryKeeps /\ Confined /\ Stamped /\ Fresh /\ Once

-----------------------------------------------------------------------------
(* The repositories                                                        *)

\* The elements of a list to which one is appended.
LEMMA AppendElements ==
    ASSUME NEW S, NEW s \in Seq(S), NEW x \in S
    PROVE  /\ Append(s, x) \in Seq(S)
           /\ DOMAIN s = 1 .. Len(s) /\ Len(s) \in Nat
           /\ DOMAIN Append(s, x) = DOMAIN s \cup {Len(s) + 1}
           /\ Len(s) + 1 \notin DOMAIN s
           /\ \A i \in DOMAIN s : Append(s, x)[i] = s[i] /\ s[i] \in S
           /\ Append(s, x)[Len(s) + 1] = x
<1>1. /\ Append(s, x) \in Seq(S) /\ Len(Append(s, x)) = Len(s) + 1
      /\ \A i \in 1 .. Len(s) : Append(s, x)[i] = s[i]
      /\ Append(s, x)[Len(s) + 1] = x
    BY AppendProperties
<1>2. /\ Len(s) \in Nat /\ DOMAIN s = 1 .. Len(s) /\ \A i \in 1 .. Len(s) : s[i] \in S
    BY LenProperties, ElementOfSeq
<1>3. DOMAIN Append(s, x) = 1 .. Len(s) + 1
    BY <1>1, LenProperties
<1>4. QED
    BY <1>1, <1>2, <1>3

\* The fields of an event and of a line that does not parse.
LEMMA EventFields ==
    /\ \A e \in Event : e.proto \in Proto /\ e.time \in Nat /\ e.time # 0 /\ e # Garbage /\ e # None
    /\ Garbage.time = 0
    /\ Garbage # None
    BY NoneAssumption DEF Event, Garbage

\* An empty store.
LEMMA InitStore == Init => StoreInv
<1> SUFFICES ASSUME Init PROVE StoreInv
    OBVIOUS
<1>1. TypeInv
    BY ConstantsAssumption, FS_EmptySet, EmptySeq DEF Init, TypeInv
<1>2. Missing = {}
    BY DEF Init, Missing
<1>3. Confined
    BY <1>2, EmptySeq DEF Init, Confined, Spoilt
<1>4. QED
    BY <1>1, <1>3, EmptySeq
        DEF Init, StoreInv, MemoryKeeps, Stamped, Fresh, Once

\* A new event has a time stamp of its own.
LEMMA NewEventStep ==
    ASSUME StoreInv, NEW w \in Writer, NEW q \in Proto, NewEvent(w, q)
    PROVE  StoreInv'
<1>1. TypeInv /\ MemoryKeeps /\ Confined /\ Stamped /\ Fresh /\ Once
    BY DEF StoreInv
<1> DEFINE e == [proto |-> q, time |-> clock + 1]
<1>2. /\ clock' = clock + 1 /\ pending' = [pending EXCEPT ![w] = e]
      /\ UNCHANGED <<backend, mem, lines, tail, acked, shorts, restarts>>
    BY DEF NewEvent, fileVars
<1>3. clock \in Nat /\ e \in Event /\ e.time = clock + 1
    BY <1>1 DEF TypeInv, Event
<1> HIDE DEF e
<1>4. \A v \in Writer : pending'[v] = IF v = w THEN e ELSE pending[v]
    BY <1>1, <1>2 DEF TypeInv
<1>5. TypeInv'
    BY <1>1, <1>2, <1>3 DEF TypeInv
<1>6. /\ \A v \in Writer : pending[v] # None => pending[v].time \in Nat
      /\ \A p \in Proto : \A i \in DOMAIN mem[p] : mem[p][i].time \in Nat
      /\ \A i \in DOMAIN lines : lines[i].time \in Nat
      /\ tail # None => tail.time \in Nat
    <2>1. \A p \in Proto : \A i \in DOMAIN mem[p] : mem[p][i] \in Event
        BY <1>1 DEF TypeInv
    <2>2. \A i \in DOMAIN lines : lines[i] \in Event \cup {Garbage}
        BY <1>1 DEF TypeInv
    <2>3. QED
        BY <1>1, <2>1, <2>2, EventFields DEF TypeInv
<1>7. Stamped'
    BY <1>1, <1>2, <1>3, <1>4, <1>6 DEF Stamped
<1>8. Fresh'
    BY <1>1, <1>2, <1>3, <1>4, <1>6 DEF Stamped, Fresh
<1>9. MemoryKeeps' /\ Confined' /\ Once'
    BY <1>1, <1>2 DEF MemoryKeeps, Confined, Once, Missing, Spoilt
<1>10. QED
    BY <1>5, <1>7, <1>8, <1>9 DEF StoreInv

\* Save in memory.
LEMMA SaveMemoryStep ==
    ASSUME StoreInv, NEW w \in Writer, SaveMemory(w)
    PROVE  StoreInv'
<1>1. TypeInv /\ MemoryKeeps /\ Confined /\ Stamped /\ Fresh /\ Once
    BY DEF StoreInv
<1>2. PICK e \in Event : e = pending[w]
    BY <1>1 DEF SaveMemory, TypeInv
<1>3. PICK p \in Proto : p = e.proto
    BY EventFields
<1>4. /\ backend = "memory" /\ pending[w] # None
      /\ mem' = [mem EXCEPT ![p] = Append(mem[p], e)]
      /\ acked' = acked \cup {e}
      /\ pending' = [pending EXCEPT ![w] = None]
      /\ UNCHANGED <<backend, clock, lines, tail, shorts, restarts>>
    BY <1>2, <1>3 DEF SaveMemory, fileVars
<1>5. mem[p] \in Seq(Event)
    BY <1>1 DEF TypeInv
<1>6. /\ Append(mem[p], e) \in Seq(Event)
      /\ DOMAIN Append(mem[p], e) = DOMAIN mem[p] \cup {Len(mem[p]) + 1}
      /\ \A i \in DOMAIN mem[p] : Append(mem[p], e)[i] = mem[p][i]
      /\ Append(mem[p], e)[Len(mem[p]) + 1] = e
    BY <1>5, AppendElements
<1>7. PICK n : n = Len(mem[p]) + 1
    OBVIOUS
<1>8. /\ mem' \in [Proto -> Seq(Event)]
      /\ DOMAIN mem'[p] = DOMAIN mem[p] \cup {n} /\ mem'[p][n] = e
      /\ \A i \in DOMAIN mem[p] : mem'[p][i] = mem[p][i]
      /\ \A q \in Proto : q # p => mem'[q] = mem[q]
    BY <1>1, <1>4, <1>6, <1>7 DEF TypeInv
<1>9. \A v \in Writer : pending'[v] = IF v = w THEN None ELSE pending[v]
    BY <1>1, <1>4 DEF TypeInv
<1>10. TypeInv'
    <2>1. IsFiniteSet(acked')
        BY <1>1, <1>4, FS_AddElement DEF TypeInv
    <2>2. QED
        BY <1>1, <1>4, <1>8, <2>1 DEF TypeInv
<1>11. MemoryKeeps'
    <2>1. SUFFICES ASSUME restarts = 0, NEW f \in acked'
                   PROVE  \E i \in DOMAIN mem'[f.proto] : mem'[f.proto][i] = f
        BY <1>4 DEF MemoryKeeps
    <2>2. CASE f = e
        BY <1>3, <1>8, <2>2
    <2>3. CASE f \in acked
        <3>1. f.proto \in Proto
            BY <1>1, <2>3, EventFields DEF TypeInv
        <3>2. PICK i \in DOMAIN mem[f.proto] : mem[f.proto][i] = f
            BY <1>1, <1>4, <2>1, <2>3 DEF MemoryKeeps
        <3>3. QED
            BY <1>8, <3>1, <3>2
    <2>4. QED
        BY <1>4, <2>2, <2>3
<1>12. Confined'
    BY <1>4 DEF Confined
<1>13. e.time <= clock
    BY <1>1, <1>2, <1>4 DEF Stamped
<1>14. Stamped'
    <2>1. \A q \in Proto : \A i \in DOMAIN mem'[q] : mem'[q][i].time <= clock
        BY <1>1, <1>8, <1>13 DEF Stamped
    <2>2. QED
        BY <1>1, <1>4, <1>9, <2>1 DEF Stamped
<1>15. \A v \in Writer : v # w /\ pending[v] # None => e.time # pending[v].time
    BY <1>1, <1>2, <1>4 DEF Fresh
<1>16. Fresh'
    <2>1. SUFFICES ASSUME NEW v \in Writer, pending'[v] # None
                   PROVE  /\ \A u \in Writer \ {v} : pending'[u] # None =>
                                pending'[u].time # pending'[v].time
                          /\ \A q \in Proto : \A i \in DOMAIN mem'[q] :
                                mem'[q][i].time # pending'[v].time
                          /\ \A i \in DOMAIN lines' : lines'[i].time # pending'[v].time
                          /\ tail' # None => tail'.time # pending'[v].time
        BY DEF Fresh
    <2>2. v # w /\ pending'[v] = pending[v] /\ pending[v] # None
        BY <1>9, <2>1
    <2>3. \A q \in Proto : \A i \in DOMAIN mem'[q] : mem'[q][i].time # pending'[v].time
        BY <1>1, <1>8, <1>15, <2>2 DEF Fresh
    <2>4. QED
        BY <1>1, <1>4, <1>9, <2>2, <2>3 DEF Fresh
<1>17. Once'
    <2>1. \A q \in Proto : \A i, j \in DOMAIN mem'[q] :
              mem'[q][i].time = mem'[q][j].time => i = j
        <3>1. \A i \in DOMAIN mem[p] : mem[p][i].time # e.time
            BY <1>1, <1>2, <1>4 DEF Fresh
        <3>2. QED
            BY <1>1, <1>8, <3>1 DEF Once
    <2>2. QED
        BY <1>1, <1>4, <2>1 DEF Once
<1>18. QED
    BY <1>10, <1>11, <1>12, <1>14, <1>16, <1>17 DEF StoreInv

\* Save in the file: the line is whole unless a short write came before.
LEMMA SaveLineStep ==
    ASSUME StoreInv, NEW w \in Writer, SaveLine(w)
    PROVE  StoreInv'
<1>1. TypeInv /\ MemoryKeeps /\ Confined /\ Stamped /\ Fresh /\ Once
    BY DEF StoreInv
<1>2. PICK e \in Event : e = pending[w]
    BY <1>1 DEF SaveLine, TypeInv
<1>3. PICK x \in Event \cup {Garbage} : x = IF tail = None THEN e ELSE Garbage
    OBVIOUS
<1>4. /\ backend = "file" /\ pending[w] # None
      /\ lines' = Append(lines, x) /\ tail' = None
      /\ acked' = acked \cup {e}
      /\ pending' = [pending EXCEPT ![w] = None]
      /\ UNCHANGED <<backend, clock, mem, shorts, restarts>>
    BY <1>2, <1>3 DEF SaveLine
<1>5. lines \in Seq(Event \cup {Garbage})
    BY <1>1 DEF TypeInv
<1>6. PICK n : n = Len(lines) + 1
    OBVIOUS
<1>7. /\ lines' \in Seq(Event \cup {Garbage})
      /\ DOMAIN lines' = DOMAIN lines \cup {n} /\ lines'[n] = x
      /\ \A i \in DOMAIN lines : lines'[i] = lines[i] /\ lines[i] \in Event \cup {Garbage}
    BY <1>4, <1>5, <1>6, AppendElements
<1>8. \A v \in Writer : pending'[v] = IF v = w THEN None ELSE pending[v]
    BY <1>1, <1>4 DEF TypeInv
<1>9. IsFiniteSet(acked) /\ IsFiniteSet(acked')
    BY <1>1, <1>4, FS_AddElement DEF TypeInv
<1>10. TypeInv'
    BY <1>1, <1>4, <1>7, <1>9 DEF TypeInv
<1>11. Confined'
    <2>1. Spoilt => Spoilt'
        BY <1>7 DEF Spoilt
    <2>2. CASE tail = None
        <3>1. Missing' \in SUBSET Missing
            BY <1>3, <1>4, <1>7, <2>2 DEF Missing
        <3>2. Spoilt' => Spoilt
            BY <1>3, <1>7, <2>2, EventFields DEF Spoilt
        <3>3. QED
            BY <1>1, <1>4, <2>1, <3>1, <3>2 DEF Confined
    <2>3. CASE tail # None
        <3>1. Spoilt'
            BY <1>3, <1>7, <2>3 DEF Spoilt
        <3>2. shorts > 0
            BY <1>1, <1>4, <2>3 DEF Confined
        <3>3. QED
            BY <1>4, <3>1, <3>2 DEF Confined
    <2>4. QED
        BY <2>2, <2>3
<1>12. /\ clock \in Nat /\ x.time <= clock
       /\ \A v \in Writer : v # w /\ pending[v] # None => x.time # pending[v].time
       /\ \A i \in DOMAIN lines : lines[i].time = x.time => lines[i] = Garbage /\ x = Garbage
    <2>1. clock \in Nat
        BY <1>1 DEF TypeInv
    <2>2. CASE tail = None
        BY <1>1, <1>2, <1>3, <1>4, <2>1, <2>2 DEF Stamped, Fresh
    <2>3. CASE tail # None
        <3>1. x = Garbage /\ x.time = 0
            BY <1>3, <2>3, EventFields
        <3>2. \A v \in Writer : pending[v] # None => pending[v].time # 0
            BY <1>1, EventFields DEF TypeInv
        <3>3. \A i \in DOMAIN lines : lines[i].time = 0 => lines[i] = Garbage
            BY <1>7, EventFields
        <3>4. QED
            BY <2>1, <3>1, <3>2, <3>3
    <2>4. QED
        BY <2>1, <2>2, <2>3
<1>13. Stamped'
    BY <1>1, <1>4, <1>7, <1>8, <1>12 DEF Stamped
<1>14. Fresh'
    <2>1. SUFFICES ASSUME NEW v \in Writer, pending'[v] # None
                   PROVE  /\ \A u \in Writer \ {v} : pending'[u] # None =>
                                pending'[u].time # pending'[v].time
                          /\ \A q \in Proto : \A i \in DOMAIN mem'[q] :
                                mem'[q][i].time # pending'[v].time
                          /\ \A i \in DOMAIN lines' : lines'[i].time # pending'[v].time
                          /\ tail' # None => tail'.time # pending'[v].time
        BY DEF Fresh
    <2>2. v # w /\ pending'[v] = pending[v] /\ pending[v] # None
        BY <1>8, <2>1
    <2>3. \A i \in DOMAIN lines' : lines'[i].time # pending'[v].time
        BY <1>1, <1>7, <1>12, <2>2 DEF Fresh
    <2>4. QED
        BY <1>1, <1>4, <1>8, <2>2, <2>3 DEF Fresh
<1>15. Once'
    <2>1. \A i, j \in DOMAIN lines' :
              lines'[i].time = lines'[j].time => i = j \/ lines'[i] = Garbage
        BY <1>1, <1>7, <1>12 DEF Once
    <2>2. QED
        BY <1>1, <1>4, <2>1 DEF Once
<1>16. MemoryKeeps'
    BY <1>4 DEF MemoryKeeps
<1>17. QED
    BY <1>10, <1>11, <1>13, <1>14, <1>15, <1>16 DEF StoreInv

\* A short write: the event is not acknowledged, and the next line may be spoilt.
LEMMA SaveShortStep ==
    ASSUME StoreInv, NEW w \in Writer, SaveShort(w)
    PROVE  StoreInv'
<1>1. TypeInv /\ MemoryKeeps /\ Confined /\ Stamped /\ Fresh /\ Once
    BY DEF StoreInv
<1>2. PICK e \in Event : e = pending[w]
    BY <1>1 DEF SaveShort, TypeInv
<1>3. /\ backend = "file" /\ pending[w] # None /\ shorts' = shorts + 1
      /\ tail' = tail \/ tail' = Garbage \/ (tail = None /\ tail' = e)
      /\ pending' = [pending EXCEPT ![w] = None]
      /\ UNCHANGED <<backend, clock, mem, lines, acked, restarts>>
    BY <1>2 DEF SaveShort
<1>4. \A v \in Writer : pending'[v] = IF v = w THEN None ELSE pending[v]
    BY <1>1, <1>3 DEF TypeInv
<1>5. TypeInv'
    BY <1>1, <1>3 DEF TypeInv
<1>6. Confined'
    <2>1. Missing' = Missing /\ Spoilt' = Spoilt
        BY <1>3 DEF Missing, Spoilt
    <2>2. shorts' > 0
        BY <1>1, <1>3 DEF TypeInv
    <2>3. QED
        BY <1>1, <1>3, <2>1, <2>2 DEF Confined
<1>7. /\ e.time <= clock
      /\ \A v \in Writer : v # w /\ pending[v] # None => e.time # pending[v].time
      /\ \A i \in DOMAIN lines : lines[i].time # e.time
    BY <1>1, <1>2, <1>3 DEF Stamped, Fresh
<1>8. /\ Garbage.time <= clock
      /\ \A v \in Writer : pending[v] # None => Garbage.time # pending[v].time
    <2>1. \A v \in Writer : pending[v] # None => pending[v].time # 0
        BY <1>1, EventFields DEF TypeInv
    <2>2. clock \in Nat
        BY <1>1 DEF TypeInv
    <2>3. QED
        BY <2>1, <2>2, EventFields
<1>9. Stamped'
    BY <1>1, <1>3, <1>4, <1>7, <1>8 DEF Stamped
<1>10. Fresh'
    <2>1. SUFFICES ASSUME NEW v \in Writer, pending'[v] # None
                   PROVE  /\ \A u \in Writer \ {v} : pending'[u] # None =>
                                pending'[u].time # pending'[v].time
                          /\ \A q \in Proto : \A i \in DOMAIN mem'[q] :
                                mem'[q][i].time # pending'[v].time
                          /\ \A i \in DOMAIN lines' : lines'[i].time # pending'[v].time
                          /\ tail' # None => tail'.time # pending'[v].time
        BY DEF Fresh
    <2>2. v # w /\ pending'[v] = pending[v] /\ pending[v] # None
        BY <1>4, <2>1
    <2>3. tail' # None => tail'.time # pending'[v].time
        BY <1>1, <1>3, <1>7, <1>8, <2>2 DEF Fresh
    <2>4. QED
        BY <1>1, <1>3, <1>4, <2>2, <2>3 DEF Fresh
<1>11. Once'
    BY <1>1, <1>3, <1>7 DEF Once
<1>12. MemoryKeeps'
    BY <1>3 DEF MemoryKeeps
<1>13. QED
    BY <1>5, <1>6, <1>9, <1>10, <1>11, <1>12 DEF StoreInv

\* A restart keeps the file.
LEMMA RestartStep ==
    ASSUME StoreInv, Restart
    PROVE  StoreInv'
<1>1. TypeInv /\ MemoryKeeps /\ Confined /\ Stamped /\ Fresh /\ Once
    BY DEF StoreInv
<1>2. /\ restarts' = restarts + 1 /\ mem' = [q \in Proto |-> <<>>]
      /\ pending' = [w \in Writer |-> None]
      /\ UNCHANGED <<backend, clock, lines, tail, acked, shorts>>
    BY DEF Restart, fileVars
<1>3. TypeInv'
    BY <1>1, <1>2, EmptySeq DEF TypeInv
<1>4. MemoryKeeps'
    BY <1>1, <1>2 DEF MemoryKeeps, TypeInv
<1>5. Confined'
    BY <1>1, <1>2 DEF Confined, Missing, Spoilt
<1>6. \A q \in Proto : DOMAIN mem'[q] = {}
    BY <1>2
<1>7. Stamped' /\ Fresh' /\ Once'
    BY <1>1, <1>2, <1>6 DEF Stamped, Fresh, Once
<1>8. QED
    BY <1>3, <1>4, <1>5, <1>7 DEF StoreInv

\* Readers change nothing in the repositories.
LEMMA StoreFrame ==
    ASSUME StoreInv,
           UNCHANGED <<backend, clock, pending, mem, lines, tail, acked, shorts, restarts>>
    PROVE  StoreInv'
<1>1. TypeInv' /\ MemoryKeeps' /\ Confined'
    BY DEF StoreInv, TypeInv, MemoryKeeps, Confined, Missing, Spoilt
<1>2. Stamped' /\ Fresh' /\ Once'
    BY DEF StoreInv, Stamped, Fresh, Once
<1>3. QED
    BY <1>1, <1>2 DEF StoreInv

\* Every handler leaves the repositories alone.
LEMMA HandlersKeepStore ==
    ASSUME NEW r \in Reader, ServeHTTP(r)
    PROVE  UNCHANGED <<backend, clock, pending, mem, lines, tail, acked, shorts, restarts>>
<1>1. CASE HandlerFails(r)
    BY <1>1 DEF HandlerFails, fileVars
<1>2. CASE MetricsDNS(r) \/ MetricsNTP(r)
    BY <1>2 DEF MetricsDNS, MetricsNTP, fileVars
<1>3. CASE HandleEvents(r)
    BY <1>3 DEF HandleEvents, fileVars
<1>4. CASE TimeseriesStart(r) \/ TimeseriesList(r)
    BY <1>4 DEF TimeseriesStart, TimeseriesList, fileVars
<1>5. CASE HandleQueryTypes(r)
    BY <1>5 DEF HandleQueryTypes, fileVars
<1>6. CASE HandleTopIPs(r)
    BY <1>6 DEF HandleTopIPs, fileVars
<1>7. QED
    BY <1>1, <1>2, <1>3, <1>4, <1>5, <1>6 DEF ServeHTTP

\* Every step keeps the invariant of the repositories.
LEMMA StoreStep == StoreInv /\ [Next]_vars => StoreInv'
<1> SUFFICES ASSUME StoreInv, [Next]_vars PROVE StoreInv'
    OBVIOUS
<1>1. ASSUME NEW w \in Writer,
             \/ \E q \in Proto : NewEvent(w, q)
             \/ SaveMemory(w) \/ SaveLine(w) \/ SaveShort(w)
      PROVE  StoreInv'
    BY <1>1, NewEventStep, SaveMemoryStep, SaveLineStep, SaveShortStep
<1>2. ASSUME NEW r \in Reader, ServeHTTP(r) PROVE StoreInv'
    BY <1>2, HandlersKeepStore, StoreFrame
<1>3. CASE UNCHANGED vars
    BY <1>3, StoreFrame DEF vars, fileVars
<1>4. QED
    BY <1>1, <1>2, <1>3, RestartStep DEF Next

\* The invariant of the repositories holds of every reachable state.
LEMMA StoreInvariance == Spec => []StoreInv
    BY InitStore, StoreStep, PTL DEF Spec

-----------------------------------------------------------------------------
(* What is stored                                                          *)

\* A List fails exactly when a line was spoilt or ends the file unfinished.
LEMMA UnreadableWhen ==
    ASSUME StoreInv
    PROVE  Unreadable <=> backend = "file" /\ (Spoilt \/ tail = Garbage)
<1>1. lines \in Seq(Event \cup {Garbage}) /\ tail \in Event \cup {Garbage, None}
    BY DEF StoreInv, TypeInv
<1>2. CASE tail = None
    BY <1>2, EventFields DEF Unreadable, Scanned, Range, Spoilt
<1>3. CASE tail # None
    <2>1. tail \in Event \cup {Garbage}
        BY <1>1, <1>3
    <2>2. Scanned = Append(lines, tail)
        BY <1>3 DEF Scanned
    <2>3. PICK n : n = Len(lines) + 1
        OBVIOUS
    <2>4. /\ DOMAIN Scanned = DOMAIN lines \cup {n} /\ Scanned[n] = tail
          /\ \A i \in DOMAIN lines : Scanned[i] = lines[i]
        BY <1>1, <2>1, <2>2, <2>3, AppendElements
    <2>5. QED
        BY <2>4 DEF Unreadable, Range, Spoilt
<1>4. QED
    BY <1>2, <1>3

\* A List begins to fail only after a short write and then fails for good.
THEOREM ShortWritesSpoilForGood == Spec => SpoiltOnlyByShortWrite
<1> DEFINE Step == /\ Unreadable' /\ ~Unreadable => shorts' > 0
                   /\ Unreadable => Unreadable'
           Reads == Unreadable <=> backend = "file" /\ (Spoilt \/ tail = Garbage)
<1>0. StoreInv => Reads
    BY UnreadableWhen
<1>1. ASSUME StoreInv, StoreInv', Reads, Reads', [Next]_vars PROVE Step
    <2>1. /\ Unreadable <=> backend = "file" /\ (Spoilt \/ tail = Garbage)
          /\ Unreadable' <=> backend' = "file" /\ (Spoilt' \/ tail' = Garbage)
        BY <1>1
    <2>2. Unreadable' => shorts' > 0
        BY <1>1, <2>1, EventFields DEF StoreInv, Confined
    <2>3. Unreadable => Unreadable'
        <3>1. ASSUME NEW w \in Writer, SaveLine(w), Spoilt \/ tail = Garbage
              PROVE  backend' = backend /\ Spoilt'
            <4>1. lines \in Seq(Event \cup {Garbage}) /\ pending[w] \in Event
                BY <1>1, <3>1 DEF SaveLine, StoreInv, TypeInv
            <4>2. PICK x \in Event \cup {Garbage} : x = IF tail = None THEN pending[w] ELSE Garbage
                BY <4>1
            <4>3. lines' = Append(lines, x) /\ backend' = backend
                BY <3>1, <4>2 DEF SaveLine
            <4>4. PICK n : n = Len(lines) + 1
                OBVIOUS
            <4>5. /\ DOMAIN lines' = DOMAIN lines \cup {n} /\ lines'[n] = x
                  /\ \A i \in DOMAIN lines : lines'[i] = lines[i]
                BY <4>1, <4>3, <4>4, AppendElements
            <4>6. CASE Spoilt
                BY <4>3, <4>5, <4>6 DEF Spoilt
            <4>7. CASE tail = Garbage
                BY <4>2, <4>3, <4>5, <4>7, EventFields DEF Spoilt
            <4>8. QED
                BY <3>1, <4>6, <4>7
        <3>2. ASSUME NEW w \in Writer, SaveShort(w), Spoilt \/ tail = Garbage
              PROVE  backend' = backend /\ (Spoilt' \/ tail' = Garbage)
            BY <3>2, EventFields DEF SaveShort, Spoilt
        <3>3. ASSUME NEW w \in Writer, SaveMemory(w) \/ \E q \in Proto : NewEvent(w, q)
              PROVE  UNCHANGED <<backend, lines, tail>>
            BY <3>3 DEF SaveMemory, NewEvent, fileVars
        <3>4. ASSUME NEW r \in Reader, ServeHTTP(r)
              PROVE  UNCHANGED <<backend, lines, tail>>
            BY <3>4, HandlersKeepStore
        <3>5. ASSUME Restart \/ UNCHANGED vars
              PROVE  UNCHANGED <<backend, lines, tail>>
            BY <3>5 DEF Restart, fileVars, vars
        <3>6. UNCHANGED <<backend, lines, tail>> => (Unreadable => Unreadable')
            BY <2>1 DEF Spoilt
        <3>7. CASE \E w \in Writer : SaveLine(w) \/ SaveShort(w)
            BY <2>1, <3>1, <3>2, <3>7
        <3>8. QED
            BY <1>1, <3>3, <3>4, <3>5, <3>6, <3>7 DEF Next
    <2>4. QED
        BY <2>2, <2>3
<1>2. QED
    BY <1>0, <1>1, StoreInvariance, PTL DEF Spec, SpoiltOnlyByShortWrite

\* An acknowledged event is in every List of its repository that does not fail,
\* after restarts too if there is a file, whatever writes came up short.
THEOREM SavedEventsAreListed == Spec => []SavedEventsListed
<1>1. ASSUME StoreInv PROVE SavedEventsListed
    <2>1. TypeInv /\ MemoryKeeps /\ Confined
        BY <1>1 DEF StoreInv
    <2>2. SUFFICES ASSUME NEW e \in acked, ~(backend = "memory" /\ restarts > 0), ~Unreadable
                   PROVE  e \in Range(List(e.proto))
        BY DEF SavedEventsListed
    <2>3. CASE backend = "memory"
        <3>1. restarts = 0
            BY <2>1, <2>2, <2>3 DEF TypeInv
        <3>2. PICK i \in DOMAIN mem[e.proto] : mem[e.proto][i] = e
            BY <2>1, <2>3, <3>1 DEF MemoryKeeps
        <3>3. List(e.proto) = mem[e.proto]
            BY <2>3 DEF List
        <3>4. QED
            BY <3>2, <3>3 DEF Range
    <2>4. CASE backend = "file"
        <3>1. ~Spoilt
            BY <1>1, <2>2, <2>4, UnreadableWhen
        <3>2. PICK i \in DOMAIN lines : lines[i] = e
            BY <2>1, <2>4, <3>1 DEF Confined, Missing
        <3>3. List(e.proto) = Scanned
            BY <2>4 DEF List
        <3>4. CASE tail = None
            BY <3>2, <3>3, <3>4 DEF Scanned, Range
        <3>5. CASE tail # None
            <4>1. tail \in Event \cup {Garbage} /\ lines \in Seq(Event \cup {Garbage})
                BY <2>1, <3>5 DEF TypeInv
            <4>2. i \in DOMAIN Append(lines, tail) /\ Append(lines, tail)[i] = e
                BY <3>2, <4>1, AppendElements
            <4>3. QED
                BY <3>3, <3>5, <4>2 DEF Scanned, Range
        <3>6. QED
            BY <3>4, <3>5
    <2>5. QED
        BY <2>1, <2>3, <2>4 DEF TypeInv
<1>2. QED
    BY <1>1, StoreInvariance, PTL

-----------------------------------------------------------------------------
(* What is answered                                                        *)

\* a list of events, each of them once
DistinctEvents(list) ==
    /\ list \in Seq(Event)
    /\ \A i, j \in DOMAIN list : list[i].time = list[j].time => i = j

\* A List that does not fail returns each event once.
LEMMA ListIsDistinct ==
    ASSUME StoreInv, ~Unreadable, NEW q \in Proto
    PROVE  DistinctEvents(List(q))
<1>1. TypeInv /\ Once
    BY DEF StoreInv
<1>2. CASE backend = "memory"
    BY <1>1, <1>2 DEF List, DistinctEvents, TypeInv, Once
<1>3. CASE backend = "file" /\ tail = None
    <2>1. List(q) = lines /\ lines \in Seq(Event \cup {Garbage})
        BY <1>1, <1>3 DEF List, Scanned, TypeInv
    <2>2. \A i \in DOMAIN lines : lines[i] # Garbage
        BY <1>3 DEF Unreadable, Scanned, Range
    <2>3. lines \in Seq(Event)
        <3>1. /\ Len(lines) \in Nat /\ DOMAIN lines = 1 .. Len(lines)
              /\ lines \in [1 .. Len(lines) -> Event \cup {Garbage}]
            BY <2>1
        <3>2. lines \in [1 .. Len(lines) -> Event]
            BY <2>2, <3>1
        <3>3. QED
            BY <3>1, <3>2
    <2>4. QED
        BY <1>1, <2>1, <2>2, <2>3 DEF DistinctEvents, Once
<1>4. CASE backend = "file" /\ tail # None
    <2>1. List(q) = Append(lines, tail) /\ Scanned = Append(lines, tail)
        BY <1>4 DEF List, Scanned
    <2>2. lines \in Seq(Event \cup {Garbage}) /\ tail \in Event \cup {Garbage}
        BY <1>1, <1>4 DEF TypeInv
    <2>3. PICK all \in Seq(Event \cup {Garbage}) :
              /\ all = Append(lines, tail)
              /\ DOMAIN all = DOMAIN lines \cup {Len(lines) + 1}
              /\ \A i \in DOMAIN lines : all[i] = lines[i]
              /\ all[Len(lines) + 1] = tail
        <3>1. /\ Append(lines, tail) \in Seq(Event \cup {Garbage})
              /\ DOMAIN Append(lines, tail) = DOMAIN lines \cup {Len(lines) + 1}
              /\ \A i \in DOMAIN lines : Append(lines, tail)[i] = lines[i]
              /\ Append(lines, tail)[Len(lines) + 1] = tail
            BY <2>2, AppendElements
        <3>2. QED
            BY <3>1, Zenon
    <2>4. \A i \in DOMAIN all : all[i] # Garbage
        BY <1>4, <2>1, <2>3 DEF Unreadable, Range
    <2>5. all \in Seq(Event)
        <3>1. /\ Len(all) \in Nat /\ DOMAIN all = 1 .. Len(all)
              /\ all \in [1 .. Len(all) -> Event \cup {Garbage}]
            BY LenProperties
        <3>2. all \in [1 .. Len(all) -> Event]
            BY <2>4, <3>1
        <3>3. QED
            BY <3>1, <3>2
    <2>6. \A i, j \in DOMAIN all : all[i].time = all[j].time => i = j
        BY <1>1, <1>4, <2>3, <2>4 DEF Once
    <2>7. QED
        BY <2>1, <2>3, <2>5, <2>6 DEF DistinctEvents
<1>5. QED
    BY <1>1, <1>2, <1>3, <1>4 DEF TypeInv

\* The elements of such a list are as many as its positions, and so are those of
\* any selection from it.
LEMMA SelectionCount ==
    ASSUME NEW list, DistinctEvents(list), NEW J \in SUBSET DOMAIN list
    PROVE  /\ IsFiniteSet(J)
           /\ IsFiniteSet({ list[j] : j \in J })
           /\ Cardinality({ list[j] : j \in J }) = Cardinality(J)
<1> DEFINE E == { list[j] : j \in J }
           f == [j \in J |-> list[j]]
<1>1. list \in Seq(Event) /\ Len(list) \in Nat /\ DOMAIN list = 1 .. Len(list)
    BY DEF DistinctEvents
<1>2. IsFiniteSet(J)
    <2>1. IsFiniteSet(DOMAIN list)
        BY <1>1, FS_Interval
    <2>2. QED
        BY <2>1, FS_Subset
<1>3. \A i, j \in J : list[i] = list[j] => i = j
    BY DEF DistinctEvents
<1>4. f \in [J -> E] /\ (\A i, j \in J : f[i] = f[j] => i = j) /\ \A e \in E : \E j \in J : f[j] = e
    BY <1>3
<1>5. ExistsBijection(J, E)
    <2> HIDE DEF f, E
    <2>1. f \in Bijection(J, E)
        BY <1>4 DEF Bijection, Injection, Surjection, IsInjective
    <2>2. QED
        BY <2>1 DEF ExistsBijection
<1>6. QED
    <2> HIDE DEF E
    <2>1. IsFiniteSet(E) /\ Cardinality(E) = Cardinality(J)
        BY <1>2, <1>5, FS_Bijection
    <2>2. QED
        BY <1>2, <2>1 DEF E

\* The hour of a time stamp.
LEMMA HourBounds ==
    ASSUME NEW t \in Nat, NEW k \in Int
    PROVE  /\ Hour(t) \in Int
           /\ Hour(t) = k <=> t \in HourLength * k .. HourLength * k + HourLength - 1
<1>1. HourLength \in Nat \ {0}
    BY ConstantsAssumption
<1>2. PICK h \in Nat \ {0} : h = HourLength
    BY <1>1
<1>3. t \div h \in Int /\ h * (t \div h) <= t /\ t < h * (t \div h) + h
    OBVIOUS
<1>4. PICK q \in Int : q = t \div h
    BY <1>3
<1>5. h * q \in Int /\ h * k \in Int /\ h * q <= t /\ t < h * q + h
    BY <1>3, <1>4
<1>6. \A a, b \in Int : a < b => h * a + h <= h * b
    OBVIOUS
<1>7. (q < k => h * q + h <= h * k) /\ (k < q => h * k + h <= h * q)
    BY <1>6
<1>8. q = k <=> t \in h * k .. h * k + h - 1
    BY <1>5, <1>7
<1>9. QED
    BY <1>2, <1>4, <1>8 DEF Hour

\* every bucket holds the events of its hour
SeriesOK(a) ==
    \A i \in 0 .. Hours - 1 :
        a.buckets[i] =
            Cardinality({ e \in Range(a.of) :
                LET first == HourLength * (Hour(a.now) - (Hours - 1) + i)
                IN  e.time \in first .. first + HourLength - 1 })

\* The time series of a list counts each event in the bucket of its hour.
LEMMA BucketsCount ==
    ASSUME NEW list, DistinctEvents(list), NEW now \in Nat, NEW i \in 0 .. Hours - 1
    PROVE  Buckets(now, list)[i] =
               Cardinality({ e \in Range(list) :
                   LET first == HourLength * (Hour(now) - (Hours - 1) + i)
                   IN  e.time \in first .. first + HourLength - 1 })
<1> DEFINE k == Hour(now) - (Hours - 1) + i
           J == { j \in DOMAIN list : BucketOf(now, list[j]) = i }
           E == { e \in Range(list) :
                    e.time \in HourLength * k .. HourLength * k + HourLength - 1 }
<1>1. Hours \in Nat /\ Hour(now) \in Int /\ i \in Int
    BY ConstantsAssumption, HourBounds
<1>2. k \in Int
    BY <1>1
<1>3. \A j \in DOMAIN list : list[j] \in Event /\ list[j].time \in Nat
    BY EventFields DEF DistinctEvents
<1>4. \A j \in DOMAIN list :
          BucketOf(now, list[j]) = i <=>
              list[j].time \in HourLength * k .. HourLength * k + HourLength - 1
    <2>1. SUFFICES ASSUME NEW j \in DOMAIN list
                   PROVE  BucketOf(now, list[j]) = i <=>
                              list[j].time \in HourLength * k .. HourLength * k + HourLength - 1
        OBVIOUS
    <2>2. PICK t \in Nat : t = list[j].time
        BY <1>3
    <2>3. PICK h \in Int : h = Hour(t)
        BY HourBounds
    <2>4. BucketOf(now, list[j]) = i <=> h = k
        BY <1>1, <2>2, <2>3 DEF BucketOf
    <2> HIDE DEF k
    <2>5. h = k <=> t \in HourLength * k .. HourLength * k + HourLength - 1
        BY <1>2, <2>3, HourBounds
    <2>6. QED
        BY <2>2, <2>4, <2>5
<1>5. E = { list[j] : j \in J }
    <2> HIDE DEF k
    <2>1. QED
        BY <1>4 DEF Range
<1>6. Buckets(now, list)[i] = Cardinality(J)
    BY DEF Buckets
<1>7. J \in SUBSET DOMAIN list
    OBVIOUS
<1>8. Cardinality(E) = Cardinality(J)
    <2> HIDE DEF E, J
    <2>1. QED
        BY <1>5, <1>7, SelectionCount
<1>9. QED
    <2> HIDE DEF J
    <2>1. QED
        BY <1>6, <1>8

\* The smaller of two naturals.
LEMMA MinOfTwo ==
    ASSUME NEW a \in Nat, NEW b \in Nat
    PROVE  Min({a, b}) = IF a <= b THEN a ELSE b
<1> DEFINE m == IF a <= b THEN a ELSE b
           P(x) == x \in {a, b} /\ \A y \in {a, b} : x <= y
<1>1. \A x : P(x) <=> x = m
    OBVIOUS
<1>2. Min({a, b}) = CHOOSE x : P(x)
    BY Zenon DEF Min
<1>3. QED
    <2> HIDE DEF P, m
    <2>1. (CHOOSE x : P(x)) = m
        BY <1>1, Zenon
    <2>2. QED
        BY <1>2, <2>1 DEF m

\* An injection into an interval bounds a set.
LEMMA IntervalBound ==
    ASSUME NEW S, NEW a \in Int, NEW b \in Int, a <= b + 1, NEW f \in [S -> a .. b],
           \A x, y \in S : f[x] = f[y] => x = y
    PROVE  IsFiniteSet(S) /\ Cardinality(S) <= b - a + 1
<1>1. f \in Injection(S, a .. b)
    BY DEF Injection, IsInjective
<1>2. IsFiniteSet(a .. b) /\ Cardinality(a .. b) = IF a > b THEN 0 ELSE b - a + 1
    BY FS_Interval
<1>3. IsFiniteSet(S) /\ Cardinality(S) <= Cardinality(a .. b)
    BY <1>1, <1>2, FS_Injection
<1>4. Cardinality(a .. b) = b - a + 1
    BY <1>2
<1>5. QED
    BY <1>3, <1>4

\* Of the events of a list, Newest keeps Limit, or all, and none of the rest is
\* later than one of them.
LEMMA NewestIsLatest ==
    ASSUME NEW list, DistinctEvents(list)
    PROVE  /\ Cardinality(Newest(list)) = Min({Limit, Cardinality(Range(list))})
           /\ \A e \in Newest(list), f \in Range(list) \ Newest(list) : e.time > f.time
<1>1. PICK A : A = Range(list)
    OBVIOUS
<1>2. /\ A \in SUBSET Event /\ IsFiniteSet(A)
      /\ \A e, f \in A : e.time = f.time => e = f
    <2>1. A = { list[j] : j \in DOMAIN list } /\ DOMAIN list \in SUBSET DOMAIN list
        BY <1>1 DEF Range
    <2>2. IsFiniteSet(A)
        BY <2>1, SelectionCount
    <2>3. \A j \in DOMAIN list : list[j] \in Event
        BY DEF DistinctEvents
    <2>4. QED
        BY <2>1, <2>2, <2>3 DEF DistinctEvents
<1>3. \A e \in A : e.time \in Nat
    BY <1>2, EventFields
<1>4. PICK n \in Nat : n = Cardinality(A)
    BY <1>2, FS_CardinalityType
<1> DEFINE later(e) == { f \in A : f.time > e.time }
           rank == [e \in A |-> Cardinality(later(e))]
           N == { e \in A : rank[e] < Limit }
<1>5. Newest(list) = N
    BY <1>1 DEF Newest
<1>6. \A e \in A : later(e) \in SUBSET A /\ IsFiniteSet(later(e)) /\ rank[e] \in Nat
    <2>1. \A e \in A : later(e) \in SUBSET A
        OBVIOUS
    <2> HIDE DEF later
    <2>2. \A e \in A : IsFiniteSet(later(e)) /\ Cardinality(later(e)) \in Nat
        BY <1>2, <2>1, FS_Subset, FS_CardinalityType
    <2>3. QED
        BY <2>1, <2>2
<1>7. ASSUME NEW e \in A, NEW f \in A, e.time < f.time PROVE rank[e] >= rank[f] + 1
    <2>1. f \notin later(f) /\ later(f) \cup {f} \in SUBSET later(e)
        BY <1>3, <1>7
    <2> HIDE DEF later
    <2>2. Cardinality(later(f) \cup {f}) = Cardinality(later(f)) + 1
        BY <1>6, <2>1, FS_AddElement
    <2>3. Cardinality(later(f) \cup {f}) <= Cardinality(later(e))
        BY <1>6, <2>1, FS_Subset
    <2>4. rank[e] = Cardinality(later(e)) /\ rank[f] = Cardinality(later(f))
        OBVIOUS
    <2> HIDE DEF rank
    <2>5. QED
        BY <1>6, <2>2, <2>3, <2>4
<1>8. \A e \in A : rank[e] \in 0 .. n - 1
    <2>1. SUFFICES ASSUME NEW e \in A PROVE rank[e] \in 0 .. n - 1
        OBVIOUS
    <2>2. later(e) \in SUBSET (A \ {e})
        BY <1>3
    <2>3. rank[e] = Cardinality(later(e))
        OBVIOUS
    <2> HIDE DEF later, rank
    <2>4. IsFiniteSet(A \ {e}) /\ Cardinality(A \ {e}) = n - 1
        BY <1>2, <1>4, FS_RemoveElement
    <2>5. Cardinality(later(e)) <= Cardinality(A \ {e})
        BY <2>2, <2>4, FS_Subset
    <2>6. QED
        BY <1>6, <2>3, <2>4, <2>5
<1> HIDE DEF rank
<1>9. \A e, f \in A : rank[e] = rank[f] => e = f
    <2>1. SUFFICES ASSUME NEW e \in A, NEW f \in A, rank[e] = rank[f] PROVE e = f
        OBVIOUS
    <2>2. rank[e] \in Nat /\ rank[f] \in Nat /\ e.time \in Nat /\ f.time \in Nat
        BY <1>3, <1>6
    <2>3. ~(e.time < f.time) /\ ~(f.time < e.time)
        BY <1>7, <2>1, <2>2
    <2>4. e.time = f.time
        BY <2>2, <2>3
    <2>5. QED
        BY <1>2, <2>4
<1>10. Limit \in Nat
    BY ConstantsAssumption
<1>11. PICK m \in Nat : m = (IF Limit <= n THEN Limit ELSE n)
    BY <1>10
<1>12. \A e \in A : (e \in N => rank[e] \in 0 .. m - 1) /\ (e \notin N => rank[e] \in m .. n - 1)
    BY <1>4, <1>8, <1>10, <1>11
<1>13. Cardinality(N) <= m
    <2> DEFINE g == [e \in N |-> rank[e]]
    <2>1. g \in [N -> 0 .. m - 1] /\ \A x, y \in N : g[x] = g[y] => x = y
        BY <1>9, <1>12
    <2>2. 0 \in Int /\ m - 1 \in Int /\ 0 <= (m - 1) + 1
        OBVIOUS
    <2> HIDE DEF g, N
    <2>3. Cardinality(N) <= (m - 1) - 0 + 1
        BY <2>1, <2>2, IntervalBound, Zenon
    <2>4. QED
        BY <2>3
<1>14. IsFiniteSet(A \ N) /\ Cardinality(A \ N) <= n - m
    <2> DEFINE g == [e \in A \ N |-> rank[e]]
    <2>1. g \in [A \ N -> m .. n - 1] /\ \A x, y \in A \ N : g[x] = g[y] => x = y
        <3> HIDE DEF N
        <3>1. QED
            BY <1>9, <1>12
    <2>2. m <= (n - 1) + 1
        BY <1>10, <1>11
    <2> HIDE DEF g, N
    <2>3. IsFiniteSet(A \ N) /\ Cardinality(A \ N) <= (n - 1) - m + 1
        BY <2>1, <2>2, IntervalBound
    <2>4. QED
        BY <2>3
<1>15. N \in SUBSET A /\ A \cap N = N
    OBVIOUS
<1> HIDE DEF N
<1>16. IsFiniteSet(N) /\ Cardinality(N) \in Nat /\ Cardinality(A \ N) \in Nat
    BY <1>2, <1>14, <1>15, FS_Subset, FS_CardinalityType
<1>17. Cardinality(A \ N) = n - Cardinality(N)
    <2>1. Cardinality(A \ N) = Cardinality(A) - Cardinality(A \cap N)
        BY <1>2, <1>16, FS_Difference
    <2>2. QED
        BY <1>4, <1>15, <2>1
<1>18. Cardinality(N) = m
    BY <1>13, <1>14, <1>16, <1>17
<1>19. Cardinality(Newest(list)) = Min({Limit, Cardinality(Range(list))})
    BY <1>1, <1>4, <1>5, <1>10, <1>11, <1>18, MinOfTwo
<1>20. ASSUME NEW e \in N, NEW f \in A \ N PROVE e.time > f.time
    <2>1. rank[e] < rank[f] /\ e \in A /\ f \in A
        BY <1>6, <1>12, <1>15, <1>20
    <2>2. e.time \in Nat /\ f.time \in Nat /\ rank[e] \in Nat /\ rank[f] \in Nat
        BY <1>3, <1>6, <2>1
    <2>3. ~(e.time < f.time) /\ e.time # f.time
        BY <1>2, <1>7, <2>1, <2>2
    <2>4. QED
        BY <2>2, <2>3
<1>21. QED
    BY <1>1, <1>5, <1>19, <1>20

\* A set of naturals that is not empty has a least element.
LEMMA LeastNat ==
    ASSUME NEW T, T \subseteq Nat, T # {}
    PROVE  \E x \in T : \A y \in T : x <= y
<1> DEFINE R == {ss \in Nat \X Nat : ss[1] < ss[2]}
<1>1. IsWellFoundedOn(R, Nat)
    BY NatLessThanWellFounded DEF OpToRel
<1>2. \A x, y \in Nat : ~ (<<y, x>> \in R) => x <= y
    OBVIOUS
<1> HIDE DEF R
<1>3. \E x \in T : \A y \in T : ~ (<<y, x>> \in R)
    BY WFMin, <1>1, Zenon
<1>4. QED
    BY <1>2, <1>3, Zenon

\* Induction over the naturals.
LEMMA NatInduct ==
    ASSUME NEW T, 0 \in T, \A n \in Nat : n \in T => n + 1 \in T
    PROVE  Nat \subseteq T
<1>1. SUFFICES ASSUME Nat \ T # {} PROVE FALSE
    OBVIOUS
<1>2. PICK m \in Nat \ T : \A k \in Nat \ T : m <= k
    BY <1>1, LeastNat
<1>3. m # 0 /\ m \in Nat
    BY <1>2
<1>4. m - 1 \in Nat /\ m - 1 \in T
    BY <1>2, <1>3
<1>5. QED
    BY <1>2, <1>4

\* the sum of a function over a set, as StatsMatchList takes it
SumOf(c, S) == MapThenSumSet(LAMBDA t : c[t], S)

\* f[s] is the sum of c over s, taken in the order of MapThenSumSet
IsSum(f, c, S) ==
    f = [s \in SUBSET S |->
            IF s = {} THEN 0
            ELSE c[CHOOSE x \in s : TRUE] + f[s \ {CHOOSE x \in s : TRUE}]]

\* A sum is the last value of a function that IsSum describes, if there is one.
LEMMA SumUnfolds ==
    ASSUME NEW c, NEW S, NEW g, IsSum(g, c, S)
    PROVE  \E f : IsSum(f, c, S) /\ SumOf(c, S) = f[S]
<1> DEFINE h == CHOOSE f : IsSum(f, c, S)
<1>1. IsSum(h, c, S)
    BY Zenon
<1>2. SumOf(c, S) = h[S]
    BY Zenon DEF SumOf, MapThenSumSet, MapThenFoldSet, IsSum
<1>3. QED
    BY <1>1, <1>2, Zenon

\* the positions whose key is in K
Keyed(D, key, K) == { i \in D : key[i] \in K }

\* Counting per key adds up to counting all.
LEMMA SumOfCounts ==
    ASSUME NEW D, IsFiniteSet(D), NEW key, NEW K, IsFiniteSet(K), NEW c,
           \A t \in K : c[t] = Cardinality(Keyed(D, key, {t}))
    PROVE  SumOf(c, K) = Cardinality(Keyed(D, key, K))
<1> DEFINE Of(s) == Keyed(D, key, s)
           pick(s) == CHOOSE x \in s : TRUE
           g == [s \in SUBSET K |-> Cardinality(Of(s))]
<1>1. \A s : IsFiniteSet(Of(s)) /\ Cardinality(Of(s)) \in Nat
    <2>1. \A s : Of(s) \in SUBSET D
        BY DEF Keyed
    <2> HIDE DEF Of
    <2>2. QED
        BY <2>1, FS_Subset, FS_CardinalityType
<1>2. ASSUME NEW s \in SUBSET K, s # {}
      PROVE  /\ pick(s) \in s
             /\ Cardinality(Of(s)) = c[pick(s)] + Cardinality(Of(s \ {pick(s)}))
    <2>1. pick(s) \in s
        BY <1>2, Zenon
    <2>2. PICK x \in s : x = pick(s)
        BY <2>1
    <2> HIDE DEF pick
    <2>3. Of(s) \ Of({x}) = Of(s \ {x}) /\ Of(s) \cap Of({x}) = Of({x})
        BY DEF Keyed
    <2>4. c[x] = Cardinality(Of({x}))
        OBVIOUS
    <2> HIDE DEF Of
    <2>5. Cardinality(Of(s) \ Of({x})) = Cardinality(Of(s)) - Cardinality(Of(s) \cap Of({x}))
        BY <1>1, FS_Difference
    <2>6. Cardinality(Of(s \ {x})) = Cardinality(Of(s)) - c[x]
        BY <2>3, <2>4, <2>5, Zenon
    <2>7. \A a, b, d \in Nat : a = b - d => b = d + a
        OBVIOUS
    <2>8. Cardinality(Of(s)) = c[x] + Cardinality(Of(s \ {x}))
        BY <1>1, <2>4, <2>6, <2>7, Zenon
    <2>9. QED
        BY <2>1, <2>2, <2>8
<1>3. Cardinality(Of({})) = 0
    <2>1. Of({}) = {}
        BY DEF Keyed
    <2>2. QED
        BY <2>1, FS_EmptySet
<1>4. IsSum(g, c, K)
    <2>1. \A s \in SUBSET K :
              g[s] = IF s = {} THEN 0 ELSE c[pick(s)] + g[s \ {pick(s)}]
        <3> HIDE DEF Of, pick
        <3>1. QED
            BY <1>2, <1>3
    <2>2. g = [s \in SUBSET K |-> g[s]]
        OBVIOUS
    <2> HIDE DEF g
    <2>3. QED
        BY <2>1, <2>2, Zenon DEF IsSum
<1>5. PICK f : IsSum(f, c, K) /\ SumOf(c, K) = f[K]
    <2> HIDE DEF g
    <2>1. QED
        BY <1>4, SumUnfolds, Zenon
<1>6. \A s \in SUBSET K : f[s] = IF s = {} THEN 0 ELSE c[pick(s)] + f[s \ {pick(s)}]
    BY <1>5, Zenon DEF IsSum
<1> HIDE DEF g, Of, pick
<1> DEFINE T == { n \in Nat : \A s \in SUBSET K : Cardinality(s) = n => f[s] = Cardinality(Of(s)) }
<1>7. 0 \in T
    <2>1. \A s \in SUBSET K : Cardinality(s) = 0 => s = {}
        BY FS_Subset, FS_EmptySet
    <2>2. QED
        BY <1>3, <1>6, <2>1
<1>8. ASSUME NEW n \in Nat, n \in T PROVE n + 1 \in T
    <2>1. SUFFICES ASSUME NEW s \in SUBSET K, Cardinality(s) = n + 1
                   PROVE  f[s] = Cardinality(Of(s))
        OBVIOUS
    <2>2. s # {}
        BY <2>1, FS_EmptySet
    <2>3. /\ pick(s) \in s
          /\ Cardinality(Of(s)) = c[pick(s)] + Cardinality(Of(s \ {pick(s)}))
        BY <1>2, <2>2
    <2>4. Cardinality(s \ {pick(s)}) = n
        <3>1. IsFiniteSet(s)
            BY FS_Subset
        <3>2. Cardinality(s \ {pick(s)}) = Cardinality(s) - 1
            BY <2>3, <3>1, FS_RemoveElement
        <3>3. QED
            BY <2>1, <3>2
    <2>5. s \ {pick(s)} \in SUBSET K
        OBVIOUS
    <2>6. f[s \ {pick(s)}] = Cardinality(Of(s \ {pick(s)}))
        BY <1>8, <2>4, <2>5
    <2>7. f[s] = c[pick(s)] + f[s \ {pick(s)}]
        BY <1>6, <2>2
    <2>8. QED
        BY <2>3, <2>6, <2>7
<1>9. Nat \subseteq T
    <2> HIDE DEF T
    <2>1. QED
        BY <1>7, <1>8, NatInduct
<1>10. Cardinality(K) \in T
    <2> HIDE DEF T
    <2>1. QED
        BY <1>9, FS_CardinalityType
<1>11. f[K] = Cardinality(Of(K))
    BY <1>10
<1>12. QED
    BY <1>5, <1>11 DEF Of

\* The counts of GET /stats/query-types add up to the list.
LEMMA TypesAddUp ==
    ASSUME NEW list \in Seq(Event), NEW c,
           c = [t \in { QueryType(e) : e \in Range(list) } |->
                   Cardinality({ i \in DOMAIN list : QueryType(list[i]) = t })]
    PROVE  SumOf(c, DOMAIN c) = Len(list)
<1> DEFINE D == DOMAIN list
           key == [i \in D |-> QueryType(list[i])]
           K == { QueryType(e) : e \in Range(list) }
<1>1. /\ Len(list) \in Nat /\ D = 1 .. Len(list) /\ IsFiniteSet(D)
      /\ Cardinality(D) = Len(list)
    <2>1. Len(list) \in Nat /\ D = 1 .. Len(list)
        OBVIOUS
    <2>2. 1 \in Int /\ Len(list) \in Int
        BY <2>1
    <2>3. IsFiniteSet(1 .. Len(list)) /\
          Cardinality(1 .. Len(list)) = IF 1 > Len(list) THEN 0 ELSE Len(list) - 1 + 1
        BY <2>2, FS_Interval, Zenon
    <2>4. QED
        BY <2>1, <2>3
<1>2. K = { key[i] : i \in D }
    BY DEF Range
<1>3. IsFiniteSet(K)
    <2>1. key \in Surjection(D, K)
        <3>1. key \in [D -> K] /\ \A t \in K : \E i \in D : key[i] = t
            BY <1>2
        <3> HIDE DEF key, K, D
        <3>2. QED
            BY <3>1 DEF Surjection
    <2> HIDE DEF key, K, D
    <2>2. QED
        BY <1>1, <2>1, FS_Surjection
<1>4. \A t \in K : c[t] = Cardinality(Keyed(D, key, {t}))
    <2>1. SUFFICES ASSUME NEW t \in K PROVE c[t] = Cardinality(Keyed(D, key, {t}))
        OBVIOUS
    <2>2. Keyed(D, key, {t}) = { i \in D : QueryType(list[i]) = t }
        BY DEF Keyed
    <2>3. QED
        BY <2>2
<1>5. DOMAIN c = K
    OBVIOUS
<1>6. Keyed(D, key, K) = D
    BY <1>2 DEF Keyed
<1> HIDE DEF key, K, D
<1>7. SumOf(c, K) = Cardinality(Keyed(D, key, K))
    <2>1. IsFiniteSet(D) /\ IsFiniteSet(K)
        BY <1>1, <1>3
    <2>2. QED
        BY ONLY <2>1, <1>4, SumOfCounts, Zenon
<1>8. QED
    BY <1>1, <1>5, <1>6, <1>7

\* The number of events of an address.
LEMMA CountTypes ==
    ASSUME NEW list \in Seq(Event)
    PROVE  /\ \A ip : IPCount(list, ip) \in Nat
           /\ \A i \in DOMAIN list : LabelCount(list, IP(list[i]), Label(list[i])) > 0
<1> DEFINE D == DOMAIN list
           I(ip) == { i \in D : IP(list[i]) = ip }
           L(ip, l) == { i \in D : IP(list[i]) = ip /\ Label(list[i]) = l }
<1>1. IsFiniteSet(D)
    <2>1. D = 1 .. Len(list) /\ 1 \in Int /\ Len(list) \in Int
        OBVIOUS
    <2>2. QED
        BY <2>1, FS_Interval
<1>2. \A ip : IPCount(list, ip) = Cardinality(I(ip))
    BY DEF IPCount, Count
<1>3. \A ip, l : LabelCount(list, ip, l) = Cardinality(L(ip, l))
    BY DEF LabelCount, Count
<1>4. (\A ip : I(ip) \in SUBSET D) /\ \A ip, l : L(ip, l) \in SUBSET D
    OBVIOUS
<1>5. \A i \in D : L(IP(list[i]), Label(list[i])) # {}
    OBVIOUS
<1> HIDE DEF D, I, L
<1>6. \A ip : Cardinality(I(ip)) \in Nat
    BY <1>1, <1>4, FS_Subset, FS_CardinalityType
<1>7. \A ip, l : IsFiniteSet(L(ip, l)) /\ Cardinality(L(ip, l)) \in Nat
    BY <1>1, <1>4, FS_Subset, FS_CardinalityType
<1>8. \A i \in D : Cardinality(L(IP(list[i]), Label(list[i]))) # 0
    BY <1>5, <1>7, FS_EmptySet
<1>9. QED
    BY <1>2, <1>3, <1>6, <1>7, <1>8 DEF D

\* an answer of GET /stats/top-ips that fits its list
TopOK(a) ==
    LET top == a.entries
        all == a.of
        shown == { top[i].ip : i \in DOMAIN top }
        left == { IP(e) : e \in Range(all) } \ shown
    IN  /\ Cardinality(shown) = Len(top)
        /\ left # {} => Len(top) = TopN
        /\ \A i \in DOMAIN top :
              /\ \A ip \in left : IPCount(all, ip) <= top[i].count
              /\ LabelCount(all, top[i].ip, top[i].label) > 0

\* The addresses of a list are finitely many.
LEMMA AddressesFinite ==
    ASSUME NEW list \in Seq(Event)
    PROVE  IsFiniteSet({ IP(e) : e \in Range(list) })
<1> DEFINE D == DOMAIN list
           K == { IP(e) : e \in Range(list) }
           key == [i \in D |-> IP(list[i])]
<1>1. IsFiniteSet(D)
    <2>1. D = 1 .. Len(list) /\ 1 \in Int /\ Len(list) \in Int
        OBVIOUS
    <2>2. QED
        BY <2>1, FS_Interval
<1>2. key \in [D -> K] /\ \A t \in K : \E i \in D : key[i] = t
    BY DEF Range
<1> HIDE DEF D, K, key
<1>3. key \in Surjection(D, K)
    BY <1>2 DEF Surjection
<1>4. IsFiniteSet(K)
    BY <1>1, <1>3, FS_Surjection
<1>5. QED
    BY <1>4 DEF K

\* Every order of the map and of equal counts gives a right answer.
LEMMA TopIsRight ==
    ASSUME NEW list \in Seq(Event), NEW s \in TopEntries(list), NEW best,
           \A i \in DOMAIN s : best[i] \in Best(list, s[i]),
           NEW a, a.of = list,
           a.entries = [i \in DOMAIN s |->
               [ip |-> s[i], count |-> IPCount(list, s[i]), label |-> best[i]]]
    PROVE  TopOK(a)
<1> DEFINE ips == { IP(e) : e \in Range(list) }
<1>1. PICK o \in SetToSeqs(ips) :
          /\ \A i, j \in DOMAIN o : i < j => IPCount(list, o[i]) >= IPCount(list, o[j])
          /\ s = SubSeq(o, 1, Min({TopN, Len(o)}))
    BY DEF TopEntries
<1>2. IsFiniteSet(ips)
    BY AddressesFinite
<1>3. PICK n \in Nat : n = Cardinality(ips)
    <2> HIDE DEF ips
    <2>1. QED
        BY <1>2, FS_CardinalityType
<1>4. /\ o \in [1 .. n -> ips]
      /\ \A i, j \in 1 .. n : i # j => o[i] # o[j]
    <2> HIDE DEF ips
    <2>1. QED
        BY <1>1, <1>3 DEF SetToSeqs
<1>5. o \in Seq(ips) /\ Len(o) = n /\ DOMAIN o = 1 .. n
    <2> HIDE DEF ips
    <2>1. QED
        BY <1>4
<1>6. \A ip \in ips : \E j \in 1 .. n : o[j] = ip
    <2> HIDE DEF ips
    <2>1. o \in Injection(1 .. n, ips)
        BY <1>4 DEF Injection, IsInjective
    <2>2. 1 \in Int /\ n \in Int
        OBVIOUS
    <2>3. IsFiniteSet(1 .. n) /\ Cardinality(1 .. n) = IF 1 > n THEN 0 ELSE n - 1 + 1
        BY <2>2, FS_Interval, Zenon
    <2>4. Cardinality(1 .. n) = Cardinality(ips)
        BY <1>3, <2>3
    <2>5. o \in Surjection(1 .. n, ips)
        BY <1>2, <2>1, <2>4, FS_Injection
    <2>6. QED
        BY <2>5 DEF Surjection
<1>7. TopN \in Nat
    BY ConstantsAssumption
<1>8. PICK m \in Nat : m = (IF TopN <= n THEN TopN ELSE n)
    BY <1>7
<1>9. m <= n /\ (m = TopN \/ m = n) /\ Min({TopN, Len(o)}) = m
    BY <1>5, <1>7, <1>8, MinOfTwo
<1>10. DOMAIN s = 1 .. m /\ Len(s) = m /\ \A i \in 1 .. m : s[i] = o[i]
    <2> HIDE DEF ips
    <2>1. s = SubSeq(o, 1, m)
        BY <1>1, <1>9
    <2>2. 1 \in 1 .. Len(o) + 1 /\ m \in 1 - 1 .. Len(o)
        BY <1>5, <1>9
    <2>3. /\ s \in Seq(ips)
          /\ Len(s) = IF 1 <= m THEN m - 1 + 1 ELSE 0
          /\ \A i \in 1 .. m - 1 + 1 : s[i] = o[1 + i - 1]
        BY <1>5, <2>1, <2>2, SubSeqProperties
    <2>4. QED
        BY <2>3
<1> DEFINE top == a.entries
           shown == { top[i].ip : i \in DOMAIN top }
<1>11. /\ DOMAIN top = 1 .. m /\ Len(top) = m
       /\ \A i \in 1 .. m : /\ top[i].ip = o[i] /\ top[i].count = IPCount(list, o[i])
                            /\ top[i].label \in Best(list, o[i])
    <2>1. top = [i \in 1 .. m |-> [ip |-> s[i], count |-> IPCount(list, s[i]), label |-> best[i]]]
        BY <1>10
    <2>2. QED
        BY <1>10, <2>1
<1>12. shown = { o[i] : i \in 1 .. m }
    <2> HIDE DEF top
    <2>1. QED
        BY <1>11
<1>13. Cardinality(shown) = m
    <2> DEFINE f == [i \in 1 .. m |-> o[i]]
    <2>1. f \in [1 .. m -> shown] /\ (\A i, j \in 1 .. m : f[i] = f[j] => i = j)
          /\ \A x \in shown : \E i \in 1 .. m : f[i] = x
        <3>1. \A i, j \in 1 .. m : o[i] = o[j] => i = j
            BY <1>4, <1>9
        <3> HIDE DEF top, shown, ips
        <3>2. QED
            BY <1>12, <3>1
    <2> HIDE DEF f, shown
    <2>2. f \in Bijection(1 .. m, shown)
        BY <2>1 DEF Bijection, Injection, Surjection, IsInjective
    <2>3. ExistsBijection(1 .. m, shown)
        BY <2>2 DEF ExistsBijection
    <2>4. QED
        BY <2>3, FS_CountingElements
<1>14. \A ip \in ips \ shown : \E j \in 1 .. n : o[j] = ip /\ j > m
    <2> HIDE DEF ips, top, shown
    <2>1. SUFFICES ASSUME NEW ip \in ips \ shown PROVE \E j \in 1 .. n : o[j] = ip /\ j > m
        OBVIOUS
    <2>2. PICK j \in 1 .. n : o[j] = ip
        BY <1>6
    <2>3. j \notin 1 .. m
        BY <1>12, <2>2
    <2>4. QED
        BY <2>2, <2>3
<1>15. ips \ shown # {} => m = TopN
    <2> HIDE DEF ips, top, shown
    <2>1. QED
        BY <1>9, <1>14
<1>16. \A i \in 1 .. m : \A ip \in ips \ shown : IPCount(list, ip) <= IPCount(list, o[i])
    <2> HIDE DEF ips, top, shown
    <2>1. SUFFICES ASSUME NEW i \in 1 .. m, NEW ip \in ips \ shown
                   PROVE  IPCount(list, ip) <= IPCount(list, o[i])
        OBVIOUS
    <2>2. PICK j \in 1 .. n : o[j] = ip /\ j > m
        BY <1>14
    <2>3. i \in 1 .. n /\ i < j
        BY <1>9, <2>2
    <2>4. IPCount(list, o[i]) >= IPCount(list, o[j])
        BY <1>1, <1>5, <2>3
    <2>5. IPCount(list, o[i]) \in Nat /\ IPCount(list, ip) \in Nat
        BY CountTypes
    <2>6. QED
        BY <2>2, <2>4, <2>5
<1>17. \A i \in 1 .. m : LabelCount(list, o[i], top[i].label) > 0
    <2>1. SUFFICES ASSUME NEW i \in 1 .. m PROVE LabelCount(list, o[i], top[i].label) > 0
        OBVIOUS
    <2>2. PICK l : l = top[i].label
        OBVIOUS
    <2>3. l \in Best(list, o[i])
        <3> HIDE DEF top
        <3>1. QED
            BY <1>11, <2>2
    <2>4. PICK e \in Range(list) : IP(e) = o[i] /\ Label(e) = l
        BY <2>3 DEF Best
    <2>5. PICK j \in DOMAIN list : list[j] = e
        BY DEF Range
    <2>6. LabelCount(list, IP(e), Label(e)) > 0
        BY <2>5, CountTypes
    <2>7. QED
        BY <2>2, <2>4, <2>6
<1>18. QED
    <2> HIDE DEF top, shown, ips
    <2>1. /\ Cardinality(shown) = Len(top)
          /\ ips \ shown # {} => Len(top) = TopN
          /\ \A i \in DOMAIN top :
                /\ \A ip \in ips \ shown : IPCount(list, ip) <= top[i].count
                /\ LabelCount(list, top[i].ip, top[i].label) > 0
        BY <1>11, <1>13, <1>15, <1>16, <1>17
    <2>2. QED
        BY <2>1, Zenon DEF TopOK, top, shown, ips

-----------------------------------------------------------------------------
(* The handlers                                                            *)

\* an answer of GET /events that fits its list
LatestOK(a) ==
    /\ Cardinality(a.items) = Min({Limit, Cardinality(Range(a.of))})
    /\ \A e \in a.items, f \in Range(a.of) \ a.items : e.time > f.time

\* an answer that fits the list it was computed from
AnswerOK(a) ==
    a # None =>
        /\ a.kind = "events" => LatestOK(a)
        /\ a.kind = "series" => SeriesOK(a)
        /\ a.kind = "top" => TopOK(a)
        /\ a.kind = "types" => SumOf(a.counts, DOMAIN a.counts) = Len(a.of)

ResponseInv == ReaderInv /\ \A r \in Reader : AnswerOK(response[r])

\* A handler that answers and is done.
LEMMA AnswerStep ==
    ASSUME ResponseInv, NEW r \in Reader, NEW a, AnswerOK(a), Answer(r, a),
           reader' = reader \/ reader' = [reader EXCEPT ![r] = None]
    PROVE  ResponseInv'
<1>1. ReaderInv /\ \A x \in Reader : AnswerOK(response[x])
    BY DEF ResponseInv
<1>2. /\ response' = [x \in Reader |-> response'[x]]
      /\ \A x \in Reader : response'[x] = IF x = r THEN a ELSE response[x]
    BY <1>1 DEF Answer, ReaderInv
<1>3. /\ reader' = [x \in Reader |-> reader'[x]]
      /\ \A x \in Reader : reader'[x] = reader[x] \/ reader'[x] = None
    BY <1>1 DEF ReaderInv
<1>4. ReaderInv'
    BY <1>1, <1>2, <1>3 DEF ReaderInv
<1>5. \A x \in Reader : AnswerOK(response'[x])
    BY <1>1, <1>2
<1>6. QED
    BY <1>4, <1>5 DEF ResponseInv

\* A handler that goes on.
LEMMA ReadingStep ==
    ASSUME ResponseInv, NEW r \in Reader, NEW a, a.doing = "series" => a.now \in Nat,
           reader' = [reader EXCEPT ![r] = a], UNCHANGED response
    PROVE  ResponseInv'
<1>1. ReaderInv /\ \A x \in Reader : AnswerOK(response[x])
    BY DEF ResponseInv
<1>2. /\ reader' = [x \in Reader |-> reader'[x]]
      /\ \A x \in Reader : reader'[x] = IF x = r THEN a ELSE reader[x]
    BY <1>1 DEF ReaderInv
<1>3. ReaderInv'
    BY <1>1, <1>2 DEF ReaderInv
<1>4. QED
    BY <1>1, <1>3 DEF ResponseInv

\* Every handler answers what fits the list it read, whatever was saved since.
LEMMA HandlerStep ==
    ASSUME StoreInv, ResponseInv, NEW r \in Reader, ServeHTTP(r)
    PROVE  ResponseInv'
<1>1. TypeInv /\ ReaderInv
    BY DEF StoreInv, ResponseInv
<1>2. "dns" \in Proto
    BY DEF Proto
<1>3. PICK list : list = List("dns")
    OBVIOUS
<1>4. ~Unreadable => DistinctEvents(list)
    BY <1>2, <1>3, ListIsDistinct
<1>5. CASE HandlerFails(r)
    <2>1. AnswerOK(ServerError)
        BY DEF AnswerOK, ServerError
    <2>2. QED
        BY <1>5, <2>1, AnswerStep DEF HandlerFails
<1>6. CASE MetricsDNS(r)
    <2>1. PICK a : a.doing = "metrics" /\ reader' = [reader EXCEPT ![r] = a]
        BY <1>6 DEF MetricsDNS
    <2>2. UNCHANGED response
        BY <1>6 DEF MetricsDNS
    <2>3. QED
        BY <2>1, <2>2, ReadingStep
<1>7. CASE MetricsNTP(r)
    <2> DEFINE a == [kind |-> "metrics", total |-> reader[r].total,
                     ntpTotal |-> Len(List("ntp"))]
    <2>1. AnswerOK(a)
        BY DEF AnswerOK
    <2>2. Answer(r, a) /\ reader' = [reader EXCEPT ![r] = None]
        BY <1>7 DEF MetricsNTP
    <2> HIDE DEF a
    <2>3. QED
        BY <2>1, <2>2, AnswerStep
<1>8. CASE HandleEvents(r)
    <2> DEFINE a == [kind |-> "events", items |-> Newest(list), of |-> list]
    <2>1. DistinctEvents(list) /\ Answer(r, a) /\ reader' = reader
        BY <1>3, <1>4, <1>8 DEF HandleEvents
    <2>2. a.kind = "events" /\ a.items = Newest(list) /\ a.of = list
        OBVIOUS
    <2> HIDE DEF a
    <2>3. LatestOK(a)
        BY <2>1, <2>2, NewestIsLatest DEF LatestOK
    <2>4. AnswerOK(a)
        BY <2>2, <2>3 DEF AnswerOK
    <2>5. QED
        BY <2>1, <2>4, AnswerStep
<1>9. CASE TimeseriesStart(r)
    <2> DEFINE a == [doing |-> "series", now |-> clock]
    <2>1. a.now \in Nat /\ reader' = [reader EXCEPT ![r] = a] /\ UNCHANGED response
        BY <1>1, <1>9 DEF TimeseriesStart, TypeInv
    <2> HIDE DEF a
    <2>2. QED
        BY <2>1, ReadingStep
<1>10. CASE TimeseriesList(r)
    <2>1. PICK t \in Nat : t = reader[r].now
        BY <1>1, <1>10 DEF TimeseriesList, ReaderInv
    <2> DEFINE a == [kind |-> "series", now |-> t, of |-> list, buckets |-> Buckets(t, list)]
    <2>2. /\ DistinctEvents(list) /\ Answer(r, a)
          /\ reader' = [reader EXCEPT ![r] = None]
        BY <1>3, <1>4, <1>10, <2>1 DEF TimeseriesList
    <2>3. a.kind = "series" /\ a.now = t /\ a.of = list /\ a.buckets = Buckets(t, list)
        OBVIOUS
    <2> HIDE DEF a
    <2>4. SeriesOK(a)
        BY <2>1, <2>2, <2>3, BucketsCount DEF SeriesOK
    <2>5. AnswerOK(a)
        BY <2>3, <2>4 DEF AnswerOK
    <2>6. QED
        BY <2>2, <2>5, AnswerStep
<1>11. CASE HandleQueryTypes(r)
    <2> DEFINE c == [t \in { QueryType(e) : e \in Range(list) } |->
                        Cardinality({ i \in DOMAIN list : QueryType(list[i]) = t })]
               a == [kind |-> "types", of |-> list, counts |-> c]
    <2>1. /\ list \in Seq(Event) /\ Answer(r, a) /\ reader' = reader
        BY <1>3, <1>4, <1>11 DEF HandleQueryTypes, Count, DistinctEvents
    <2>2. SumOf(c, DOMAIN c) = Len(list)
        BY <2>1, TypesAddUp
    <2> HIDE DEF c
    <2>3. a.kind = "types" /\ a.of = list /\ a.counts = c
        OBVIOUS
    <2> HIDE DEF a
    <2>4. AnswerOK(a)
        BY <2>2, <2>3 DEF AnswerOK
    <2>5. QED
        BY <2>1, <2>4, AnswerStep
<1>12. CASE HandleTopIPs(r)
    <2>0. PICK s \in TopEntries(list) : \E best :
              /\ \A i \in DOMAIN s : best[i] \in Best(list, s[i])
              /\ Answer(r, [kind |-> "top", of |-> list,
                            entries |-> [i \in DOMAIN s |->
                                [ip |-> s[i], count |-> IPCount(list, s[i]), label |-> best[i]]]])
        BY <1>3, <1>12, Zenon DEF HandleTopIPs
    <2>1. list \in Seq(Event) /\ reader' = reader
        BY <1>4, <1>12 DEF HandleTopIPs, DistinctEvents
    <2>2. PICK best :
              /\ \A i \in DOMAIN s : best[i] \in Best(list, s[i])
              /\ Answer(r, [kind |-> "top", of |-> list,
                            entries |-> [i \in DOMAIN s |->
                                [ip |-> s[i], count |-> IPCount(list, s[i]), label |-> best[i]]]])
        BY <2>0
    <2> DEFINE t == [i \in DOMAIN s |->
                        [ip |-> s[i], count |-> IPCount(list, s[i]), label |-> best[i]]]
               a == [kind |-> "top", of |-> list, entries |-> t]
    <2> HIDE DEF t
    <2>3. a.kind = "top" /\ a.of = list /\ a.entries = t
        OBVIOUS
    <2> HIDE DEF a
    <2>4. TopOK(a)
        BY <2>1, <2>2, <2>3, TopIsRight DEF t
    <2>5. AnswerOK(a)
        BY <2>3, <2>4 DEF AnswerOK
    <2>6. Answer(r, a)
        BY <2>2 DEF a, t
    <2>7. QED
        BY <2>1, <2>5, <2>6, AnswerStep
<1>13. QED
    BY <1>5, <1>6, <1>7, <1>8, <1>9, <1>10, <1>11, <1>12 DEF ServeHTTP

\* Every step keeps the answers right.
LEMMA ResponseStep == StoreInv /\ ResponseInv /\ [Next]_vars => ResponseInv'
<1> SUFFICES ASSUME StoreInv, ResponseInv, [Next]_vars PROVE ResponseInv'
    OBVIOUS
<1>1. ASSUME UNCHANGED <<reader, response>> PROVE ResponseInv'
    BY <1>1 DEF ResponseInv, ReaderInv
<1>2. ASSUME NEW w \in Writer,
             \/ \E q \in Proto : NewEvent(w, q)
             \/ SaveMemory(w) \/ SaveLine(w) \/ SaveShort(w)
      PROVE  ResponseInv'
    BY <1>1, <1>2 DEF NewEvent, SaveMemory, SaveLine, SaveShort, readVars
<1>3. CASE Restart
    <2>1. reader' = [r \in Reader |-> None] /\ response' = [r \in Reader |-> None]
        BY <1>3 DEF Restart
    <2>2. QED
        BY <2>1 DEF ResponseInv, ReaderInv, AnswerOK
<1>4. CASE UNCHANGED vars
    BY <1>1, <1>4 DEF vars, readVars
<1>5. QED
    BY <1>2, <1>3, <1>4, HandlerStep DEF Next

\* Answers fit their lists in every reachable state.
LEMMA ResponseInvariance == Spec => []ResponseInv
<1>1. Init => ResponseInv
    BY DEF Init, ResponseInv, ReaderInv, AnswerOK
<1>2. QED
    BY <1>1, InitStore, StoreStep, ResponseStep, PTL DEF Spec

-----------------------------------------------------------------------------
(* What is answered, in every reachable state                              *)

\* GET /events shows Limit events, or all, and leaves out none that is later than
\* one it shows, in whatever order the events were saved.
THEOREM EventsAreTheLatest == Spec => []EventsAreLatest
<1>1. ResponseInv => EventsAreLatest
    BY DEF ResponseInv, AnswerOK, LatestOK, EventsAreLatest
<1>2. QED
    BY <1>1, ResponseInvariance, PTL

\* GET /stats/timeseries counts each event of the hours it covers in one bucket,
\* that of its hour, although the hours are fixed before the list is read.
THEOREM SeriesAreComplete == Spec => []SeriesIsComplete
<1>1. ResponseInv => SeriesIsComplete
    BY DEF ResponseInv, AnswerOK, SeriesOK, SeriesIsComplete
<1>2. QED
    BY <1>1, ResponseInvariance, PTL

\* GET /stats/top-ips and GET /stats/query-types fit the list they were computed
\* from, for every order of the map and of equal counts.
THEOREM StatsMatchLists == Spec => []StatsMatchList
<1>1. ASSUME ResponseInv PROVE StatsMatchList
    <2>1. ASSUME NEW r \in Reader, response[r] # None, response[r].kind = "top"
          PROVE  TopOK(response[r])
        BY <1>1, <2>1 DEF ResponseInv, AnswerOK
    <2>2. ASSUME NEW r \in Reader, response[r] # None, response[r].kind = "types"
          PROVE  SumOf(response[r].counts, DOMAIN response[r].counts) = Len(response[r].of)
        BY <1>1, <2>2 DEF ResponseInv, AnswerOK
    <2>3. QED
        BY <2>1, <2>2, Zenon
            DEF StatsMatchList, TopOK, SumOf, MapThenSumSet, MapThenFoldSet
<1>2. QED
    BY <1>1, ResponseInvariance, PTL

-----------------------------------------------------------------------------
(* The dashboard, the page that shows what the routes answer                *)

\* the sections with a banner
Section == Chart \cup {"events"}

\* the requests of refresh r have all settled
Settled(r) == \A e \in Endpoint : result[r][e] # "pending"

\* what the page may show
PageRecord == [total : Nat, exp : Nat, amp : Nat, feed : Nat, variant : Nat,
               chart : [Chart -> Nat], err : SUBSET Section, spinner : BOOLEAN]

\* the results of the requests of all refreshes, and the page
PageType ==
    /\ started \in Refresh
    /\ result \in [Refresh ->
                      [Endpoint -> {"pending", "ok", "empty", "null", "applied"}]]
    /\ details \in [Refresh -> {"none", "pending", "done"}]
    /\ page \in PageRecord

\* A refresh that has not started has asked for nothing; details are asked for
\* when the requests have settled; no section shows data of a later refresh.
RefreshInv ==
    /\ \A r \in Refresh : r > started =>
          details[r] = "none" /\ \A e \in Endpoint : result[r][e] = "pending"
    /\ \A r \in Refresh : details[r] # "none" => Settled(r)
    /\ \A e \in Endpoint : result[started][e] # "applied"
    /\ page.variant <= started
    /\ \A c \in Chart : page.chart[c] <= started

\* While a refresh that started alone waits, the page shows data of earlier ones
\* and the banners of the requests that have failed; then what it obtained.
LoneInv ==
    /\ \A r \in Refresh : r < started => ~UnderWay(r)
    /\ \A e \in Section : result[started][e] = "null" => e \in page.err
    /\ ~Settled(started) =>
          page.variant < started /\ \A c \in Chart : page.chart[c] < started
    /\ Settled(started) =>
          /\ page.total = Value(started, result[started], "metrics")
          /\ page.exp = Value(started, result[started], "experiments")
          /\ page.amp = Value(started, result[started], "events")
          /\ page.feed = page.amp
          /\ \A c \in Chart : page.chart[c] = started <=> result[started][c] # "null"
          /\ page.err = { e \in Section : result[started][e] = "null" }
          /\ page.variant = started <=> details[started] = "done"
          /\ details[started] # "none" <=> AsksForDetails(result[started])
          /\ ~page.spinner

\* inductive: a lone refresh is the only one that still changes the page
PageInv ==
    /\ PageType
    /\ RefreshInv
    /\ alone => LoneInv

\* Which sections and endpoints there are.
LEMMA Endpoints ==
    /\ Section \subseteq Endpoint
    /\ Chart \subseteq Section /\ Chart \subseteq Endpoint
    /\ {"metrics", "events", "experiments"} \subseteq Endpoint
    BY DEF Section, Endpoint

\* At first the first refresh is under way and nothing is shown.
LEMMA PageStarts == PageInit => PageInv
<1> SUFFICES ASSUME PageInit PROVE PageInv
    OBVIOUS
<1>1. started = 1 /\ 1 \in Refresh /\ started \in Refresh
    BY DashboardAssumption DEF PageInit, Refresh
<1>2. /\ result = [r \in Refresh |-> [e \in Endpoint |-> "pending"]]
      /\ details = [r \in Refresh |-> "none"]
      /\ page = [total |-> 0, exp |-> 0, amp |-> 0, feed |-> 0, variant |-> 0,
                 chart |-> [c \in Chart |-> 0], err |-> {}, spinner |-> TRUE]
    BY DEF PageInit
<1>3. PageType
    BY <1>1, <1>2 DEF PageType, PageRecord
<1>4. RefreshInv
    BY <1>1, <1>2 DEF RefreshInv
<1>5. LoneInv
    <2>1. ~Settled(started)
        BY <1>1, <1>2, Endpoints DEF Settled
    <2>2. \A r \in Refresh : ~(r < started)
        BY <1>1, DashboardAssumption DEF Refresh
    <2>3. \A e \in Section : result[started][e] # "null"
        BY <1>1, <1>2, Endpoints
    <2>4. page.variant < started /\ \A c \in Chart : page.chart[c] < started
        BY <1>1, <1>2
    <2>5. QED
        BY <2>1, <2>2, <2>3, <2>4 DEF LoneInv
<1>6. QED
    BY <1>3, <1>4, <1>5 DEF PageInv

\* q is p with what refresh r obtained, as the page shows it
Shows(q, p, r, res) ==
    /\ q \in PageRecord
    /\ q.total = Value(r, res, "metrics")
    /\ q.exp = Value(r, res, "experiments")
    /\ q.amp = Value(r, res, "events")
    /\ q.feed = IF res["events"] = "null" THEN 0 ELSE r
    /\ \A c \in Chart : q.chart[c] = IF res[c] # "null" THEN r ELSE p.chart[c]
    /\ q.err = p.err \ { e \in Section : res[e] # "null" }
    /\ q.variant = p.variant
    /\ ~q.spinner

\* What the last request of a refresh to settle makes of the page.
LEMMA AppliedPage ==
    ASSUME NEW p \in PageRecord, NEW r \in Nat, NEW res, NEW q, q = Apply(p, r, res)
    PROVE  Shows(q, p, r, res)
<1>1. \A e : Value(r, res, e) \in Nat
    BY DEF Value
<1>2. PICK a : a = updateCards(p, r, res)
    OBVIOUS
<1>3. /\ a \in PageRecord
      /\ a.total = Value(r, res, "metrics")
      /\ a.exp = Value(r, res, "experiments")
      /\ a.amp = Value(r, res, "events")
      /\ a.chart = p.chart /\ a.err = p.err /\ a.variant = p.variant
    BY <1>1, <1>2 DEF updateCards, PageRecord
<1> DEFINE fresh == { c \in Chart : res[c] # "null" }
<1>4. PICK b : b = updateCharts(a, r, res)
    OBVIOUS
<1>5. b = [a EXCEPT !.chart = [c \in Chart |-> IF c \in fresh THEN r ELSE a.chart[c]],
                    !.err = a.err \ fresh]
    BY <1>3, <1>4 DEF updateCharts, PageRecord
<1>6. /\ b \in PageRecord
      /\ b.total = a.total /\ b.exp = a.exp /\ b.amp = a.amp /\ b.variant = a.variant
      /\ \A c \in Chart : b.chart[c] = IF res[c] # "null" THEN r ELSE a.chart[c]
      /\ b.err = a.err \ fresh
    BY <1>3, <1>5 DEF PageRecord
<1>7. PICK d : d = updateFeed(b, r, res)
    OBVIOUS
<1>8. /\ d \in PageRecord
      /\ d.total = b.total /\ d.exp = b.exp /\ d.amp = b.amp /\ d.variant = b.variant
      /\ d.chart = b.chart
      /\ d.feed = IF res["events"] = "null" THEN 0 ELSE r
      /\ d.err = IF res["events"] = "null" THEN b.err ELSE b.err \ {"events"}
    BY <1>6, <1>7 DEF updateFeed, PageRecord
<1>9. d.err = p.err \ { e \in Section : res[e] # "null" }
    <2>1. d.err = (p.err \ fresh) \ (IF res["events"] = "null" THEN {} ELSE {"events"})
        BY <1>3, <1>6, <1>8
    <2>2. { e \in Section : res[e] # "null" }
             = fresh \cup (IF res["events"] = "null" THEN {} ELSE {"events"})
        BY DEF Section
    <2>3. QED
        BY <2>1, <2>2
<1>10. q = [d EXCEPT !.spinner = FALSE]
    BY <1>2, <1>4, <1>7 DEF Apply
<1>11. /\ q \in PageRecord /\ ~q.spinner
       /\ q.total = d.total /\ q.exp = d.exp /\ q.amp = d.amp /\ q.variant = d.variant
       /\ q.chart = d.chart /\ q.feed = d.feed /\ q.err = d.err
    BY <1>8, <1>10 DEF PageRecord
<1>12. \A c \in Chart : q.chart[c] = IF res[c] # "null" THEN r ELSE p.chart[c]
    BY <1>3, <1>6, <1>8, <1>11
<1>13. QED
    BY <1>3, <1>6, <1>8, <1>9, <1>11, <1>12 DEF Shows

\* The banner of a request that failed.
LEMMA ErrShown ==
    ASSUME PageType, NEW e, NEW to
    PROVE  LET p == showErr(page, e, to)
           IN  /\ p \in PageRecord
               /\ p.variant = page.variant /\ p.chart = page.chart
               /\ p.spinner = page.spinner
               /\ \A s \in Section : s \in p.err <=> s \in page.err \/ (to = "null" /\ s = e)
    BY DEF PageType, PageRecord, showErr, Section

\* A new refresh has asked for everything and obtained nothing.
LEMMA CountedDownKeepsPage ==
    ASSUME PageInv, CountedDown
    PROVE  PageInv'
<1>1. /\ started < MaxRefresh /\ started' = started + 1 /\ details' = details
      /\ page' = [page EXCEPT !.spinner = TRUE]
      /\ alone' = ~\E r \in Refresh : UnderWay(r)
      /\ result' = [r \in Refresh |->
                       IF r <= started /\ ~Waiting(r) THEN Applied ELSE result[r]]
    BY DEF CountedDown
<1>2. /\ page' \in PageRecord /\ page'.variant = page.variant /\ page'.chart = page.chart
      /\ page'.err = page.err
    BY <1>1 DEF PageInv, PageType, PageRecord
<1>3. /\ MaxRefresh \in Nat /\ started \in Nat /\ started \in Refresh
      /\ started' \in Refresh
      /\ \A r \in Refresh : r \in Nat
    BY <1>1, DashboardAssumption DEF PageInv, PageType, Refresh
<1>4. Applied \in [Endpoint -> {"pending", "ok", "empty", "null", "applied"}]
    BY DEF Applied
<1>5. \A e \in Endpoint : Applied[e] = "applied"
    BY DEF Applied
<1>6. PageType'
    <2>1. result' \in [Refresh ->
                          [Endpoint -> {"pending", "ok", "empty", "null", "applied"}]]
        BY <1>1, <1>4 DEF PageInv, PageType
    <2>2. QED
        BY <1>1, <1>2, <1>3, <2>1
        DEF PageInv, PageType, PageRecord, Section, Refresh, Endpoint
<1>7. /\ \A r \in Refresh : r > started => result'[r] = result[r]
      /\ \A r \in Refresh : r <= started /\ ~Waiting(r) => result'[r] = Applied
      /\ \A r \in Refresh : result'[r] \in {Applied, result[r]}
    BY <1>1, <1>3
<1>8. \A e \in Endpoint : result'[started'][e] = "pending"
    <2>1. started' > started
        BY <1>1, <1>3
    <2>2. result'[started'] = result[started']
        BY <1>3, <1>7, <2>1
    <2>3. \A e \in Endpoint : result[started'][e] = "pending"
        BY <1>3, <2>1 DEF PageInv, RefreshInv
    <2>4. QED
        BY <2>2, <2>3
<1>9. RefreshInv'
    <2>1. ASSUME NEW r \in Refresh, r > started'
          PROVE  details'[r] = "none" /\ \A e \in Endpoint : result'[r][e] = "pending"
        <3>1. r > started
            BY <1>1, <1>3, <2>1
        <3>2. QED
            BY <1>1, <1>7, <3>1 DEF PageInv, RefreshInv
    <2>2. ASSUME NEW r \in Refresh, details'[r] # "none"
          PROVE  \A e \in Endpoint : result'[r][e] # "pending"
        BY <1>1, <1>5, <1>7, <2>2 DEF PageInv, RefreshInv, Settled
    <2>3. \A e \in Endpoint : result'[started'][e] # "applied"
        BY <1>8
    <2>4. page'.variant <= started' /\ \A c \in Chart : page'.chart[c] <= started'
        BY <1>1, <1>2, <1>3 DEF PageInv, PageType, PageRecord, RefreshInv
    <2>5. QED
        BY <2>1, <2>2, <2>3, <2>4 DEF RefreshInv, Settled, Refresh, Endpoint
<1>10. ASSUME alone' PROVE LoneInv'
    <2>1. \A r \in Refresh : ~UnderWay(r)
        BY <1>1, <1>10
    <2>2. ASSUME NEW r \in Refresh, r < started'
          PROVE  ~(r <= started' /\ \E e \in Endpoint : result'[r][e] = "pending")
                 /\ details'[r] # "pending"
        <3>1. r <= started
            BY <1>1, <1>3, <2>2
        <3>2. ~Waiting(r) /\ details[r] # "pending"
            BY <2>1 DEF UnderWay
        <3>3. QED
            BY <1>1, <1>5, <1>7, <3>1, <3>2
    <2>3. \A r \in Refresh : r < started' => ~UnderWay(r)'
        BY <2>2 DEF UnderWay, Waiting, Endpoint
    <2>4. ~Settled(started)'
        BY <1>8, Endpoints DEF Settled, Endpoint
    <2>5. \A e \in Section : result'[started'][e] # "null"
        BY <1>8, Endpoints
    <2>6. page'.variant < started' /\ \A c \in Chart : page'.chart[c] < started'
        BY <1>1, <1>2, <1>3 DEF PageInv, PageType, PageRecord, RefreshInv
    <2>7. QED
        BY <2>3, <2>4, <2>5, <2>6 DEF LoneInv, Refresh, Section
<1>11. QED
    BY <1>6, <1>9, <1>10 DEF PageInv

\* The names of the variants come after the rest of their refresh.
LEMMA DetailsKeepPage ==
    ASSUME PageInv, NEW r \in Refresh, SettleDetails(r)
    PROVE  PageInv'
<1>1. /\ details[r] = "pending" /\ details' = [details EXCEPT ![r] = "done"]
      /\ page' = [page EXCEPT !.variant = r]
      /\ started' = started /\ result' = result /\ alone' = alone
    BY DEF SettleDetails
<1>2. started \in Nat /\ r \in Nat /\ started \in Refresh /\ MaxRefresh \in Nat
    BY DashboardAssumption DEF PageInv, PageType, Refresh
<1>3. r <= started /\ Settled(r)
    BY <1>1, <1>2 DEF PageInv, RefreshInv
<1>4. /\ page' \in PageRecord /\ page'.variant = r
      /\ page'.total = page.total /\ page'.exp = page.exp /\ page'.amp = page.amp
      /\ page'.feed = page.feed /\ page'.chart = page.chart /\ page'.err = page.err
      /\ page'.spinner = page.spinner
    BY <1>1, <1>2 DEF PageInv, PageType, PageRecord
<1>5. /\ details' \in [Refresh -> {"none", "pending", "done"}]
      /\ details'[r] = "done"
      /\ \A q \in Refresh : q # r => details'[q] = details[q]
    BY <1>1 DEF PageInv, PageType
<1>6. PageType'
    BY <1>1, <1>4, <1>5 DEF PageInv, PageType, PageRecord, Section, Refresh, Endpoint
<1>7. RefreshInv'
    <2>1. \A q \in Refresh : q > started => q # r
        BY <1>2, <1>3 DEF Refresh
    <2>2. \A q \in Refresh : details'[q] # "none" => Settled(q)
        BY <1>3, <1>5 DEF PageInv, RefreshInv
    <2>3. QED
        BY <1>1, <1>3, <1>4, <1>5, <2>1, <2>2
        DEF PageInv, RefreshInv, Settled, Refresh, Endpoint
<1>8. ASSUME alone' PROVE LoneInv'
    <2>1. LoneInv
        BY <1>1, <1>8 DEF PageInv
    <2>2. r = started
        <3>1. ~(r < started)
            BY <1>1, <2>1 DEF LoneInv, UnderWay
        <3>2. QED
            BY <1>2, <1>3, <3>1
    <2>3. \A q \in Refresh : q < started => ~UnderWay(q)'
        <3>1. \A q \in Refresh : q < started => q # r
            BY <1>2, <2>2 DEF Refresh
        <3>2. QED
            BY <1>1, <1>5, <2>1, <3>1 DEF LoneInv, UnderWay, Waiting, Endpoint
    <2>4. \A e \in Section : result'[started'][e] = "null" => e \in page'.err
        BY <1>1, <1>4, <2>1 DEF LoneInv
    <2>5. Settled(started)
        BY <1>3, <2>2
    <2>6. /\ page.total = Value(started, result[started], "metrics")
          /\ page.exp = Value(started, result[started], "experiments")
          /\ page.amp = Value(started, result[started], "events")
          /\ page.feed = page.amp
          /\ \A c \in Chart : page.chart[c] = started <=> result[started][c] # "null"
          /\ page.err = { e \in Section : result[started][e] = "null" }
          /\ details[started] # "none" <=> AsksForDetails(result[started])
          /\ ~page.spinner
        BY <2>1, <2>5 DEF LoneInv
    <2>7. AsksForDetails(result[started])
        BY <1>1, <2>2, <2>6
    <2>8. details'[started] = "done" /\ page'.variant = started
        BY <1>4, <1>5, <2>2
    <2>9. QED
        BY <1>1, <1>4, <2>3, <2>4, <2>5, <2>6, <2>7, <2>8
        DEF LoneInv, Section, Settled, Refresh, Endpoint, Value, AsksForDetails
<1>9. QED
    BY <1>6, <1>7, <1>8 DEF PageInv

\* A request settles, the last one of its refresh or not.
LEMMA SettleKeepsPage ==
    ASSUME PageInv, NEW r \in Refresh, NEW e \in Endpoint,
           NEW to \in {"ok", "empty", "null"}, Settle(r, e, to)
    PROVE  PageInv'
<1>1. PICK res : res = [result[r] EXCEPT ![e] = to]
    OBVIOUS
<1>2. PICK p : p = showErr(page, e, to)
    OBVIOUS
<1> DEFINE complete == \A f \in Endpoint : res[f] # "pending"
<1>3. /\ r <= started /\ result[r][e] = "pending" /\ started' = started /\ alone' = alone
      /\ result' = [result EXCEPT ![r] = IF complete /\ r < started THEN Applied ELSE res]
      /\ page' = IF complete THEN Apply(p, r, res) ELSE p
      /\ details' = IF complete /\ AsksForDetails(res)
                    THEN [details EXCEPT ![r] = "pending"] ELSE details
    BY <1>1, <1>2 DEF Settle
<1>4. started \in Nat /\ r \in Nat /\ started \in Refresh /\ MaxRefresh \in Nat
    BY DashboardAssumption DEF PageInv, PageType, Refresh
<1>5. /\ res \in [Endpoint -> {"pending", "ok", "empty", "null", "applied"}]
      /\ res[e] = to /\ \A f \in Endpoint : f # e => res[f] = result[r][f]
    BY <1>1 DEF PageInv, PageType
<1>6. /\ p \in PageRecord /\ p.variant = page.variant /\ p.chart = page.chart
      /\ \A s \in Section : s \in p.err <=> s \in page.err \/ (to = "null" /\ s = e)
    BY <1>2, ErrShown DEF PageInv
<1>7. PICK q : q = Apply(p, r, res)
    OBVIOUS
<1>8. /\ q \in PageRecord
      /\ q.total = Value(r, res, "metrics")
      /\ q.exp = Value(r, res, "experiments")
      /\ q.amp = Value(r, res, "events")
      /\ q.feed = IF res["events"] = "null" THEN 0 ELSE r
      /\ \A c \in Chart : q.chart[c] = IF res[c] # "null" THEN r ELSE p.chart[c]
      /\ q.err = p.err \ { s \in Section : res[s] # "null" }
      /\ q.variant = p.variant
      /\ ~q.spinner
    <2>1. p \in PageRecord /\ r \in Nat
        BY <1>4, <1>6
    <2>2. Shows(q, p, r, res)
        BY <1>7, <2>1, AppliedPage
    <2>3. QED
        BY <2>2 DEF Shows
<1>9. page' = IF complete THEN q ELSE p
    BY <1>3, <1>7
<1>10. /\ Applied \in [Endpoint -> {"pending", "ok", "empty", "null", "applied"}]
       /\ \A f \in Endpoint : Applied[f] = "applied"
    BY DEF Applied
<1>11. /\ result' \in [Refresh ->
                          [Endpoint -> {"pending", "ok", "empty", "null", "applied"}]]
       /\ \A i \in Refresh : i # r => result'[i] = result[i]
       /\ result'[r] = IF complete /\ r < started THEN Applied ELSE res
    <2> HIDE DEF complete
    <2> QED
        BY <1>3, <1>5, <1>10 DEF PageInv, PageType
<1>12. details[r] = "none"
    BY <1>3 DEF PageInv, RefreshInv, Settled
<1>13. /\ details' \in [Refresh -> {"none", "pending", "done"}]
       /\ \A i \in Refresh : i # r => details'[i] = details[i]
       /\ details'[r] = IF complete /\ AsksForDetails(res) THEN "pending" ELSE "none"
    <2> HIDE DEF complete
    <2> QED
        BY <1>3, <1>12 DEF PageInv, PageType
<1>14. complete => \A f \in Endpoint : result'[r][f] # "pending"
    BY <1>10, <1>11
<1> HIDE DEF complete
<1>15. PageType'
    <2>1. page' \in PageRecord
        BY <1>6, <1>8, <1>9
    <2>2. QED
        BY <1>3, <1>11, <1>13, <2>1
        DEF PageInv, PageType, PageRecord, Section, Refresh, Endpoint
<1>16. /\ page'.variant = page.variant
       /\ \A c \in Chart : page'.chart[c] \in {page.chart[c], r}
    BY <1>6, <1>8, <1>9
<1>17. RefreshInv'
    <2>1. ASSUME NEW i \in Refresh, i > started
          PROVE  details'[i] = "none" /\ \A f \in Endpoint : result'[i][f] = "pending"
        <3>1. i # r
            BY <1>3, <1>4, <2>1 DEF Refresh
        <3>2. QED
            BY <1>11, <1>13, <2>1, <3>1 DEF PageInv, RefreshInv
    <2>2. ASSUME NEW i \in Refresh, details'[i] # "none"
          PROVE  \A f \in Endpoint : result'[i][f] # "pending"
        <3>1. CASE i = r
            BY <1>13, <1>14, <2>2, <3>1
        <3>2. CASE i # r
            BY <1>11, <1>13, <2>2, <3>2 DEF PageInv, RefreshInv, Settled
        <3>3. QED
            BY <3>1, <3>2
    <2>3. \A f \in Endpoint : result'[started][f] # "applied"
        <3>1. CASE r = started
            <4>1. ~(r < started)
                BY <1>4, <3>1
            <4>2. result'[started] = res
                BY <1>11, <3>1, <4>1
            <4>3. QED
                BY <1>5, <3>1, <4>2 DEF PageInv, RefreshInv
        <3>2. CASE r # started
            BY <1>4, <1>11, <3>2 DEF PageInv, RefreshInv
        <3>3. QED
            BY <3>1, <3>2
    <2>4. page'.variant <= started /\ \A c \in Chart : page'.chart[c] <= started
        BY <1>3, <1>16 DEF PageInv, RefreshInv
    <2>5. QED
        BY <1>3, <2>1, <2>2, <2>3, <2>4
        DEF RefreshInv, Settled, Refresh, Endpoint
<1>18. ASSUME alone' PROVE LoneInv'
    <2>1. LoneInv
        BY <1>3, <1>18 DEF PageInv
    \* only the refresh that started alone waits
    <2>2. r = started
        <3>1. ~(r < started)
            BY <1>3, <2>1 DEF LoneInv, UnderWay, Waiting
        <3>2. QED
            BY <1>3, <1>4, <3>1
    <2>3. result'[started] = res
        <3>1. ~(r < started)
            BY <1>4, <2>2
        <3>2. QED
            BY <1>11, <2>2, <3>1
    <2>4. \A i \in Refresh : i < started => ~UnderWay(i)'
        <3>1. \A i \in Refresh : i < started => i # r
            BY <1>4, <2>2 DEF Refresh
        <3>2. QED
            BY <1>3, <1>11, <1>13, <2>1, <3>1
            DEF LoneInv, UnderWay, Waiting, Endpoint
    <2>5. ~Settled(started)
        BY <1>3, <2>2 DEF Settled
    <2>6. page.variant < started /\ \A c \in Chart : page.chart[c] < started
        BY <2>1, <2>5 DEF LoneInv
    <2>7. \A s \in Section : res[s] = "null" => s \in p.err
        BY <1>5, <1>6, <2>1, <2>2, Endpoints DEF LoneInv
    <2>8. \A s \in Section : result'[started'][s] = "null" => s \in page'.err
        BY <1>3, <1>8, <1>9, <2>3, <2>7
    <2>9. Settled(started)' <=> complete
        BY <1>3, <2>3 DEF Settled, complete, Endpoint
    <2>10. CASE ~complete
        <3>1. page' = p
            BY <1>9, <2>10
        <3>2. page'.variant < started' /\ \A c \in Chart : page'.chart[c] < started'
            BY <1>3, <1>6, <2>6, <3>1
        <3>3. QED
            BY <1>3, <2>4, <2>8, <2>9, <2>10, <3>2 DEF LoneInv, Refresh, Section
    <2>11. CASE complete
        <3>1. page' = q
            BY <1>9, <2>11
        <3>2. \A f \in Endpoint : res[f] \in {"ok", "empty", "null"}
            <4>1. \A f \in Endpoint : res[f] # "pending"
                BY <2>11 DEF complete
            <4>2. \A f \in Endpoint : res[f] # "applied"
                BY <1>3, <1>17, <2>3 DEF RefreshInv, Endpoint
            <4>3. QED
                BY <1>5, <4>1, <4>2
        <3>3. q.feed = q.amp
            BY <1>8, <3>2, Endpoints DEF Value
        <3>4. \A c \in Chart : q.chart[c] = started <=> res[c] # "null"
            <4>1. ASSUME NEW c \in Chart PROVE page.chart[c] # started
                <5>1. page.chart[c] \in Nat /\ page.chart[c] < started
                    BY <2>6 DEF PageInv, PageType, PageRecord
                <5>2. QED
                    BY <1>4, <5>1
            <4>2. QED
                BY <1>6, <1>8, <2>2, <4>1
        <3>5. q.err = { s \in Section : res[s] = "null" }
            <4>1. p.err \subseteq Section
                BY <1>6 DEF PageRecord
            <4>2. QED
                BY <1>8, <2>7, <4>1
        <3>6. q.variant # started
            <4>1. page.variant \in Nat /\ page.variant < started
                BY <2>6 DEF PageInv, PageType, PageRecord
            <4>2. QED
                BY <1>4, <1>6, <1>8, <4>1
        <3>7. /\ details'[started] # "done"
              /\ details'[started] # "none" <=> AsksForDetails(res)
            BY <1>13, <2>2, <2>11
        <3>8. /\ q.total = Value(started, res, "metrics")
              /\ q.exp = Value(started, res, "experiments")
              /\ q.amp = Value(started, res, "events")
              /\ ~q.spinner
            BY <1>8, <2>2
        <3>9. QED
            BY <1>3, <2>3, <2>4, <2>8, <2>9, <2>11, <3>1, <3>3, <3>4, <3>5, <3>6, <3>7, <3>8
            DEF LoneInv, Section, Refresh, Value, AsksForDetails
    <2>12. QED
        BY <2>10, <2>11
<1>19. QED
    BY <1>15, <1>17, <1>18 DEF PageInv

\* Every step of the script keeps what the page shows in line with the refreshes.
LEMMA PageStep == PageInv /\ [PageNext]_pageVars => PageInv'
<1> SUFFICES ASSUME PageInv, [PageNext]_pageVars PROVE PageInv'
    OBVIOUS
<1>1. CASE CountedDown
    BY <1>1, CountedDownKeepsPage
<1>2. ASSUME NEW r \in Refresh, Request(r) PROVE PageInv'
    <2>1. ASSUME NEW e \in Endpoint, Settle(r, e, "ok") \/ Settle(r, e, "null")
          PROVE  PageInv'
        BY <2>1, SettleKeepsPage
    <2>2. CASE Settle(r, "experiments", "empty")
        <3>1. "experiments" \in Endpoint
            BY Endpoints
        <3>2. QED
            BY <2>2, <3>1, SettleKeepsPage
    <2>3. CASE SettleDetails(r)
        BY <2>3, DetailsKeepPage
    <2>4. QED
        BY <1>2, <2>1, <2>2, <2>3 DEF Request
<1>3. ASSUME UNCHANGED <<started, result, details, page, alone>> PROVE PageInv'
    <2>1. PageType'
        BY <1>3 DEF PageInv, PageType, PageRecord, Section, Refresh, Endpoint
    <2>2. RefreshInv'
        BY <1>3 DEF PageInv, RefreshInv, Settled, Refresh, Endpoint
    <2>3. LoneInv => LoneInv'
        BY <1>3 DEF LoneInv, Settled, Section, Refresh, Endpoint, UnderWay,
                    Waiting, Value, AsksForDetails
    <2>4. QED
        BY <1>3, <2>1, <2>2, <2>3 DEF PageInv
<1>4. CASE Tick
    BY <1>3, <1>4 DEF Tick
<1>5. CASE UNCHANGED pageVars
    BY <1>3, <1>5 DEF pageVars
<1>6. QED
    BY <1>1, <1>2, <1>4, <1>5 DEF PageNext, Timer

\* At rest the requests of the last refresh have settled.
LEMMA PageShowsLoneRefresh == PageInv => LoneRefreshIsShown
<1> SUFFICES ASSUME PageInv, alone, \A r \in Refresh : ~UnderWay(r)
             PROVE  LoneRefreshIsShown
    BY DEF LoneRefreshIsShown
<1>1. started \in Refresh /\ started <= started
    BY DashboardAssumption DEF PageInv, PageType, Refresh
<1>2. Settled(started) /\ details[started] # "pending"
    BY <1>1 DEF Settled, UnderWay, Waiting
<1>3. details[started] \in {"none", "pending", "done"}
    BY <1>1 DEF PageInv, PageType
<1>4. LoneInv
    BY DEF PageInv
<1>5. page.variant = started <=> AsksForDetails(result[started])
    BY <1>2, <1>3, <1>4 DEF LoneInv
<1>6. QED
    BY <1>2, <1>4, <1>5 DEF LoneInv, LoneRefreshIsShown, Section

\* A refresh that starts while nothing is under way repairs the page, for every
\* number of charts, however many refreshes overlapped before it, in whatever
\* order their requests settled and however many of them failed.
THEOREM LoneRefreshRepairsPage == PageSpec => []LoneRefreshIsShown
<1>1. PageInit => PageInv
    BY PageStarts
<1>2. PageInv /\ [PageNext]_pageVars => PageInv'
    BY PageStep
<1>3. PageInv => LoneRefreshIsShown
    BY PageShowsLoneRefresh
<1>4. QED
    BY <1>1, <1>2, <1>3, PTL DEF PageSpec

\* The spinner is on: the last refresh still waits for a request.
SpinnerHasCause == page.spinner => Waiting(started)

\* A refresh turns the spinner on when it starts to wait; whichever completes
\* next turns it off.
LEMMA SpinnerStep ==
    PageInv /\ SpinnerHasCause /\ [PageNext]_pageVars => SpinnerHasCause'
<1> SUFFICES ASSUME PageInv, SpinnerHasCause, [PageNext]_pageVars, page'.spinner
             PROVE  Waiting(started)'
    BY DEF SpinnerHasCause
<1>1. started \in Nat /\ started \in Refresh /\ MaxRefresh \in Nat
    BY DashboardAssumption DEF PageInv, PageType, Refresh
<1>2. CASE CountedDown
    <2>1. /\ started' = started + 1 /\ started < MaxRefresh
          /\ result' = [r \in Refresh |->
                IF r <= started /\ ~Waiting(r) THEN Applied ELSE result[r]]
        BY <1>2 DEF CountedDown
    <2>2. started' \in Refresh /\ started' > started /\ ~(started' <= started)
          /\ started' <= started'
        BY <1>1, <2>1 DEF Refresh
    <2>3. result'[started'] = result[started']
        BY <2>1, <2>2
    <2>4. result[started']["metrics"] = "pending"
        BY <2>2, Endpoints DEF PageInv, RefreshInv
    <2>5. QED
        BY <2>2, <2>3, <2>4, Endpoints DEF Waiting, Endpoint
<1>3. ASSUME NEW r \in Refresh, NEW e \in Endpoint, NEW to, Settle(r, e, to)
      PROVE  Waiting(started)'
    <2>1. PICK res : res = [result[r] EXCEPT ![e] = to]
        OBVIOUS
    <2>2. PICK p : p = showErr(page, e, to)
        OBVIOUS
    <2> DEFINE complete == \A f \in Endpoint : res[f] # "pending"
    <2>3. /\ started' = started
          /\ result' = [result EXCEPT ![r] = IF complete /\ r < started
                                             THEN Applied ELSE res]
          /\ page' = IF complete THEN Apply(p, r, res) ELSE p
        BY <1>3, <2>1, <2>2 DEF Settle
    <2>4. p \in PageRecord /\ p.spinner = page.spinner
        BY <2>2, ErrShown DEF PageInv
    <2>5. ~complete
        <3> SUFFICES ASSUME complete PROVE FALSE
            OBVIOUS
        <3>1. PICK q : q = Apply(p, r, res)
            OBVIOUS
        <3>2. r \in Nat
            BY DEF Refresh
        <3>3. Shows(q, p, r, res)
            BY <2>4, <3>1, <3>2, AppliedPage
        <3>4. page' = q
            BY <2>3, <3>1
        <3>5. QED
            BY <3>3, <3>4 DEF Shows
    <2>6. \E f \in Endpoint : result[started][f] = "pending"
        BY <2>3, <2>4, <2>5 DEF SpinnerHasCause, Waiting
    <2>7. started <= started
        BY <1>1
    <2>8. result'[started] = IF r = started THEN res ELSE result[started]
        BY <1>1, <2>3, <2>5 DEF PageInv, PageType
    <2>9. \E f \in Endpoint : result'[started][f] = "pending"
        <3>1. CASE r = started
            BY <2>5, <2>8, <3>1
        <3>2. CASE r # started
            BY <2>6, <2>8, <3>2
        <3>3. QED
            BY <3>1, <3>2
    <2>10. QED
        BY <2>3, <2>7, <2>9 DEF Waiting, Endpoint
<1>4. ASSUME UNCHANGED <<started, result>>, page'.spinner = page.spinner
      PROVE  Waiting(started)'
    BY <1>4 DEF SpinnerHasCause, Waiting, Endpoint
<1>5. ASSUME NEW r \in Refresh, SettleDetails(r) PROVE Waiting(started)'
    <2>1. UNCHANGED <<started, result>> /\ page' = [page EXCEPT !.variant = r]
        BY <1>5 DEF SettleDetails
    <2>2. page'.spinner = page.spinner
        BY <2>1 DEF PageInv, PageType, PageRecord
    <2>3. QED
        BY <1>4, <2>1, <2>2
<1>6. ASSUME NEW r \in Refresh, Request(r) PROVE Waiting(started)'
    <2>1. \/ \E e \in Endpoint : Settle(r, e, "ok") \/ Settle(r, e, "null")
          \/ Settle(r, "experiments", "empty")
          \/ SettleDetails(r)
        BY <1>6 DEF Request
    <2>2. "experiments" \in Endpoint
        BY Endpoints
    <2>3. QED
        BY <1>3, <1>5, <2>1, <2>2
<1>7. CASE Tick \/ UNCHANGED pageVars
    BY <1>4, <1>7 DEF Tick, pageVars
<1>8. QED
    BY <1>2, <1>6, <1>7 DEF PageNext, Timer

\* The spinner never stays on by itself: it is on only while the last refresh
\* still waits for a request, so that no order of answers and failures leaves it
\* turning over a page at rest.
THEOREM SpinnerOnlyWhileWaiting == PageSpec => []SpinnerHasCause
<1>1. PageInit => PageInv /\ SpinnerHasCause
    <2> SUFFICES ASSUME PageInit PROVE PageInv /\ SpinnerHasCause
        OBVIOUS
    <2>1. PageInv
        BY PageStarts
    <2>2. started = 1 /\ 1 \in Refresh
        BY DashboardAssumption DEF PageInit, Refresh
    <2>3. result[started]["metrics"] = "pending"
        BY <2>2, Endpoints DEF PageInit
    <2>4. started <= started
        BY <2>2
    <2>5. QED
        BY <2>1, <2>3, <2>4, Endpoints DEF SpinnerHasCause, Waiting
<1>2. PageInv /\ SpinnerHasCause /\ [PageNext]_pageVars => PageInv' /\ SpinnerHasCause'
    BY PageStep, SpinnerStep
<1>3. QED
    BY <1>1, <1>2, PTL DEF PageSpec
=============================================================================
