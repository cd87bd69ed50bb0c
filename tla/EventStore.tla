----------------------------- MODULE EventStore -----------------------------
(***************************************************************************)
(* The DNS, NTP and SSDP event repositories and the HTTP handlers that     *)
(* read them.  In memory every repository has a list of its own; with an   *)
(* events file the three append to one JSON Lines file, each through its   *)
(* own descriptor and under its own mutex, and List reads the whole file.  *)
(*                                                                         *)
(* An event gets its timestamp in the use case and is saved later.  A      *)
(* write may come up short (disk full, machine crash): Save then fails and *)
(* leaves a piece of a line, to which the next Save appends.  The process  *)
(* may be restarted at any time; the file survives.                        *)
(***************************************************************************)
EXTENDS Integers, SequencesExt

CONSTANTS
    Writer,         \* packet goroutines
    Reader,         \* goroutines serving GET requests
    Backends,       \* the backends a process may have: "memory", "file"
    Limit,          \* events GET /events returns at most
    Hours,          \* buckets of GET /stats/timeseries
    HourLength,     \* length of an hour, in time stamps
    TopN,           \* addresses GET /stats/top-ips returns at most
    Seen,           \* what the event of a time stamp says: [ip, type, label]
    MaxEvents,      \* bound on the events
    MaxShort,       \* bound on the short writes
    MaxRestarts,    \* bound on the restarts
    None            \* an idle goroutine

ASSUME ConstantsAssumption ==
    /\ Backends \subseteq {"memory", "file"}
    /\ Limit \in Nat /\ Hours \in Nat /\ HourLength \in Nat \ {0}
    /\ TopN \in Nat /\ DOMAIN Seen = 1 .. MaxEvents
    /\ MaxEvents \in Nat /\ MaxShort \in Nat /\ MaxRestarts \in Nat

Proto == {"dns", "ntp", "ssdp"}

\* an event; what it says follows from its time stamp
Event == [proto : Proto, time : Nat \ {0}]

\* a line json.Unmarshal refuses
Garbage == [proto |-> "none", time |-> 0]

ASSUME NoneAssumption == None \notin Event /\ None # Garbage

VARIABLES
    backend,    \* configuration: the backend, from EVENTS_FILE
    clock,      \* the last time stamp given out
    pending,    \* pending[w]: the event w is about to save, or None
    mem,        \* mem[q]: the list of an in-memory repository
    lines,      \* the lines of the file; Garbage does not parse
    tail,       \* what follows the last newline: None, Garbage or an event
    reader,     \* reader[r]: what r remembers between two steps, or None
    response,   \* response[r]: the last answer r gave, or None
    acked,      \* history: events whose Save returned nil
    shorts,     \* number of short writes
    restarts    \* number of restarts

fileVars == <<lines, tail>>
readVars == <<reader, response>>
vars == <<backend, clock, pending, mem, fileVars, readVars, acked, shorts, restarts>>

-----------------------------------------------------------------------------
(* The repositories                                                        *)

NewEvent(w, q) ==
    /\ pending[w] = None
    /\ clock < MaxEvents
    /\ clock' = clock + 1
    /\ pending' = [pending EXCEPT ![w] = [proto |-> q, time |-> clock + 1]]
    /\ UNCHANGED <<backend, mem, fileVars, readVars, acked, shorts, restarts>>

SaveMemory(w) ==
    /\ backend = "memory"
    /\ pending[w] # None
    /\ mem' = [mem EXCEPT ![pending[w].proto] = Append(@, pending[w])]
    /\ acked' = acked \cup {pending[w]}
    /\ pending' = [pending EXCEPT ![w] = None]
    /\ UNCHANGED <<backend, clock, fileVars, readVars, shorts, restarts>>

\* Mutant: the line is written without its newline.
SaveLineUnterminated(w) ==
    /\ backend = "file"
    /\ pending[w] # None
    /\ tail' = IF tail = None THEN pending[w] ELSE Garbage
    /\ acked' = acked \cup {pending[w]}
    /\ pending' = [pending EXCEPT ![w] = None]
    /\ UNCHANGED <<backend, clock, mem, lines, readVars, shorts, restarts>>

\* Fprintf of the line in one write, appended whatever the descriptor's offset
SaveLine(w) ==
    /\ backend = "file"
    /\ pending[w] # None
    /\ lines' = Append(lines, IF tail = None THEN pending[w] ELSE Garbage)
    /\ tail' = None
    /\ acked' = acked \cup {pending[w]}
    /\ pending' = [pending EXCEPT ![w] = None]
    /\ UNCHANGED <<backend, clock, mem, readVars, shorts, restarts>>

\* the use case sees the error; the bytes that were written stay: none, a piece
\* of the line, or all of it but the newline
SaveShort(w) ==
    /\ backend = "file"
    /\ pending[w] # None
    /\ shorts < MaxShort
    /\ shorts' = shorts + 1
    /\ tail' \in {tail, Garbage} \cup (IF tail = None THEN {pending[w]} ELSE {})
    /\ pending' = [pending EXCEPT ![w] = None]
    /\ UNCHANGED <<backend, clock, mem, lines, readVars, acked, restarts>>

\* the last Scan returns what follows the last newline as a line of its own
Scanned == IF tail = None THEN lines ELSE Append(lines, tail)

\* one line that does not parse fails the whole List
Unreadable == backend = "file" /\ Garbage \in Range(Scanned)

\* List of the repository of protocol q, when it does not fail
List(q) == IF backend = "memory" THEN mem[q] ELSE Scanned

\* Mutant: the events file is truncated when it is opened.
RestartTruncates ==
    /\ restarts < MaxRestarts
    /\ restarts' = restarts + 1
    /\ mem' = [q \in Proto |-> <<>>]
    /\ lines' = <<>>
    /\ tail' = None
    /\ pending' = [w \in Writer |-> None]
    /\ reader' = [r \in Reader |-> None]
    /\ response' = [r \in Reader |-> None]
    /\ UNCHANGED <<backend, clock, acked, shorts>>

\* the file is opened with O_APPEND and without O_TRUNC
Restart ==
    /\ restarts < MaxRestarts
    /\ restarts' = restarts + 1
    /\ mem' = [q \in Proto |-> <<>>]
    /\ pending' = [w \in Writer |-> None]
    /\ reader' = [r \in Reader |-> None]
    /\ response' = [r \in Reader |-> None]
    /\ UNCHANGED <<backend, clock, fileVars, acked, shorts>>

-----------------------------------------------------------------------------
(* The handlers of the coordinator                                         *)

Answer(r, answer) == response' = [response EXCEPT ![r] = answer]

ServerError == [kind |-> "error"]

\* the error of a List ends the handler with status 500
HandlerFails(r) ==
    /\ Unreadable
    /\ Answer(r, ServerError)
    /\ reader' = [reader EXCEPT ![r] = None]
    /\ UNCHANGED <<backend, clock, pending, mem, fileVars, acked, shorts, restarts>>

\* handleMetrics lists the DNS repository, then the NTP repository
MetricsDNS(r) ==
    /\ reader[r] = None
    /\ ~Unreadable
    /\ reader' = [reader EXCEPT ![r] = [doing |-> "metrics", total |-> Len(List("dns"))]]
    /\ UNCHANGED <<backend, clock, pending, mem, fileVars, response, acked, shorts, restarts>>

MetricsNTP(r) ==
    /\ reader[r] # None /\ reader[r].doing = "metrics"
    /\ ~Unreadable
    /\ Answer(r, [kind |-> "metrics", total |-> reader[r].total,
                  ntpTotal |-> Len(List("ntp"))])
    /\ reader' = [reader EXCEPT ![r] = None]
    /\ UNCHANGED <<backend, clock, pending, mem, fileVars, acked, shorts, restarts>>

\* Mutant: the last events in the order they were saved.
NewestInList(list) ==
    { list[i] : i \in { j \in 1 .. Len(list) : j > Len(list) - Limit } }

\* sorted by time stamp, latest first, and cut to Limit
Newest(list) ==
    { e \in Range(list) : Cardinality({ f \in Range(list) : f.time > e.time }) < Limit }

HandleEvents(r) ==
    /\ reader[r] = None
    /\ ~Unreadable
    /\ Answer(r, [kind |-> "events", items |-> Newest(List("dns")), of |-> List("dns")])
    /\ UNCHANGED <<backend, clock, pending, mem, fileVars, reader, acked, shorts, restarts>>

Hour(t) == t \div HourLength

\* time.Now is read before the List: the window ends with the hour of that time
TimeseriesStart(r) ==
    /\ reader[r] = None
    /\ reader' = [reader EXCEPT ![r] = [doing |-> "series", now |-> clock]]
    /\ UNCHANGED <<backend, clock, pending, mem, fileVars, response, acked, shorts, restarts>>

\* Mutant: an event of a later hour is counted in the last bucket.
BucketOfClamped(now, e) ==
    LET idx == Hour(e.time) - (Hour(now) - (Hours - 1))
    IN  IF idx >= Hours THEN Hours - 1 ELSE idx

\* the index of the bucket; an event whose index is none of 0 .. Hours - 1 is skipped
BucketOf(now, e) == Hour(e.time) - (Hour(now) - (Hours - 1))

Buckets(now, list) ==
    [i \in 0 .. Hours - 1 |->
        Cardinality({ j \in DOMAIN list : BucketOf(now, list[j]) = i })]

TimeseriesList(r) ==
    /\ reader[r] # None /\ reader[r].doing = "series"
    /\ ~Unreadable
    /\ Answer(r, [kind |-> "series", now |-> reader[r].now, of |-> List("dns"),
                  buckets |-> Buckets(reader[r].now, List("dns"))])
    /\ reader' = [reader EXCEPT ![r] = None]
    /\ UNCHANGED <<backend, clock, pending, mem, fileVars, acked, shorts, restarts>>

\* the number of elements of a list that satisfy a test
Count(list, Test(_)) == Cardinality({ i \in DOMAIN list : Test(list[i]) })

IP(e) == Seen[e.time].ip

\* The DNS repository decodes the lines of all three protocols as DNS events.
\* Those of NTP and SSDP have no query type, and their label is not stored under
\* the name it is decoded from.
Label(e) == IF e.proto = "dns" THEN Seen[e.time].label ELSE ""
QueryType(e) == IF e.proto = "dns" THEN Seen[e.time].type ELSE ""

HandleQueryTypes(r) ==
    /\ reader[r] = None
    /\ ~Unreadable
    /\ LET list == List("dns")
       IN  Answer(r, [kind |-> "types", of |-> list,
                      counts |-> [t \in { QueryType(e) : e \in Range(list) } |->
                                     Count(list, LAMBDA e : QueryType(e) = t)]])
    /\ UNCHANGED <<backend, clock, pending, mem, fileVars, reader, acked, shorts, restarts>>

IPCount(list, ip) == Count(list, LAMBDA e : IP(e) = ip)

LabelCount(list, ip, label) == Count(list, LAMBDA e : IP(e) = ip /\ Label(e) = label)

\* the label with the highest count; of several, the first the map yields
Best(list, ip) ==
    LET labels == { Label(e) : e \in { f \in Range(list) : IP(f) = ip } }
    IN  { l \in labels : \A k \in labels :
             LabelCount(list, ip, k) <= LabelCount(list, ip, l) }

\* Mutant: the entries are cut before they are sorted.
TopEntriesCutFirst(list) ==
    LET ips == { IP(e) : e \in Range(list) }
        Sorted(s) == \A i, j \in DOMAIN s : i < j => IPCount(list, s[i]) >= IPCount(list, s[j])
    IN  { s \in { SubSeq(o, 1, Min({TopN, Len(o)})) : o \in SetToSeqs(ips) } : Sorted(s) }

\* The entries come out of a map in any order; sort.Slice keeps no order among
\* equal counts.
TopEntries(list) ==
    LET ips == { IP(e) : e \in Range(list) }
        Sorted(s) == \A i, j \in DOMAIN s : i < j => IPCount(list, s[i]) >= IPCount(list, s[j])
    IN  { SubSeq(s, 1, Min({TopN, Len(s)})) : s \in { o \in SetToSeqs(ips) : Sorted(o) } }

HandleTopIPs(r) ==
    /\ reader[r] = None
    /\ ~Unreadable
    /\ LET list == List("dns")
       IN  \E s \in TopEntries(list) :
             \E best \in [DOMAIN s -> UNION { Best(list, ip) : ip \in Range(s) }] :
                /\ \A i \in DOMAIN s : best[i] \in Best(list, s[i])
                /\ Answer(r, [kind |-> "top", of |-> list,
                              entries |-> [i \in DOMAIN s |->
                                  [ip |-> s[i], count |-> IPCount(list, s[i]), label |-> best[i]]]])
    /\ UNCHANGED <<backend, clock, pending, mem, fileVars, reader, acked, shorts, restarts>>

-----------------------------------------------------------------------------

\* the read-only routes; those of experiments are in Experiments
ServeHTTP(r) ==
    \/ HandlerFails(r)
    \/ MetricsDNS(r)
    \/ MetricsNTP(r)
    \/ HandleEvents(r)
    \/ TimeseriesStart(r)
    \/ TimeseriesList(r)
    \/ HandleQueryTypes(r)
    \/ HandleTopIPs(r)

Init ==
    /\ backend \in Backends
    /\ clock = 0
    /\ pending = [w \in Writer |-> None]
    /\ mem = [q \in Proto |-> <<>>]
    /\ lines = <<>>
    /\ tail = None
    /\ reader = [r \in Reader |-> None]
    /\ response = [r \in Reader |-> None]
    /\ acked = {}
    /\ shorts = 0
    /\ restarts = 0

Next ==
    \/ \E w \in Writer :
            \/ \E q \in Proto : NewEvent(w, q)
            \/ SaveMemory(w)
            \/ SaveLine(w)
            \/ SaveShort(w)
    \/ \E r \in Reader : ServeHTTP(r)
    \/ Restart

Spec == Init /\ [][Next]_vars

-----------------------------------------------------------------------------
(* Properties                                                              *)

\* A List is complete or it fails: an event whose Save succeeded is in every
\* later List of its repository that does not fail, also after restarts if there
\* is a file, and also when writes of other events came up short.
SavedEventsListed ==
    \A e \in acked :
        \/ e \in Range(List(e.proto))
        \/ backend = "memory" /\ restarts > 0
        \/ Unreadable

\* List starts to fail only once a write has come up short, whatever Saves of
\* the three descriptors and restarts precede it, and then fails for good: the
\* piece of a line that was left spoils the line that is joined to it, and no
\* later Save and no restart makes the file readable again.
SpoiltOnlyByShortWrite ==
    [][ /\ Unreadable' /\ ~Unreadable => shorts' > 0
        /\ Unreadable => Unreadable' ]_vars

\* GET /events leaves out no event that is later than one it shows, although
\* events reach the repository in another order than their time stamps.
EventsAreLatest ==
    \A r \in Reader : response[r] # None /\ response[r].kind = "events" =>
        LET items == response[r].items
            all == Range(response[r].of)
        IN  /\ Cardinality(items) = Min({Limit, Cardinality(all)})
            /\ \A e \in items, f \in all \ items : e.time > f.time

\* GET /stats/timeseries counts the events of each hour it covers once, and none
\* of an hour that began after the handler read the time.
SeriesIsComplete ==
    \A r \in Reader : response[r] # None /\ response[r].kind = "series" =>
        \A i \in 0 .. Hours - 1 :
            response[r].buckets[i] =
                Cardinality({ e \in Range(response[r].of) :
                    LET first == HourLength * (Hour(response[r].now) - (Hours - 1) + i)
                    IN  e.time \in first .. first + HourLength - 1 })

\* GET /stats/top-ips lists each address once and leaves out none that sent more
\* than one it shows, whatever the order of the map and of equal counts, and
\* the counts of GET /stats/query-types, the empty type included, add up to
\* the list.
StatsMatchList ==
    \A r \in Reader :
        /\ response[r] # None /\ response[r].kind = "top" =>
              LET top == response[r].entries
                  all == response[r].of
                  shown == { top[i].ip : i \in DOMAIN top }
                  left == { IP(e) : e \in Range(all) } \ shown
              IN  /\ Cardinality(shown) = Len(top)
                  /\ left # {} => Len(top) = TopN
                  /\ \A i \in DOMAIN top :
                        /\ \A ip \in left : IPCount(all, ip) <= top[i].count
                        /\ LabelCount(all, top[i].ip, top[i].label) > 0
        /\ response[r] # None /\ response[r].kind = "types" =>
              MapThenSumSet(LAMBDA t : response[r].counts[t], DOMAIN response[r].counts)
                  = Len(response[r].of)

\* The router's comment and the README call GET /events "last 100 DNS events".
EventsAreDNS ==
    \A r \in Reader : response[r] # None /\ response[r].kind = "events" =>
        \A e \in response[r].items : e.proto = "dns"
=============================================================================
