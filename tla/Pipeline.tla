------------------------------ MODULE Pipeline ------------------------------
(***************************************************************************)
(* From datagram to datagram: the UDP servers, the protocol handlers and   *)
(* the four handle-request use cases, each request in a goroutine of its   *)
(* own, with the shared limiters, the classifier, the event repositories   *)
(* and the sockets they use, and the shutdown that closes those sockets    *)
(* under them.                                                             *)
(*                                                                         *)
(* The limiter of each protocol appears as the accounts of EgressPolicy    *)
(* with the Slack that RateLimiter implements them with, its MaxStall; the *)
(* variant of a request is any of those AssignVariant may return (module   *)
(* Experiments) or the default.                                            *)
(***************************************************************************)
EXTENDS ReplySizes, FiniteSetsExt

CONSTANTS
    Proto,          \* protocols served, of dns, ntp, ssdp and chargen
    Source,         \* source addresses
    Worker,         \* packet goroutines, numbered
    Query,          \* datagrams that arrive
    Variant,        \* variants of the active experiment
    Burst,          \* capacity of an account, in tokens
    Slack,          \* age of the oldest clock reading Allow may answer with, in
                    \* tokens: MaxStall of RateLimiter
    SaveFailure,    \* whether a repository may fail to save: a subset of BOOLEAN
    MaxRequests,    \* bound on the requests that arrive
    MaxEarned,      \* bound on the tokens an account earns
    None            \* an idle goroutine, no variant

ASSUME ConstantsAssumption ==
    /\ Worker \subseteq Nat
    /\ Proto \subseteq {"dns", "ntp", "ssdp", "chargen"}
    /\ Burst \in Nat /\ Slack \in Nat /\ MaxRequests \in Nat /\ MaxEarned \in Nat
    /\ SaveFailure \subseteq BOOLEAN

\* what a datagram and a variant hold, see ReplySizes
ASSUME QueryAssumption ==
    \A query \in Query :
        /\ query.proto \in Proto
        /\ query.port \in Nat
        /\ query.proto = "dns" /\ query.kind # "malformed" => query.qname \in Nat
        /\ query.proto = "ssdp" /\ query.kind # "malformed" => query.st \in Nat

ASSUME VariantAssumption ==
    \A v \in Variant :
        v.dns.size \in Int /\ v.ntp.peers \in Int /\ v.ssdp.services \in Int

\* every protocol has its own limiter: a source has an account with each
Account == Proto \X Source

egressTokenCost(bytes) == IF bytes <= 0 THEN 1 ELSE (bytes + 127) \div 128

VARIABLES
    credit, request, granted,   \* the accounts, see EgressPolicy
    earned,     \* history: tokens an account has earned
    grants,     \* history: grants[a] packets were granted to account a
    job,        \* job[w]: the request goroutine w handles, or None
    received,   \* number of requests received
    log,        \* events the repositories hold
    chargenMap, \* goroutines inside the unsynchronised map of the CHARGEN store
    lost,       \* history: requests whose event was not saved or was overwritten
    wire,       \* wire[i]: whom request i came from, and the datagrams sent in answer
    conn,       \* conn[q]: the socket of protocol q is "open" or "closed"
    process     \* "up", "stopping" (context cancelled), "exited" or "crashed"

limiterVars == <<credit, request, granted>>
ioVars == <<wire, conn, process>>
vars == <<limiterVars, earned, grants, job, received, log, chargenMap, lost, ioVars>>

-----------------------------------------------------------------------------
(* The handlers: the configuration of the variant that AssignVariant gave,  *)
(* or the default one if it gave none; then parsing and BuildResponse.      *)
(* Whatever yields no packet ends the request: a parse error, a mode        *)
(* without a reply, an unknown response mode.                               *)

\* what the parsers (module Parsers) and IsAmplificationProbe reject
Malformed(query) == query.kind = "malformed"

DNSConfig(v) == IF v = None THEN [mode |-> "minimal", size |-> 0] ELSE v.dns
NTPConfig(v) == IF v = None THEN [mode |-> "minimal", peers |-> 0] ELSE v.ntp
SSDPConfig(v) == IF v = None THEN [mode |-> "minimal", services |-> 0] ELSE v.ssdp

DNSReply(query, v) ==
    IF Malformed(query) THEN <<>> ELSE DNSPackets(query.qname, DNSConfig(v))

NTPReply(query, v) ==
    IF Malformed(query) THEN <<>> ELSE NTPPackets(query.mode, NTPConfig(v))

SSDPReply(query, v) ==
    IF Malformed(query) THEN <<>> ELSE SSDPPackets(query.st, SSDPConfig(v))

PacketsFor(query, v) ==
    CASE query.proto = "dns"     -> DNSReply(query, v)
      [] query.proto = "ntp"     -> NTPReply(query, v)
      [] query.proto = "ssdp"    -> SSDPReply(query, v)
      [] query.proto = "chargen" -> ChargenPackets

PacketCosts ==
    UNION { LET packets == PacketsFor(query, variant)
            IN  { egressTokenCost(packets[i]) : i \in 1 .. Len(packets) } :
            query \in Query, variant \in Variant \cup {None} }

Limiter == INSTANCE EgressPolicy WITH
    Source <- Account, Proc <- Worker, Cost <- PacketCosts

Running == process \in {"up", "stopping"}

\* goroutine w is at point at of its handler
At(w, at) == Running /\ job[w] # None /\ job[w].at = at

MultiPacket == {"ntp", "ssdp"}

-----------------------------------------------------------------------------
(* The server                                                              *)

\* goroutines are alike: a new one takes the first number that is free
NewGoroutine == { w \in Worker : job[w] = None /\ \A v \in Worker : v < w => job[v] # None }

\* ReadFromUDP, the goroutine and the steps of its handler up to the limiter
Receive(w, s, query, variant) ==
    /\ Running
    /\ w \in NewGoroutine
    /\ conn[query.proto] = "open"
    /\ received < MaxRequests
    /\ received' = received + 1
    /\ wire' = [wire EXCEPT ![received + 1].to = <<query.proto, s>>]
    /\ LET packets == PacketsFor(query, variant)
       IN  job' = IF packets = <<>> THEN job
                  ELSE [job EXCEPT ![w] =
                           [id |-> received + 1, proto |-> query.proto, src |-> s,
                            port |-> query.port, at |-> "allow",
                            packets |-> packets, sent |-> 0, out |-> 0]]
    /\ UNCHANGED <<limiterVars, earned, grants, log, chargenMap, lost, conn, process>>

-----------------------------------------------------------------------------
(* The use cases                                                           *)

\* rateLimiter.Allow(sourceIP, len(pkt)) is called for the next packet
CallAllow(w) ==
    /\ At(w, "allow")
    /\ Limiter!Begin(w)
    /\ request'[w] = [src |-> <<job[w].proto, job[w].src>>,
                      cost |-> egressTokenCost(job[w].packets[job[w].sent + 1])]
    /\ job' = [job EXCEPT ![w].at = "limiter"]
    /\ UNCHANGED <<earned, grants, received, log, chargenMap, lost, ioVars>>

\* the next step of a request whose packets are decided: CHARGEN is not
\* classified
AfterLimiter(q) == IF q = "chargen" THEN "save" ELSE "classify"

AllowReturnsTrue(w) ==
    /\ At(w, "limiter")
    /\ Limiter!Grant(w)
    /\ grants' = [grants EXCEPT ![<<job[w].proto, job[w].src>>] = @ + 1]
    /\ job' = [job EXCEPT ![w].sent = @ + 1,
                          ![w].at = IF job[w].sent + 1 < Len(job[w].packets) THEN "allow"
                                    ELSE AfterLimiter(job[w].proto)]
    /\ UNCHANGED <<earned, received, log, chargenMap, lost, ioVars>>

\* DNS and CHARGEN give up without an event
RateLimited(w) ==
    /\ At(w, "limiter")
    /\ job[w].proto \notin MultiPacket
    /\ Limiter!Deny(w)
    /\ job' = [job EXCEPT ![w] = None]
    /\ UNCHANGED <<earned, grants, received, log, chargenMap, lost, ioVars>>

\* Mutant: a refused packet is counted and the loop goes on.
BreakOffCounts(w) ==
    /\ At(w, "limiter")
    /\ job[w].proto \in MultiPacket
    /\ Limiter!Deny(w)
    /\ job' = [job EXCEPT ![w].sent = @ + 1,
                          ![w].at = IF job[w].sent + 1 < Len(job[w].packets) THEN "allow"
                                    ELSE "classify"]
    /\ UNCHANGED <<earned, grants, received, log, chargenMap, lost, ioVars>>

\* Mutant: a refused packet is tried again.
BreakOffRetries(w) ==
    /\ At(w, "limiter")
    /\ job[w].proto \in MultiPacket
    /\ Limiter!Deny(w)
    /\ job' = [job EXCEPT ![w].at = "allow"]
    /\ UNCHANGED <<earned, grants, received, log, chargenMap, lost, ioVars>>

\* NTP and SSDP drop the rest of the packets and go on
BreakOff(w) ==
    /\ At(w, "limiter")
    /\ job[w].proto \in MultiPacket
    /\ Limiter!Deny(w)
    /\ job' = [job EXCEPT ![w].at = "classify"]
    /\ UNCHANGED <<earned, grants, received, log, chargenMap, lost, ioVars>>

\* the classifier keeps its own state, see Classifier
Classify(w) ==
    /\ At(w, "classify")
    /\ job' = [job EXCEPT ![w].at = "save"]
    /\ UNCHANGED <<limiterVars, earned, grants, received, log, chargenMap, lost, ioVars>>

SentPackets(j) == SubSeq(j.packets, 1, j.sent)

Bytes(packets) == MapThenSumSet(LAMBDA i : packets[i], 1 .. Len(packets))

\* where a request goes after its event: to the socket if it has packets
ToSocket(w) ==
    job' = IF job[w].sent > 0 THEN [job EXCEPT ![w].at = "write"]
           ELSE [job EXCEPT ![w] = None]

EventOf(j) ==
    [id |-> j.id, proto |-> j.proto, src |-> j.src, port |-> j.port,
     count |-> j.sent, bytes |-> Bytes(SentPackets(j))]

\* repository.Save of a repository that locks (DNS, NTP, SSDP)
Save(w) ==
    /\ At(w, "save")
    /\ job[w].proto # "chargen"
    /\ log' = log \cup {EventOf(job[w])}
    /\ ToSocket(w)
    /\ UNCHANGED <<limiterVars, earned, grants, received, chargenMap, lost, ioVars>>

\* Mutant: the DNS use case sends its reply although the event was not saved.
SaveFailsContinues(w) ==
    /\ At(w, "save")
    /\ job[w].proto = "dns"
    /\ TRUE \in SaveFailure
    /\ lost' = lost \cup {job[w].id}
    /\ ToSocket(w)
    /\ UNCHANGED <<limiterVars, earned, grants, received, log, chargenMap, ioVars>>

\* the DNS use case returns the error
SaveFails(w) ==
    /\ At(w, "save")
    /\ job[w].proto = "dns"
    /\ TRUE \in SaveFailure
    /\ lost' = lost \cup {job[w].id}
    /\ job' = [job EXCEPT ![w] = None]
    /\ UNCHANGED <<limiterVars, earned, grants, received, log, chargenMap, ioVars>>

\* NTP and SSDP send what they computed
SaveFailsAnyway(w) ==
    /\ At(w, "save")
    /\ job[w].proto \in MultiPacket
    /\ TRUE \in SaveFailure
    /\ lost' = lost \cup {job[w].id}
    /\ ToSocket(w)
    /\ UNCHANGED <<limiterVars, earned, grants, received, log, chargenMap, ioVars>>

\* The CHARGEN store is a Go map without a lock.  A goroutine that enters it
\* while another is inside is stopped by the runtime's check, which ends the
\* process, or gets past the check, and one of the two entries may be lost.
EnterChargenMap(w) ==
    /\ At(w, "save")
    /\ job[w].proto = "chargen"
    /\ \/ /\ chargenMap # {}
          /\ process' = "crashed"
          /\ UNCHANGED <<job, chargenMap>>
       \/ /\ chargenMap' = chargenMap \cup {w}
          /\ job' = [job EXCEPT ![w].at = "map"]
          /\ UNCHANGED process
    /\ UNCHANGED <<limiterVars, earned, grants, received, log, lost, wire, conn>>

\* CHARGEN events are stored under "address-port"
SameKey(j) == { e \in log : e.proto = "chargen" /\ e.src = j.src /\ e.port = j.port }

LeaveChargenMap(w) ==
    /\ At(w, "map")
    /\ chargenMap' = chargenMap \ {w}
    /\ \/ LET old == SameKey(job[w])
          IN  /\ log' = (log \ old) \cup {EventOf(job[w])}
              /\ lost' = lost \cup { e.id : e \in old }
       \/ chargenMap' # {} /\ lost' = lost \cup {job[w].id} /\ UNCHANGED log
    /\ ToSocket(w)
    /\ UNCHANGED <<limiterVars, earned, grants, received, ioVars>>

-----------------------------------------------------------------------------
(* The reply                                                               *)

\* Mutant: all packets that were built are sent.
WriteToUDPAll(w) ==
    /\ At(w, "write")
    /\ conn[job[w].proto] = "open"
    /\ wire' = [wire EXCEPT ![job[w].id].packets = Append(@, job[w].packets[job[w].out + 1])]
    /\ job' = IF job[w].out + 1 < Len(job[w].packets) THEN [job EXCEPT ![w].out = @ + 1]
              ELSE [job EXCEPT ![w] = None]
    /\ UNCHANGED <<limiterVars, earned, grants, received, log, chargenMap, lost, conn, process>>

WriteToUDP(w) ==
    /\ At(w, "write")
    /\ conn[job[w].proto] = "open"
    /\ wire' = [wire EXCEPT ![job[w].id].packets = Append(@, job[w].packets[job[w].out + 1])]
    /\ job' = IF job[w].out + 1 < job[w].sent THEN [job EXCEPT ![w].out = @ + 1]
              ELSE [job EXCEPT ![w] = None]
    /\ UNCHANGED <<limiterVars, earned, grants, received, log, chargenMap, lost, conn, process>>

\* a closed socket or any error of the network: the rest is not sent
WriteFails(w) ==
    /\ At(w, "write")
    /\ job' = [job EXCEPT ![w] = None]
    /\ UNCHANGED <<limiterVars, earned, grants, received, log, chargenMap, lost, ioVars>>

-----------------------------------------------------------------------------
(* Time and shutdown                                                       *)

EarnToken ==
    /\ Running
    /\ earned < MaxEarned
    /\ Limiter!Earn
    /\ earned' = earned + 1
    /\ UNCHANGED <<grants, job, received, log, chargenMap, lost, ioVars>>

\* SIGINT or SIGTERM cancels the context
Cancel ==
    /\ process = "up"
    /\ process' = "stopping"
    /\ UNCHANGED <<limiterVars, earned, grants, job, received, log, chargenMap, lost, wire, conn>>

\* the goroutine of Start that waits for the context
CloseSocket(q) ==
    /\ process = "stopping"
    /\ conn[q] = "open"
    /\ conn' = [conn EXCEPT ![q] = "closed"]
    /\ UNCHANGED <<limiterVars, earned, grants, job, received, log, chargenMap, lost, wire, process>>

\* Application.Start returns and main with it, without waiting for anybody: the
\* goroutines are gone and their sockets closed
Exit ==
    /\ process = "stopping"
    /\ process' = "exited"
    /\ job' = [w \in Worker |-> None]
    /\ chargenMap' = {}
    /\ conn' = [q \in Proto |-> "closed"]
    /\ UNCHANGED <<limiterVars, earned, grants, received, log, lost, wire>>

-----------------------------------------------------------------------------

Init ==
    /\ Limiter!Init
    /\ earned = 0
    /\ grants = [a \in Account |-> 0]
    /\ job = [w \in Worker |-> None]
    /\ received = 0
    /\ log = {}
    /\ chargenMap = {}
    /\ lost = {}
    /\ wire = [i \in 1 .. MaxRequests |-> [to |-> None, packets |-> <<>>]]
    /\ conn = [q \in Proto |-> "open"]
    /\ process = "up"

Handle(w) ==
    \/ CallAllow(w)
    \/ AllowReturnsTrue(w)
    \/ RateLimited(w)
    \/ BreakOff(w)
    \/ Classify(w)
    \/ Save(w)
    \/ SaveFails(w)
    \/ SaveFailsAnyway(w)
    \/ EnterChargenMap(w)
    \/ LeaveChargenMap(w)
    \/ WriteToUDP(w)
    \/ WriteFails(w)

Next ==
    \/ \E w \in Worker, s \in Source, query \in Query, variant \in Variant \cup {None} :
            Receive(w, s, query, variant)
    \/ \E w \in Worker : Handle(w)
    \/ EarnToken
    \/ Cancel
    \/ \E q \in Proto : CloseSocket(q)
    \/ Exit

Spec == Init /\ [][Next]_vars

\* A goroutine that can run does: no step of a handler waits for anything but a
\* mutex that is held for a bounded time.  Nothing is assumed of datagrams, of
\* the refill or of signals.
FairSpec == Spec /\ \A w \in Worker : WF_vars(Handle(w))

-----------------------------------------------------------------------------
(* Properties                                                              *)

JobType ==
    [id : 1 .. MaxRequests, proto : Proto, src : Source, port : Nat,
     at : {"allow", "limiter", "classify", "save", "map", "write"},
     packets : Seq(Nat \ {0}), sent : Nat, out : Nat]

\* The type of every variable; a goroutine never sends more than the limiter
\* granted it.
TypeOK ==
    /\ credit \in [Account -> 0 .. Burst]
    /\ earned \in 0 .. MaxEarned
    /\ grants \in [Account -> Nat]
    /\ job \in [Worker -> JobType \cup {None}]
    /\ \A w \in Worker : job[w] # None =>
            /\ job[w].sent <= Len(job[w].packets)
            /\ job[w].out <= job[w].sent
    /\ received \in 0 .. MaxRequests
    /\ chargenMap \subseteq Worker
    /\ lost \subseteq 1 .. MaxRequests
    /\ wire \in [1 .. MaxRequests -> [to : Account \cup {None}, packets : Seq(Nat)]]
    /\ conn \in [Proto -> {"open", "closed"}]
    /\ process \in {"up", "stopping", "exited", "crashed"}

Price(packets) == MapThenSumSet(LAMBDA i : egressTokenCost(packets[i]), 1 .. Len(packets))

\* Nothing reaches the network on credit: what the sockets have sent to a
\* source for a protocol, priced packet by packet, was paid for out of the
\* burst and the tokens earned since the start, whatever the interleaving of
\* its requests and wherever they were cut short.  A clock that was read before
\* the bucket was locked adds at most Slack tokens for each packet granted.
WireWithinBudget ==
    \A a \in Account :
        LET replies == { i \in 1 .. MaxRequests : wire[i].to = a }
        IN  MapThenSumSet(LAMBDA i : Price(wire[i].packets), replies) + credit[a]
                <= Burst + earned + Slack * grants[a]

\* No packet leaves unobserved: before the first packet of a reply is sent its
\* event is in the log, with at least the bytes that are sent.  The exceptions
\* are NTP and SSDP, which answer although Save failed, and a CHARGEN event that
\* a later probe from the same address and port overwrote or a race lost.
WireIsAccountedFor ==
    \A i \in 1 .. MaxRequests : wire[i].packets # <<>> =>
        \/ \E e \in log : e.id = i /\ Bytes(wire[i].packets) <= e.bytes
        \/ i \in lost /\ wire[i].to[1] # "dns"

\* Every request comes to its end, also when the account of its source is empty
\* and is never refilled, when repositories and sockets fail, and while other
\* requests of the source take the tokens: no goroutine is left behind.
RequestsEnd == \A w \in Worker : job[w] # None ~> (job[w] = None \/ ~Running)

\* The CHARGEN server says it "returns when ctx is cancelled or a fatal socket
\* error occurs": concurrent probes do not end the process.
ProbesDoNotCrash == process # "crashed"
=============================================================================
