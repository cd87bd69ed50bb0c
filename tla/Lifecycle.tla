----------------------------- MODULE Lifecycle ------------------------------
(***************************************************************************)
(* One run of the server process, from main to its end: NewApplication     *)
(* opens the events file, loads the experiments file and builds the        *)
(* servers; Start gives every server a goroutine and waits for the first   *)
(* error or for a signal; a server binds its socket and serves until the   *)
(* context is cancelled.                                                   *)
(*                                                                         *)
(* The experiments of this module are those of the file.  What the REST    *)
(* interface does to experiments later is in module Experiments.           *)
(***************************************************************************)
EXTENDS Integers, Sequences

CONSTANTS
    Configs     \* records of HONEYPOT_IPS, a sequence of addresses and "", of the
                \* files that are given, of the specs of the experiments file,
                \* a sequence of [name, valid, autoStart], and of the faults
                \* the environment may have

\* HONEYPOT_IPS without its empty entries
parseIPs(list) == SelectSeq(list, LAMBDA ip : ip # "")

ExperimentSpec == [name : STRING, valid : BOOLEAN, autoStart : BOOLEAN]

\* What may go wrong besides binding: an open of the events file, reading the
\* experiments file, accepting a connection.  "yaml": the experiments file is
\* not the YAML that is expected.
Fault == {"open", "read", "yaml", "accept"}

ASSUME ConfigsAssumption ==
    \A c \in Configs :
        /\ parseIPs(c.ips) \in Seq(STRING)
        /\ c.given \subseteq {"events", "experiments"}
        /\ c.file \in Seq(ExperimentSpec)
        /\ "experiments" \notin c.given => c.file = <<>>
        /\ c.faults \subseteq Fault

VARIABLES
    ipList,         \* configuration: HONEYPOT_IPS, split at the commas
    given,          \* configuration: which of EVENTS_FILE, EXPERIMENTS_FILE are set
    file,           \* configuration: the experiments file
    taken,          \* environment: the addresses that cannot be bound
    faults,         \* environment: the other faults it may have
    opened,         \* number of repositories that have the events file open
    experiments,    \* the experiment repository, in the order of creation
    next,           \* index of the next spec of the file
    main,           \* "opening", "reading", "loading", "built", "waiting" or "ended"
    result,         \* how the process ended: "none", "ok" or "error"
    server,         \* server[s]: state of the goroutine of server s
    errCh,          \* number of errors in the error channel
    cancelled       \* the context: a signal arrived

config == <<ipList, given, file, taken, faults>>
loadVars == <<opened, experiments, next>>
vars == <<config, loadVars, main, result, server, errCh, cancelled>>

-----------------------------------------------------------------------------
(* Configuration                                                           *)

ips == IF parseIPs(ipList) = <<>> THEN <<"127.0.0.1">> ELSE parseIPs(ipList)

\* one chargen server, one coordinator, and three servers per entry of the list
Server ==
    { <<"chargen", 0>>, <<"coordinator", 0>> } \cup
    ({"dns", "ntp", "ssdp"} \X (1 .. Len(ips)))

\* The address of a server.  An IP address listed twice is not removed.
Addr(s) == <<s[1], IF s[2] = 0 THEN "own" ELSE ips[s[2]]>>

\* Mutant: the coordinator is not counted.
serverCountShort == 1 + 3 * Len(ips)

serverCount == 2 + 3 * Len(ips)

-----------------------------------------------------------------------------
(* NewApplication                                                          *)

\* the DNS, the NTP and the SSDP repository, in this order, open the file each
\* for itself
eventRepos == IF "events" \in given THEN 3 ELSE 0

OpenEvents ==
    /\ main = "opening"
    /\ opened < eventRepos
    /\ opened' = opened + 1
    /\ UNCHANGED <<config, experiments, next, main, result, server, errCh, cancelled>>

\* os.OpenFile fails: NewApplication fails, log.Fatalf
OpenFails ==
    /\ main = "opening"
    /\ opened < eventRepos
    /\ "open" \in faults
    /\ main' = "ended"
    /\ result' = "error"
    /\ UNCHANGED <<config, loadVars, server, errCh, cancelled>>

ReposReady ==
    /\ main = "opening"
    /\ opened = eventRepos
    /\ main' = IF "experiments" \in given THEN "reading" ELSE "built"
    /\ UNCHANGED <<config, loadVars, result, server, errCh, cancelled>>

\* os.ReadFile and yaml.Unmarshal
ReadFile ==
    /\ main = "reading"
    /\ "yaml" \notin faults
    /\ main' = "loading"
    /\ UNCHANGED <<config, loadVars, result, server, errCh, cancelled>>

ReadFails ==
    /\ main = "reading"
    /\ "read" \in faults \/ "yaml" \in faults
    /\ main' = "ended"
    /\ result' = "error"
    /\ UNCHANGED <<config, loadVars, server, errCh, cancelled>>

\* the names the repository has when the file is loaded: it has just been created
existingByName == {}

\* create.Execute and, if the spec asks for it, update.Execute
LoadSpec ==
    /\ main = "loading"
    /\ next <= Len(file)
    /\ file[next].valid
    /\ experiments' =
        IF file[next].name \in existingByName
        THEN experiments
        ELSE Append(experiments, [name |-> file[next].name,
                                  status |-> IF file[next].autoStart THEN "active" ELSE "stopped"])
    /\ next' = next + 1
    /\ UNCHANGED <<config, opened, main, result, server, errCh, cancelled>>

\* Mutant: a spec that fails validation is skipped.
LoadFailsSkips ==
    /\ main = "loading"
    /\ next <= Len(file)
    /\ ~file[next].valid
    /\ next' = next + 1
    /\ UNCHANGED <<config, opened, experiments, main, result, server, errCh, cancelled>>

\* ValidateExperiment refuses the spec: NewApplication fails, log.Fatalf
LoadFails ==
    /\ main = "loading"
    /\ next <= Len(file)
    /\ ~file[next].valid
    /\ main' = "ended"
    /\ result' = "error"
    /\ UNCHANGED <<config, loadVars, server, errCh, cancelled>>

NewApplicationReturns ==
    /\ main = "loading"
    /\ next > Len(file)
    /\ main' = "built"
    /\ UNCHANGED <<config, loadVars, result, server, errCh, cancelled>>

-----------------------------------------------------------------------------
(* Start                                                                   *)

\* The goroutines are started before the select is reached; how far one gets
\* while others are being started makes no difference to any of them.
Launch ==
    /\ main = "built"
    /\ server' = [s \in Server |-> "starting"]
    /\ main' = "waiting"
    /\ UNCHANGED <<config, loadVars, result, errCh, cancelled>>

Bound == { Addr(s) : s \in { t \in Server : server[t] = "serving" } }

Bind(s) ==
    /\ main = "waiting"
    /\ server[s] = "starting"
    /\ Addr(s) \notin taken \cup Bound
    /\ server' = [server EXCEPT ![s] = "serving"]
    /\ UNCHANGED <<config, loadVars, main, result, errCh, cancelled>>

\* Mutant: the error of the socket is logged and not returned.
BindFailsQuietly(s) ==
    /\ main = "waiting"
    /\ server[s] = "starting"
    /\ Addr(s) \in taken \cup Bound
    /\ server' = [server EXCEPT ![s] = "returned"]
    /\ UNCHANGED <<config, loadVars, main, result, errCh, cancelled>>

\* ResolveUDPAddr, ListenUDP or ListenAndServe fails: Start returns the error
BindFails(s) ==
    /\ main = "waiting"
    /\ server[s] = "starting"
    /\ Addr(s) \in taken \cup Bound
    /\ server' = [server EXCEPT ![s] = "failed"]
    /\ UNCHANGED <<config, loadVars, main, result, errCh, cancelled>>

\* The coordinator's ListenAndServe returns when its listener fails; a UDP server
\* logs the error of its socket and reads on.
AcceptFails(s) ==
    /\ main = "waiting"
    /\ s[1] = "coordinator"
    /\ server[s] = "serving"
    /\ "accept" \in faults
    /\ server' = [server EXCEPT ![s] = "failed"]
    /\ UNCHANGED <<config, loadVars, main, result, errCh, cancelled>>

\* errCh <- err blocks while the channel is full
SendError(s) ==
    /\ main = "waiting"
    /\ server[s] = "failed"
    /\ errCh < serverCount
    /\ errCh' = errCh + 1
    /\ server' = [server EXCEPT ![s] = "returned"]
    /\ UNCHANGED <<config, loadVars, main, result, cancelled>>

\* Mutant: the error of the closed socket is returned on shutdown too.
ShutDownReportsError(s) ==
    /\ main = "waiting"
    /\ cancelled
    /\ server[s] = "serving"
    /\ server' = [server EXCEPT ![s] = "failed"]
    /\ UNCHANGED <<config, loadVars, main, result, errCh, cancelled>>

\* The socket is closed and the loop returns nil because ctx.Err() is set.  The
\* coordinator's Shutdown may also come before its ListenAndServe.
ShutDown(s) ==
    /\ main = "waiting"
    /\ cancelled
    /\ server[s] = "serving" \/ (s[1] = "coordinator" /\ server[s] = "starting")
    /\ server' = [server EXCEPT ![s] = "returned"]
    /\ UNCHANGED <<config, loadVars, main, result, errCh, cancelled>>

\* the two cases of the select; either may win when both are ready
ReceiveError ==
    /\ main = "waiting"
    /\ errCh > 0
    /\ errCh' = errCh - 1
    /\ main' = "ended"
    /\ result' = "error"
    /\ UNCHANGED <<config, loadVars, server, cancelled>>

ReceiveDone ==
    /\ main = "waiting"
    /\ cancelled
    /\ main' = "ended"
    /\ result' = "ok"
    /\ UNCHANGED <<config, loadVars, server, errCh, cancelled>>

\* SIGINT or SIGTERM, also while NewApplication runs
Signal ==
    /\ main # "ended"
    /\ ~cancelled
    /\ cancelled' = TRUE
    /\ UNCHANGED <<config, loadVars, main, result, server, errCh>>

-----------------------------------------------------------------------------

Init ==
    /\ \E c \in Configs :
          /\ ipList = c.ips /\ given = c.given /\ file = c.file
          /\ faults \in SUBSET c.faults
    /\ taken \in SUBSET { Addr(s) : s \in Server }
    /\ opened = 0
    /\ experiments = <<>>
    /\ next = 1
    /\ main = "opening"
    /\ result = "none"
    /\ server = [s \in Server |-> "none"]
    /\ errCh = 0
    /\ cancelled = FALSE

MainStep ==
    \/ OpenEvents \/ OpenFails \/ ReposReady
    \/ ReadFile \/ ReadFails
    \/ LoadSpec \/ LoadFails \/ NewApplicationReturns
    \/ Launch \/ ReceiveError \/ ReceiveDone

ServerStep(s) == Bind(s) \/ BindFails(s) \/ SendError(s) \/ ShutDown(s)

Next ==
    \/ MainStep
    \/ \E s \in Server : ServerStep(s) \/ AcceptFails(s)
    \/ Signal

Spec == Init /\ [][Next]_vars

\* A runnable goroutine eventually runs; nobody has to send a signal and no
\* listener has to fail.
FairSpec == Spec /\ WF_vars(MainStep) /\ WF_vars(\E s \in Server : ServerStep(s))

-----------------------------------------------------------------------------
(* Properties                                                              *)

\* No server goroutine ever blocks on errCh, although Start receives at most
\* once: with as many failures as there are servers there is room for each.
NoSenderBlocks ==
    main = "waiting" => \A s \in Server : server[s] = "failed" => errCh < serverCount

\* While a server serves, every experiment of the file is in the repository, in
\* the file's order, and the auto_start ones have been started: a probe never
\* meets half a file.
ServedFileIsWhole ==
    (\E s \in Server : server[s] = "serving") =>
        /\ Len(experiments) = Len(file)
        /\ \A i \in DOMAIN file :
              /\ experiments[i].name = file[i].name
              /\ experiments[i].status = "active" <=> file[i].autoStart

\* The process ends with an error only for one of the causes of the code: a
\* given file that could not be opened, read or parsed, a spec that was refused,
\* an address that could not be bound, a listener that failed.  Closing the
\* sockets on a signal is never reported as an error, whichever case of the
\* select wins.
ErrorHasCause ==
    result = "error" =>
        \/ "events" \in given /\ "open" \in faults
        \/ "experiments" \in given /\ ("read" \in faults \/ "yaml" \in faults)
        \/ "accept" \in faults
        \/ \E i \in DOMAIN file : ~file[i].valid
        \/ \E s \in Server : Addr(s) \in taken
        \/ \E s, t \in Server : s # t /\ Addr(s) = Addr(t)

\* Every process either serves on all its addresses or comes to its end: it does
\* not stay up with a part of its servers.
ServesOrEnds ==
    <>(main = "ended" \/ \A s \in Server : server[s] = "serving")
=============================================================================
