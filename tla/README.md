# A TLA+ model of the honeypot

The honeypot answers DNS, NTP, SSDP and CHARGEN probes, limits what it sends to
each source address, assigns sources or destinations to the variants of an A/B
experiment, classifies and records what it saw, and offers a REST interface. This
directory holds TLA+ modules that model it, TLC configurations that check them on
small instances, and TLAPS proofs of the properties that matter most.
`PROJECT.json` lists the components, the runs, the source lines behind every
definition, the hazards, the findings and the theorems.

    tlc -config MCRateLimiter.cfg MCRateLimiter     # a run
    tlapm RateLimiterProofs.tla                     # the proofs of a module

## 1. The system

| Component | State | Operations | What is hard |
|---|---|---|---|
| Rate limiter (`internal/adapters/ratelimit`), one per protocol | table of token buckets with a last-use time | `Allow` from every packet goroutine; `kick_out` from a ticker; `Close` | the bucket is asked after the table's mutex is released; eviction resets a budget; clocks are read outside the locks |
| Reply builders (`internal/domain/services`) | none | sizes, padding loop, monlist loop | off-by-one at the ends of loops, 16 and 7 bit fields |
| Request parsers (`internal/usecases/*/parser.go`) | none | `ParseQuery`, `ParseNTPRequest`, `ParseSSDPRequest` | offsets that come from the datagram, names that are decoded and encoded again, repeated headers |
| Request pipeline (servers, handlers, use cases) | one goroutine per datagram, sockets | parse, assign variant, build, limit, classify, save, send | four partial failures in a row, a limiter that runs out within a reply, shutdown under it |
| Experiments (`usecases/experiment`, repository) | experiments, variants, assignments | create, start/stop, assign a variant, list, details | every repository call is a critical section of its own; the status is written outside of any |
| Classifier | recent request times per source | `Classify`, `Cleanup` | cutoff taken before the lock |
| Event repositories and their readers | lists, or one shared JSON Lines file | `Save`, `List`, `/metrics`, `/events`, `/stats/*` | events arrive out of time order; short writes; restarts |
| Dashboard (`internal/adapters/api/dashboard.go`) | countdown, requests under way, the page | `refresh` every 60 s, seven kinds of requests, charts, banners | refreshes overlap and finish in any order, requests fail or hang |
| Application | repositories, servers, error channel, context | open the events file, load the experiments file, start, signal, exit | many servers and one receiver; files that cannot be opened or read, failures in the middle of one; a signal at any time |

A datagram goes through a server's read loop into a goroutine; its handler asks the
experiments for a variant, its use case builds the reply, asks the limiter of its
protocol for every packet, classifies the source, saves the event, and the server
sends the packets. The REST interface works on the experiments and reads the events; the page it
serves polls it.
Tickers run `kick_out` and `Cleanup`. One context stops everything.

What makes each component correct:

- limiter: a source never gets more than the burst plus the refill, whatever the
  interleaving with eviction; idle entries go away;
- reply builders: a reply has the size its configuration calls for, a monlist carries
  every peer once;
- parsers: they stay inside the datagram, accept what is well formed and nothing else, and
  keep the name that was asked for;
- pipeline: what is on the wire was paid for and is in the log, every request ends;
- experiments: the variant of a source does not change, an assignment belongs to its
  experiment, a complete active experiment always yields a variant, the status settles at
  what was asked for, the details count everything served before;
- classifier: the window holds every recent request, the label fits the rate;
- event store: saved events stay listed, answers fit the list they were read from;
- dashboard: it goes on refreshing, and a refresh that runs alone leaves the page right;
- application: it serves everything or ends, and never serves half a file.

## 2. The modules

| Module | Models | Uses |
|---|---|---|
| `EgressPolicy` | what a limiter promises: one account per source | |
| `RateLimiter` | `IPAggregate`, `Bucket` and how the rate library is used | implements `EgressPolicy` |
| `RateLimiterProofs` | proofs about `RateLimiter` | |
| `ReplySizes` | sizes of the replies of all protocols, as functions | |
| `Replies` | the padding of a DNS reply and the monlist loop, an iteration a step | `ReplySizes` |
| `RepliesProofs` | proofs about `Replies` | |
| `Parsers` | the three parsers, an iteration a step, and `encodeDNSName` | |
| `ParsersProofs` | proofs about `Parsers` | |
| `Experiments` | create, update, assign and details use cases on the repositories | |
| `ExperimentsProofs` | proofs about `Experiments` | |
| `Pipeline` | the way of a request, and shutdown | composes `ReplySizes` and `EgressPolicy` |
| `PipelineProofs` | proofs about `Pipeline` | |
| `Classifier` | `Classify`, `Cleanup` and its goroutine | |
| `ClassifierProofs` | proofs about `Classifier` | |
| `EventStore` | repositories and the handlers that read them | |
| `EventStoreProofs` | proofs about `EventStore` and about `Dashboard`, which shows its answers | |
| `Lifecycle` | `NewApplication`, `Start`, `main` | |
| `LifecycleProofs` | proofs about `Lifecycle` | |
| `Dashboard` | the script of the page | |

`MC*.tla` give the small instances and `MC*.cfg` the runs. Definitions whose comment
begins with "Mutant" are altered copies of an action or an operator, each a plausible
mistake in the code; no specification uses them. Replacing the original by the copy
makes TLC report the property it is listed with in `PROJECT.json`.

### State, actions and code

- **RateLimiter.** `entries` is the map, `bucket` the buckets by address, `call` the
  local variables of an `Allow`. `Allow` is `Lookup*` (the critical section), `Stamp`
  (the `time.Now` of `AllowN`) and `Consume*` (the library's critical section);
  `kick_out` is `KickStart` (the cutoff) and `KickSweep`. The unit of time is the time
  in which a bucket earns one token, so that tokens are integers. Fractions of a token
  are left out: the library rounds them down when it decides. A goroutine
  may sleep between its steps for at most `MaxStall`; `RefillBeforeExpiry` says that the
  time-to-live outlasts a refill and such a sleep (3000 against 100 with the defaults).
- **Experiments.** One step per repository call. The status is a Go string, text pointer
  and length, written as two steps (`WriteStatus`) because nothing protects it. Weights
  and hashes are multiples of `1/Scale`; the hash is a constant function. The
  details of `GET /experiments/{id}` are three steps of a `Viewer`. `served`, `early` and
  `wanted` are histories: what probes were given, which experiments were active before
  their last variant was saved, and which statuses the last overlapping updates asked for.
- **Replies.** `remaining`, `rdata` and `strings` are the locals of
  `buildTXTRecordOfSize`; `peerIdx` and `packets` those of
  `buildAmplifiedMonlistResponse`. A reply of a configured size leaves by one of three ways:
  without padding if it is large enough as it is (`SizedBaseline`), with a TXT record of the
  text "A" if there is no room for another (`SizedMinimalTXT`), or through the loop
  (`StartTXT`). A packet is its number of items, its first peer, its
  sequence number modulo 128 and its M flag.
- **Parsers.** A DNS message is its length, QDCOUNT and the octets behind the header, an
  NTP packet its length and mode, an SSDP request its header lines as key and value
  ("end" for an empty line, another key for a line without a header of interest). `extent`
  is a history of the octets touched; an index behind the datagram would panic. A label is a
  slice of the message. `encodeDNSName` is a recursive function over the positions of the
  name: a pass of the loop takes the piece up to the next dot, skips it if it is empty, and
  goes on behind the dot.
- **Pipeline.** `job` is the program counter and the locals of a request; packets are
  their sizes. The handlers turn a variant, or none, into the configuration of a protocol
  (`DNSConfig`, `NTPConfig`, `SSDPConfig`). The limiter is `EgressPolicy` with the `Slack` of
  the stale clock: `RateLimiter` is proved to implement it with `Slack` at `MaxStall`. `grants`
  is a history of the packets granted to an account. The store of CHARGEN is a map without a lock: a writer that finds another
  one inside ends the process or passes, and then an entry may be lost.
- **Classifier.** Times are integers; `Cleanup` is two steps. `After` is the filter loop of
  `Classify`, as a recursive function.
- **EventStore.** An event is its protocol and its time stamp, a file a sequence of lines
  with what follows the last newline (`tail`). A short write leaves nothing, a piece of a
  line, or a line without its newline. Source, label and query type of an event are the
  constant `Seen` of its time stamp; a line of NTP or SSDP that is read as a DNS event has
  neither label nor query type, because their fields have other JSON names. `ServeHTTP` offers the read-only routes; of
  `/stats/top-ips`, all orders that the map and the unstable sort allow.
- **Lifecycle.** Configurations are chosen by `Init`: the list of addresses, which of the two
  files are given, the specs of the experiments file, the set of addresses that cannot be
  bound, and the faults the environment may have (`Fault`). The three event repositories open
  the events file one after the other (`OpenEvents`), then the experiments file is read and
  parsed (`ReadFile`) and its specs are created (`LoadSpec`); every error return of
  `NewApplication` is an action of its own (`OpenFails`, `ReadFails`, `LoadFails`). While
  serving, only the coordinator's listener can fail (`AcceptFails`): the UDP servers log a read
  error and go on. The error channel is the number of errors in it.
- **Dashboard.** What a section of the page shows is the number of the refresh whose data
  it holds. A timer or a settled request is one step with all its promise reactions. A
  request may settle with an answer, with an empty list, with null (its `catch`), or never.

## 3. The runs

| Run | Instance | Properties |
|---|---|---|
| `limiter` | 1 source, 2 callers, costs 1 and 2, burst 2, 5 ticks, fair | `TypeOK`, `HeldBucketIsCurrent`, `EvictionForfeitsNothing`, `EgressBudget`, `PolicySpec`, `IdleEntriesExpire` |
| `experiments` | 1 experiment of either mode, 2 arms with weights below 1, 2 updaters, 2 probes, 3 pairs of source and destination | `TypeOK`, `StickyVariant`, `StatusIsAsAsked`, `CompleteExperimentServes` |
| `experiments_two` | 2 experiments, 1 creator, 1 updater, 1 probe, 1 viewer | `AssignmentsRefer`, `DetailsCoverServed` |
| `replies` | 3 name lengths, 110 sizes: below and around the unpadded and the smallest padded reply, around the string edges, at the largest datagram, beyond 65536; 30 peer counts up to 780 (130 packets) | `SizedReplyExact`, `MonlistCarriesEveryPeer` |
| `parsers` | all DNS messages with up to 6 octets of 5 values behind the header and up to 4 zeros, all NTP modes at 8 lengths, all lists of up to 4 of 6 SSDP lines | `ReadsWithinDatagram`, `AcceptsWellFormedQueries`, `QuestionIsEchoed`, `ProbeIfLastMANSaysSo` |
| `pipeline` | 2 goroutines, 2 requests of the four protocols, replies of 1 to 9 tokens, burst 5, slack 1, 1 token earned, fair | `TypeOK`, `WireWithinBudget`, `WireIsAccountedFor`, `RequestsEnd` |
| `classifier` | 2 sources, one of them a scanner, window 3, threshold 2, 4 requests, 9 ticks, fair | `WindowIsWhole`, `LabelMatchesRate`, `IdleSourcesForgotten` |
| `events` | both backends, 2 writers, 1 reader, short writes, 1 restart | `EventsAreLatest`, `SeriesIsComplete`, `StatsMatchList`, `SavedEventsListed`, `SpoiltOnlyByShortWrite` |
| `lifecycle` | 3 configurations of addresses, files and faults (each fault in one of them), every set of addresses that cannot be bound, fair | `NoSenderBlocks`, `ServedFileIsWhole`, `ErrorHasCause`, `ServesOrEnds` |
| `dashboard` | 3 refreshes of which 2 may wait at a time, 1 chart, 2 failing requests, fair | `LoneRefreshIsShown`, `KeepsRefreshing`, `SpinnerStops` |

The bounds are chosen so that the interesting cases occur: the clock of `limiter` lets an
entry be evicted and its source return while a call of it is under way; in
`pipeline` the second monlist packet exceeds what is left of the burst, and two replies of DNS or
SSDP do together (the reply of SSDP has one packet there, since NTP and SSDP have the same loop);
a hash above the
sum of the weights takes the fallback of `AssignVariant`; an event can be saved after a
later one, and after the hour of its reader; the octets of `parsers` are the two lengths
that fit, a dot (also a length that does not fit), the end of a name and a compression
pointer; two of three refreshes overlap, the third finds them gone or still under way. One
chart stands for three that the same code draws. `/stats/top-ips` keeps one entry in
`events`, so that its cut (10 in the code) bites with two sources. `limiter` has one source because sources
share nothing but the mutex; that they do not share a bucket is a part of the invariant
proved for every number of sources.

Deadlock is not checked where the process ends (`lifecycle` and the runs of `Pipeline`) or where a bound on
time, requests or refreshes is used up (`limiter`, `classifier`, `dashboard`).

Two runs end in a violation and show where the program does something else than its own
documentation says:

| Run | The code | The document |
|---|---|---|
| `pipeline_crash` | two CHARGEN probes at once may end the process | comment of `ChargenServer.Start` |
| `events_shared` | `/events` shows NTP and SSDP events if there is a file | comment of the router, README.md |

Other cases that modelling brought up, for which there is no run of their own. Where a property
is about the same code, it says what holds of the case or leaves it out, as noted:

- racing first contacts of a source around the saving of a variant get different variants, if
  the experiment was started while it was being created; the comment of `AssignVariantUsecase`
  says that repeat probes always see the same one. `StickyVariant` and
  `CompleteExperimentServes` leave such experiments out (`early`);
- a CHARGEN probe replaces the event of an earlier one from the same address and port, where
  README.md says that every interaction is logged; `WireIsAccountedFor` leaves the replaced
  events out (`lost`);
- one write that comes up short makes every later `List` fail, and no event of the file can be
  queried any more, also after a restart, where README.md calls the events file queryable.
  `SpoiltOnlyByShortWrite` states that this lasts and has no other cause; `SavedEventsListed`
  states that a `List` has every saved event or fails;
- a padded DNS reply is one byte shorter than the size asked for when the strings leave a single
  byte, for example 301 bytes for 302 and a name of one octet, where `dns_service_test.go` asks
  for at least the size (it tries 512). `SizedReplyExact` states exactly for which sizes;
- a size beyond the largest datagram may wrap RDLENGTH; `SizedReplyExact` claims it for the
  sizes a datagram can have, and the socket refuses the others;
- contradictory updates of a status that overlap may leave the text of one and the length of
  the other, which is neither active nor stopped; `StatusIsAsAsked` is about updates that agree;
- a label with a dot in it comes back as two; `QuestionIsEchoed` gives only a bound on the
  length for such names;
- an older refresh of the page that ends last overwrites newer data and hides the banner of a
  newer failure, until a refresh that runs alone repairs it (`LoneRefreshIsShown`); the chart of
  variants stays as it is, without a banner, when events or experiments cannot be loaded;
- a full bucket answers 6 replies of 1962 bytes where EXPERIMENT_GUIDE.md says 25;
- two first contacts of a source may both save an assignment (the first in the list counts);
- an NTP event counts packets that the socket may refuse later, and a rate limited DNS query
  leaves no event;
- a name that occurs twice in the experiments file is created twice.

### Fairness

`limiter` and `classifier` assume that time passes, that a ticker's channel is served and
that a started sweep ends: the mutexes are held for a bounded time and Go runs every
goroutine that can run. `lifecycle` assumes weak fairness of `main` and of the servers,
not of the signal or of a failing listener. `pipeline` assumes weak fairness of every request goroutine: no step of
a handler waits for anything but a mutex that is held for a bounded time. `dashboard` assumes
that the interval timer fires as long as the page is open; that requests settle is assumed
by `SpinnerStops` alone, as its premise. Nothing is assumed of the arrival of requests, and
the other runs assume nothing.

## 4. The proofs

`RateLimiterProofs` shows for all sets of sources and goroutines and all burst,
time-to-live and stall values with `RefillBeforeExpiry`:

- `TypeCorrect`, `AllowChargesCurrentBucket`, `EvictionIsFree`, `BudgetHolds` and
  `LimiterImplementsPolicy`.

`HeldBucketIsCurrent` and `EgressBudget` are not inductive as they stand. The invariant
`IndInv` adds that no two sources share a bucket (`OneBucketPerSource`), that a call in
flight left the mutex at most `MaxStall` ago and that its entry still carries that time
or a later one (`CallIsRecent`), that a bucket was last charged no later than `MaxStall`
after its entry was touched (`ChargeFollowsTouch`), and that the cutoff of a waiting
`kick_out` is a time-to-live old (`CutoffIsOld`). From these an expired entry has no call
in flight and its bucket has had `Burst` ticks to fill, so that its removal changes no
account: under the refinement mapping `KickSweep` is a stuttering step. The mapping takes
the account of a source from its bucket at the present time, and a full account if there
is none.

`RepliesProofs` shows for all name lengths, sizes and peer counts what the two builders
return: `LoopsKeepCount` (the loop invariants), `PaddingIsExact` and `MonlistIsComplete`.
`PaddingIsExact` covers all three ways out of `buildSizedResponse`: from the smallest padded
reply on the result has the size asked for, less one byte exactly when the rdata wanted is one
more than a multiple of 256, below it the result is the reply
without padding or the smallest padded one. That RDLENGTH is right up to the largest datagram
follows from the loop invariant, which bounds the rdata by what was asked for.

`ParsersProofs` shows for every set of datagrams:

- `ParsersStayInside`. `ReadsWithinDatagram` alone does not say why the next label is safe:
  `ParserInv` adds that the offset in a name lies behind the header and that the loop that
  runs is the one of the datagram's protocol.
- `QueriesAreJudgedRightly`. `NameInv` says of the offset that the places before it form a
  chain of labels up to it, so that the octet 0 completes a well-formed name, and that every
  chain which could make the name well-formed passes it, so that a label that cannot be
  parsed rules all of them out.
- `QuestionsAreEchoed`. `QuestionInv` says that the labels cut so far lie one behind the other
  from the header to the offset, each behind the octet that has its length. The name joined
  from them is then the octets of the message with dots for the lengths (`NameIs`). A pass of
  `encodeDNSName` writes a length and a piece, and between two pieces there is a dot, so that
  the encoding is at most two octets longer than the name, which is two octets shorter than
  what was asked (`EncodingIsShort`). If no label has a dot in it, every label is one piece
  (`LabelIsPiece`), and going back from the last label, what is written from a label on is
  what the message has from there on (`EncodingIsName`). That the recursive function has a
  value at every position is shown along the way (`EncodingExists`).
- `LastMANWins`. `HeadersInv` says of the lines scanned so far that none ends the headers and
  that `MAN` holds the value of the last MAN line among them, or nothing if there is none.

`PipelineProofs` shows for all sets of workers and sources, all requests, variants and
bounds (`QueryAssumption` and `VariantAssumption` give the fields of a datagram and of a
variant their types):

- `TypeCorrect`, `WireAccounted` and `WirePaidFor`.

The account of a source is charged before its packet is sent, by several goroutines at a
time, so neither property is inductive. `PipelineInv` ties a request to its entry on the wire
(`JobWire`: what was sent is a prefix of its packets; `JobAt`: what the handler holds at each of its
points; `Distinct`, `Fresh`: no two goroutines work on the same request), an event to its
request (`LogInv`, `Answered`: at the socket the event is in the log already, or was lost),
and says that there is a `paid` for which each request has paid for what was sent and
for what was granted and not sent yet, while the sum over an account stays affordable
(`Budget`). The tokens of a request whose socket failed stay paid and are never sent. The
limiter in the pipeline is `EgressPolicy` with a `Slack` of any size, and an account may
pay out that much more for every packet granted (`Allowance`); `LimiterImplementsPolicy` says
that `RateLimiter` behaves like it with `Slack` at its `MaxStall`, so that the two theorems
compose. Sums are treated as cardinalities: a sum of `c[x]` over `S` is the
number of pairs of an `x` in `S` and one of `1 .. c[x]`, which makes the lemmas on finite sets
available.

`ExperimentsProofs` shows for all sets of experiments, variants, callers and packets, every
scale, hash and list of inputs (`None` differs from the values it stands in for):

- `TypeCorrect`, `LogRefersToVariants`, `SourcesStickToVariants`, `StatusSettles`,
  `CompleteExperimentsServe`: from `ExperimentsInv`. An id that is not published has no variants and no
  updates; the list of an experiment names saved variants of it and no longer changes once
  its creation has ended; a probe in flight holds either that whole list or belongs to an
  experiment in `early`; every entry of the log and everything served is what the hash gives
  on the same list, which is why two racing first contacts save the same variant; and each
  word of the status is either what was asked for or still to be written by an update under
  way.
- `DetailsAreCovered`: from `ViewInv` on top of it. The served sources inject into the log of
  the experiment, the log only grows, and the counts per variant add up to its length.

`ClassifierProofs` shows for all sources, windows, thresholds and ages of at least a window:

- `WindowsAreWhole` and the action property `LabelsMatchRates`. The invariant adds that the
  cutoff of a waiting `Cleanup` is at least `maxAge` old, and therefore older than any
  request of the window when the sweep runs. What the filter loop returns is
  shown by induction on its passes.

`EventStoreProofs` shows for both backends, all writers, readers, limits and hours:

- `ShortWritesSpoilForGood` and `SavedEventsAreListed`: from `StoreInv`. The file has a spoilt
  line or an unfinished end only after a short write, and an acknowledged event is no line of
  the file only if a line is spoilt (`Confined`); lines are never taken back, so that a `List`
  that fails goes on failing; in memory nothing is missing before the first restart
  (`MemoryKeeps`); a time stamp is given out and stored once (`Stamped`, `Fresh`, `Once`).
- `EventsAreTheLatest`, `SeriesAreComplete`, `StatsMatchLists`: what the handlers compute is
  right for every list that satisfies `StoreInv`, and an answer is never changed afterwards.

It also shows, for every number of charts, refreshes and failures, what the dashboard does
with such answers; the specification of the page is `PageSpec`, so that the module can extend
both components:

- `LoneRefreshRepairsPage`: from `PageInv`. `LoneRefreshIsShown` speaks of a page at rest only.
  The invariant adds what is true on the way there: a refresh that has not started has asked for nothing,
  details are asked for after everything else has settled, and no section holds data of a refresh
  that is still to come (`RefreshInv`); while a lone refresh waits, no other one can touch the page,
  all data on it is older, and each of its failures has its banner (`LoneInv`).
- `SpinnerOnlyWhileWaiting`: the spinner is on only while the last refresh waits for a request.
  With `PageInv` this is inductive; `SpinnerStops` needs no more than that requests settle.

`LifecycleProofs` shows for every configuration of addresses, files and faults:

- `SendersNeverBlock`: the errors in the channel are at most as many as the goroutines that
  have returned, and the channel has a place for each (`ErrorsAreFromReturned`);
- `FileIsWholeWhenServing`: the repository is the part of the file read so far, and servers
  are launched when that is all of it (`Loaded`, `LaunchedAfterLoading`);
- `ErrorsHaveCause`: an error of a server, also one that is still in the channel, has a cause
  among those of the servers (`ServerMayFail`), and one of `NewApplication` among those of the
  files (`BuildMayFail`); together they are `FailuresHaveCause`.

The prover cannot use an induction theorem with an operator parameter. Where a recursive
function or a fold is involved (sums, the filter of the classifier, `AssignVariant`, the joined
name and its encoding), the
induction is by a set of naturals: the set of the counterexamples has a least element, or
the set of the indices that satisfy the claim contains 0 and is closed under successor.

Every invariant and every action property of the passing runs is proved. Only model-checked are the
liveness properties (`IdleEntriesExpire`, `RequestsEnd`, `IdleSourcesForgotten`, `ServesOrEnds`,
`KeepsRefreshing`, `SpinnerStops`): fairness and `ENABLED` are out of the prover's reach.

## 5. Not modelled

Contents of the records in replies, JSON and YAML, the text of SSDP headers (white space,
quotes, letter case), markup, styles and drawing of the dashboard, logging, the no-op
limiter, the load generators and the analysis scripts. A read error that persists makes a
server's loop spin; the loop changes no state and is left out. Reads of the events file are atomic with
respect to writes; whether they are is up to the file system.

## 6. Plan

1. Done, the model: the limiter and its policy; the reply loops; parsers; experiments with
   their queries; pipeline with the handlers' configurations and the end of every request;
   classifier; event store with all statistics; lifecycle; dashboard. Every component of the
   honeypot that has state is modelled.
2. Done, the proofs: every safety property of the runs, for all values of the constants, and
   the refinement of the limiter's policy.
3. Left: the contents of the records in a reply, should the code come to depend on them, and
   the liveness properties, should a prover for them become available.
