# Maude-HCS in TLA+

Maude-HCS models hidden communication systems.  Its library is made of Maude rewrite theories:
every protocol endpoint is an actor, every rule consumes one message (or a timer) and replaces
the actor's attributes, and a probabilistic scheduler delivers messages after sampled delays.
Around it are Python tools: a generator that turns a scenario into Maude, converters of user
profiles, pipelines that measure baselines with many runs of Maude, a modelling language with
simulator and transpiler, and the traffic generators of the testbed the models are compared
with.  This directory holds TLA+ models of these, the TLC configurations that check them, and
proofs for TLAPS. `lib/` below is `src/maude_hcs/lib/`.

## The system

| Component | State | Operations | Hard behaviour |
|---|---|---|---|
| Iodine tunnel (`lib/dns/maude`) | two applications (packet queue, admission counter, endpoint-ready flag), client and server (fragments out and in, numbers, attempts) | files in, packets handed to an endpoint, fragments in DNS queries and responses, acks, retransmission, pings, pacing | loss, reordering, stale responses, retries, two ways for Bob's packets to reach the server |
| DNS traffic generator (`lib/tgen/maude/dnsTgen-actor.maude`) | awaited query, action in hand, names left, retries left, id counter | take an action, query, retry, give up, answer | late responses, timers that are never cancelled |
| User model (`lib/common/maude/user-action-actor.maude`) | current state, steps left, message awaited | start the action of a state, take its status | statuses without an id |
| User model, second version (`user-action-actor-v2-aux.maude`) | mode, steps to stay, burst, rooms, message awaited | delays, bursts, actions, change of mode, joining rooms | five counters and three kinds of waits; terms no operator matches |
| Python FTP and MinIO clients (`lib/tgen/maude/ftp`, `minio`) | session and working directory; S3 resource and monitor file | health check, browse, transfer, append, delete | sessions that break between requests, read and write back, shared files |
| CP3 generators (`generate_cp3.py`, `scripts/generate_cp3_v3.py`) | none; a directory of files | networks, clients, generators of traffic, addresses, actors, links, queries | pieces of text that must name the same things, errors between two files, files of earlier calls |
| Baseline pipelines (`scripts/run_cp3_*`) | logs, equations, JSON files | trials in a pool, combination, formatting | failed or stale trials, kills |
| Markov converters (`convert_markov_json_to_maude_v*.py`) | a tree of JSON and Maude files | convert a directory, copy, build | files cut by a kill or a full disk, converted in place |
| Protocol modeller (`utils/intermediate_reps`) | files parsed, objects, event queue | resolve imports, validate, simulate tests, transpile | circular imports, simulator and generated rules must agree |
| Mastodon, Raceboat, IRC, obfs4, WebTunnel, Skyhook, S3, other generators (Maude) | sessions, buckets, buffers | connect, forward, put and get, poll | handshakes, ordering |
| TCP and network (`lib/network`) | windows, rates, times as floats | send, deliver, time out | timing |
| Observers, statistics (`lib/common/maude/adversary*`, `lib/smc`), plots | logs | read only | none |
| Resolver, nameserver, scheduler | a submodule outside this tree | | external to the models |

User models send `actionQ` to a generator or an application and wait for its `actionR`;
applications send packets to protocol endpoints; endpoints exchange messages over links with
sampled delay and loss; timers are messages an actor sends to itself.  The Python tools interact
through files only: converters write the modules the generator's main file loads, the generator
writes the main files the pipelines run, the pipelines write the equation the main file loads,
and the model checker's answers are read back together with the file of queries.  `PROJECT.json`
lists every component with its status, and the hazards of the code at the line where they bite.

## Modules

| Module | What it is |
|---|---|
| `IodineNode` | the functions of `IODINE_NODE` (`dns/maude/common/_aux.maude`) on records: fragmenting, reassembly, accepting a fragment, acks, attempts, the application's queue |
| `IodineDNS` | the rules of `IODINE_DNS` (`dns/maude/probabilistic/iodine_dns.maude`), one action each, composing Alice, client, server and Bob; properties |
| `DnsTgen`, `DnsUser` | the rules of the DNS generator, with resolver and network; the user model driving it |
| `ActionService` | what an action actor promises: one action at a time, each answered once |
| `MarkovProfile` | the second version's converter, from a profile's JSON to the terms the rules see |
| `UserV2` | the second version's user model, of a generator and of an IRC user, walking a converted profile |
| `FtpTgen`, `MinioTgen` | the Python clients, with the server or object store they work on |
| `AppendStore` | what an append should be: one step on one object |
| `DslLang` | the modelling language: values, expressions, statements, machines |
| `DslTheory`, `DslRules` | the transpiler: the theory it generates; and that theory's rewriting, the abstract specification of a run |
| `DslTool` | the modeller's command: imports, validation, simulation, transpiling |
| `Cp3Scenario`, `Cp3Actors`, `Cp3Network`, `Cp3Script` | what the generators make of a scenario: names and profiles, actors and addresses, links, and the script's way of doing all of it |
| `Cp3Gen` | both generators as tools that write files one after the other; queries |
| `Cp3Baselines`, `Cp3Parallel`, `Cp3Results` | the pipeline of trials; the pipeline of isolated channels; the queries' answers and the formatter |
| `ModelConverter` | the converters and the build as tools on a tree of files (uses the generator's main file of `Cp3Script`) |
| `MCIodine`, `MCDnsUser`, `MCUserV2`, `MCFtpTgen`, `MCMinioTgen`, `MCDsl`, `MCCp3`, `MCConverter` | instances for TLC |
| `DnsUserProofs`, `IodineProofs`, `MinioProofs`, `FtpProofs`, `ConverterProofs`, `UserV2Proofs`, `Cp3Proofs`, `Cp3NetworkProofs` | lemmas and proofs |

`IodineDNS` extends `IodineNode`; `DnsUser` extends `DnsTgen`.  The Cp3 modules form one chain,
`Cp3Scenario`, `Cp3Actors`, `Cp3Network`, `Cp3Script`, from which `Cp3Gen` to `Cp3Results` go on
in one direction and `ModelConverter` in another.  A definition whose comment begins with
"Mutation" or "Variant of" is another one with a plausible mistake.  No specification uses it;
in the place of the original it breaks one of the properties, which shows that the property
depends on that part of the code.

### How the tunnel model corresponds to the code

An attribute set is a record with the source's attribute names; a Maude list is a sequence.
`app["Alice"]` is the SendApp, `app["Bob"]` the RcvApp, `client` the WClient, `server` the
WNameserver. Messages between an application and its endpoint are in the bag `local`; DNS
queries and responses are the fragments they carry, in the bags `queries` and `responses`, which
lose order. `ackTimeouts` holds the number of the fragment each pending `ackTimeout` was set
for; `pktTimeouts` and `pingTimeouts` count the others, whose content no rule reads. `output` is
what an application handed on to the layer above.

`processFragment` is `extract` and `processQuery`, which are the same function.
`IClientExtractFromServer` and `WClientExtractOldResponse` are both enabled for an outdated
response, as the two rules are. A queue that is empty when `sendPkt` is called leaves everything
as it is: that is the guard `canSend`.

Left out: addresses (an instance has one of each actor), query ids, `appAddrMap`, TTLs,
`fragmentsSize` (marked obsolete in the source), byte sizes (a packet's length is its number of
fragments), `timeLastRecvd` (a ping is due or not; firing when not due changes nothing). The two
rules that hand standard queries to the wrapped nameserver touch no tunnel state. `numAttempts`
saturates above every limit it is compared with.

Time is order: a message in the network takes any time, and a timer fires at any moment after it
was set. One pair is ordered: `pktTimeout` (10 to 50 ms) does not overtake the packet it was set
with, whose link takes microseconds (`UnderWay`). Messages of a local link are not lost, as in
the configurations of the repository.

### How the generator model corresponds to the code

A query is its id (`ctr`), on which responses are matched; names are left out. A fired timer
(`dnsTO`) is taken from the bag `timers`, and `DnsTOretry` puts it back, so the bag is
unchanged. `wakes` are the messages a user model sends itself (a pause); `w4` of the user model
keeps only whom it awaits, which is all `umRcvStatus` compares. The number `step` in an action
is in no message of the code: it tells actions apart, so that the properties can say which
action a status answers. The successor state is any of positive weight.

### How the second version's user model corresponds to the code

A rule of `user-action-actor-v2-aux.maude` reduces through several operators.  `at` is the
operator reached; nothing else can happen while it is not `rest`, and an operator that matches
nothing stops the reduction, which TLC finds as a deadlock (`Over` is what a finished user
does). `pend` is the bag of timers, requests and answers under way; `late` says that `stopTime`
has passed, which the rules test only when a timer or an answer is delivered.  Gaussian samples
lie within one deviation of the mean, and an integer keeps its type apart from a float, because
the rules match on it.  `stay` and `joined` are history.  `newMode`, which no rule reads, is
left out.

A number of steps to stay that is drawn below one skips the mode, and were it always below one,
the reduction would never end.  The number of actions is `model_steps`, or one less, depending
on whether the last delay in a burst is zero.  `umv2-rcv-actionR` does not look at `w4`: that a
second answer never comes is the first part of `NeverStuck`.  A profile of one level (dns,
mastodon) without `initial_state` or a state "idle" would stop at once in this version; the
repository converts those with the first.

What a walk needs of its profile is `Runnable`: the initial state is one of the states, every
chain is closed, there is something to draw from every distribution, and every action is one the
rules know.  The 168 second-version profiles of the repository that have states are runnable,
and in the 137 of IRC users the walk begins by numbering the rooms (`NumbersRoomsFirst`).

### How the Python clients correspond to the code

Each request to the server is one step, so that other clients, a closed session or an outage
fall between two requests of one method.  An exception ends the method, and the generator goes
on with the next action.  `StatRemoteFilesystem` is the same step as `ListRemoteFilesystem`
because the generator `mlsd` returns is never iterated.  A file's content is the sequence of
parts written to it, with their writer, and a part is whole or was cut off.  FTP's working
directory belongs to the session, so a reconnection changes what a relative name means.  In
MinIO an append is a read and a write of the whole object; a failed request may have taken
effect, and a failed read is taken for an empty object, so `AppendsAreAtomic` (the refinement of
`AppendStore`) promises nothing after the first fault.

Seen while modelling, and not stated as a finding: when there is nothing to append to, both
clients mean to draw a fresh name.  In an empty FTP directory the choice raises an IndexError
that the code does not expect; in an empty bucket the fresh name names no bucket, and is refused
further down.

### How the modeller's model corresponds to the code

Programs are data: `MCDsl` gives the IRC model of the repository's examples, a door that
branches, a relay that calls the peer one of its attributes names, and two wrong programs.
`DslTool` runs the phases and the simulator's event queue; `DslTheory` builds what the
transpiler emits (sorts of attributes and parameters, names read by a rule, right-hand sides
with the loops' helpers); `DslRules` rewrites it, in any order. `SimulatesRules` is the
refinement: every simulated test is a run of the rules.

Two scans and a lookup decide which names mean what, and each is modelled with its gaps.
The simulator finds the machine a call is for among the parameters and local names, then in a
copy of the attributes made when the event was dispatched, which assignments do not reach
(`Call`, field `start`); a name that was not known then calls nothing.  The scan for the
attributes a rule names does not look into list literals (`Scanned`), and that for the names a
loop's body uses looks neither into lists nor into indices (`find_ids`).

What the programs of the run avoid, because there the two differ by the code: a call through an
attribute that was just assigned (`peer = to; peer.ping()`) goes to the old peer in the
simulator and to the new one by the rule, and an attribute that is read in a list literal alone
(`seen = [peer]`) is on the right-hand side of its rule and not on the left; with a program of
either kind, TLC refutes `SimulatesRules`.  A function that a test calls knows its machine's
attributes as values, not as targets of calls, and those of the run call only their parameters.
No parameter or loop variable has an attribute's name, and no map is assigned as a whole.
Further, the simulator's `del` removes every equal element (`v_dsl`); an assignment to an
attribute that the rest of a transition does not read, inside an `if` or by index, writes an
undeclared name, since assignment targets are not scanned; a name assigned only in transitions
is an attribute in Maude and local in the simulator; initial values of constructor attributes
are ignored in Maude; untyped parameters get the sort String there, which no object has; literal
string arguments of events are never compared; lists of anything but identifiers get a sort that
is declared nowhere; a term equal in both branches of an `if` loses its assignment; changes made
in a loop's body are lost; functions that return values lose them in the simulator.  The
validator does not look into the bodies of `if` and `for`, so an undeclared event called there
passes, although the guide promises soundness.

### How the generators' and pipelines' models correspond to the code

A scenario is the parsed YAML.  `GenOutput` and `ScriptOutput` (of `Cp3Script`) are what the two
programs print, as sets: addresses, actors with the addresses they are given, links, zones,
started timers, modules loaded and included.  Text is not modelled, only which names occur
where.  A tool is `job`, which goes from one file to the next; an exception or `Kill` stops it
between two, and the next tool finds what is there.  The disk holds, for each file, which call
wrote it from what.  The pool of the pipelines is a set of trials that start in order and end in
any; a trial is its log.  A log may fail to open: the pipeline of trials then counts a failed
trial and leaves an earlier log as it is; that of the isolated channels only prints the error,
and there is no log.  JSON files are a function from pairs to numbers: a call replaces those of
its own pairs and leaves those of other combos.  Numbers that are measured are short sequences
(`Samples`), and a mean is a pair of sum and count.

The formatter pairs answers with the queries of whatever file it is given, by position.  A file
written anew since the run mislabels silently, and a list that is cut short is taken as it is;
`QueriesAnswerable` promises only that answers to the very file that is read do not overwrite
each other.

Where the code departs from what one would want, the model follows it and the properties exclude
it, by name: a negative rest in `distribute_profiles` leaves more clients than asked for; a
channel on two networks is an IndexError after the addresses file was written; the script's
`masNetSrv` is placed once for each Mastodon client; Skyhook's object names are decimal
successors in the library and are not in the script; `parallelizeBaseline` of `maude-hcs
generate` reads an argument that does not exist; its run file loads `-baseline-eq`, which only a
pipeline writes; a vantage point it does not know is dropped without a word; a combo that fails
leaves new addresses with an old main file; with `--skipGen` or `--skipRun` the equation may be
of other calls or another combo.  The last window of the script's queries ends `hcs_delay` after
its run.  In the isolated pipeline one failed Maude ends the tool with an exception, for the
protocols not yet reached too, while a log that cannot be opened leaves its pair out of the
equation unnoticed, and with no log at all the equation stays `nilBaseLine`, both with SUCCESS:
`IsolatedFresh` says that the pairs are those of the logs there are.  The log parser's
`--maxlimit` keeps the first numbers of a distribution, which is no sample of it.

### How the converters' model corresponds to the code

A path is one of four places (library, scenario, build, another directory) and a file. Each of
the five ways to convert (`v1`, stand-alone or from the command line; `v2`, a directory, a
single file, or from the build) walks over the JSON files of a directory, in any order: read,
open the module's file (which empties it), write it, and in the first version open and write the
copy of the JSON.  In place that copy is the input itself.  `Kill` and `WriteFails` fall between
any two of these.  A build copies a scenario, then converts its directories, first-version ones
first.

The command line's `markov-v2` always fails: its subcommand is stored under a name the converter
does not read (`StartCommandLineV2`).  The first version prints a section without entries as
empty brackets, which Maude does not read; that concerns the MinIO monitor's profile only, whose
module no main file loads.  Converting a channel's models in place renames their modules, and
the script's includes no longer fit: `ModelsProvided` is about builds.

## Runs

| Run | Instance | Shows |
|---|---|---|
| `iodine_up` | Alice generates a packet of 4 fragments and one of 1; 2 messages in flight, 2 losses | types; every transmission has its timer; one ping timer; an ack means Bob has been handed the packet; every packet number that reaches Bob has reached him whole; no endpoint is ahead of its peer; no gap while a packet is put together |
| `iodine_down` | Alice generates a packet of 2 fragments, a file of packets of 2 and 1 arrives at Bob; 1 in flight, 1 loss, fairness | pacing; every packet reaches Alice whole and at most once; a downstream ack is true; receivers never go back; queues drain; a transmission ends |
| `tgen` | the chain of `dns-mamodel`, 1 retry, 4 steps, fairness | types; one conversation; one timer for the awaited query; all steps are taken; the generator implements `ActionService` |
| `user_v2` | four converted profiles: two IRC users, an ftp generator, a flat one; 6 to 9 actions | one thing at a time keeps a user going, and no reduction stops for want of an equation; modes and bursts have the lengths drawn; rooms are joined before they are used |
| `ftp` | two clients, a root and a directory, a transfer each, one session closed, one outage, fairness | nothing is stored twice; a transfer reaches the file that was chosen; only an upload of its own name replaces a file; a closed session is opened again |
| `minio` | two clients, one of them appends, 3 keys, 2 files each, a failed request, a deletion | no part is stored twice; a monitor's file is its own; appends are atomic until the first fault |
| `dsl` | IRC tests of up to 4 calls, door tests, circular and missing imports, an undeclared event; fairness | every file is merged once; messages reach the members of a channel; a simulated test is a run of the rules; the tool ends |
| `cp3` | two tools in a row on eight scenarios, pools of 2 workers, kills and unopened logs anywhere | links and actors fit together; every user is started once; queries can be answered and answers found; an equation, and JSON files, are of the call's own trials or logs |
| `converter` | two tools in a row, one unreadable file, one write that fails or kill | no profile is lost; one bad file costs no other; a build provides what the main file includes |
| `v_dup`, `v_ftp_wedge`, `v_dsl` | see the findings | what a comment says and the code does not do |

### Bounds

The tunnel's state space would be infinite (pings for ever, any number of copies in flight), so
four bounds cut it.  `MaxInFlight` disables a query that a *timer* would add while that many
messages are in the network; two (`iodine_up`) let a stale message meet a current one, which
every hazard of the network needs; `iodine_down`, which checks liveness, has one, and answers
come on top of it. Answers and sends that a message triggers are never cut.  `MaxLocal` bounds
messages on local links when the next event comes (microseconds against milliseconds).  Packets
that wait at a busy client do not count, nor do those on their way to the server: that a query
overtakes such a packet, and the server then drops it, is the race between the ways Bob's
packets take.  `MaxMoot` bounds the timers kept although their firing changes nothing: nothing
but their number is lost.  `maxFragmentTx` and `serverTries` are 1 (3 and 5 in the code): the
limits are reached earlier, and a run to them is shorter.  The packets that are cut have two or
four fragments: two fragments have a first and a last, four have two in the middle.

In `tgen` the only bounds are `maxSteps` (100 in the code) and `retryMax`: every query belongs
to a step, so nothing else grows.  In `user_v2` the profiles' `model_steps` (thousands in the
repository) suffice for every mode to be left and entered again.  In `ftp` and `minio` the
number of transfers, walks, faults and deletions is bounded; two clients are enough for every
property, since each is about one file or object and one other writer.  In `cp3` two tools in a
row (`MaxJobs`) let the second find what any first one left; two trials at once with a third
waiting fill the pool; `SizeLimit` 4 lies below the number of samples of three trials and above
that of one; `ParseLimits` has no limit and one that cuts.  The scenarios are the first of the
challenge problem, five that go wrong each in another way or are isolated channels with few
networks, and one isolated channel with its own pipeline, which has one protocol at a time where
the tool has four in turn.  In `converter` one fault suffices, because the properties speak of
what one leaves behind.  In `dsl` a client does not join twice without leaving (`JoinsOnce`);
see `v_dsl`.

`CHECK_DEADLOCK` is off where the program stops: after the last step of a user model of the
first version, or the last call of a tool.  In `user_v2` it is on, because a reduction that
stops half-way must be told from a user that is finished.  The tunnel (pings) and the two
clients go on for ever.

### Fairness

The scheduler of the repository holds every message and timer with the time it is due and always
takes the earliest, so each is consumed in the end.  The tunnel's fairness says so for every
kind of rule: weak, or strong where one of the bounds above may disable the rule for a while,
and strong for `IClientExtractFromServer`, because an outdated response may always be consumed
by the rule that drops it.  The generator's is weak, for the messages between user model and
generator and for the timers.  Losing, and the resolver's answer, are never fair: `StepsTaken`
holds if the resolver never answers.  Files need not arrive; in `iodine_down` Alice's own packet
starts the pings without which nothing comes down.

An FTP client in the middle of an action goes on (weak), downloads are asked for again and again
by its Markov model (strong: other actions come between), and an outage ends.  The modeller's
tool is one process, whose next step is weakly fair.

### Findings

* `v_dup`: after a packet is complete the server resets `inFragNo` but not `inSeqNo`, so a
  retransmitted last fragment is taken as new, and Bob gets a second, truncated packet of the
  same number.  `UpstreamWhole` says what does hold: the whole one came first or comes too.
* `v_ftp_wedge`: the FTP object is assigned before it connects; after one refused connection
  every health check raises an error the handler does not name, and the session is never opened
  again.
* `v_dsl`: the simulator's `del` on a list removes every equal element; its comment and the
  generated equation remove one.

Also seen, without a run: a fragment is sent `maxFragmentTx + 1` times; `start` does not mean
that the client is ready; the rule that prints SHOULD NOT BE HAPPENING is reached, and drops the
packet; Bob hands on a file with a packet missing. `TransmissionEnds` is worth a remark: a stale
response makes the client send its fragment again without looking at the attempt limit; under
the scheduler's fairness the timer, which does look, still ends it.

## Proofs

`DnsUserProofs` proves, from `TgenAssumption` and `UserAssumption` alone (any chain in which
every state has a successor and every request asks for at least one name, any number of steps
and retries, any loss):

* `TypeCorrect`, `Conversation`, `Timed`: `TypeOK`, `OneConversation` and `QueryTimed` are
  invariants of `Spec`;
* `Service`: `Spec` implements `ActionService!Spec` under the mapping of `AS`.

The inductive invariant is the conjunction of the three. None is inductive alone: the
generator's answer is a well-formed reply only if an action is in hand, which is
`OneConversation`; that a timer or a response matches the awaited query only while an action is
in hand needs the type of `w4`; that the fresh query gets exactly one timer needs that no old
timer has an id from `ctr` on, which is the second half of `QueryTimed`. The proof has one lemma
per rule. Two facts carry it: `tgenQueryFacts` (asking for the next name) and `AnswerFacts`
(answering, whatever the result). Steps that only move or lose messages are one lemma
(`TrafficFacts`). `BagAddFacts` and `BagRemoveFacts` say what `BagAdd` and `BagRemove`
do.

`IodineProofs` proves of the tunnel, from `NodeAssumption` and `DNSAssumption` (any files, any
inputs, any limits of tries, any of the model's bounds, so also without them):

* `TypeCorrect`, `Pacing`, `OnePing`: `TypeOK`, `AdmissionToken` and `OnePingTimer` are
  invariants of `Spec`;
* `Armed`: `AckTimerArmed` is an invariant of `Spec`;
* `NeverGoBack`: `ReceiversNeverGoBack` holds of every step of `Spec`.

The inductive invariant of the first three adds `WellFormed` to `TypeOK`: an endpoint that holds
a packet to be complete has fragments of it, without which `makePacket` would read the header of
an empty list. `Packet` excludes the length 0, because `Transmit` takes the head of the
fragments just cut. `AckTimerArmed` is inductive on top of these: the only timers consumed are
moot ones, and what is sent is timed in the same step. `NeverGoBack` needs that of an endpoint's
operators only `acceptFragment` moves what was received, forward, and that the server's
`updateRcvApp` forgets a fragment number but no packet number. The first part of the module has
one lemma for each of these operators, the next one for each rule.

The second half of `IodineProofs` proves what relates an endpoint to its peer, from the same
assumptions and whatever is lost, repeated or overtaken:

* `AcksAreTrue`, `DownAcksAreTrue`: `AckMeansDelivered` and `DownAckMeansDelivered`;
* `WholeUpstream`, `ExactDownstream`, `Gapless`: `UpstreamWhole`, `DownstreamExact`, `NoGap`;
* `NothingEarlyDownstream`: the client never names a fragment the server has not sent yet, the
  downstream half of `NoNumberFromTheFuture`;
* `NothingEarly`: all of `NoNumberFromTheFuture`, in every run in which at most one of Alice's
  packets waits at the client (`OneWaits`).

The inductive invariant of the first five is `DInv`, on top of that of the first half. Its core,
`Flow`, is said once and used for both directions: a sender, a receiver, the messages with
fragments one way and with acks the other, the packets that were sent, the packets handed on. It
says what the sender's next fragment, the receiver's list, every fragment and every ack in
flight each imply of the others. One would like to say that an ack of a fragment implies
that the receiver has it; but the server forgets `inFragNo` when it has handed on a packet
(finding `v_dup`). So an ack implies that the fragment is `Past`: taken, or of a packet handed
on whole (`GotWhole`), or of an older packet. That is inductive, and enough. `Numbered` and
`OnLinks` say that a number stands for one packet and that what is on the way to an endpoint its
application has sent; `Dataless`, that messages without data repeat what the receiver has; and
`Once`, that Alice is handed each packet once, because the client, unlike the server, still
knows the number of the last fragment of the packet it completed.

`NothingEarly` needs its hypothesis. It is an invariant of both runs of the tunnel. But with one
file of four packets of one fragment (`MaxLocal` 2, one loss) TLC finds a run of 22 steps in
which two packets wait at the client, the rule that takes a packet matches the later one first,
and the client goes back to the earlier: the server then knows a number the client is no longer
at. Nothing in the rules orders the two, only the scheduler's delays. Downstream no hypothesis
is needed, because Bob's packets reach the server one at a time (`BobsTurn`).

`MinioProofs`, for any clients, objects, appenders, failing requests and deletions:

* `TypeCorrect`, `StoresOnce`, `MonitorsOwn`: `TypeOK`, `StoredOnce`, `MonitorFileIsOwn`;
* `Atomically`: with one appender, as in the run, `AppendsAreAtomic`: reading an object and
  writing it back implements the single step of `AppendStore`;
* `AtomicallyApart`: so it does with any number of appenders in every run in which, before the
  first fault, no two of them are between reading and writing the same object (`Apart`).

Two appenders that overlap lose one's part, which the code does nothing to prevent; `Apart` is
exactly what must be avoided. `StoredOnce` needs no such hypothesis. Its invariant (`OneHome`)
speaks of what an object holds or will hold when a write under way is served: no part is in two
objects, nor twice in one, and the part of an append that is still reading is in none.

`FtpProofs`, for any clients, directories, sessions closed and outages:

* `TypeCorrect`, `StoresOnce`, `Reaches`: `TypeOK`, `StoredOnce`, `ReachesTheChosen`;
* `OnlyOwnersReplace`: `OnlyUploadsReplace` holds of every step.

`ReachesTheChosen` is not inductive: it speaks of a transfer, and what it needs was so when the
file was chosen. The invariant says at every step of a download or append where the client is
and that, while no session broke, its working directory is the one it listed.

`ConverterProofs`, for every scenario with generators of known types (`ScenarioAssumption`), any
files, unreadable ones included, and any number of tools, faults and kills:

* `TypeCorrect`: every tool is in one of its steps, at files of the library or the scenario;
* `ModelsKept`, `AllConverted`, `BuildProvides`: `ProfileKept`, `ConvertedOrLogged` and
  `ModelsProvided` are invariants.

`AllConverted` rests on `Converted`: each file the tool is through with is converted or logged.
`BuildProvides` rests on `Built`: of the modules the main file loads, a build that has logged
nothing has written each, or will still come to it, when it comes to its directory; and on
`JsonThere`: the scenario has the profile of each of its models, and a build its copy.

`UserV2Proofs`, for every set of profiles whose numbers of steps are numbers or Gaussian or
uniform distributions (`ProfilesAssumption`), that can be walked (`RunnableAssumption`), and in
which IRC users number their rooms first (`RoomsAssumption`):

* `OneAtATime`, `UserNeverStuck`: a user has at most one timer, request or answer under way, and
  `NeverStuck`: until it is finished it has exactly one, or a reduction goes on;
* `EquationsMatch`: `Reducible`, what every operator reads is there;
* `AsLongAsDrawn`, `OnlyRoomsJoined`: `StaysAndBursts` and `RoomsJoined` are invariants.

The numbers go through the converter: lemmas up to `ModelSteps` follow them through
`expand_idle_state`, the defaults, the floats and `to_maude_jv`, so that `jv2nat` of what is
drawn is a natural number; lemmas up to `ModelRuns` do the same for all else that `Runnable`
says, so that of the converted model every state can be walked and every delay is a float.  The
invariant gives, for each place the one thread can be (before an action is chosen, when one is
due, when one was taken and is not counted yet), how the steps left add up with the actions
taken to what was drawn (`Chosen`, `Begun`, `Acted`).  `NeverStuck` adds `Walk`: the next mode
is one of the model's, the next action one of the mode's, and nobody waits for an answer when an
action is due.  `RoomsJoined` adds `RoomKnown`: the walk has not begun, is about to number the
rooms, is about to choose one in the same mode, or has chosen one.

`Cp3Proofs` and, for the last three, `Cp3NetworkProofs`, for every scenario, argument list,
sample and pool:

* `EquationsFresh`: `EquationFresh` is an invariant: what a baseline pipeline reports is made of
  its own trials or files and of no other call's.  That of the trials has all pairs of its
  combo, in the equation and, with the same numbers, in JSON files; nothing is claimed of JSON
  files of other pairs, which may be older.  That of the isolated channels has written a file
  for every pair, and has in its equation the pairs of just the files whose log could be opened.
* `QueriesAnswered`: whatever tool `job` is, `QueriesAnswerable` holds, of the script on the
  condition `ScriptCovers`: what the generator asks for lies in the run it writes, of clients
  and vantage points that are there, and answers to the file that is read have a place each.
* `NetworksComplete`: `NetworkComplete` holds of every scenario whose networks are there
  (`NetworksThere`): the links of a main file fit its actors, its transports and each other.
* `EveryoneStarted`: `EveryoneStarts` is an invariant: a main file's timers start each user
  model once, after the parts of its channel, and none of a generator that is not to start.
* `ActorsPlaced`: `ActorsComplete` holds of every scenario with the models of its channels
  (`ModelsGiven`) and shares that fit (`SharesFit`): a main file's actors, their addresses,
  names and action models fit together, and are as many as the scenario says.

They rest on four assumptions about the constants, each true of the repository's files.
`ScenariosAssumption` and `ArgsAssumption` say which fields are there and are numbers, truth
values and sequences, and that channels and types of generators are those that the code knows
(of an unknown channel it fails, of an unknown type it writes no address), each type with one
entry for a network, since the file's are the keys of a dictionary; `TrialsAssumption`, that
there is a sample for every trial asked for, and that the pipeline calls the script without
`--notgens`; and `NamesAssumption`, that the files of the two scenarios with JSON files list
their client networks in the order of the pipeline's table of names, which the code takes for
granted: ids are numbered in the order of the file, names looked up in the table.

The invariant follows a call from file to file.  `FilesOwn`: from a certain step on the main
file and the template are those of this call.  `TrialsOwn`: a trial that was
started and has not failed has a log of this call, with a result (`OwnLog`) or broken, whatever
its exit status; what is combined has a result, and what is written, and overlaid on the JSON
files, is `OwnEquation`.  `LogsOwn`: the directory of pairs was empty and holds this call's
files (`OwnDirectory`), each task is one of them and has a log while Maude runs it, and a log is
empty or measures the file's own pair.  Files and pairs correspond one to one (`PairsOfFiles`),
so the logs there are join to as many pairs (`JoinedFresh`).
A kill or another tool makes all of it moot, since each call begins anew.

The queries have an invariant of their own, `QueryInv`, which holds beside it.  `GenOwn` and
`ScriptOwn`: from the step that writes each, the main file, the file of queries and the run file
are those of this call, and nothing is generated unless the covert clients start last.
`QueriesKnown`: queries on disk, answered or formatted may be any earlier call's, but name
finitely many clients, vantage points and features, none of them empty.  From the latter follows
that places are apart: `PlacedApart` has the query back from its place, and finitely many
queries have as many places (`PlacesFit`).

`ScriptCovers` says of the script's arguments that the delay is at most a window and the run, if
it has a time of its own, at least the scenario's duration.  The script does not look: it asks
for the windows of the scenario's duration, after the delay, whatever the run's time.  Its
defaults satisfy it where a window is 10 seconds or more (the scenarios' are 30 or 900), and so
do the instance's arguments. `maude-hcs generate` needs no such condition.

`NetworksThere` says of a scenario that it has the servers' and the MinIO network, the own
network of each channel it has clients of, and with Mastodon clients or generators both of
Mastodon's networks.  The generators look for the DNS network only, and for the networks that
clients and generators are said to be in: a channel's clients get their links with the channel's
own network, whatever network the scenario puts them in.  Every scenario of the repository
satisfies it, and every instance that gets as far as a main file.

The network depends on nothing but the scenario, and of earlier steps only that it was read
(`NetworkInv`), so the rest is about operators.  The two tools enter the same calls
(`SameNetwork`).  Every address has one home, the network and kind of the parameters over which
it reaches the exchange (`Home`), and every call enters a link between the exchange and an
address over its home's, or one of a resolver to the public resolver over its network's
(`CallsFit`).  So what leads from one address to another over which parameters is a function of
the two (`LinkOf`): links lead both ways over the same, there are as many as pairs of addresses
(`LinksCounted`), and an address is seen in its home alone (`SeenFits`).  That somebody is
placed at each address (`ClientAt`, `TgenAt`), and that what a network client carries has its
ends (`PlacedCarries`), goes through the actors of each channel and type of generator.

The timers depend on the scenario and on the one flag of the main file (`NetworkInv`).  Each
part of a sequence that is put together has its elements once (`Lists`), and no two parts share
one: clients are numbered through (`ClientsApart`), generators within their type and network
(`TgensApart`).  So the file's timers are the set `AllTimers`, one of each (`AllStarts`), and to
one address each (`OneEach`).  On the other side every user model belongs to a client or a
generator (`UserKinds`), whose timer sends what its action model understands (`UserStarts`), and
all timers but the monitor's are to somebody who is there (`StartedPlaced`).

`ModelsGiven` says of a scenario that Skyhook and Mastodon, if it has clients of them, have
action models: the generators load them only when the scenario names them, but give the
channel's actors one in any case.  `SharesFit` says that each entry of generators has a
profile, and that the rounded shares of all but the last take no more than the quantity.  The
code does not look: of three with five profiles of a fifth each, the first four take one, and
there are four generators instead of three.  Every scenario of the repository satisfies both,
and so does every one of the instance.

The actors are those that all share, a client's or a generator's (`Owners`), and an address
tells whose (`OwnerAddresses`).  Of each owner the actors are one for each role (`RolesFilled`,
for every channel), so no two actors of a scenario have one address (`AllApart`), there are as
many addresses as actors (`AddressesCounted`), and each address is in the declaration of its
owner's (`AllDeclared`).  What an actor is given is a role of its own owner's or a server's, and
somebody is there (`GivenAt`).  Two models have neither a file nor a module in common
(`ModelsApart`, `ScriptModelsApart`), so as many are loaded as included.  That as many are there
as the scenario says comes from the lengths of sequences put together (`FlattenLength`,
`ClientsCounted`, `EntryCounted`), and one user model for each client (`UsersCounted`).

What the operators return is proved by induction on numbers.  The library's theorems of
induction take an operator, which the provers cannot instantiate; the lemma `Induction` takes a
set, and is proved from finite cardinalities: a set that has 0 and every successor but lacks n
would have an injection from its part up to n into that part without 0.  On it rest
`FlattenFacts` (sequences put together), `SortedFacts` (numbers in order) and, with arithmetic,
`QuantileFacts`: the evenly spaced places go from the first to the last and never back.

Model-checked only:

* All liveness: beyond the proof system. So is the cardinality of a bag, whose definition in the
  library is local to it.
* Of the modeller, `MergedOnce`, `ChannelDelivery`, `ToolEnds` and `SimulatesRules`: programs
  are trees, and their operators recursive, which the provers do not support.

## Not modelled, and the plan

Not modelled, and why:

* Raceboat, Mastodon, IRC, obfs4, WebTunnel, Skyhook, S3 and the other generators in Maude:
  their places, addresses, links and modules are in the Cp3 modules, their protocols are not.
  As action actors they are of the kind of `DnsTgen`; the channels would each be a module like
  `IodineDNS`.
* TCP, samplers and random streams: floating-point rates and times; the models replace samples
  by choice.
* Observers, statistics, plots, result parsing: they read what is finished, and nothing runs
  after them.
* The command lines and earlier configuration formats: dispatch, and data classes without state;
  the earlier converter of Markov models, which the two versions replaced.
* Of what is modelled partly: link delays and losses, thresholds of the monitors and wording
  (generators); confidence intervals (pipelines); structs, global functions, random choices and
  the grammar (modeller).
* The regression harness of the tests, whose parent waits for ever for a child that dies without
  a result.
* Resolver, nameserver, scheduler: a submodule outside the tree, external in the models.

Next: the channel over Mastodon as sender, receiver and a server of toots under tags; then the
other channels of the table of parts, each as a module of its kind.
