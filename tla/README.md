# A TLA+ model of Spoki

Spoki is a reactive network telescope (`src/spoki`, C++ on the actor framework
CAF): it watches the packets that arrive at unused addresses, answers some of
them with probes that the measurement tool scamper sends, and logs packets and
probes. `src/evaluation` (Python) joins those logs while they grow, and fetches
and looks up the malware that payloads point at. This directory holds TLA+
modules for the parts of Spoki that run concurrently, TLC configurations for
them, and TLAPS proofs.

Paths below are relative to `src/spoki/libspoki/src/`, those of the tools
(`tools/src/`) to `src/spoki/` and those of the evaluation (`logs/`,
`tools/assemble.py`) to `src/evaluation/src/cse/`, unless they start with
`src/`. Check a run with `tlc -config X.cfg M.tla` (table in "Runs"), a proof
module with `tlapm M.tla`.

## 1. The system

    libtrace threads --packets--> shard --request--> manager --probe()--> driver ==> scamper
                                    |                  ^  |                  |          |
                                    |                  |  |                  +<== DATA =+
                                    |                  +--|---- probed ------+
                                    v                     v
                                  log buffer          log buffer
                                    +---> collector <-----+   one file per hour

`tools/src/spoki.cpp` starts any number of libtrace threads, and per
`--cache-threads` a shard with a manager of its own; each manager owns one
driver, which owns a thread, a stream socket to a scamper daemon and the pipes
between them. All parts except driver and manager (a call) exchange CAF
messages: reliable, in order per pair of actors, one handler at a time per
actor.

| Component | State | Operations | What is hard about it | What makes it correct |
|---|---|---|---|---|
| **Scamper driver** `scamper/driver.cpp` | mailbox, notify pipe, request queue, `scamper_more_`, `scamper_writing_`, `done_`, event masks | `probe()`, `stop()`, the epoll loop and its callbacks | two threads, a wake-up byte that does not match its message, cached "is writing" flag, partial writes, the other end's flow control, broken connections | no command lost, repeated or reordered; never one that scamper did not ask for; a command that may be sent is sent; stopping stops |
| **Reply decoding** same file, `scamper/reply.cpp` | lines not taken apart yet, expected data, write buffer of the decoder pipe | lines, uudecode, warts, `probed` message | two kinds of lines in a stream told apart by counting, a pipe to oneself that takes a part of a write | lines and commands are not confused, each result is read once, in order |
| **Trace ingest** `trace/*.cpp` | one bucket per thread and shard, counters; traces and ids of the reader, tallies of the reporters | `add_packet`, `send_all`, start and stop of traces, statistics, reports | batches left at the end, routing that several threads agree on, threads and traces that end in any order | every packet that passes the filters reaches the one shard of its source; a report counts every packet of its trace |
| **Factories, event loops** of driver, UDP prober and async decoder | descriptors and objects of scamper, what is watched, cached flags | `connect`, `make`, destructors; `run()` with kqueue, poll, epoll | up to seven steps of which each may fail; batches of events whose handlers change what is watched | nothing stays open or is closed twice; a writer with work is watched |
| **Shard** `cache/shard.cpp` | `tag_cnt`, `rst_scheduled`, delayed messages, log buffers | packets, delayed requests | a reset that waits 5 s, ids that wrap, three prober handles of which two are null | one reset per endpoint at a time; ids that identify rows |
| **Scamper manager** `scamper/manager.cpp` | `targets`, `userids`, statistics | requests, `probed`, tick | replies that never come, two maps that must agree | one probe per target at a time; targets become free again |
| **Log buffer** `buffer.cpp` | vector, its hour, a spare vector | one handler per kind of line, vector coming back | reuse of vectors, the change of the hour | no line lost, repeated or reordered |
| **Collector** `collector.cpp` | two hours, two streams, behaviour | vectors, single lines, in three behaviours | late lines, skipped hours, `ofstream`s that must not be opened twice, death of the process | each line in the file of its hour; files have a header |
| **UDP prober** `probe/udp_prober.cpp` | queue, mutex, `writing_`, socket pair | `add_request`, `shutdown`, the poll loop | a flag read and set under different locks, dropped wake-ups | no request forgotten |
| **UDP scan tool** `tools/src/udprober.cpp`, `udp_processor.cpp`, `batch_reader.cpp` | `pending`, `in_progress`, `asked`, output file | batches, captured packets, ticks | late answers, repetitions, the end of the input | every target probed and reported once |
| **Broker, async decoder** `scamper/broker.cpp`, `async_decoder.cpp` | connection, MOREs, reconnect timer; thread, mailbox, notify socket, pipe | connect, data, request, connection lost, reconnect, done; `write`, `stop`, the poll loop | a thread of its own that is made and destroyed with each connection, wake-ups that may be dropped, `join()` inside a handler | results are read in order; the broker connects again. Predecessor of manager and driver; still built, started by measurement tools only |
| **Stores** `cache/store.cpp`, `rotating_store.cpp` | maps of known hosts, a list of them | insert, merge, rotate, lookup | the order of merges, rotation between insertion and lookup | stores that saw the same agree; lookups find the newest. Used by a measurement tool only |
| **Hash ring** `consistent_hash_map.hpp` | a sorted map | insert, erase, resolve, `next`, `previous` | wrap-around, colliding hashes, loops that end where they began | keys move only with their points. Commented out of the ingest |
| **Packet analysis** `analysis/*.cpp` | the task: trigger, replies, verdict | classifiers, consistency tests, regression | wrap-around of 16 bit ids, divisions by zero, series of two | an evenly counting host is classified and found consistent as such |
| **Requests** `probe/request.cpp` | none | forms of a probe command | escapes and widths | the command asks for the probe of the request |
| **Log reader** `src/evaluation/src/cse/logs/reader.py` | open files, kept text, upcoming hour | `next_batch()` | half-written lines, hours that never appear, files closed by the clock | every event returned once; no hour left early |
| **Event assembly** `logs/eventmatcher.py`, `confirmationmatcher.py`, `phasematcher.py`, `tools/assemble.py` | two caches, per key eight lists, hour to be written | load, match, add, checkpoint, evict | two logs read at different speeds, packets and acks in any order, deletion by index from parallel lists | each event is written once, with its partners and its confirmation |
| **Malware pipeline** `src/evaluation/src/cse/malware` | Kafka positions, hash directories, two dictionaries and their files, the request budget | filter, clean, download, check | kills between the steps, asynchronous producers and commits, three processes on one directory, payloads that cannot be parsed, quotas over day and month | what is passed is given on or tried, no hash known before its bytes, no request over the quota but those the checker does not know of |

`PROJECT.json` lists these and the rest with their status, and all hazards of
the code at their lines, with the properties that would show them going wrong.

## 2. Modules

    CommandChannel   <--implements--  ScamperDriver  <- ScamperDriverProofs

    TelescopeChannels <- TraceIngest, Shard, ScamperManager <- Telescope <- MCTelescope
                                                                   ^------- TelescopeProofs

    LogChannels <- LogBuffer, Collector <- LogPipeline <- LogPipelineProofs

    UdpProber <- UdpProcessor <- UdpScan <- MCUdpScan
                                    ^------ UdpScanProofs

    ReplyPath <- AsyncDecoder <- Broker
                                   ^---- BrokerProofs

    LogReader <- LogReaderProofs      PhaseStore <- EventMatching <- MCEventMatching

    HashFiles <- Downloader (and PayloadStages) ---------+
    HashFiles <- HashChecker (and VirusTotal) -----------+-- MalwarePipeline <- MCMalwarePipeline
                                                                   ^----- MalwarePipelineProofs

                             Regression <- IpIds <----+
    HashRing, HostStores, EventLoops, Lifecycles <----+-- StructuresProofs
    TraceReader <-------------------------------------+-- MCParts

Where a run names no MC module, its .cfg gives the constants of the module
itself.

### 2.1 The driver: `ScamperDriver`

A step of the model is what no other thread can see the middle of: the two
halves of `probe()` (message, then byte), the three of `stop()`, one
`epoll_wait`, one callback. Only `handle_notify_read()` is split further, into
the read of the pipe (`HandleNotifyRead`), one step per message
(`DrainMailbox`) and the end of the loop (`DrainEnd`), because `probe()` can
come in between.

| Variable | Code |
|---|---|
| `mailbox`, `pipe`, `done` | mailbox of `self_`, bytes in the notify pipe, `done_` |
| `queue`, `more`, `writing`, `offset` | `scamper_probe_requests_`, `scamper_more_`, `scamper_writing_`, `scamper_written_` |
| `mask`, `ready` | `masks_[scamper_fd_]`; events of the last `epoll_wait` not dispatched yet |
| `callerPc`, `loopPc` | where the manager is in `probe()`/`stop()`, and the thread in `run()` |
| `wire`, `inMore`, `inOther`, `link` | the two directions of the socket, and whether it is up, closed or reset |
| `line`, `accepted`, `credit` | the scamper daemon (external): what it has read and asked for |
| `written`, `put`, `moresRead` | history, for properties only |

A command is `CmdSize` units, so that writes can be cut short. When the
connection is broken `net::write` returns a positive error number which the
code adds up as a count: the model lets that count be the whole command or
not. The write handler's guard at `driver.cpp:485` has no `return`; with an
empty queue the code reads `front()` of an empty deque, which is the state
`"undefined"` of `loopPc`. That it cannot be reached is `WriteHasWork`.

`CommandChannel` says what the manager may rely on: three counters, in order,
one credit per command. `ScamperDriver` implements it with
`submitted = issued + 1` (the driver sends `attach` itself),
`delivered = written`, `credit = more`.

### 2.2 From packets to probes: `Telescope`

`TelescopeChannels` has the packets, the requests and the mailboxes.
`TraceIngest` is `add_packet()` and `send_all()`; `Shard` is one action per
branch of `handle_packet()` and one for the delayed message; `ScamperManager`
is the request and the `probed` handler. A vector of packets is handled
packet by packet, and other actors may run between two packets. That shows
them nothing a schedule of the code would not: a shard shares no state, its
messages arrive in order, and it takes no message before the vector is done.
The driver with scamper behind it is reduced to
"answers some time, or never" (`Answer`, `Lose`); "never" is a command that
scamper refuses, a result that cannot be decoded, or a broken connection.
Requests of the UDP and ICMP handlers go to actor handles that are null
(`tools/src/spoki.cpp:228` fills in the TCP prober only) and vanish, while
their ids and log rows stay.

Packets carry what the code decides on: transport, flags, source, source port,
and `is_scanner_like` of their key.

### 2.3 Logs: `LogPipeline`

`LogBuffer` is the buffer actor: its three line handlers are one action
(`Log`), the vector that comes back another (`TakeBack`). `Collector` is one
action per case of the three behaviours (`WriteFirst`, `WriteCurrent`,
`WriteLast`, `OpenLast`, `Rotate`, `SkipHours`, `Refuse`), for vectors and for
single lines, with the streams as they are in C++: `open()` on an open stream
fails and the stream takes no output from then on. What is written is in the
stream's buffer until `close()` or `std::endl`. `Crash` kills the process,
which is how it ends in operation, cuts every file somewhere after what is
certainly on disk, and starts everything anew. Time is counted in hours, the
unit of `align_to_hour()`. A line is stamped with the current hour or the one
before: a packet is logged when it is seen, a reply under the time its probe
started.

### 2.4 The UDP scan: `UdpScan`

`UdpProber` is the prober's actor and its poll loop; `handle_notify_read()` is
two steps. `UdpProcessor` has the reader of the target file and the
processor's handlers; `UdpScan` composes them with the network, the capture,
the clock and the start of the tool. Time passes in units; a tick comes
`Interval` units after the one before or later. A target is a line of the
file with an address and two ports; `Files` holds sequences of targets and
malformed lines. What the processor's loops keep of a list is said by the
positions they keep (`Picked`).

The capture of the model is the one the processor's handlers are written for.
The reader of `trace/reader.cpp` is not that one. It takes `trace_atom` with
an `uint32_t` and a `size_t`, and the tool sends a `bool` and an `uint32_t`
(`src/spoki/tools/src/udprober.cpp:121`); its packets come without the
`event_atom` that `udp_processor.cpp:189` expects. With that reader every
start of the tool takes the model's step `CaptureFails`.

### 2.5 Results of probes: `ReplyPath`, `AsyncDecoder`, `Broker`

What scamper answers comes as a line `DATA n` and `n` bytes of uuencoded lines,
which are decoded and written through a pipe into scamper's own warts reader.
The path exists in the driver, in one thread, and in the broker with the thread
of an `async_decoder`; `variant` says which one a behaviour is about.
`ReplyPath` has the lines, the counting (`TakeLine`, `LeftAfter`), the buffer
and the pipe (`DecodeWrite`, `DecodeReadPart`) and the driver's callbacks;
`AsyncDecoder` the thread, its mailbox and its notify socket, whose bytes are
dropped when it is full; `Broker` one daemon, its connection, and the broker's
handlers, split where they wait in `join()`. A line counts one towards the
announced length; a result has `Pieces` lines. A line may be spoiled so that it
does not decode. The manager and the telescope model take a result or none
(`Answer`, `Lose`); this module is why none is possible.

### 2.6 Reading growing logs: `LogReader`

One pass of `next_batch()` is `BeginPass`, for each open file a `ConsumeLine`
per line it reads and an `EndConsume` at its end, `EndScan`, one of
`OpenUpcoming` and `AwaitUpcoming`, and `Reap`; the writers of the files may
come between any two of them, with half a line. The four
formats differ in what they do with half a line (json keeps text that did not
parse, csv keeps what it has of the line, compressed files and objects of the store are
complete) and in which lines they survive: `Raises` has the lines whose exception
leaves `next_batch()`, and `ConsumeRaises` is the end of the reader. Thresholds are
ordered as in the source: an hour (3 ticks) < 1h 5min
(4) < 1h 10min (5); `MaxBusy` bounds how long the caller stays away. Files are
written as the collector does it (`Writable`): however late, until the file
of the hour after next is there. What of a file was complete in
time is history (`timely`): only that is the reader able to owe, since it closes and skips by the
clock (`Owed`).

### 2.7 Event assembly: `PhaseStore`, `EventMatching`

`PhaseStore` is the `PhaseMatcher` for one key: its lists, the seven matches
between phases and acks with the order in which they are tried and what they
delete, the pass over everything, and the eviction of an hour. `EventMatching`
adds the `ConfirmationMatcher` with its two caches and the loop of
`EventMatcher`: load, match, add, checkpoint. Each load returns any number of the
lines that follow. `late` is a history of the events that were passed on when their
hour was written: their confirmation was read too late. Analysis of a packet
(`Analyzer`) is its `Kind`. Scenarios are fixed logs; `MCEventMatching` makes them from
every order of the packets of a scanner and several times and delays.

### 2.8 Malware: `MalwarePipeline`

Four processes. `PayloadStages` has the Kafka topics, positions and commits
with filter and cleaner; `Downloader` the table of expiry times and the steps
in which a directory of a hash comes to be; `HashFiles` what is in those
directories; `VirusTotal` the request budget as pure functions, `HashChecker`
the checker with its two dictionaries, dumps and rechecks. What a payload names (a URL,
nothing, arguments that make the parser raise), what a server sends and what
VirusTotal knows is chosen.

`send()` leaves a message to the producer's thread (`sending`, `Deliver`); the client
commits places at times of its own (`Commit`), and the two are not ordered. Every
process may end at any step, by a signal or an exception that the code does not catch
(`Killed`, `CleanRaises`, `AnswerRaises`), and start again (`Restarted`): at the place
committed or, while nothing has been committed, at the end of the topic, as the
consumers do not set `auto_offset_reset`. What ended with a producer (`lost`) and what
a start left out (`skipped`) is history. A request to VirusTotal is three steps
(`Send`, `Serve`, and `Return` or `Fail`), so that the service may have counted one that
the checker never counts. The checker ends by Ctrl-C (`Interrupt`, which saves the
budget), a signal (`Kill`, `KillInSave`) or an exception (`Dies`); a file that was
being written is torn then, and no later process starts over it. `owed` is the history
of the requests that no budget has: forgotten, or not learnt of.

### 2.9 Parts on their own: `MCParts`

Seven parts that have nothing to do with each other share a run: a behaviour
of `MCParts` is about one of them (`part`) and leaves the others alone.

**Containers** (`HashRing`, `HostStores`). The ring is a function from points
to buckets; the loops of `next()` and `previous()` take a step at a time
(`Walk`), because that they end is the question. A store is a map in which the
default entry means none; `seen` and `inserted` are history.

**The reader of traces** (`TraceReader`). An action is a handler of the actor
(`Trace`, `Report`, `Done`, the three about statistics), a packet at a thread
of libtrace (`PerPacket`), the end of one, or a message of its reporter.
Frames say what filters and protocols decide on, addresses by the set they are
in. Where a kept packet goes to is `TraceIngest`; here it is only counted
(`handed`). That a reporter sees all results before `stop_reporting()` is
libtrace's (external).

**Factories and destructors** (`Lifecycles`). A factory is a sequence of steps
with what each gets and what is freed by hand if it fails; descriptors of the
driver are in socket guards until it is made. `held`, `leaked` and `strays` are
the handles that are known, that nobody knows any more, and that were closed
without being owned. `connect()` returns 1 where its caller tests for -1,
which is the model's handle `stdout`.

**Event loops of other systems** (`EventLoops`). The driver with kqueue and
poll, prober and decoder with kqueue: what is watched, what a call returns,
in which order it is dispatched, and what failures do. The handlers are those of
`ScamperDriver`, `ReplyPath`, `UdpProber` and `AsyncDecoder` reduced to how much
a writer could write now (`work`); how much a handler adds is chosen.

**IP IDs** (`IpIds`, `Regression`). `IpIds` is a task: replies of a host with one
counter arrive, are classified, and the trigger is tested by one of the two
methods. The code's doubles are exact fractions, a division by zero a
denominator of zero; roots are compared as squares, and the width of the
prediction interval, a root times a constant, is chosen from `Intervals`. Where the code casts a NaN to an integer, which is
undefined, any prediction is possible. IDs have `Space` values, 2^16 in the
code.

## 3. Runs

| Run | Instance | Distinct states | Shows |
|---|---|---|---|
| `driver_safety` | 3 probes of 2 units, socket of 3 units, writable from 1 free unit on, pipe of 2 bytes, window 2 | 263,499 | safety of the driver, and `ChannelSpec` |
| `driver_liveness` | 2 probes; pipe of 1 byte; writable from a whole command on | 30,220 | `EveryProbeSent`, `RunningLoopStops` |
| `telescope` | 2 shards, 2 hosts, 10 kinds of packets, 4 packets in batches of 2, tags 0..3, 2 configurations | 1,571,295 | safety of the telescope |
| `telescope_liveness` | 3 packets of handshakes, sent on one by one | 39,278 | `NothingHeldForEver` |
| `logs` | 1 buffer (vectors of 2), 1 direct sender, 3 lines each, 3 hours, 1 crash | 157,307 | `LineInItsFile`, `EveryLineOnce`, `BufferedLogsHaveHeader`, `RefusedOnlyWhenOld` |
| `udp_scan` | files of two lines, batches of one, threshold 2, one repetition before the timeout, socket pair of one byte | 382,387 | `NoLostWakeup`, `EveryTargetOnce`, `EveryTargetReported` |
| `broker` | driver and broker, 2 results of 2 lines, one spoiled, pipe of 1, notify socket of 2, one MORE, 2 losses | 265,692 | `InStep`, `PiecesInOrder`, `EveryResultRead`, `Reconnects` |
| `log_reader` | four formats, 3 hours, 3 lines of four kinds in all, one of them spoiled if the files grow | 1,099,352 | `EachLineOnceInOrder`, `CatchesUp` |
| `event_matching` | 9,480 logs: a two-phase scan with both acks, with two second phases, two scans of one key, or a SYN, its retransmit and a second phase, in every order before and after the end of an hour, logged at once or late, with confirmations in time or not | 2,716,092 | `EveryEventInOnePlace`, `CheckpointMatchesAll` |
| `malware` | three families: two events with a kill; one download beside the checker; the checker with two hashes over three days and two lives | 4,876,358 | `EveryUrlTried`, `KnownHashHasBytes`, `QuotaKept` |
| `parts` | ring of 4 points and 3 buckets, two of one hash; 2 stores, 2 hosts, 2 subsets; 2 traces of 2 threads, 2 frames of 4 kinds; 3 calls of each factory; 4 loops, 3 inputs; 3 replies with IDs of 4 bits | 345,386 | `KeysStayPut`, `WalksFind`, `StoresAgree`, `LookupNewest`, `ReportsAreComplete`, `NothingLeftOpen`, `WritersAreWatched`, `StepsAreJudged`, `HonestHostsPass`, `FitsAreBest` |
| `driver_partial_write` | 2 probes of 2 units | until violated | section 6 |

Why the bounds are enough for what they are to show:

* Driver: two units per command and three in the socket make a write end
  inside a command and inside the queue; a pipe of two bytes gets full with
  three probes, one of one byte with two (`driver_liveness`), so that a caller blocks
  until the loop reads; `ReadChunk = 2` takes two bytes with
  one read, as 16 do in the code; three probes and a window of two let MOREs
  arrive before, while and after commands wait.
* Telescope: two packets of one source, in one batch or two, meet in every
  pair of handlers; a third and a fourth meet their replies, losses and
  resets. Host `a` comes as scanner and as client (the two keys of a target)
  and with two ports (two endpoints). The shards' ids differ, as actor ids of
  actors spawned in a row do. `MaxTag = 3` lets the counter wrap after four
  ids; with more packets than ids a lost probe's entry could be overwritten
  (listed as a hazard, `shard.cpp:53` and `manager.cpp:51`).
* Logs: three lines let a vector that came back be used again, three hours
  let one be skipped and one be too old, the direct sender reaches the
  collector out of step with the buffer. One crash at any step; a second
  would meet files as the first one did.
* UDP: two targets of one address and one of another; one target is probed
  from the port it is probed at, so that the comparison of
  `udp_processor.cpp:218` has both outcomes; batches of one make the
  processor ask again, up to the empty batch at the end; the socket pair of
  one byte drops a byte with the second request.

* Broker: a pipe of one piece takes a part of every write; two results let the
  second arrive while the first is being decoded; the notify socket drops a
  byte with the third piece; two losses let the broker be refused and find the
  daemon again. MOREs count up to one, each is answered in the handler that
  reads it.
* Log reader: three hours let two files be open while a third one appears or
  is skipped; a header and one or two entries are what a half-written line
  can fall between, one spoiled line before or behind them is what may swallow or end
  them. The caller comes back within a tick, a third of an hour.
* Event matching: two SYNs and two acks are all a two-phase scan has, a second pair
  of SYNs is what a pass over a key may leave. Times keep the order of the code's: a
  second (1), the wait for a confirmation (2), for a second phase (4), half an hour
  (6). Packets come at 11, 12 and 16 ticks, about the end of the first hour, with
  confirmations 2 (just in time) or 3 ticks later, so that differences lie on both
  sides of every limit, and a shard holds its packets for 0 or 8 ticks, over the
  checkpoint at 18. Packets of another key and confirmations of nobody's probe keep
  both logs going to the second checkpoint at 30.
* Malware: one kill ends every process once between any two of its steps, with
  messages under way and before or after the first commit; two
  URLs and two hashes (symmetric) tell repeated from new; the clock of a quota scenario
  starts a tick before midnight, days have five ticks, a month two days; the checker
  may end at every step of its first life, and its second one meets what that left.
* Parts, containers: with hashes 1, 3 and 3 of four points walks wrap around both
  ends, meet a colliding bucket, and begin at points that are taken by
  another bucket or by none. All operations are closed under small numbers:
  the state spaces are complete for these points and entries.
* Parts, the others: two threads and two traces end in every order, before and
  after their reports; a third call of a factory meets what two left behind;
  three inputs keep a writer busy while a request and a message of scamper
  arrive in one batch of events. IDs of four bits keep the order of the
  thresholds (threshold < tolerance < random < all), steps lie on both sides of
  each, and the triggers before and after the point where three steps wrap.
  Three replies are the fewest with a prediction interval that is a number.

Bounds are named constants (`MaxProbes`, `MaxPackets`, `MaxLines`, `LastHour`,
`MaxCrashes`, `Files`, `MaxResults`, `MaxLosses`, `MaxEntries`, `MaxTime`,
`MaxTraces`, `MaxFrames`, `MaxMakes`, `MaxInput`, `MaxReplies`, `Scenarios`) or
belong to the code (`MaxTag`, `Threshold`,
`PipeCap`, ...). Deadlock is not checked because every one of these systems
may rightly come to rest: stopped, out of packets, lines or time, or scanned out. `log_reader` checks it:
its reader polls for ever.

### Fairness

* Driver: the multiplexer thread is scheduled (`WF` of `Loop`), a manager
  that is inside `probe()` or `stop()` goes on, and scamper works on its
  input. Nobody has to request, stop or disconnect. `EveryProbeSent` excuses
  a stop and a broken link. `driver_liveness` reports the socket writable
  only if a command fits, as Linux does (a third of the send buffer); with
  less, commands are repeated in parts (section 6).
* Telescope: actors with messages run, the delay of a reset ends, scamper
  answers or loses a probe. A lost probe keeps its target blocked, which
  `NothingHeldForEver` says. No packet has to arrive.
* UDP: each kind of message in the processor's mailbox is handled (an actor's
  mailbox is a queue), reader, prober and loop run, and time passes. The
  network owes nothing.
* Broker: an actor with messages runs, and so does the decoder's thread; its
  poll returns with any of the events that are ready and the callbacks run for
  all of them in turn, hence strong fairness for each. A daemon that is away
  comes back. Nobody has to send results or MOREs. `Reconnects` excuses a
  decoder that is stopped before its thread has started (section 6).
* Log reader: it is called again and again (`MaxBusy`), and the clock runs. `CatchesUp`
  excuses a reader that an exception has ended (section 6).
* Walks of the ring: the loop goes on. Nothing is assumed of the other parts.
* Event matching and malware: nothing is assumed and no liveness is claimed.
* Logs: nothing is assumed and no liveness is claimed: a buffer only sends
  when a later line makes it (`buffer.cpp:69`).

## 4. Properties

The comments in the modules say what each property means. The ones that carry
the most:

* `NoLostWakeup`, `NoIdleCredit` (driver): while a command waits, there is
  something that will make the loop look at it. The first relates mailbox,
  pipe and both program counters, the second queue, MOREs, the cached flag
  and the event mask.
* `ExecutedOnceInOrder` (driver): also where a partial write makes the driver
  send the start of a command twice. `ChannelSpec` has the credit: the driver
  never sends a command that scamper did not ask for.
* `OneProbePerTarget`, `BlockedByItsProbe` (telescope): across threads, shards
  and managers; hold because all packets of a source have one shard, and
  because a manager's two maps follow the probes under way exactly.
* `IdsFresh` (telescope): a new user id belongs to no request of the shard
  that is under way, waits as a delayed reset, or is lost.
* `ProbeFoundInLog` (telescope): a probe's user id leads to one row, that of
  the packet it answers; the evaluation joins logs on this.
* `EveryLineOnce`, `LineInItsFile`, `RefusedOnlyWhenOld` (logs): lines are
  neither lost, doubled nor reordered on any path through buffers, behaviours
  and hours, and none reaches the file of another hour. `Places` is every
  place a line of a source can be at: a position of a file, the way there
  (buffer and messages), or refused. A line has one place at most, and one at
  least as long as the process lives.
* `EveryTargetOnce`, `EveryTargetReported` (UDP): conservation of targets over
  answers that come late, for the wrong target or never; and no target gets more
  datagrams than there are ticks before its timeout.
* `InStep` (replies): a result's line is never taken for a command, nor a
  command for data. Relates the count of the handler to what is on the wire.
* `PiecesInOrder` (replies): what the handler has decoded is the results that
  scamper's reader has taken, piece by piece, followed by what is still in
  four buffers between two threads.
* `Reconnects` (broker): a handler that waits for a thread and a thread that
  waits for a byte do not wait for each other.
* `EachLineOnceInOrder` (log reader): events are returned once, whole and in
  order; and though an hour is closed or skipped by the clock, nothing that was
  complete five minutes after it is missed (`LeftHoursRead`).
* `EveryEventInOnePlace`, `CheckpointMatchesAll` (events): packets move between
  eight lists by index and by filter; none is lost or doubled, and arrival in
  the wrong order is made good at the checkpoint, up to the first match of a key.
  Its part `NoneLeftBehind`: an event of an hour that has been written is in a store
  only if it, and not merely a part of its sequence, was passed on too late.
* `EveryUrlTried` (malware): over kills, repeated messages, expiry times and their
  clean-up, a message that a stage has passed was given to its producer, or its URL
  asked for within the hour before. It does not say that no URL is lost, which is not
  so: it names what ended with a producer or was left out at a start (section 6).
* `KnownHashHasBytes` (malware): over kills and restarts of the downloader.
* `QuotaKept` (malware): what the service counts against what the checker does.
  The excess is a minute's requests around midnight and those the checker does not know
  of (`owed`: it ended without saving, or the answer never came), and no other.
* `KeysStayPut` (ring): what a consistent hash is for.
* `ReportsAreComplete` (reader): a report, made by one thread from what others
  publish, counts each packet of its trace once, and its trace is still known
  and at rest when the reader joins it.
* `NothingLeftOpen` (factories): over any sequence of calls and failures, no
  handle is lost or closed twice but the ones that section 6 names.
* `WritersAreWatched` (event loops): relates the cached flags, what is watched, and
  the events of a batch that other handlers ran in between: no event finds
  an empty buffer, and no writer with work is forgotten.
* `StepsAreJudged`, `HonestHostsPass` (analysis): verdicts against how the host has
  really counted, also over the last ID. A host that counts at a steady rate
  passes the test of its thesis, unless it is one of those that section 6 names.
* `FitsAreBest` (analysis): the two ways to fit a line, the residuals and the three
  standard errors against each other.

For every property `PROJECT.json` names a plausible slip in the code (an
operator next to the one it varies, e.g. `DrainMailbox_OneMessage`)
that TLC refutes the property with.

## 5. Proofs

Eight modules hold theorems; `tlapm M.tla` checks each from nothing. They are
about every value of the constants that the named assumptions allow, TLC
about one. Every invariant named here was first checked by TLC.

### 5.1 The driver: `ScamperDriverProofs`

From `DriverAssumption`, for every number of probes, command size, buffer,
pipe and window: `DriverTypeCorrect`, `WriteEventHasWork`,
`WakeupsAreNotLost`, `CreditIsNotIdle`, `BacklogStaysInOrder`,
`ProbesExecutedOnceInOrder`, and that the driver implements the command
channel (`DriverImplementsChannel`).

The inductive invariant `IInv` is the conjunction of the five properties and
`LoopState`: before the loop starts the attach command waits with its credit,
an error event means that the connection was reset, and while
`scamper_writing_` is on, EPOLLOUT is armed unless the connection was reset.
None of the five is inductive alone: `NoIdleCredit` needs `LoopState` (the
handlers arm EPOLLOUT only when the flag is off, so a flag that is on must
tell the truth), `WriteHasWork` needs the types of the queue. Lemmas on
`Numbered` (adding to and taking from a numbered sequence) carry
`BacklogInOrder`. There is a lemma for each group of actions; the refinement
maps `ProbeSend` to `Submit`, a read of MOREs to `Grant`,
a complete write to `Deliver`, `Disconnect` to `Break` and everything else to
a stutter.

`ExecutedOnceInOrder` needs to know what is on the wire (`WireInOrder`): the
units that end a command are those of commands that count as written, each
once and in order, and after all that scamper has executed. A command that was
cut short leaves none there, so its repetition is the first to end.

### 5.2 The telescope: `TelescopeProofs`

From `TelescopeAssumption` and `ShardAssumption`, for any number of
threads, shards, batches and packets of any kind: `TelescopeTypeCorrect` and `ResetsAreSingle`; their conjunction is inductive,
and two lemmas on sequences (`ResetAdded`, `ResetRemoved`) say what an append
and a removal do to the endpoints in them.

`TargetsAreBlockedByProbes` and `TargetsAreProbedOnce` have the condition that
user ids are fresh, `Spec /\ IdsFresh => ...`: with a counter of 24 bits and
probes that are lost for ever, nothing in the code guarantees it. The
invariant `TInv` says of each shard that a request is in one place of five
(`Apart`: on its way, delayed, with scamper, answered, lost), that user ids
identify requests, and that the manager's two maps are the images of the
probes it waits for (`Blocks`). The step lemmas (`RequestAdded` to
`ProbeAnswered`) are about values; the actions then only instantiate them.
For two shards the second theorem also needs `HInv`: every packet and request
a shard has comes from a source that is routed to it.

`IdsSuffice` is the condition of that kind that one can read off an
installation: no more packets than tags, and shards whose ids differ (the code
takes the actor id modulo 256). Under it the condition is discharged:
`IdsAreFresh` is an action property, `ProbesAreFoundInLog` is
`ProbeFoundInLog`, and `TargetsAreSafe` states the two theorems above without
`IdsFresh`. The invariant `UInv` is a counting argument over packets that no
code counts: a packet is at one place between the thread and the shard
(`PacketsOnce`), a shard has given out no more tags than it has handled
packets and gave them in rising order (`TagsInOrder`), and every request
under way, delayed or lost has the row with its tag (`Logged`), so that rows
do not repeat an id (`RowsUnique`).

### 5.3 Logs: `LogPipelineProofs`

From `LogAssumption`, for any buffers, thresholds, senders, lines,
hours and crashes: `LogsTypeCorrect`, `StreamsAlwaysFit`, `LinesInTheirFiles`,
`OnlyOldRefused` (an action property), `LinesNeitherLostNorDoubled` and
`HeadersOfBufferedLogs`.

The first four rest on `IInv`: the messages on their way hold lines of their
own hour (`ChannelInv`); a buffer's lines are of the hour in its stamp
(`BufferInv`); the streams fit the behaviour (`StreamInv`); the files hold
lines of their hour (`FileInv`). `LineInItsFile` is not inductive without the
first three: a line reaches the right file because a message has one hour and
because the stream that is chosen by that hour is open on that file.

The last two rest on `LineInv`. What waits of a source, in its messages and
then its buffer, has rising numbers (`QueueInOrder`); what is in a file or was
refused has a smaller number than all that waits (`TakenOnce`), and is not both
(`RefusedNotWritten`); a file has the lines of a source in rising order
(`SourceOrder`); without a crash there is none that is nowhere
(`NoneMissing`); and with buffers alone, every file that exists begins with
its header (`HeadersInPlace`). `EveryLineOnce` follows, and none of the parts is inductive
without the order of what waits.

### 5.4 The way of replies: `BrokerProofs`

From `ReplyAssumption`, for both variants, any number and length of results, losses, pipe and socket:
`LinesToldFromCommands` (`InStep`) and `ResultsArriveInOrder`
(`PiecesInOrder`).

`InStep` looks at the next line only; the invariant is about all of them.
`Whole` says that the lines on the wire begin with as many pieces as the
handler expects, that each DATA has the pieces of its result behind it, and
that there are no others; `Answered` that every MORE granted is on the wire
or has been answered with a command.
Both hold until a line is spoiled, which `InStep` excuses. `PiecesInOrder` is
a conservation law over five sequences and inductive but for the moment a
decoder is created and destroyed (`NothingYet`), and for the last buffer,
which scamper's reader empties by whole results (`PartOfResult`).
`DriverAlone` says that in the driver's variant the broker's parts are at
rest.

### 5.5 Parts on their own: `StructuresProofs`

From `RingAssumption`, `KeysStayOnTheRing` (`KeysStayPut`), for any buckets,
points and hashes: `OwnerOf` says what the owning point of a hash is,
`OwnersMeet` that two rings which both have the owners of a key have the same
one, and `StepsKeepPoints` that every operation leaves the bucket of a point
alone while the point is taken, which is where `insert()` not overwriting is
needed. That a finite ring has a least point is the well-foundedness of the
numbers (`LeastOf`), as a recursion over the map is not available.

From `StoreAssumption`, `StoresAlwaysAgree` (`StoresAgree`) and
`LookupsFindTheNewest` (`LookupNewest`), for any stores, hosts and time
stamps. `StoresAgree` compares two stores at the end of any two histories; the
invariant (`StoresInv`) is that an entry is a function of the *set* of entries
its host was seen with (`Fits`: the latest time stamp, consistent if all were),
which is closed under insertions and merges in any order, where the
comparison itself is not. `LookupNewest` needs `MaxSubsets <= MaxAge`: the
bound of the model on what is remembered may not be less than what the store
keeps.

From `LoopAssumption`, `WritersAreAlwaysWatched` (`WritersAreWatched`), for any
number of inputs. The property does not follow from itself: a handler switches
on only what has no flag, so that a flag has to tell the truth
(`FlagsTellTheTruth`), and a request to the prober before its loop is set up
must have left a byte (`LoopStarts`). `LeavesKeeps` is the step of all handlers
that leave work.

From `LifecycleAssumption`, `NothingIsLeftOpen` (`NothingLeftOpen`), for any
number of calls. The invariant says that a factory holds what its steps have got
(`GotBefore`) and nothing else but the socket it began with; `ObjectsAreFreed`
says of each step that what it frees by hand, with what the guards close, is
all there is before it, which is where a forgotten object would show.

From the `ReaderAssumption` of `TraceReader`, `EveryReportIsComplete` (`ReportsAreComplete`), for any
traces, threads and frames. A reporter adds up what threads publish in the order in
which they stop; `ReaderInv` names that order (`AddedUp`: one that takes no
thread twice, whose results are what these threads have counted), so that
when as many results have come as there are threads, it has met each. What a
thread has counted is what it was given (`ThreadsCount`), a report that waits
is the only one of its trace (`ReportsWait`), and its trace is known
(`TracesKnown`). The counts of frames are cardinalities of sets of positions; the
lemmas say that they add up over threads that are apart.

From `IpIdAssumption`, `StepsAreAlwaysJudged` (`StepsAreJudged`) and
`HonestHostsAlwaysPass` (`HonestHostsPass`), for any number of IDs, limits of the
classifiers, bounds and series of replies. `TaskInv` has three parts: the shape of
a task, that each ID is the one before moved on by the step of the counter
(`CounterMoves`, modulo the number of IDs), and that a task is called monotonic
only after a classifier said so (`Classified`). The rest is arithmetic: a
distance is the step, or one less if it goes over the last ID, so that it lies
on the same side of every limit unless `OneShort`. For an honest host the
difference between first and last reply is its rate times the time between them;
`HonestMoves` says where it is one short of that, and `TurnIsSeen` that one of the
steps then goes over the last ID, which `PassesThesis` asks about.

### 5.6 The UDP scan: `UdpScanProofs`

From `ProberAssumption`, `RequestsAreNotForgotten` (`NoLostWakeup`), for any
files, hosts and size of the socket pair: the queue of the prober is never
left with nothing to wake its loop.

With `ProcessorAssumption`, `TargetsAreInOnePlace` (`EveryTargetOnce`) and
`ScanTypes`, for any number of targets, addresses, repetitions and ticks. A
target is counted at its places: in the file's lines to come, in the batch on
its way, in the queue of its address, in progress, in the output. The sum
stays what was read of it (`Conserved`), which needs that a target waits at its own
address only and that a batch is asked for once (`OneBatch`): a second batch would be
taken for the first. How many datagrams a target was sent is bounded by how old
its probe is (`Bounded`): the k-th repetition came at least k intervals after the first
datagram, and the clock of the next one runs (`sinceTick`); a probe that times out
has nothing left to repeat. Lemmas count through the code's loops: what
a filter takes and what it leaves make up what there was (`Picked`, by the
positions), what is sent in any order of addresses has one datagram for each.

### 5.7 Malware: `MalwarePipelineProofs`

From `StagesAssumption`, `FilesAssumption` and `BudgetAssumption`, for any scenarios, URLs, hashes, limits, kills and
starts: `HandledIsPassedOn`, `KnownHashesHaveBytes`, `PassesEndSaved` and
`QuotaIsKept`. One inductive invariant, `IInv`, by component:

* `BytesFirst`, `KnownAreLogged`: the log of a download comes after the bytes
  of its hash, and whatever the checker knows, on disk or in memory, waits for
  or asks about is a hash with a log. `KnownHashHasBytes` relates the two ends
  of this chain, which runs through three processes.
* `SavedOrMarked`: a dictionary differs from its file only while it is marked
  as changed, and not between the passes. `SavedBetweenPasses` is the case at
  the end of a pass.
* `QuotaInv`: what the service has counted is covered by what a budget has
  counted plus a minute's requests and what the property excuses (`Accounts`).
  It has to hold of the budget in memory and of the saved one as well, since a
  start goes back to it; while a request is under way, counted by the service or not; of a budget before its first request; and after
  midnight, when the service counts a new day and the budget has not noticed
  (`Covers`). The calendar is division: lemmas say how days and months follow
  the clock.
* `UrlsInv`: positions, commits, topics and what the producers hold
  (`StageTypes`); `EveryUrlTried` itself; the download in work is the next message, and
  whatever the expiry table holds is `DownloadInterval` after an attempt
  (`JobIsNext`): a URL that is skipped was tried. What was given to a producer is in the
  topic, under way or lost, and never less (`Grow`). A start goes back to the commit,
  which is not ahead of what is handled, or on to the end of the topic.

### 5.8 The log reader: `LogReaderProofs`

From `ReaderAssumption`, `EveryLineOnceInOrder`
(`EachLineOnceInOrder`), for any number of hours and lines, any lengths of hour and
timeouts in the order of the source, any caller, any writer that is one of section
2.6, late as it may be, and lines that end the reader at any time. `Found` is what the reader
returned, what it is about to return, and what it has of the file it reads now.
`LogReaderInv`:

* `FoundInv`: what was found are complete events, those of an hour in the order of
  their lines.
* `ReadInv`: of an open file every event up to its position was found, and nothing
  behind it; of an hour that was left, every event. The property speaks of
  the second only, and of moments between two calls.
* `FilesInv`: no file is open twice, and of one that is going to be closed all was read
  that is owed, and no more will be (`Sealed`). This is where the order of the
  timeouts is needed: a file is closed because of the clock,
  not because its writer is done. For a skipped hour the same holds with the
  shorter timeout.
* What is kept of a file between two reads is the half line its position is
  in the middle of (`Half`). For csv this is always so, for json until a line
  did not parse (`Clean`): after that the kept text may swallow lines, which is
  why `Owed` owes nothing behind junk.

### 5.9 What is only model-checked

* Every liveness property: TLAPS 1.4.5 has no rules for fairness.
* `EveryEventInOnePlace` and `CheckpointMatchesAll`. The modules loop over
  lists with folds and flatten sets of lists (as the code does), which are
  recursive definitions: what a fold computes is an induction, and the
  induction theorems of the library take an operator that the provers here
  cannot instantiate.
* `FitsAreBest`, for the same reason: sums over series as folds, and products of
  them, which the arithmetic of the provers is not made for.

Nine theorems state properties no run lists, since the proofs cover every
instance: the type invariants `DriverTypeCorrect`, `LogsTypeCorrect`,
`TelescopeTypeCorrect` and `ScanTypes`, and `BacklogStaysInOrder`, `StreamsAlwaysFit`,
`IdsAreFresh`, `TargetsAreSafe` and `PassesEndSaved`.

## 6. Where the code and its words differ

The run `driver_partial_write` shows a comment that the code does not keep:
`scamper_written_` is called "Offset while writing." (`driver.hpp:179`) but
never follows a partial write; the command is sent again from its beginning,
and scamper reads a garbled line.

The models have more of these. A name in brackets is the property in the module
that an instance violates; put it into the .cfg named to see it.

* `run()` clears `done_` when it gets to its loop (`driver.cpp:923`); a
  `stop()` before that is undone, and the destructor waits in `join()`
  (`StopReturns`, as PROPERTY in `driver_liveness.cfg`). `udp_prober.cpp:424`
  and `async_decoder.cpp:445` do the same.
* What is left in the buckets of a thread that stops is sent with an
  `event_atom`, for which shards have no handler (`trace/state.cpp:223`), though
  `trace/state.hpp:50` says "Force sending out all cached probes."
  (`OutstandingPacketsAreSent`, `telescope.cfg`).
* An ACK of an endpoint whose reset waits is not logged (`shard.cpp:82`), though
  the raw logs are to hold "the incoming packets"
  (`src/evaluation/README.md:85`; `IncomingPacketsAreLogged`, `telescope.cfg`).
* Rows say a probe was sent when the manager dropped the request
  (`manager.cpp:52`; `LoggedProbesAreSent`, `telescope.cfg`).
* A process that is killed before the header is on disk leaves a file that
  never gets one (`collector.cpp:202`; `LogsStartWithHeader`, `logs.cfg`). Apart
  from crashes, `write_one_log()` opens the last hour's file for a single line
  without any header (`collector.cpp:344`), which `BufferedLogsHaveHeader`
  excuses.
* `next_batch()` of the log reader asserts after each deletion that it has
  deleted all it meant to (`reader.py:824`). With two files to close it dies: after a
  caller has stayed away for an hour, or when a file that is already late gets
  lines until the next one is late, too (`AssertionHolds`, `log_reader.cfg`).
* Lines end the reader (`NoLineRaises`, `log_reader.cfg`): of the errors of a field
  `reader.py:473` catches two and not `ValueError`, the reader of the store no
  `KeyError` (`reader.py:731`), and `handle_json_error()` asks bytes of a compressed
  file whether they end in a text (`reader.py:323`).
* The collector adds to an hour's file until it opens the one of the hour after next
  (`collector.cpp:443`), while the reader closes the file ten minutes after the
  hour: lines that come later are never read (`LateLinesRead`, `log_reader.cfg`).
* After an hour without elements `match()` leaves its checkpoint before it
  advances the hour (`eventmatcher.py:106`): no later hour is ever written
  (`DumpsHalfPast`, `event_matching.cfg` with `Times = {13, 16}` and
  `Fillers = {18, 30}`).
* "Start dumping data 30 min past the end hour" (`eventmatcher.py:50`) does not wait for
  the events of the hour: one waits in its cache for a confirmation that is not read
  yet, or for its shard's buffer, while later events pass. When it is passed on its
  hour is written, and it never is (`NoneComesTooLate`, `event_matching.cfg`).

Seen while modelling:

* Driver, broker: a line that does not decode is not counted
  (`driver.cpp:593`), so lines of later results are taken for commands; a full
  uuencoded line begins with `M` and counts as MORE, and a command is sent that
  nobody asked for. `InStep` excuses a connection with such a line. The
  comment at `driver.cpp:665` says "overwrite" where the code adds.
* Broker: the decoder does not send its results to the broker
  (`async_decoder.cpp:328` is commented out, `async_decoder.hpp:54` promises
  it), so the `probed` handler never runs; `request_queue` only grows.
* UDP: the prober assigns to its default payload through a reference
  (`udp_prober.cpp:247`); the processor compares the source port of an
  unreachable message with the port it probed (`udp_processor.cpp:218`), the
  model does the same; the tool and the reader do not agree on messages
  (section 2.4); a blank line in a target file calls `remove_prefix(npos)` and
  a port that is no number makes `stol` throw (`batch_reader.cpp:49,75`), so
  files of the model have neither.
* Telescope, logs: a shard's id is its actor id modulo 256 (`shard.cpp:167`); a
  batch or a buffer is sent when it is full and never by a timer
  (`trace/state.cpp:199`, `buffer.cpp:69`), so that a quiet shard fills a vector over
  hours, which is refused as a whole when others have moved the collector on
  (`collector.cpp:451`); the collector monitors the sender
  of its first message only (`collector.cpp:529`).
* Events: nothing is processed before the first confirmation; a pass matches
  one pair of SYNs per key, however many fit; the end date given to `assemble.py` is only printed; written
  elements sit in a gzip stream that a kill cuts (`logs/writer.py:88`).
* Malware, the stages: the producers are asynchronous, and a place is committed
  whether or not what was sent is delivered: a process that ends in between loses
  messages (`filter.py:190`, `clean.py:144`). The consumers leave `auto_offset_reset` at
  "latest" (`filter.py:130`, `clean.py:86`, `download.py:237`): one that ends before its
  first commit is followed by one that begins at the end of the topic. `EveryUrlTried`
  names both. A payload that `wget` or `curl`
  take no argument from ends the cleaner, which meets it again at every start
  and repeats what it had not committed. The downloader ends on an answer that is
  neither an error nor 200 (`download.py:84`), and where `r.raw` has given its
  connection back (`download.py:87`). A torn `malware.bin` is never rewritten;
  `KnownHashHasBytes` allows for it.
* Malware, the checker: requests after midnight within a minute that began before are
  forgotten (`virustotal.py:115`), which overruns the day by as many as fit
  into a minute; waiting for the next day calls `datetime()` with strings and
  ends the checker; an exception or a signal other than Ctrl-C loses the counts of its
  process (`vtchecker.py:290`); a request that the service has counted is not counted
  here if its answer does not arrive (`virustotal.py:205`). `QuotaKept` excuses all of
  these but the second. A hash whose query fails is never asked about again. A torn
  `downloads.csv.gz` ends the checker; a dictionary or a budget that was being written when it
  ended lets no later one start (`vtchecker.py:139`, `virustotal.py:272`).
* Containers: `contains()` of the ring is true for a bucket that is not there
  when another one has its hash; `next()` and `previous()` from a bucket whose
  point is not on the ring do not end when fewer than `n` others exist
  (`WalksFind` excuses that). `rotate(max)` drops one subset, also if there are
  more than one too many.
* Trace reader: the first report ends the reader, which pauses all other traces
  (`trace/reader.cpp:71`). A trace that fails to start leaves its entry in
  `states` (`reader.cpp:44`). A tick of the statistics that finds no trace is the last one,
  and the flag stays set, so that they cannot be started again
  (`reader.cpp:109`). `instance::combiner_set_` is never initialised
  (`trace/instance.hpp`).
* Connecting: `net::connect()` returns 1, the descriptor of the standard output,
  if the host has no address (`net/tcp.cpp:81`), and the driver takes it for a
  socket, where `driver.hpp:74` says "Returns an empty pointer on failure"; if all
  addresses refuse, their list is not freed.
* Factories and destructors: scamper's file closes the reading end of the
  decode pair, and the destructors close it again; the decoder's factory
  frees nothing when a step fails. `NothingLeftOpen` excuses these and the two above.
* kqueue: a queue that cannot be set up stays open (`driver.cpp:692`); the prober
  passes three events of an array of two (`udp_prober.cpp:319`); the driver's
  tear-down removes an event it never added and so never closes the queue
  (`driver.cpp:748`); the end of the stream stops the loop with data unread
  (`driver.cpp:729`). With poll, a hang-up without data is not looked at and the
  loop spins (`driver.cpp:849`).
* Analysis: a distance over the last ID is one short, because the largest ID is
  added and not their number (`analysis/consistency.hpp:21`, where it says "The
  wrap for 16 bits is taken into account"); `StepsAreJudged` excuses steps at
  a limit. `check_interval()` means an interval in modular arithmetic, but its
  operands are promoted to `int`, where the test is that the ID is not above
  the upper end: the lower one is never looked at, and an interval over the
  last ID has its upper end near zero (`consistency.cpp:98`). The
  series for the regression is not unwrapped. Two replies have an interval that
  is not a number, or infinite if the slope was rounded; replies of one
  millisecond have no slope, and NaN is cast to an integer
  (`consistency.cpp:183`), while `thesis()` accepts an infinite velocity where
  the bounds grow (ICMP and TCP). The bounds of a protocol that is not supported are
  zero, which a distance one short is not within. An honest host whose IDs go over
  the last one between its first reply and its last has a velocity that is too low
  by the missing one; if its first reply came later than the bounds make up for, it
  fails the test of its thesis. `HonestHostsPass` leaves out these two, and
  `PassesRegression` a series over the last ID.
* Probe commands: `make_icmp_echo_probe` appends the user id as one character
  and not as a number (`probe/request.cpp:66`; the telescope has no ICMP prober),
  and the request's `inspect` leaves the user id out (`probe/request.hpp:59`).

## 7. Not modelled

* Set-up of logging and the monitored collector of the driver (`set_collector`);
  errors of threads, which end the program.
* Reading the trace from a file or device (libtrace); the text of statistics and
  their counters in shards and managers, which change nothing else.
* `done_atom`, `flush_atom` and the down handler of the collector; the
  rotation of the UDP tool's output and its exit handlers.
* Text and JSON forms of replies, the warts format; several daemons of one
  broker, its statistics.
* The one-file readers of the evaluation, which read complete files; the limit
  of lines per call; the writers; the `Analyzer`.
* In the malware pipeline: deliveries that Kafka refuses, the assignment of partitions,
  an operator who removes torn files, the text of payloads, the folder of replies,
  `databasetocsv.py`.
* Hash functions of the ring; counting and text forms of the stores.
* Payloads, headers, addresses as numbers, the text of log lines.
* Roots and the rounding of doubles in `analysis/`.
* Packets and probe commands: value types and their text (section 8). The
  measurement tools drive the components above; the analysis scripts are batch
  statistics over finished files and lookups in external databases. Neither
  has interleavings or state that lasts.

## 8. Plan

What could come next, in this order:

1. `EveryEventInOnePlace` for any log, with its assumption on the logs as a named
   one: a step per event instead of folds, the lists of `PhaseStore` as bags, and
   `NoneLeftBehind` as an action property.
2. The shape of scamper's commands (`probe/request.cpp`) against what scamper takes.
3. The pipeline from `LogPipeline` through `LogReader` to `EventMatching` as one
   composition, where the collector's hours take the place of `Writable`.
