# A TLA+ model of srt-xtransmit

`srt-xtransmit` generates, receives, routes and measures traffic over SRT, UDP
and TCP. This directory models its own logic (`src/xtransmit/`): the
connection manager that runs one thread per connection, the life of SRT, TCP and
UDP sockets, the paced sender, the packet and timing metrics and the threads
that report them, SRT socket groups with their scheduler, and the route, forward
and file commands. libsrt, spdlog and CLI11 are libraries, and appear only as the
code uses them.

## 1. Inventory

| Part | Source | State | Operations | Concurrency |
|---|---|---|---|---|
| connection manager | `misc.cpp` | `m_pipes`, `m_to_close`, the saved listener, the connection count | `create_connection`, `common_run`, `concurrent_pipes::{add_pipe, on_pipe_exit, size, wait}` | main thread, one thread per connection, mutex and condition variable |
| generate, receive | `generate.cpp`, `receive.cpp` | the connection, a pacer, a generator or validator | `run_pipe` | a thread of the connection manager |
| packet metrics | `metrics.hpp`, `metrics_reorder.hpp`, `metrics_integrity.hpp` | 64-bit counters | `generate_payload`, `validate_packet` | sender and receiver, with a network in between |
| timing metrics | `metrics_{latency,jitter,delay_factor}.*`, `metrics.cpp` | minimum, maximum, smoothed values | `submit_sample`, `reset`, `stats`, `stats_csv` | receiving thread and reporting thread, `m_mtx` |
| metrics writer | `metrics_writer.cpp` | map of validators, a future, a stop token | `add_validator`, `remove_validator`, `stop`, `launch` | pipes, writer thread, destructor |
| stats writer | `socket_stats.cpp` | map of sockets, a future, a stop token | `add_socket`, `remove_socket`, `stop`, `launch` | main thread, pipes, writer thread |
| pacer | `pacer.hpp` | time of the last message, deviation; CSV position | `wait` | none; depends on the clock |
| scheduler | `scheduler.hpp` | multimap of tasks, `done_` | `schedule_on`, `schedule_in`, `timer_loop`, destructor | callers and timer thread |
| SRT socket, TCP socket, UDP socket | `srt_socket.cpp`, `tcp_socket.cpp`, `udp_socket.cpp` | descriptor, epoll ids | construct, `listen`, `accept`, `connect`, `read`, `write` | one owner, closed by the last `shared_ptr` |
| socket groups | `srt_socket_group.cpp` | group and member sockets, targets | callbacks for listening and connecting, reconnection | libsrt's callback threads, the scheduler |
| file transfer | `file-send.cpp`, `file-receive.cpp` | the open file, the segment | `send_file`, `receive_files` | two processes |
| forwarding | `file-forward.cpp`, `srt_node.cpp` | connected sockets, queues | `AcceptConnection`, `Receive`, `Send` | one thread per direction |
| route | `route.cpp` | two sockets | `route`, `run` | one thread per direction |
| application | `xtransmit-app.cpp` | `force_break` | command line, signal handler | asynchronous signal |
| addresses, buffers | `netaddr_any.hpp`, `buffer.hpp` | none over time | conversions | none |

How they interact: `generate::run` and `receive::run` call `common_run` with
their `run_pipe`. `common_run` gets connections from `create_connection`, gives
each to `concurrent_pipes`, and registers it with the stats writer. A receiving
pipe registers its validator with the metrics writer. A pipe that ends calls
`on_done`, which unregisters its socket and tells the connection manager. The
signal handler sets `force_break`, which everyone polls, and cleans libsrt up,
which makes blocked calls return.

What is hard here: the exit of a pipe against the bookkeeping of the main
thread; futures whose release joins a thread, in one case under a mutex;
members shared with threads and destroyed in a fixed order; descriptors that
the system hands out again; concurrent first registrations; counters that meet
loss, reordering and their integer width; sentinels that are also values.
`PROJECT.json` lists these hazards at their lines, except some that no property
is about, which section 4 describes.

What makes each part correct:

- connection manager: the limits on streams and connections hold, exits are
  noticed, nothing is used after it is destroyed, a connection is closed after
  its processing, no deadlock;
- packet metrics: the counters add up, and say what was lost;
- timing metrics: a report covers its measurement period, no more and no less,
  and smoothed values lie within what was measured;
- metrics writer: one writer, that serves everyone
  registered, and ends before the object;
- stats writer: a header before the rows, repeated only for a socket that was
  removed, and a thread gone before the object;
- pacer: never early, and after a delay no wait beyond the next turn and the rounding;
- scheduler: every task runs once, not before its time, and the destructor ends;
- sockets and groups: every descriptor is closed exactly once, and a member that
  fails is given an attempt to reconnect while the group lives;
- file transfer: the files written are the files read, as far as the receiver's
  buffer takes whole segments and its disk takes what is written;
- forwarding and route: what is read is sent on, and both directions end.

## 2. Plan

Done, in this order: `PipePool` and `CommonRun` (the core), `MetricsPath`,
`TimingMetrics` and `Validator`, `MetricsWriter`, `Timer`, `Scheduler` and `SrtGroup`; then
`Sockets`, `StatsWriter` and `Route`, `Forward`, `FileTransfer`, `Pacer`; then
the proofs of the components, in the same order of importance.

Every safety invariant that a run checks is also a theorem, and so is what the
liveness of socket groups and of the metrics writer rests on (section 5). What
is left:

1. an abstract specification for the metrics writer with one stream at a time,
   and its refinement;
2. reading and writing of socket groups, if that code comes to differ from the
   one of single sockets.

## 3. Modules

| Module | What it is |
|---|---|
| `PipePool` | what `common_run` promises: limits, and no pipe left at the end |
| `CommonRun` | `create_connection`, `concurrent_pipes`, `common_run` |
| `MCCommonRun` | the command lines of an instance |
| `CommonRun_proofs` | invariants and refinement, for all constants |
| `Sockets`, `MCSockets` | SRT, TCP and UDP sockets, their descriptors and epolls, under `common_run` |
| `Sockets_proofs` | who owns which descriptor, for any number of objects and streams |
| `Pacer`, `MCPacer` | the sending loop of generate with its two pacers |
| `Pacer_proofs` | its schedule, for every rate and clock |
| `MetricsPath` | sequence numbers and counters of generator and validator |
| `TimingMetrics` | latency, jitter, delay factor and their reports |
| `Validator`, `MCValidator` | the validator as a whole: counters and timing of each packet, and the reports |
| `MetricsWriter` | the metrics writer and its clients |
| `Metrics_proofs` | the counters below 2^32 packets, what they say of losses up to 2^31, the timing for all delays, the writer for any set of pipes |
| `StatsWriter` | the state and steps of the statistics writer |
| `Route`, `MCRoute` | the route command, composed with `StatsWriter` |
| `Route_proofs` | order, header and end of its threads, for any number of messages |
| `Forward` | the forward command and its `SrtNode`s |
| `Forward_proofs` | its safety, for any number of rounds |
| `FileTransfer`, `MCFileTransfer` | file send and file receive, in two processes |
| `FileTransfer_proofs` | the files received, for every file system and all sizes |
| `Timer` | what the scheduler promises |
| `Scheduler` | the state and steps of the scheduler |
| `SrtGroup` | the socket group, composed with `Scheduler` |
| `SrtGroup_proofs` | its invariants and the refinement of `Timer`, for all links and delays |

A definition named `X_Fault` directly before `X` is `X` with a plausible fault.
It is used only to see that the property it is paired with (`mutants` in
`PROJECT.json`) fails on it.

### CommonRun

The variable `main` says which statement of `common_run`, `create_connection`
or `wait` the main thread has reached; the other variables are the locals and
members of the same names. `pipe[id]` is the thread of the connection with
socket id `id`: `run`, `exit` (in `on_done`, before the stats writer has
forgotten the socket), `exit_lock` (before `m_mtx`), `returning`, and then
`ended` or, after an exception, `failed`. Each section under `m_mtx` is one
step. The exception is the erasing of futures in `wait()`: main stays in `reap`,
holding the mutex, until every thread it joins has ended.

Details of the code that the model keeps: the size is checked before the next
connection is awaited; a thread runs before its id is emplaced; `std::async`
moves the connection into the thread, so that the descriptor is free again
while the future is still in the map, and a connection with the same id makes
`emplace` drop, and so join, the new future; the notification reaches main only
if it is already waiting; wake-ups may be spurious; the csv_pacer throws
outside the `try`; and the socket saved for the next iteration depends on the
protocol. Left out: the second of pause between reconnections, name resolution
and logging.

### Sockets

`m_bind_socket[o]` is the descriptor of the socket object `o`, `table` what the
system knows of each descriptor. A closed descriptor of TCP or UDP is free again
and is the next one handed out; an SRT id never comes back. `main` follows
`common_run` and `create_connection` as in `CommonRun`, here with the calls that
make a connection and every place in them that can throw; what `CommonRun`
treats in detail, counting and joining pipes, is not repeated. `Settle` ends
every step that moves a pointer: an object without one is destroyed at once,
its epolls are released and its descriptor closed, whatever that number stands
for by now. `read` and `write` are given by the set of their results in the
present state; without a result the call blocks. The signal handler closes all
SRT sockets, also under threads that are inside libsrt; `srt_cleanup` is one step
that succeeds. A TCP write after the peer has closed ends the process by SIGPIPE
(`KilledBySignal`), since the code neither asks for an error nor handles the
signal, or throws, when the error is a reset.

### Pacer

Time is counted in ticks of which `Tick` make a microsecond, since the pacer
casts to microseconds what the clock counts in finer units. Any time may pass
between two steps: this is the scheduler, and the duration of calls. `due` is a
history variable, the turn of the next message on the exact schedule. The
message interval is computed as in the code, the lowest rates included, for
which it is 0. `csv_pacer` is a line number, the end-of-file flag of the stream
and `m_start`.

### MetricsPath

A packet is its position in the stream. `WireSeqno` is what the payload carries
for it: the 64-bit counter put into an `int` and sign-extended back. `arrived`
and `last` are history: what came in undamaged, and in which order. SRT
delivers in order and at most once, UDP anything the sender sent, any number of
times. A packet is damaged when its checksum does not match; a packet cut to
the receiver's buffer is one of these.

### TimingMetrics

A packet contributes a delay by the system clock (latency) and one by the
monotonic clock (jitter, delay factor), in nanoseconds, of either sign.
`Truncated` is C++ division, `Difference` a 64-bit subtraction. The double
`m_jitter` is the exact fraction `num / scale`. A report is two steps,
reading and resetting, during which `m_mtx` is held. `unreported` and `history`
are history variables.

### MetricsWriter

`pc[p]` follows `run_pipe` of `receive.cpp` through `add_validator`, the reading
loop and `remove_validator`; `writer[t]` follows `metrics_func`. The map is
locked, the future is not: its move assignment is a load, a store, and the
release of the old shared state, which joins that state's thread. (The two words
of the shared pointer are treated as one.) `m_stop_token` starts with any value,
since the constructor does not set it. The thread that owns the writer calls
`stop()` when `common_run` has returned, that is when all pipes have ended.

### StatsWriter and Route

`thread` is where the writer's thread is; it holds the mutex from the first
socket of a pass to the last (`header`, `row`). For each socket the header, if
one is due, and the row are two calls, each of which may find the socket gone.
`m_logfile` keeps the kinds of lines, rows that follow each other merged but not
headers, and `removals` counts the sockets removed.

`Route` takes its statistics from there. `main` follows `run()` and the order
in which its locals are destroyed when it returns or throws: the future of the
backward direction, which waits for its thread, the two sockets, the writer.
Messages are numbered; `written` is what a peer was sent, `dropped` counts the
short writes the code reports. As in `Sockets`, a write to a TCP peer that is gone
may end the process (`killed`); the uncaught exception of a one-way route that is
interrupted does as well (`terminated`).

### Forward

`pc` follows `run` and `start_forwarding`, `dir[d]` the thread of a direction
through `fwd_route` and `SrtNode::Receive`. The node of the source has a
listener and one accepted connection, that of the destination one connection.
Send buffers fill and are drained by peers that need not read. `Close()` only
sets `m_stop_accept`. The interrupt sets `force_break` and nothing else:
`srt_cleanup` in the handler undoes one of several `srt_startup` calls.

### FileTransfer

Two processes, each with a main thread and a logger, and an SRT connection with
a send and a receive buffer. The scan takes directory entries in any order. A
segment is its two flags, the name if it is the first one, and its bytes; a byte
is known by its file and its place, so that mixing up files or segments shows.
Each process may be interrupted, either may fail on a file, and the connection
may break; a socket that is closed loses what is in its send buffer. The scan may
throw, which nobody catches.

`--segment` is an option of each program. The receiver's, `rcv_segment`, is chosen
in `Init` and may be smaller than the sender's: `Cut` is what its buffer then takes
of a message. With a smaller one the file gets holes, so that the properties of
its contents are stated for a buffer that takes whole segments
(`WholeSegments`); a buffer too small for the name, which the code would read
past, is not considered. A write to the file may fail and leave any part of what
the stream was given; nothing looks at it until the next segment finds the stream
failed and is dropped, so that a failure with the last segment is still reported as
done. `write_failed` is the history of such failures.

### Scheduler and SrtGroup

`thread_` is where `timer_loop` is. A time point is kept as the time left until
it, so that no clock has to be bounded; tasks that are due are run in any order.
The only long critical section is the one in which tasks run (`run`); a
notification moves the thread only if it already sleeps.

`owner` is where the thread is that constructs, uses and destroys the group.
`callback[l]` is the libsrt thread that reports on link `l`: it finds the group
in the registry (`find`), keeps the registry locked, and waits for the
scheduler's mutex (`add`). `open` is what exists in libsrt, `since` history.
`slot_reused` stands for the undefined behaviour of `on_connect_callback`, which
reads a loop variable after the loop: either the build has left the value alone
or the target is lost and the attempt made with it is refused. A link whose attempt
`srt_connect_group` refuses is `lost`: the code makes no other.
libsrt is an environment: it may report a failure of any
link at any time, and `srt_connect_group` returns without waiting for a
callback. `Timer` is abstract: a task handed over runs at most once, not before
its time, and the timer closes only when nobody is handing it a task.

## 4. Runs

| Run | Result | What it shows |
|---|---|---|
| `common_run` | holds | stream limit, bookkeeping, destruction order, that joining under the mutex never deadlocks, and that `CommonRun` implements `PipePool`, on every command line |
| `lost_wakeup` | refuted | an exit between `size()` and `wait()` is never noticed |
| `sockets` | holds | whatever fails, no pipe loses its descriptor to another object, at most one descriptor and its epolls are left behind; interrupt and loss end the pipes that promise it |
| `pacer` | holds | no message before its turn, no wait beyond the next turn after a delay, `--duration` and the csv file are kept to |
| `validator` | holds | the counters add up under loss, reordering, duplication and damage, also beyond the sign bit; below it they say what was lost; each report covers exactly its period; smoothed values stay in range |
| `metrics_writer` | holds | who receives is served, and samples are reported; with one stream at a time one writer, gone before the object, and nobody waits for ever in the writer |
| `metrics_writer_hangs` | refuted | of two concurrent registrations one joins the other's writer thread and never returns, even if every read and `common_run` return |
| `route` | holds | messages go on in order, or are dropped as reported; the csv header comes first and once, but for sockets removed; no thread outlives `run()`; an interrupt ends a two-way route, a lost source either |
| `route_aborts` | refuted | an interrupted one-way route does not return: `wait()` on a future that is not valid ends the process by an uncaught exception |
| `forward` | holds | no thread works on a node that main or the other direction has taken away; one direction that ends, or a lost connection, ends the round; an interrupt ends the program between rounds and while it waits for a source |
| `file_transfer` | holds | with whole segments what is stored is a prefix of the file; if no write failed either, what is reported done is whole, what is whole is reported done unless it fills its last segment, and a sender that succeeds has missed no file and lost no byte; both processes end |
| `srt_group` | holds | no callback meets a dying group, the destructor ends and leaves nothing, every failure of a member is answered by one attempt to reconnect it, the scheduler implements `Timer` |

A refuted property states what a document or a comment of the repository says;
the finding in `PROJECT.json` quotes it.

### Behaviour worth knowing

The models contain the following behaviour of the code. First what differs from
what a comment, a help text or a document of the repository says:

- for TCP the caller's socket is saved for the next connection and the listener's
  is not (`misc.cpp:79`), the reverse of SRT and of the comment above it, "Only save
  the shared pointer for a listener to re-accept a connection" (`:78`);
- the comment at `misc.cpp:225`, "The scope of `conn` closes it unless stats_writer
  holds a pointer", leaves out `listening_sock`: a TCP caller's socket, saved there,
  stays open when its pipe has ended, and `connect()` is called on it again;
- after `--close-listener` the next iteration of `common_run` opens a new listener
  and accepts again, while `misc.cpp:235` says "Closing a listener socket (if any)
  will not allow further connections";
- packet 2^31 makes the sequence number negative, and almost 2^64 packets are
  reported lost (`metrics.hpp:52`); and a packet that arrives damaged counts as lost
  as well. `docs/metrics.md:24` describes the number as that of the dropped SRT
  packets, without a limit. `SrtLossExact` and `LossBounds` name both: they stop at
  the sign bit (`InRange`) and speak of packets dropped or damaged;
- a group member is connected again by one attempt: if `srt_connect_group` refuses
  it, nothing tries again until libsrt reports another failure, and in a build that
  reuses the stack slot of the loop variable (`srt_socket_group.cpp:554`) it refuses
  every one. `docs/socket-groups.md:76-78` says "reconnection attempts will be made
  with an interval of 1 s". `FailedIsRetried` claims the one attempt only;
- a one-way route that is interrupted ends by an uncaught `future_error`
  (`route.cpp:119`), two streams of `receive` may not end at all
  (`metrics_writer.cpp:49`), and idle TCP and UDP readers do not notice an interrupt,
  while `xtransmit-app.cpp:143` says "Handle Ctrl+C interrupt". The first two are the
  runs `route_aborts` and `metrics_writer_hangs`; of the last the properties about
  interrupts speak of SRT only;
- `--oneway` of forward, "Forward only from SRT to DST" (`file-forward.cpp:184`), is
  not looked at: both directions always run.

The rest contradicts no text of the repository that we know of.

Connections:
- a pipe that ends before it is emplaced (`misc.cpp:124`, `:143`), or whose
  csv_pacer throws (`generate.cpp:55`), counts as active for ever;
- an interrupt during the pause before a reconnection (`misc.cpp:221`) lets one
  more SRT socket be made after `srt_cleanup`;
- a TCP sender whose peer has closed is killed by SIGPIPE, the other streams of the
  process with it (`tcp_socket.cpp:328`);
- a non-blocking SRT write wakes up for incoming data too, and then drops the
  message with 0 bytes written (`srt_socket.cpp:539`).

Sending and measuring:
- the interval is in whole microseconds, so that the rate is somewhat above the one
  asked for (3 us instead of 3 1/3 for 100 bytes at 240 Mbps), and the lowest rates
  become an interval of 0, that is no pacing (`pacer.hpp:75`; `IntervalKeepsRate`);
- truncation costs up to a microsecond per message, always to the late side
  (`ScheduleKept` says by how much);
- a csv file whose last line ends with a newline has one message without a wait
  in every pass, an empty one is not paced at all;
- a smoothed delay of -1 us restarts the smoothing (`metrics_latency.cpp:20`);
- a packet late over UDP stays counted as lost as well as reordered
  (`LossBounds` says by how much);
- with fewer than two packets in a period the delay factor is the overflow of
  `INT64_MIN - INT64_MAX`, that is 1 us.

Routing, forwarding, files:
- a two-way route whose source is lost waits for a message from its destination
  (`route.cpp:117`);
- the csv header is printed again for every socket that fails between its header
  and its row before there is a first row (`socket_stats.cpp:102`);
- an idle forward notices an interrupt only with the next message or loss; the
  accepted connection is not closed when a round ends because of the
  destination, so that the source is not made to reconnect
  (`file-forward.cpp:88`); messages to the source are not waited for; every round
  uses up four epolls (`srt_node.cpp:47`);
- a receiver of files with a smaller `--segment` than the sender's cuts every full
  segment, and reports the files as done (`file-receive.cpp:91`, `:149`);
- a failing write is noticed with the next segment only: the rest of the file is
  dropped with a message, and without a next segment the file is reported as done
  (`file-receive.cpp:126`, `:132`);
- empty files are never sent, and a file that exactly fills its segments has no
  end flag: it is complete, but never reported as done (`file-send.cpp:62`).

### Bounds, and why they are enough

- `CommonRun`: two ids for up to two streams, so that a connection meets a full
  pool, an id is reused while its finished pipe is not reaped, and the
  limit of one connection is reached. `conns_cnt` saturates at
  `ConnCap`, which is not below any `max_conns`: beyond it the code does not
  distinguish counts. The command line is a variable chosen in `Init`, so that one
  run covers protocols, reconnection, limits, `--close-listener`, statistics and
  playback. The proofs remove these bounds for the safety properties.
- `Sockets`: a listener and two connections; five descriptors let one be left
  behind and still be reused. All command lines, except that `--close-listener` is
  given only where a socket is saved: by an SRT listener and a TCP caller.
- `Pacer`: intervals of 2 and 3 us at two ticks a microsecond, the second one
  cut off from 3 1/3, delays up to the whole clock, one rate that becomes 0, csv files
  without lines, with one and with two, with and without a final newline.
- `Validator`: five packets and four arrivals allow two gaps, a late packet, a
  duplicate and damaged ones; the fifth is beyond the sign bit (`IntMod = 8`).
  Four samples and a report put samples before and after it; the delays have both
  signs and fractions of a microsecond. The proofs remove these bounds.
- `MetricsWriter`: two pipes, and the number of streams at a time (1 or 2)
  chosen in `Init`. One after the other, the second pipe finds the writer of the
  first and does not launch again; at the same time, they show the race.
- `Route`: two messages one way and one back are in order or not; SRT with each
  kind of socket, csv and JSON, both orders of the socket ids.
- `Forward`: buffers of two messages and a wait of two turns; ten epolls allow
  two rounds and the failure of the third.
- `FileTransfer`: two files in two folders and an empty folder; sizes from 0 to
  7 with segments of 2 and then 4 bytes give empty files, one segment, exactly one,
  several, and exactly two; a receive buffer of one segment keeps data in the
  sender's while it closes. The receiver's `--segment` is the sender's, or one less,
  which cuts every full segment.
- `SrtGroup`: two links contend for the registry and for the scheduler, and let
  two tasks be due together; delays of two ticks and one tell apart a task that
  is early, due and late. Time itself is not bounded.

### Fairness

Every thread that can compute goes on (weak fairness), and a thread that keeps
asking for a mutex that is released again and again obtains it (strong fairness
of the locking steps only). Nothing is assumed of peers: `accept()`,
`connect()` and a stream may last for ever, the user need not interrupt, and no
wake-up is spurious by necessity. In `MetricsWriter` nothing makes a read or
`common_run` return, which idle UDP and TCP readers and `lost_wakeup` would refute:
`OneStreamNeverBlocks` is about the writer alone. `BestCaseSpec`, under which
`InterruptCompletes` is refuted, adds both, so that the refutation does not rest on
them. In `Sockets` only the pipes are fair. In `Route` peers go on reading, so that a
write ends, and a read does not return nothing for ever while there is a message
(strong fairness of `ReadMessage`). In `Forward` nothing is assumed of peers:
the liveness properties except a send that blocks. In `FileTransfer` SRT
delivers as long as both sockets are open. In `SrtGroup` time passes, which the end of
`wait_until` needs when a notification came too early.

## 5. Proofs

Checked by TLAPS, for all values of the constants that satisfy the assumptions
named in the modules.

**`CommonRun_proofs`.** Assumptions: finitely many ids, `NoConn` not among
them, command lines as `Config` says, a positive `ConnCap`. The properties are
not inductive by themselves. `StreamLimit` speaks of threads, the guard in the
code of `m_pipes`; `PipesInv` links the two: a thread that still processes is
active in `m_pipes`, or is the one main is about to emplace. `LimitInv` then
says that there is room from the check to the emplacing, `ConnInv` that no
thread uses the id of a connection not launched yet, `StatsInv` which
connections the stats writer may hold. `IInv` is the conjunction with `TypeOK`.
From it follow `StreamLimit`, `ToCloseIsClosable`, `NoUseAfterDestroy`,
`ClosedAfterProcessing`, and, step by step, that `CommonRun` implements
`PipePool` (`PoolRefinement`).

**`Sockets_proofs`.** Assumptions: finitely many objects and descriptors, which
are numbers, `NoObj` and `NoDesc` not among them, command lines as `Config` says.
`PipeOwnsDescriptor` is not inductive, since a destructor closes a number
whatever it stands for by then. What keeps the descriptors apart is `ObjectsOK`
(no two objects refer to one descriptor), and it stays true because of
`OwnersOK`: a number is handed out only when it is free, and the number of an
object that exists is free only after `listen()` has failed and closed it, when
no socket is made any more. `LeftOK` says that nothing without an owner is in use
before the exception that ends the loop, and then one thing; `EpollsOK` the same
of the epolls, whose number is a sum over the objects (`Weight`); `MainOK` which
pointers main holds where, which is what tells a TCP caller, whose socket two
pointers share, from everybody else. These parts take the pointers, objects and
descriptors as parameters, so that one lemma (`SettleInv`) says that the
destructors at the end of a step turn them from what the step hands to `Settle`
into the next state's. There is one lemma for each action.

**`Metrics_proofs`** has the proofs of three specifications. Every step of
`Validator` is one, or none, of `MetricsPath` and of `TimingMetrics`
(`ValidatorIsPath`, `ValidatorIsTiming`), so that what holds of these holds of it.

*`MetricsPath`.* `Accounting` holds below 2^32 packets. As long as the
packets generated fit the non-negative half of an `int` (`InRange`, a hypothesis
inside `LossBounds` and `SrtLossExact`) the invariant says that the validator expects the number behind the highest one
received (`PositionInv`), that what arrived lies between what arrived in order
and that plus the reordered (`CountInv`), and that SRT never delivers below the
expected number (`SrtInv`). `MissingCount` turns these into the cardinalities
of `LossBounds` and `SrtLossExact`. The hypothesis is as weak as it can be:
`WireSeqnoExactIff` says that a sequence number arrives as it was sent exactly
when it is in that half, and is off by `LongMod - IntMod` otherwise.

*`TimingMetrics`.* Assumption `WidthAssumption`: 64 bits hold a delay in
nanoseconds and the difference of two (both are below 292 years), and a
microsecond is more than one unit of the clock. For `ReportOfPeriod` the
invariant says of which packets the minimum and the maximum of the latency are
(`LatencyOfPeriod`), and of which the two
limits of the delay factor (`DelayFactorInv`); before the second packet of a period the
latter are sentinels, and the report is their overflow. `MicrosBounds` is the
truncating division for either sign, and `TransitDistance` the distance of two
truncated delays. `SmoothedWithinRange`
needs that the previous delay of the jitter is the last packet's, also across a
report (`LastInv`); then a smoothed value is a mean of itself and a new sample
(`SmoothedBetween`, `JitterArithmetic`).

*`MetricsWriter`.* Assumptions: finitely many pipes, `None` not among
them. `ReceivingIsServed` holds for any number of streams: until `stop()` the
token is false for every launched thread (`TokenInv`), the future belongs to a
launched thread (`FutureInv`), and `stop()` comes after the pipes (`MainInv`).
`AtMostOneWriter` and `NoWriterAfterDestroy` speak of one stream at a time
(`streams = 1` is their hypothesis), where a pipe that found no future finds none
until it has stored its own (`OneInv`); with two, `metrics_writer_hangs` starts
from two writers. What that run shows for two pipes is proved for any number:
a pipe that has swapped out the future of another's thread never comes back from
`add_validator`, and main stays where it waits for it (`StuckStaysForEver`); the
thread it waits for stops only at the token, and only main sets the token, after
the pipes. With one stream nothing is ever swapped out (`NothingReleasedHolds`), so
that `add_validator` waits for no thread, which is the safety half of
`OneStreamNeverBlocks`.

**`SrtGroup_proofs`.** Assumptions: links, the group and the epolls are
different things, and the delays are at most `MaxDelay`. `ObjectInv` says that
the registry holds the object exactly while it is whole and that a callback is
inside only then; `EndInv` what the destructor has still to close; `TaskInv`
that a link has one task at most, none while its callback runs, and that time
left and time since the failure add up to the delay. From these follow
`CallbackSeesLiveGroup`, `NothingLeft`, `ReconnectPace` and the refinement of
`Timer` (`TimerRefinement`).
Two more theorems are the safety half of `FailedIsRetried` and
`DestroyCompletes`. `WakesInTimeHolds`: the timer thread never sleeps without a
limit while a task is queued or the owner joins it, and never past the time of a
task. A task is queued with a notification that the thread can miss while it
computes how long to sleep; it does no harm because all tasks of a group have the
same delay and the registry's lock lets one callback queue at a time, so that a
new task is never the next one due unless it is the only one (`QueueInv`,
`SleepInv`, and `StopInv` for the notification of the destructor).
`FailureNotedHolds`: a broken link of a caller has a callback under way unless the
group is unregistered already, and a link that waits has a task that was not run
(`GroupInv`). Listeners, which do not reconnect, are excepted.

**`Pacer_proofs`.** Assumption: command lines as `Config` says, a positive
`Tick`. `NeverEarly` speaks of the clock, which any delay moves, so the invariant
speaks of what the pacer aims at: the last sending time minus the deviation is
never before the exact time of the message, and behind it by at most
`Tick - 1` ticks for each wait (`ScheduleInv`); a sleeper's wake-up time is not
before it (`SleepInv`); the csv reader is at most one line past the end
(`LineInv`). From `ScheduleInv` follows `ScheduleKept`: the time waited for is
that schedule plus an interval, unless the deviation has outgrown the interval and
it is past. `AdvanceKeeps` is the arithmetic of one wait, for sleeping and
spinning. `WithinDuration` counts messages, the code looks at the time: a message
about to be written has been waited for, so that its turn was not before as many
intervals as there were messages (`DueInv`), and the duration was not over then
(`DurationInv`); an interrupt during a wait skips it and lets one message more
through. For `CsvPassTakesItsTime` `EofInv` says that the end of the file is
noticed with the line after the last one, `LastLineInv` that what follows the last
line is read only when the time of the last line is over, and `PassesInv` that the
start of a pass is at least that much later than the start of the pass before.
A file whose last line has the time 0 takes no time, and is excepted.
`IntervalKeepsRate` is about `calc_msg_interval_us` alone, for every rate and
size: the interval is never so long that the whole messages of ten seconds at that
rate do not fit in ten seconds, and never a microsecond shorter than it must be; it
is 0, no pacing, exactly below one message in ten seconds and above one in a
microsecond.

**`Forward_proofs`.** Assumptions: positive buffer and limit. `SetUpInv` says
that the connection to the destination and the listener are there from their
making to the start of the threads; with it `ThreadsHaveTheirNodes` is inductive.

**`Route_proofs`.** Assumption: command lines as `Config` says. `WriterInv`
ties the contents of the csv file to `print_header`: only a socket that has
printed the header goes on to a row, and clears the flag; a socket that fails
between the two leaves a file with headers only, one for each socket removed. `MainInv`
says which threads are over at each place of `run()`, `DirInv` that what a
direction has written is in order and older than what is in its buffer, and that
read, written and dropped differ by the message in the buffer. From these follow
`CsvHeaderFirst`, `ThreadsEndFirst` and `Forwarded`.

**`FileTransfer_proofs`.** Assumptions: a segment has room for more than a name,
buffers are not empty (`FileTransferAssumption`), and the paths form a
finite file system (`FileSystemAssumption`: nothing lies below a file, and what lies
between a folder and a path below it is there). What is said of contents has the
hypothesis `WholeSegments` and, beyond being a prefix, that no write to the file
has failed (`Sound`). The argument has three parts.
The scan (`ScanInv`): the folders still to be read never lie one below the other,
nor above a file already found, so that every file is found once. What is under
way (`Chain`, on the receiver's buffer followed by the sender's): the segments
are in the order of the files, each starts a file or continues the one before;
the first goes on where the receiver is (`HeadInv`), the last ends where the
sender is (`TailInv`). With them `ReceivedIsPrefix` (from `PrefixInv`) and
`DoneIsComplete` are inductive, lost connections included. Third, as long as nothing
was lost, what is under way is exactly what the receiver lacks of what was handed
over (`DeliveryInv`); for a sender that has ended well that is everything, and the
cardinality in `CompleteMeansDelivered` follows. The lemmas have one step per
action; the actions that hand nothing over share `QuietData`. An action property
completes it: no step takes back what was received, unless a write fails, and a file that is done stays
as it is (`FileReceivedIsKept`). `open()` truncates, so this needs that of a file
whose first segment is under way or still to be sent nothing was received
(`FreshInv`, added to the invariant for this theorem only).

Only model-checked: all liveness (`ExitCompletes`, `DestroyCompletes`,
`FailedIsRetried`, `OneStreamNeverBlocks`, `SamplesReported`, `InterruptEndsPipe`,
`LossEndsPipe`, `InterruptEnds`, `LostSourceEnds`, `RoundEnds`, `BothEnd`), which needs
fairness and is out of this prover's reach. Of `DestroyCompletes`,
`FailedIsRetried` and `OneStreamNeverBlocks` the safety half is proved, as
said above.

## 6. Not modelled

- The text of reports and logs, the parsing of command lines and URIs, which
  socket option gets which value: no behaviour over time. That setting an option
  may fail is modelled.
- `netaddr_any.hpp`, `buffer.hpp`, `io-generate.hpp`: conversions and views of
  memory, without state.
- Reading, writing and statistics of socket groups (`srt_socket_group.cpp` from
  line 744): the same calls to libsrt as for a single socket, which `Sockets` treats.
- Reads and writes with a time limit: no command uses one.
- `stats_writer::clear`, which nothing calls; the trace and the reply of
  receive, which keep no state; in file send an exception of the constructor, outside its `try`,
  and the division by a duration of 0 us for a very short file
  (`file-send.cpp:99`); a line of the csv file that is not a number, on which
  `std::stod` throws in the middle of a pipe (`pacer.hpp:128`).
- What libsrt does inside, and real time: a sleep is a step that eventually
  ends, except in `Pacer` and `Scheduler`, where time is counted.
