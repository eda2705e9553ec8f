# A verification project for atomic-queue

TLA+ models of the atomic-queue daemon, TLC configurations that check them on
small instances, and TLAPS proofs of the safety properties for instances of any
size.

## The system

atomic-queue is a local message queue: one Go daemon behind a Unix socket with
in-memory FIFO queues, a command line that talks to it and starts it when it is
not there, and small clients in Go, Python and PHP.

| Component | State | Operations | Interacts with |
|---|---|---|---|
| Broker (`broker.go`) | `queues`, `waiters`, `queuedBytes`, `drainSignal`, one mutex | `Push`, `PushOwned`, `Pop` | called by the connection handlers, one goroutine each; `onBlock` callback |
| Connection watcher (`conn_watcher.go`) | epoll descriptor, map `cancels` from descriptor to cancel function, one mutex | `register`, `unregister`, `run` | the kernel's ready list; the contexts of the handlers |
| Connection handler (`handleConn`, `main.go`) | one connection, its context, buffered reader and writer | read request, call the broker, write response, deferred clean-up | broker, watcher, client |
| Start and stop (`serve`, `removeStaleSocket`, `newRPCClient`, `ensureDaemon`, `main.go`) | the socket file, shared by all processes | stat, probe, remove, bind, listen, unlink; dial, spawn, poll | other daemons and clients, through the file system |
| Wire protocol (`protocol.go`) | bytes in the two buffers of a connection | write and read request and response | handler and clients |
| Block notifier (`newBlockNotifier`, `main.go`) | time of the last notice, syslog writer | one callback | called by blocked pushes |
| Command line (`main.go`) | none beyond its process | argument parsing, conversions of timeouts and of the cap, one request, exit code | start and stop, protocol |
| Stress runner (`stress.go`, `examples/go/stress`) | counters | publisher and consumer workers | protocol |
| Client libraries (`examples/`, `scripts/php_atomic_queue_lib.php`) | one connection | push, pop, auto-start | protocol |

What is hard here: goroutines that interleave between the broker's critical
sections (a timeout that races a handoff, a wake-up between unlock and select);
the watcher's events that are fetched in one step and used in a later one, while
descriptors are reused; processes that race on one path with nothing but system
calls; crashes that leave a socket file behind; a cap at which everybody blocks;
requests that are cut off at any byte; and integers that overflow between the
command line and the broker. `PROJECT.json` lists each of these hazards at its line, with the
properties that cover it.

## Modules

| Module | Models | Checked by |
|---|---|---|
| `Broker` | `broker.go`: one action per critical section, select or return | `MCBroker` |
| `ChannelQueue` | what `Broker` promises: atomic per-channel FIFO queues | through `Linearizable` in `Broker` |
| `Protocol` | `protocol.go`, the request loop of `handleConn`, `rpcClient`, and the client of `examples/go`, byte by byte | `MCProtocol` |
| `CommandLine` | `run`, `runPush`, `runPop`, `runServe` and the parsers of `main.go`, `parseStressArgs` | `MCStress` |
| `Stress` | extends `CommandLine`: `runStress` of `stress.go`, and `examples/go/stress` | `MCStress` |
| `Daemon` | `Broker` behind connections: `rpcClient` and the request loop of `handleConn` | `MCDaemon` |
| `Notifier` | `newBlockNotifier` | `MCNotifier` |
| `ConnWatcher` | `conn_watcher.go` and the life of a connection in `handleConn` | `MCConnWatcher` |
| `Startup` | the socket file: `serve`, `removeStaleSocket`, `newRPCClient`, `ensureDaemon` | `MCStartup` |
| `BrokerProofs` | proofs about `Broker`, and that it implements `ChannelQueue` | TLAPS |
| `DaemonProofs` | extends `BrokerProofs`: proofs about `Daemon` | TLAPS |
| `ConnWatcherProofs`, `StartupProofs`, `NotifierProofs` | proofs about these modules | TLAPS |
| `ProtocolProofs` | proofs about the encoders and decoders, and about a connection | TLAPS |
| `StressProofs` | proofs about `Stress` and the `CommandLine` in it | TLAPS |
| `Arithmetic` | lemmas about induction, powers of two and division | TLAPS |

Definitions whose comment begins with "Mutant:" are wrong variants of the
definition that follows them.  No specification uses them; replacing the right
definition by the wrong one must make TLC report the property that
`PROJECT.json` names, which shows that the property depends on that code.

### Broker

All fields of the Go struct are accessed under `b.mu` only, so a critical
section is one action; everything between two critical sections is an action of
its own.  `pc[t]` says where goroutine `t` is: for a Push `push` (about to enter
the loop body under the mutex), `send` (waiter removed, mutex released, send
still to come), `notify` (drain signal captured, callback still to run) and
`select`; for a Pop `pop`, `wait` (in the first select), `expired` (the select
took `ctx.Done`), `recv` (the waiter was not found, unconditional receive) and
`poll` (the waiter was removed, non-blocking receive).

* `b.queues` is a function on all channel names; an absent key is an empty queue.
* A waiter is named by the goroutine whose Pop created it; `channels[t]` and
  `reply[t]` are its two fields.
* `b.drainSignal` is the set of pushes that captured the channel now in the
  field.  Closing it and making a new one empties the set: every captured signal
  outside the set is closed.
* `ctxDone[t]` becomes true at any moment of a call (deadline or cancellation).
  A Push looks at it in its select only, as the code does.
* Payloads are model values with a size.  A payload that is in flight is not
  pushed again, so copies can be told apart.  The clone made by `Push` (and not
  by `PushOwned`) changes who owns the bytes, not the broker.

`ChannelQueue` is the abstract object.  `Linearizable` maps a Push and a Pop that
meet through a waiter to one atomic exchange at the moment the Push takes the
waiter off the list, and a Pop that times out to the moment its waiter is removed.

### Daemon

`Daemon` extends `Broker` and adds one connection per goroutine: a client with at
most one request under way, a socket that holds a request or a response, and the
handler's place in its loop (`read`, `call`, `write`, `closed`).  A handler in
`call` takes the broker's own steps, and only those; the calls of the broker come
from requests that were read.  A client may die at any moment, and what it has
sent stays readable.  `client`, `sent`, `acked`, `failed` and `received` are what
the clients know, and the properties compare it with what the broker did.  A
push may be cancelled at any moment: the watcher can cancel the context of a live
client (see `FiresOnDeadPeerOnly`), and so does a shutdown.  A pop has its own
timeout only.  Every payload is sent once, so copies can be told apart; retrying
is sending another payload.  The end of the daemon, with which all queues go, is
not modelled here.

### Notifier

The steps of the callback between two accesses to shared state: reading the
clock, loading `lastNs` and comparing, the compare-and-swap, opening the syslog
connection under `writerMu`, and the notice.  The wall clock is the real time
less an offset that may be set once.

### ConnWatcher

`pc[c]` follows `handleConn` from accept through `register`, the request loop and
the deferred calls in LIFO order.  The kernel is modelled from its use: an
interest list, an edge-triggered ready list, descriptors that are free again
after `conn.Close`.  `run` fetches a batch (`events`), takes a cancel function
out of the map under the mutex (`firing`), and calls it afterwards; all three are
separate steps.  Connections are numbers in the order in which they are accepted,
and the first one gets `FirstFd`: which descriptor is the first, and which
connection is called what, makes no difference to the code.  The broker is a place where a handler is blocked: it may return
at any time or never.

### Startup

Every system call on the path is a step.  A socket file is named by the daemon
that bound it, `listening` says whose sockets accept connections.  `bind` and
`listen` are two steps, as are the two halves of `listener.Close` (unlink, close)
and the deferred `os.Remove` after it.  A daemon may crash anywhere.  Nothing in
the code keeps two daemons from starting, or one from starting while another
stops, since every client that finds nobody starts one; so nothing in the model
does.  Another program may put a file of its own where nothing is (`PutFile`), at
any time.  A connect may also fail because the listener has no room (`EAGAIN`),
which ends a start and does not make a client start a daemon.

### Protocol

One connection with a client at one end and a handler at the other.  A byte has
`ByteBits` bits, and the widths of the three integer types are constants, so
that the limits (`protocolMaxChannels`, `defaultMaxBytes`, `protocolMaxErrorSize`,
a name that does not fit a `uint16`) are met by values of a few bytes; all of them
are compared as in the code.  Encoders and decoders are operators with the names
of the functions; a decoder gives an error, or a value and the bytes it left.  A
read that needs more bytes than there are blocks as long as the peer may send
more, and becomes `EOF` or `unexpected EOF` when it has closed.

Both ends write through a buffer (`cbuf`, `hbuf`) of which any first part may
reach the socket, since `bufio.Writer` passes on what does not fit, and either
end may close or die between any two of these steps.  `lib` says which client is
at work: `rpcClient`, which checks a request while it encodes it, or the example,
which checks nothing and takes frames of any size.  An encoder that refuses a
request after its first fields leaves those in the buffer, as in the code.
`calls` is what the handler gave to the broker, `sent`, `given` and `got` are what
the two ends made and took.  The broker is any answer it may give to the request.

### CommandLine

An argument is a tuple, `<<"w">>` for the word `w` and `<<"--o", "v">>` for
`--o=v` (`Arguments`); no text is taken apart character by character.  `Parse` goes through the
arguments from left to right as the loops of `parsePushArgs`, `parsePopArgs`,
`parseServeArgs` and `parseStressArgs` do; the four differ in their options,
conversions, defaults and checks.  `strconv`, `time.ParseDuration` and `splitCSV`
are constants (functions on the words they accept).  What the code computes from
numbers is computed in words of `WordBits` bits that wrap around: milliseconds
from a duration and back, and gigabytes to bytes.  After parsing, the push or pop
has one request answered by an external daemon, and the output may fail.

### Stress

`runStress` after its arguments: the warm-up pop, the split of threads into
producers and consumers, one connection per worker, the loop that looks at the
deadline between two calls, the four counters and the wait for all workers.  The
example program differs in its dial (it starts a daemon), in a warm-up pop that may
fail, and in what a consumer does after an error.  The daemon is the number of messages it holds, at most
`Cap0`; a pop timeout or another error is answered and then the connection is
closed, which `Protocol` shows of the handler (`NothingAfterError`).  It may die
once.

## Runs

| Run | Instance | Shows |
|---|---|---|
| `broker` | 2 pushers, 2 poppers, 2 valid channels and an invalid one, messages of 1, 2 and 3 bytes, largest message 2, cap 2; symmetry | the seven invariants of `Broker`, `Linearizable` |
| `broker_live` | 1 pusher, 2 poppers, 2 channels, messages of 0, 1 and 2 bytes, cap 2; fairness | `RoomUnblocks`, `PopReturns`, `NoWaiterStarves`, `Linearizable` |
| `broker_cap_handoff` | 2 pushers, 1 popper, 2 channels; fairness | counterexample to `HandoffIgnoresCap` |
| `daemon` | 1 producer, 2 consumers, a valid and an invalid channel, messages of 0, 1 and 2 bytes, cap 2; symmetry | `ReceivedOnce`, `FailedLeavesNothing`, `LostWithItsConsumer`, `ProducerOrder` |
| `notifier` | 3 pushes, interval 2, 5 instants, the clock set back by 1; symmetry | `NoticesApart`, `SilentAfterNotice` |
| `protocol` | one connection with up to 3 requests of either client; 4 values of a byte, lengths of 1 and 2 bytes, 2 channels, 2 bytes of payload, 4 of error text | `RequestsFramed`, `AnswersMatch`, `NoStandoff`, `NothingAfterError` |
| `command_line` | command lines of up to 4 arguments, words of 7 bits; stress runs of up to 3 workers with 2 calls each, cap of 1 message; fairness | `ArgumentsMean`, `TimeoutKept`, `SpawnedOnSamePath`, `ExitTells`; `CountersBalance`, `TimeoutIsLast`, `RunEnds` |
| `watcher` | 3 connections, 2 descriptors, batches of 2; fairness | `CancelsOwned`, `CloseNoticed`, `CloseUnblocksPush` |
| `watcher_stale_event` | 2 connections, 1 descriptor | counterexample to `FiresOnDeadPeerOnly` |
| `watcher_pop` | 2 connections, 2 descriptors, fairness | counterexample to `CloseEndsHandler` |
| `startup` | 3 daemons, 1 client; fairness | `ClientsShare`, `PathKept`, `RestartServes` |
| `startup_race` | 2 daemons, 2 clients | counterexample to `OneDaemon` |

Why the bounds are enough to see the interesting cases.  In `broker` two messages
do not fit together, so pushes block, wake up together and block again; the third
message is over the limit; two poppers with one and with two channels make
waiters that a message passes over, and a removal hits the first or the last;
every call can time out at every point.  Since no two messages are queued there
at once, the order of a queue and of the channels of a pop is seen in
`broker_live`, which adds a message of zero bytes that fits at the cap: messages
wait on both channels while pops with one and with two channels come.  Its single
pusher is what liveness can afford; that two pushes blocked together are both
woken is `NoLostWakeup` of `broker`, which is also proved.  In `daemon` the
messages of 1 and 2 bytes do not fit together, so the producer blocks and is
cancelled, while the empty one queues behind either; a pop with a timeout that
does not expire behaves like one without, so all have one.  In `notifier` the
instants are enough for two notices, with a third push between load and swap
throughout (`MaxTime` is the only bound on time).  In `watcher` the third connection must reuse a
descriptor, and a batch can hold two events.  In `startup` one daemon can have the path while two
others race for it, over the stale file of any of them; a second client would add
nothing, since what `ClientsShare` says is said of each client by itself, and
daemons are also started without one.
In `protocol` the requests include an empty and a full payload,
one that is too large, invalid names, a name that makes the error text too long
to send, one that does not fit its length field, one channel too many and a
negative timeout; three of them in a row put a request behind one that the handler
refuses and behind an error.  Behind a request that its own client refuses there
is none: the client closes the connection then.  In `command_line` four arguments hold an option twice, in both
spellings, with an option as its value; with 7 bits the durations and the numbers
of gigabytes include some that overflow and some that just do not (the ratio of
the limits is kept: a message fits into a gigabyte, and a word holds several
gigabytes).  Three workers give two producers against one consumer and the
reverse, and a cap of one message blocks them.
Calls, crashes, starts and stops are not counted or bounded, except that the
connections of `ConnWatcher` and of `Daemon` are used once, `Protocol` has `Limit`
requests, and a worker of `Stress` makes `MaxCalls` calls before its deadline;
those runs, in which everything may come to an end, do not check for deadlock.

Fairness.  `Broker!FairSpec` has weak fairness of each goroutine's own steps: the
Go scheduler runs runnable goroutines, and `sync.Mutex` hands itself over to a
waiter that has starved for a millisecond.  A select with several ready cases is
not assumed to favour any.  No call, timeout or cancellation is fair.
`ConnWatcher!FairSpec` is the same for the handlers and for `run`; clients and
the broker owe nothing.  `Stress!FairSpec` has weak fairness of the workers, of
the two timers and of the report, and strong fairness of the daemon's answers
that need room or a message: other workers take the room and the messages in
turn, and it is the liveness of `Broker` (`RoomUnblocks`, `NoWaiterStarves`) that
justifies it.  Parsing is not fair and needs no fairness.  `Startup!FairSpec` has
weak fairness of the steps of each daemon that has been started; nobody has to
start, stop or crash, and no client has to do anything.

### What the counterexamples show

* `HandoffIgnoresCap`: a push blocked by the cap stays blocked when a consumer
  starts to wait on the push's own channel.  `Pop` does not wake blocked pushes
  when it registers (`broker.go:135`), only when it dequeues.  The README of the
  repository says that direct handoff is not counted toward the cap.
* `FiresOnDeadPeerOnly`: an event fetched for one connection cancels the context
  of the next one that was given the same descriptor; a push of it that blocks
  returns "timeout" to a client that is there.
* `CloseEndsHandler`: `Pop` gets a context that does not derive from the one the
  watcher cancels (`main.go:277`), so a handler stays blocked in a pop after its
  client has gone.
* `OneDaemon`: two daemons that start together can both serve, because the probe
  of one falls between the `bind` and the `listen` of the other.

The passing runs also delimit what the code does not do.  `LostWithItsConsumer`
of `Daemon` allows an acknowledged message to be lost as the answer to a client
that died: the pop of such a client still takes a message (`main.go:277`), which
is dropped when the write fails (`main.go:284`); without that alternative TLC
finds the loss within a dozen steps.  `SilentAfterNotice` of `Notifier` says
nothing once the wall clock was set back: the interval is measured with
`UnixNano` (`main.go:553`), and the notifier is then silent until the clock has
caught up.  `TimeoutKept` says that a positive `--timeout` below a millisecond gives
no deadline: it becomes 0, which is taken for no timeout (`main.go:147`).  It is
about what the command line sends; another client may send a `TimeoutMS` that
overflows (`main.go:276`).  No property says that a daemon has the cap it was asked
for, because that is false: `gbytes << 30` (`main.go:626`) wraps around, and
what comes out is accepted if it is as large as the largest message, so that
17179869185 gigabytes give a cap of one.  `PathKept` has the exceptions that the code
has.  A daemon loses its socket file, and another program its plain file, to a
daemon that is past its probe (`main.go:438`), or that has closed its listener and
not yet made its deferred `os.Remove` (`main.go:198`), or that stops after it has
lost the path itself (`main.go:219`).  `RunEnds` makes an exception of calls
that are blocked in the daemon: the deadline of a stress run is looked at between
calls and does not end one.  `CountersBalance` counts from after the warm-up, as
the pop that starts the daemon may take a message that was there before.
`AnswersMatch` does not promise an answer: an error text longer than
`protocolMaxErrorSize` is refused by the encoder, and the connection is closed
without one.

## Proofs

Every theorem holds for all values of the constants that satisfy the named
assumption of its module: any sets of goroutines, connections, daemons, clients
and workers, any sizes, caps, limits and widths.  The form is the same
throughout: an inductive invariant, one lemma that each action keeps it, and the
property as a consequence or, for an action property, of the invariant and a step.

| Module | Theorem | States |
|---|---|---|
| `BrokerProofs` | `TypeCorrect` | `Spec => []TypeOK` |
| | `HandoffIsExact` | `Spec => []HandoffExact` |
| | `NoMessageBehindAWaiter` | `Spec => []WaitersFindNothing` |
| | `NoWakeupIsLost` | `Spec => []NoLostWakeup` |
| | `CapHolds` | `Spec => []CapRespected` |
| | `PayloadsAreInOnePlace` | `Spec => []OnePlace` |
| | `NoByteDrifts` | `Spec => []QueuedBytesExact` |
| | `BrokerIsLinearizable` | `Spec => Linearizable` |
| `DaemonProofs` | `HandlersUseTheBroker` | `DaemonSpec => Spec` |
| | `DaemonIsLinearizable` | `DaemonSpec => Linearizable` |
| | `PayloadsAreReceivedOnce` | `DaemonSpec => []ReceivedOnce` |
| | `FailedPushesLeaveNothing` | `DaemonSpec => []FailedLeavesNothing` |
| | `AckedPayloadsAreKept` | `DaemonSpec => []LostWithItsConsumer` |
| | `ProducersAreInOrder` | `DaemonSpec => []ProducerOrder` |
| `NotifierProofs` | `NoticesAreApart` | `Spec => NoticesApart` |
| | `SilenceFollowsANotice` | `Spec => SilentAfterNotice` |
| `ConnWatcherProofs` | `WatcherTypes` | `Spec => []TypeOK` |
| | `CancelsAreOwned` | `Spec => []CancelsOwned` |
| | `ClosesAreNoticed` | `Spec => []CloseNoticed` |
| `StartupProofs` | `StartupTypes` | `Spec => []TypeOK` |
| | `HoldersKeepThePath` | `Spec => PathKept` |
| | `ClientsShareTheHolder` | `Spec => []ClientsShare` |
| `ProtocolProofs` | `ErrorsAreLast` | `Spec => []NothingAfterError` |
| | `RequestsArriveWhole` | `Spec => [](Fitting => RequestsFramed)` |
| | `AnswersReachTheirRequests` | `Spec => [](Fitting => AnswersMatch)` |
| | `NobodyWaitsForTheOther` | `Spec => [](Fitting => NoStandoff)` |
| `StressProofs` | `PrintedNumbersBalance` | `Spec => []CountersBalance` |
| | `TimeoutsAreFew` | `Spec => []TimeoutIsLast` |
| | `ExitCodesTell` | `Spec => []ExitTells` |
| | `TimeoutsReachTheDaemon` | `Spec => []TimeoutKept` |
| | `DaemonsTakeThePath` | `Spec => []SpawnedOnSamePath` |
| | `ArgumentsAreTaken` | `Spec => []ArgumentsMean` |

**Broker.**  The inductive invariant is `CoreInv == TypeOK /\ ControlOK /\
HandoffExact`.  `TypeOK` alone is not inductive: that the payload a Push appends
is a message needs `ControlOK` (which locals are in use at which `pc`), and that a
Pop which receives is no longer in the list of waiters, so that its return leaves
no dead waiter behind, needs `HandoffExact`.  The other invariants are then each
preserved under `CoreInv`, from frame lemmas: who can be in the list of waiters
after a step (`WaitersFrame`), where the queues can change (`QueuesFrame`), who
can be on the drain signal (`DrainFrame`).  `QueuedBytesExact` counts bytes as a
set, each byte by its place.  The proof counts them by payload instead, which is
the same number because of `OnePlace`: an append adds the bytes of one payload
that was nowhere, a dequeue takes those of one that is gone afterwards.

`BrokerIsLinearizable` maps every action to a step of `ChannelQueue` or to a
stutter, under `RefInv == CoreInv /\ WaitersFindNothing /\ ExpiredDone`: the
exchange of a handoff overtakes nothing because a waiter's channels are empty
(`WaitersFindNothing`), and a Pop that removes its own waiter has an expired
context (`ExpiredDone`).

**Daemon.**  `HandlersUseTheBroker` says that `Daemon` implements `Broker`: a
handler calls `Push` and `Pop` only when its last call has returned, with a
request that `Broker` has an action for.  Every invariant of the broker holds in
the daemon by that theorem, and so does the refinement of `ChannelQueue`.
`DaemonInv` follows a payload from the request that carries it to
the client that gets it: `StagesOK` ties the client's request, the handler's place
and the broker's `pc`; `OneOwner` extends `OnePlace` to what has left the broker;
`Fate` says that a payload is nowhere before its push is called, nowhere after a
push that failed, and somewhere once one succeeded, which is decided when the
broker returns and not when the answer is read.  For the order of a producer,
`OrderInv` adds `WaitersFindNothing` (a handoff passes no queued message) and that
of two payloads of one producer the older is before the younger in the queue,
leaves it first, and is in the client's hands first.

**Notifier.**  `SwapsApart`: a callback that is about to swap has seen an interval
since the value it compares with.  `Punctual`: while the clock was not set, what
callbacks have read and stored are real times in the right order.

**ConnWatcher.**  `CloseNoticed` is inductive only with the life of a descriptor
(`DescriptorsOK`), with the places in `handleConn` at which a connection is in
epoll and in the map (`RegistrationOK`), and with `CancelKept`: the cancel
function of a watched connection leaves the map only to be called.

**Startup.**  Nothing is assumed about who starts and stops when.  `OneDaemon` is
false (run `startup_race`), and `PathKept` says how far the code gets: once x, a
daemon or a plain file, has the path, and no other daemon is in a place from which
it would unlink the path without looking (`Away`), this stays so under every step
of every other process, until x stops.  The only other way out is a `stat` that
finds a socket which is bound and does not listen yet (`InTheGap`).  The proof goes
through the steps of another daemon: its `stat` sees the file, its probe is
answered, its `bind` fails.  That a probe is answered needs `SocketsKnown`: who
listens is known from the place in `serve`.  The same invariant ties connections to
daemons that are still there, which gives `ClientsShare`.

**Protocol.**  The decoders read back what the encoders wrote, at every length,
width and limit, whatever bytes follow; of a proper beginning of an encoding
they make an error that means "more bytes are needed".  `InStep` then says
where in the two buffers and the two directions of the socket the request and
the response under way are.  `Fitting` is about the example client: its names,
the number of its channels and its payload fit their length fields.  The client
does not check that (`uint16(len(channel))` drops the high bits), so without it
the properties are false; `rpcClient` checks, and needs no condition.

**Stress and CommandLine.**  `RunBalance` counts an answer that is on its way to
its worker, and `TimeoutsClose` that every timeout has closed a connection.  The
command line needs what the loop over the arguments makes of its options: a
setting is the default or a converted value (`Settings`).  `Numbers` and
`Durations` have values that an int64 can hold (assumed, as `strconv` and `time`
guarantee), and the rest is arithmetic in words that wrap around.

`ArgumentsMean` reads the arguments without a loop: the value of an option is at
its last place, and the k-th name is the argument at the k-th place that holds
neither an option nor a value.  `Reads` is what ties the loop to this after each
argument: which option waits for its value, that the words so far are listed in
their order by an increasing function from their number to their place
(`Enumerates`), and that every other option is set by its last place so far.
A pop makes a second pass over the words that the first one left, whose places are
not those of the command line: `TwoPasses` composes the two enumerations, and
`NextWord` shows that an option and its value, which are neighbours among the
arguments, are still neighbours among the words.  The property leaves out command
lines that have an option as the value of another one, where the order of the two
passes decides.

**Arithmetic.**  The library's induction theorems take a predicate as parameter,
which the provers at hand cannot instantiate.  `Induction` states the
same of a set, from the well-foundedness of `<` on the naturals, and
`RecursiveFunction` and `OnlyRecursion` make a function that is defined
recursively on `0..n` usable; that is how `Value`, `readStrings` and `Parse` are
reasoned about.  `2^(a + b) = 2^a * 2^b` is proved by counting subsets.

Only model-checked:

* `RoomUnblocks`, `PopReturns`, `NoWaiterStarves`, `CloseUnblocksPush`,
  `RestartServes` and `RunEnds`: fairness and `ENABLED` are out of the prover's reach.  All other
  properties of the passing runs are proved.
* The four counterexamples, of course.

## Not modelled

Left out for good: shell scripts and service files, printing, measuring and
usage texts, the making of stress payloads; the Python and PHP clients, which
make the same requests as the example client in Go; `connWatcher.close`, after
which the process ends, and with it the error of `EpollWait` that ends `run`, which
a descriptor that is closed gives; the branch of `clientError` for `ErrTimeout`, which no
error of the client wraps; and names of 64 KiB and more given to the example
client, whose length field then wraps.
