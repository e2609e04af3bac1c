# Formal models of mcrx-core

TLA+ modules for the multicast receive library mcrx-core (Rust, with C and
Python bindings), the TLC configurations that check them on small instances,
and TLAPS proofs, for every instance, of most of their safety properties and of
one refinement. `PROJECT.json` lists the components, the runs, a mutant for
every property, the source lines behind every definition, the findings, the
hazards and the theorems.

## 1. The system

mcrx-core receives multicast without blocking and without threads of its own;
around the core are an adapter for Tokio, C bindings with a background worker,
Python bindings with asyncio helpers, and demo receivers that log metrics.

| Component | State | Operations | Interacts with | Hard behaviour | Correct means |
|---|---|---|---|---|---|
| `SharedRawContext` (`src/raw/shared.rs`) | subscriptions, cache of resolved interfaces, captures with reference counts and demultiplexers, capture order and index, pending queue, counters | add, join, leave, remove, `try_recv_any`, `try_recv_batch_into` | raw platform layer, kernel memberships | shared memberships, interfaces resolved at three times, joins and reads that fail half way, packets pending while their subscriptions leave, flooding | nothing but the membership of a place is shared between subscribers; counts, kernel, demultiplexers and order agree; pending packets are bounded, in order, never lost; calls return |
| UDP `Context`, `Subscription` (`src/context.rs`, `src/subscription.rs`) | vector of subscriptions, scan index, counters; lifecycle state and socket of each | add, add with a socket, remove, take, join, leave, receive one / any / batch / all | platform layer | index over a vector with `swap_remove`, interfaces that move, foreign datagrams, sockets with a past, failing batches | the scan stays in range and is fair; state and kernel agree; every wanted datagram is delivered once and in order |
| `RawContext`, `RawSubscription` (`src/raw/`) | vector of raw subscriptions, scan index; two kinds of sockets, BPF block of each | add, remove, join, leave, receive one / any | raw platform layer | joins and leaves over several sockets, block reads, duplicates on Windows | as the UDP context |
| Platform layer (`src/platform/`) | sockets | open, adopt, resolve, join, leave, filtered receive with a budget, filter programs, header parsing | kernel | budgets at their limit, bytes | filters and parsers lose and invent nothing |
| Configuration (`src/config.rs`, `src/raw/config.rs`) | none | validate, convert | contexts | address classes | what validates can be joined |
| Tokio adapter (`src/tokio_adapter.rs`) | owned subscription, cached readiness | new, into_subscription, recv | `AsyncFd`, `Subscription` | an event between would-block and `clear_ready`, cancellation | recv does not sleep on a queued packet |
| C bindings (`mcrx-core-ffi/src/lib.rs`) | worker generation, handle, condition variable, error slot, alive flag | start, stop, poll, free, one-call wrappers | UDP context behind a mutex, user callbacks | threads; callbacks that stop, restart and free; missed wakeups; self-join | no worker is lost, replaced workers are harmless, calls return, stop is prompt |
| Python asyncio helpers (`mcrx-core-py/`) | reader handles, timers, duplicated descriptors | `add_reader`, `recv`, close | event loop, one subscription | callback order, removal while a reader waits, cancellation, fallback to polling, a registration that raises | every descriptor has an owner or was lost to an error of the loop, readers end with their subscription, packets are not lost |
| Metrics, JSONL (`src/metrics.rs`, `src/jsonl.rs`) | previous snapshot; files and their locks | sample, open, append, ensure header | contexts, file system, other processes | crashes, cut writes, a clock that goes back | one header on top, damage is bounded, deltas add up |
| Demo programs (`src/bin`) | arguments, writers | parse, start, receive, summarise | contexts, metrics | spellings, environment | a log is about one receiver |

All methods of the contexts take `&mut self`: two methods never interleave. What
interleaves with a receive call is the kernel, between any two of its reads. In
the C bindings threads interleave, at every access to shared state. The asyncio
helpers interleave at the callbacks of one event loop, the metrics logs at the
file accesses of several processes.

## 2. Modules

| Module | Models | Used by |
|---|---|---|
| `Subsequences` | the elements of a sequence at some of its positions (operators) | `SharedRaw`, `UdpContext`, `AsyncioReaders` |
| `SubsequenceProofs` | what picking elements does when a sequence grows or shrinks | the other proofs |
| `SharedRaw` | `SharedRawContext` with `recv_shared_raw_datagram` | the next six |
| `IndependentSubscriptions` | abstract: what `SharedRawContext` promises | `SharedRawRefinement` |
| `SharedRawRefinement` | the mapping from one to the other | `MCSharedRaw` |
| `SharedRawFlood` | `SharedRaw` under traffic that never stops (liveness) | its own run |
| `SharedRawProofs` | theorems about `SharedRaw`: the membership bookkeeping, receiving | the next |
| `SharedRawRefinementProofs` | the refinement of `IndependentSubscriptions` | TLAPS |
| `UdpContext` | `Context`, `Subscription` and the UDP platform layer | `MCUdpContext`, `UdpContextProofs` |
| `UdpContextProofs` | theorems about `UdpContext` | TLAPS |
| `ConfigRules` | validation and conversion of configurations (operators) | `RawFrames`, `ReceiveArgs` |
| `RawFrames` | filter programs, link layers, IP headers (operators on bytes) | `RawContext` |
| `RawContext` | `RawContext`, `RawSubscription` on three platforms | `MCRawContext`, `RawContextProofs` |
| `RawContextProofs` | theorems about `RawContext` | TLAPS |
| `FfiWorker` | the worker, start, stop, poll, free and the subscription calls of the C bindings | `MCFfiWorker`, `FfiWorkerProofs` |
| `FfiWorkerProofs` | theorems about `FfiWorker` | TLAPS |
| `TokioAdapter` | `TokioSubscription` over `AsyncFd` or over the polling loop | its own runs |
| `AsyncioReaders` | the asyncio helpers on one subscription | its own run, `AsyncioReadersProofs` |
| `AsyncioReadersProofs` | theorems about `AsyncioReaders` | TLAPS |
| `Jsonl` | metrics files and the header protocol (operators) | `MetricsLog` |
| `ReceiveArgs` | the command line of the receivers (operators) | `MetricsLog` |
| `MetricsLog` | receivers with their samplers, writers and crashes, and other programs | `MCMetricsLog`, `MetricsLogProofs` |
| `MetricsLogProofs` | theorems about `MetricsLog` | TLAPS |

### SharedRaw

Variables carry the code's field names. `captures` maps a capture key (family,
interface index) to its membership count, its kernel memberships and its
demultiplexer; the demultiplexer is the set of its (id, group, source) entries,
and the code's sorted id vectors are sets whose `first()` is the least element.
`kernel`, `queue` and `arrivals` are the operating system: what each socket is a
member of and on which interface, what it has buffered, what has arrived.

add, join, leave and remove are one action each, including all they call:
`JoinFails` is the join the kernel refuses, with the roll-back of the socket
opened for it; `Leave` includes the rewrite of the pending queue and the removal
of the capture. A receive call is a sequence of steps: `TryRecvAny` or
`TryRecvBatchInto` starts it, `VisitCapture` is the head of the loop over
captures (where the index advances), `CaptureDatagram`, `SkipUnparsed`,
`WouldBlock` and `ReceiveFails` are one `recvfrom` each, `LeaveInnerLoop` the
checks of the inner loop, `FillReturns` what the caller of `fill_pending` does
with the result. The locals are in `call`. A datagram that does not parse has no
group and no source; one stands for all of them.

`Resolutions` gives for every selector the keys it may resolve to, so that one
selector may resolve differently at different times and two selectors may resolve
to one capture. The code resolves three times, and so does the model: for the
capture when the first subscription with a selector is added
(`ResolveCaptureKey`, cached), for the membership when it is joined (`KernelJoin`)
and when it is left (`KernelLeave`), the last two from the configuration and not
from the cache. A membership is therefore kept with the interface it was joined on.
A leave that resolves to another one finds nothing and fails.

A failure that leaves everything as it was is a stuttering step and has no
action: unknown id, wrong state, limit reached, resolution or opening of the
socket failed, leave refused.

### The abstract specification

In `IndependentSubscriptions` a subscription has a place (capture key, group,
source) and an inbox of its own. Datagrams captured at the key go to the inbox of
everybody joined who matches; leaving empties one's own inbox; a caller takes a set
of datagrams that are the oldest of every inbox they are in. The host has one
membership per place while somebody is joined there: on an interface that the first
to join could name when it joined, until the last one leaves or is removed. The
mapping in `SharedRawRefinement` reads the inbox of a subscription off the one
pending queue, the memberships with their interfaces off the kernel, and the
datagrams handed over off the caller's buffer. That the detailed specification
implements it says that no sequence of others' leaves, removals, refused joins,
failed calls and full queues shows to a subscription, and of their joins only
this: who is first at a place chooses the interface of the membership.

It does not say that the membership is where the capture is. The code does not
keep the two together (`shared.rs:463-477` resolves the configuration again): if
the address of the first to join has moved since its interface was cached, the
membership is on the new interface and the capture on the old one. Everybody who
joins the same place then shares that membership, also who names the captured
interface by its index, and is deaf until the last of them has left. No document
promises otherwise, so there is no run about it; the state is reachable in
`shared_receive`.

### UdpContext

`subscriptions` is the code's vector, indexed from 0 by the code and from 1 by
the model (`At`). `sockets` is external: memberships and buffered datagrams of
every open socket, also of subscriptions the caller took out of the context.
`OpenBoundSocket` opens one; `Adopt` takes one of the caller's (`ExistingSockets`),
which must be bound to the configuration's port (`CanPrepare`) and keeps what it
has queued. `links` is the current index of every interface address; it changes
between calls, and every join and leave resolves again: the code does for an IPv6
address, the kernel for an IPv4 address, which it is given as it is. A kernel may
therefore find an IPv4 membership by its address although the address has moved, or
only by the interface that carries it now; `Leavable` has both. The host's default
interface, index 0, is taken not to change while a socket is joined on it. A datagram carries the
control messages the kernel attached to it; `ApplyAncillaryData` is the loop over
them, `Metadata` what comes out, and a datagram whose destination stays unknown
makes the receive fail and is consumed. `IsFor`, which the property uses, looks
at where the datagram was really sent. `arrived`, `received`, `direct` and
`overtaken` are history. The calls with and without metadata have the same
control and are one action; `try_recv_all_into` is a batch of
`MAX_DRAIN_PACKETS_PER_CALL`. Of the metrics the packet counters are kept.

### RawContext, RawFrames, ConfigRules

The build is a variable (`platform`), chosen at the start. A capture is what
`open_raw_socket` of the platform binds (`LinuxCapture`, `AppleCapture`,
`WindowsCapture`). On Linux it captures every frame of every interface from
`socket` until the filter is attached and it is bound; `Early` is what it may have
queued by then, at most one frame. Nothing takes it out again: a wanted datagram of
another interface is handed out, which `ReceivedExact` counts as one that reached
the socket, and everything else is dropped by the parser and the last check of the
receive loop. In `SharedRaw`, which does not tell interfaces of arriving datagrams
apart, such frames are arrivals like others. `Parts` are the sockets that join: the
membership socket, on Windows both receive sockets too. `JoinFails` is the join that fails at a later
part, with a roll-back of which any part may fail; `LeaveSubscription` may fail at
any part behind the first.

Frames are bytes. A configuration's filter program is built by `BpfIpFilter` or
`AppleSubscriptionFilter` instruction by instruction and run by `BpfAccepts`
(external: the kernel); what passes is queued. On Linux and Windows a read takes a
datagram; on macOS it takes a block of any number of frames, of which a call hands
out the first that matches and keeps the rest. `StripAppleLinkLayer` and
`ParseIpDatagram` are the parsers. What the sender meant (`Wanted`, `Content`) is
defined on the frame before it is encoded and never looks at bytes. The assumption
`FrameAssumptions` compares the two for each frame, configuration and link layer:
the filter admits what is wanted, the parser finds its content, and parser and last
check together find nothing else. TLC evaluates it on the frames of the run, and
`ReceivedExact` says what queues, filters, blocks and calls make of them.

Addresses in `ConfigRules` are sequences of octets: the class tests are the code's
tests. `AddSubscription` tries any configuration and validates it.

### FfiWorker

One step is one access to shared state. A worker is identified by its generation.
`loc` says where a thread is (in the worker loop, in a poll, in a callback or
outside), `call` where it is in a call of start, stop or free; a thread in a
callback may make such calls, as far as `CallbackOps` allows. The mutex around
the handle is held from `StartLock` to `StartReturns`; `idle_wait` is held while
a worker is `parking`, and parking releases it, as `wait_timeout_while` does. Adding,
joining, leaving and removing a subscription hold the context mutex for the whole
call and are one step each; a worker or a poll receives only while the subscription
is joined (`Ready`).
`FreeStore` has the precondition of the documented contract: no other thread is
inside a call of start, stop or free.

### TokioAdapter

`AsyncFd` is external. It is modelled from what the adapter relies on: edges
reported by the kernel, a driver that turns an edge into cached readiness and a
tick, `clear_ready` that has no effect if an event came after the guard was
obtained. `build` tells the Unix build from the others, where the same receive
path runs in a sleep-and-poll loop.

### AsyncioReaders

Everything runs in the thread of one event loop; a step is a callback, or the part
of a task between two awaits, except that a drain is one step per packet, with the
user's callback between two of them (`Drain`, `CallbackReturns`, `CallbackRaises`,
`CallbackCloses`), and the application may remove the subscription, leave or
receive inside a callback. `fds`, `registered` and `timers` say what each reader
and each recv owns. A helper works on a duplicate of the descriptor: the kernel's
socket lives until the last one is closed (`SocketAfter`). `platform` is what the
loop and the subscription offer, and `Registrations` what may come of duplicating
and registering a descriptor: it is registered; or one of the two cannot be had and
a polling timer takes over; or `loop.add_reader` raises something else (the
`RuntimeError` of a closed loop, the `OSError` of the selector), which neither
`add_reader` nor `recv` catches. The error then reaches the caller, the duplicate
stays open and nobody has a handle for it: the reader or recv is "raised". A packet
callback may return, raise an `Exception` (`CallbackRaises`: the reader is closed)
or anything else (`CallbackBreaksOut`: the handlers do not catch it, the handle
stays open, and a polling reader is not scheduled again: "dropped"). A loop given by
the caller may be closed.

### MetricsLog, Jsonl, ReceiveArgs

A file is a sequence of lines, a line the sequence of the texts written to it: a
write may be cut in the middle of the text or before the newline (`Cuts`), and the
next text is then glued to it. `EnsureHeader` is the protocol every writer follows
under the lock. A receiver is started from a command line (`ParseReceiveCliArgs`)
that passes validation; it opens the network log and, where there are hardware
counters, the hardware log; then it receives, samples and appends, and may die at
any step. Other programs use `append_jsonl_sample_row` and `ensure_single_header`.
The clock may be set to any time. `AsksFor` says what a command line asks for
without following the parser's control; `LogOfOneReceiver` compares with it.

One rule of the parser is worth knowing: `--interface` with a mere index (IPv6)
leaves the address open, so that one more positional argument replaces the
interface. The models have it; no document speaks of it.

## 3. Runs

| Run | Shows |
|---|---|
| `shared_receive` | agreement of counts, kernel, demultiplexers, order and cache over every order of add, join, refused join, leave and remove; the pending queue: labels, bound, order, counters; leaving leaves others alone; every step of a call brings its end nearer; the shared context implements `IndependentSubscriptions`, so no packet is lost on an error path and no membership goes before the last who is joined on it |
| `udp_receive` | exactly the wanted datagrams, once and in order; counters; lifecycle state and kernel membership agree while interfaces move; every step of a call brings its end nearer; the scan stays in range through removals; a ready subscription is overtaken at most once by each other |
| `raw_context` | on three platforms: filters, parsers and blocks hand out every wanted datagram once, without padding, in order; membership and lifecycle agree through failures half way; the capture is where the membership is; what validates converts; calls end. Filter programs and parsers are compared with their meaning by `FrameAssumptions`, and the filter of a shared capture by an assumption of `MCRawContext`; TLC evaluates both on the same frames |
| `ffi_worker` | no worker is lost; a replaced one reads nothing and disturbs nothing; free ends delivery |
| `ffi_calls_return` | every call returns, with callbacks that may free |
| `tokio_recv` | recv does not sleep on a queued packet, on `AsyncFd` and in the polling loop |
| `asyncio_readers` | descriptors and timers are accounted for, with the lost ones named; no packet is lost or doubled by cancellation, timeout or close; a closed reader stays silent; removal ends every recv and every reader the loop serves; the loop's readers serve what arrives |
| `metrics_log` | a header on top and nowhere else; a cut write costs at most one acknowledged row; the two headers agree; a restart is accepted; deltas add up unless the clock went back; a log is about one receiver |

Four runs are expected to be violated. Each states what a document, a comment
or a test of the repository says and shows what the code does instead:

| Run | The code |
|---|---|
| `shared_starvation` | `fill_pending` advances the capture index once more before it notices that the target is reached: with two captures, one always busy, `try_recv_any` never reads the other. Documented as round-robin |
| `ffi_missed_wakeup` | the notification of a stop is sent without `idle_wait` and may be missed; the worker sleeps its whole idle interval. Documented as prompt |
| `ffi_stop_hangs` | a stop clears the generation before it takes the handle; after a stop-then-start in between it joins the running replacement for ever |
| `tokio_filtered` | a `None` that comes from the filter budget clears readiness: recv sleeps on a queued packet |

Smaller observations from the models have no run of their own:

* the filter budget makes `Ok(None)` mean less than "no packet is currently
  available" (docs/usage.md; `Filter` in `UdpContext`);
* packets of a batch that fails later are missing from `batch_packets_received`,
  which `MetricsAgree` therefore bounds from one side only;
* after stop-then-start inside a callback the replacement's callback may run
  before the first has returned;
* on Windows the primary raw socket is read before the UDP socket, so order is
  kept within UDP and within the rest, not between them, and a leave that failed
  half way cannot be completed by a second leave (`half_left`);
* datagrams queued before a leave are delivered after the next join;
* a reader added to a subscription that has not joined waits silently on a
  descriptor, and closes itself in the polling mode;
* `try_recv_any` of the UDP and raw contexts does not advance its index on an
  error: a socket that keeps failing hides the subscriptions behind it;
* `start` of the C bindings clears the error slot when the worker is already
  running and can erase the error of a worker that failed at once;
* with the shared raw context, a membership follows an address that has moved and
  the capture does not (section 2);
* a Linux raw subscription may hand out a datagram of another interface that
  arrived while its capture was being opened;
* an error of `loop.add_reader` other than `AttributeError` and
  `NotImplementedError` loses the duplicated descriptor (`asyncio.py:159-165`,
  `269-279`). The kernel's socket and its membership then outlive the removal of
  the subscription, although docs/python.md:103-106 has the duplicate closed when
  the subscription is removed. `DescriptorsAccounted` and `RemovalObserved` count
  these descriptors in `Lost`;
* a polling reader whose callback ends in a `BaseException` serves nothing any more
  and does not close itself when its subscription is removed, as
  docs/python.md:115-118 says of reader handles;
* a `LookupError` raised by the user's packet callback is taken for a removed
  subscription and closes the reader silently, and a reader drains until its
  socket is empty, however long datagrams keep arriving;
* a row that a crash cut short makes every later `MetricsJsonlWriter::open` of
  the file fail, while `append_jsonl_sample_row` goes on behind it: for this
  reason `RestartAccepted` speaks of files without a cut write.

### Bounds

Every bound is a constant with a comment in its module.

* `shared_receive`: three configurations over two selectors and two captures; two
  subscriptions at a time, three ever, so that duplicates share a membership, a
  selector resolves differently after a complete release, a membership is joined
  elsewhere than it is captured and shared there, and a capture other than the last
  is removed; two datagrams (parseable or not, from two sources), pending
  limit 2, batches of 3, filter budget 2, counters that saturate at 2. A batch of
  3 exceeds the pending limit, so it fills twice; a failed batch leaves packets
  behind; the match counter saturates. Larger numbers of subscriptions are what
  the proofs are for.
* `shared_starvation`: a socket read empty may fill again at once and for ever;
  counters saturate at 0 and `arrivals` stands still, so the state space is finite.
* `udp_receive`: two subscriptions, one on an IPv4 address that moves
  between two indexes or disappears, one on an explicit index; three datagrams
  out of four kinds, told by one, two or no control messages; a caller's socket of
  the wrong port and one with two datagrams queued; filter budget 2.
* `raw_context`: five configurations, two of them invalid, two at a time; eight
  frames: wanted, padded, cut, tagged twice, from another source, unicast, a
  jumbogram; an Ethernet and a loopback interface; one move of an address; two kinds of
  frames, one for each subscription, may meet an unbound Linux socket; filter
  budget 2, so that a second read is filtered and a third is not made; a queue of
  2, so that a block holds one or two frames.
* `ffi_worker`: three generations suffice for a worker, its replacement and the
  replacement's replacement; two application threads, which are symmetric; two
  packets. The liveness
  runs use one application thread and two generations.
* `tokio_recv` has a filter budget equal to the number of arrivals, so that
  nothing is queued when it runs out; `tokio_filtered` is the same model with a
  smaller budget.
* `asyncio_readers`: two readers, so that one closes the other, one recv, two
  datagrams, filter budget 1, so that one foreign datagram makes `recv_nowait`
  return nothing with a packet queued.
* `metrics_log`: two runs on two processes (symmetric), four lines, of which a
  header and a glued pair take three; clock and counters 0 or 1, which is enough
  for a step back and for a delta that is missed. Nine command lines: three
  spellings of one receiver, one of another, five that are refused.

`CHECK_DEADLOCK FALSE` is used where the bounded environment (ids, arrivals,
generations) may be exhausted with the application idle.

### Fairness

* `SharedRawFlood`: weak fairness of the receive call's own steps, which run in
  the caller's thread; `PollSpec` adds that the caller keeps polling.
* `FfiWorker`: weak fairness of every thread's own steps. Strong fairness of the
  acquisition of a contended `idle_wait`, of the timeout of an idle wait (its
  deadline is fixed however often it is woken), and of the return of a callback
  (it makes finitely many calls). No fairness of any call by the application or
  of arrivals.
* `TokioAdapter`: the runtime polls a task that can run and turns its driver.
* `AsyncioReaders`: strong fairness of a due timer, a readable descriptor and a
  task that can run: the loop has a first-in first-out queue of ready handles and
  asks the selector and its timers on every turn, so what is due again and again
  is not passed over for ever. Weak fairness of the callback in progress. None of
  the application or of arrivals.

`TypeOK` of `SharedRaw` is a property of its run; in the other modules it documents
the variables and is part of the inductive invariant of their proofs.

The other runs check safety only and assume no fairness. That receive calls end
is stated there as an action property (`ReceiveProgresses`, `ScanProgresses`):
every step of a call makes a rank smaller, whatever arrives meanwhile.

## 4. Proofs

The theorems hold for every value of the constants that satisfies the named
assumptions of the modules: any number of subscriptions, captures, threads,
readers and datagrams, any budget and limit.

| Module | Proves, as a theorem of the specification |
|---|---|
| `SharedRawProofs` | `MembershipCounts`, `SharedStateExact`, `CaptureOrderInSync`, `TypeOK`, `PendingNamesJoined`, `ReceiveBounded`, `CaptureFifo`, `MetricsAgree`, and the action properties `LeaveIsolated`, `ReceiveProgresses` |
| `SharedRawRefinementProofs` | `SubscriptionsIndependent`: the refinement |
| `FfiWorkerProofs` | `WorkersAccountedFor`, `ReplacedWorkerIsDone`, `FreeEndsDelivery`, and the action property `ReplacementUndisturbed` |
| `UdpContextProofs` | `ScanInRange`, `StateMatchesKernel`, `ReceivedExact`, `MetricsAgree`, `BoundedOvertaking`, and the action property `ScanProgresses` |
| `RawContextProofs` | `ScanInRange`, `StateMatchesKernel`, `CaptureFollowsMembership`, `ValidatedConverts`, `ReceivedExact`, and the action property `ReceiveProgresses` |
| `AsyncioReadersProofs` | `DescriptorsAccounted`, `PacketsOnce`, and the action property `CloseIsFinal` |
| `MetricsLogProofs` | `HeaderFirst`, `DamageBounded`, `PairConsistent`, `RestartAccepted`, `DeltasAddUp`, `LogOfOneReceiver` |

Every proof has the same layout: facts about the operators of the model, one lemma
per action or group of actions for each part of the inductive invariant, a lemma
for the initial states, and the temporal theorems.

### Filtering without induction

What is queued, pending and wanted is selected from sequences, and what a
recursive selection returns cannot be proved without induction. `Picked(s, K)` of
`Subsequences` therefore names the positions to keep by a set `K`: its n-th element
is the element of `s` at the member of `K` with exactly n members up to itself.
`SubsequenceProofs` shows that such a member exists and is unique (by the finite
cardinalities of initial segments, with `LeastNatural`, the least element of a set
of numbers, in the place of induction), and from it what happens when an element
is appended (`PickedGrows`), when a prefix goes (`PickedShrinks`, `PickedFirst`),
when positions are renamed (`PickedMoved`) and when a sequence is cut in two
(`PickedSplits`).

### SharedRaw

The assumptions are `ConstantAssumptions`. The bookkeeping comes first: a capture
is open exactly while a subscription is joined on it and its counts are the numbers
of joined subscriptions; the kernel, the demultiplexers and the cache of resolved
interfaces hold exactly what the counts say; the order lists each open capture once
and its index is in range. Together these are what every `expect`, `checked_sub` and
indexing of the join, leave, remove and visit code relies on. The inductive
invariant is `Bookkeeping`: the types of the registry and the sockets, these
properties (`SharedStateExact` is three of its conjuncts) and `CallHasCaptures`.
None is inductive alone. A leave keeps the membership count exact only if the kernel
reference count is exact, which needs that a holder is joined on the capture its
subscription names; removing a capture keeps the order only if the order lists
exactly the open captures; a visit keeps the index in range only if a call in
progress has a capture to visit. The common part of leaving and removing is
`LeaveStep`, the vector operations are `ListsAppend` and `ListsRemove`, steps that
touch none of this are `QuietStep`.

Receiving rests on it. `ReceiveInv` adds the types, the shape of the call's locals
(`CallShape`), and `Flow`: tags grow along each queue and along what is handed over
and pending for one key, and what is accepted is older than what is queued. That a
pending packet names only joined subscriptions needs that the demultiplexer lists
exactly those (`MatchesExact`, from the bookkeeping) when it is queued, and that a
leave rewrites all of the queue when they go.

The refinement theorem maps a step of the shared context to a step of
`IndependentSubscriptions` or to none. Join, leave and remove use the bookkeeping
(the host is a member of exactly the places somebody is joined at, once each,
`HostExact`, and stays where it is when another joins or leaves there);
`CaptureDatagram` appends to the inboxes of exactly the joined subscriptions that
match; a call that takes the first n pending packets takes from every inbox a prefix,
which is `PickedSplits` for the one queue and every inbox. A failed call, a full
queue and a refused join map to no step.

### FfiWorker

The assumption is `FfiAssumptions`. `WorkerInv` adds to the properties where every
thread can be (`Placed`), that one thread is between `StartLock` and `StartReturns`
and finds no handle there (`MutexHeld`), that only the latest generation can be
active or have a stored handle (`Generations`), that whoever stops itself is not
active (`StoppedInactive`), and what is left after free (`Freed`). That workers
never wait in a circle is the part of `WorkersAccountedFor` that needs
`Generations`: a worker joins what it found stored, which is later than itself.

### UdpContext

The invariant has layers. `Placed`: types, ids, one socket per subscription, and
memberships (`Members` says "exactly one" without counting); the index stays in
range through `swap_remove` because `SwapRemoveFacts` says where every entry went.
`ReceivedExact` and `Sums` follow the datagrams; `BatchCounted` is what keeps the
batch counter below the total while a batch is running. `InOrder` is the fairness of
the scan: who was overtaken is still ready within the filter budget, the scan has not
passed it, and the distance from `next_recv_index` to it around the vector
(`Distance`) is smaller than the number of others that have not overtaken it yet.

`ReceivedExact` compares the code's matching, which looks at control messages, with
`IsFor`, which looks at where a datagram was sent. They agree under
`ControlMessagesTell`: what the kernel tells is true, and unless it tells nothing it
tells both address and interface. That holds for the options the code sets on the
platforms modelled.

The proof of `BoundedOvertaking` corrected the model: `try_recv` on one subscription
takes its packet out of turn, and a count of who overtook it must start anew then.
With four datagrams TLC shows the same; the run's three did not reach it.

### RawContext

The assumptions are `RawAssumptions` and `ConfigAssumptions`: every group is of one
of the two families, and the interface a valid configuration names exists (the code
refuses one that does not when it opens the sockets). `RawInvariant` adds to types
and `ScanInRange` three parts. `Stored`: ids are unique, and what is stored was
valid and supported. `Members`: `StateMatchesKernel` without counting, with what
failures leave behind. A failed leave leaves no membership to leave with, so the
subscription stays joined; a failed roll-back leaves a membership under the key of
the next join, so the subscription stays bound. Without these two clauses a second
leave or join could end in a state `StateMatchesKernel` forbids. The second also
needs that the key cannot change in between: roll-backs exist on Windows only, whose
captures are IPv4, whose keys are addresses and not indexes (`MoveFacts`).
`Captures`: a capture is bound where a membership made now would be, which is what
makes a later join come out on the same interface; that two resolvers written
separately agree on it is the lemma `IndexOf`.

`ReceivedExact` needs `FrameAssumptions` too, and `Delivery`, inductive together with
`RawInvariant`. Its parts: `Histories` (what came and what was handed out are
contents of frames, and a removed id has none), `CaptureSound` (there is a block on
macOS only, one queue per capture except on Windows, whose UDP queue holds UDP only;
elsewhere the filter in the kernel admits every wanted frame) and `Account`, the
equation of `ReceivedExact` for each class of protocols. `Account` needs
`CaptureSound`: a wanted frame that the filter dropped, or that went to the wrong
socket of Windows, would count as arrived and be owed by no queue. A step disturbs
the account of one subscription in one of three ways: a frame arrives
(`ArrivalBalanced`), a call takes the oldest frame (`ReadBalanced`), or a call takes
a block (`SplitFacts`) and searches it (`BlockFacts`), where what it passes over is
not owed (`OwedDrops`).

`ReceiveProgresses` compares ranks digit by digit (`RankLess`). Every step of a call
is one of the steps of `Onward` (the next subscription, the other socket, one more
read, the end), or reads a block; a frame that arrives only lengthens queues.

### AsyncioReaders

The assumption is `AsyncioAssumptions`. `Handles` says who owns what, `Traffic` what
became of the datagrams; the second uses the first where `add_reader` may open a
descriptor only of a subscription that still exists, as the socket would otherwise
come back to life without its datagrams. `CloseIsFinal` follows from what a step can
hand out at all (`Served`): to a recv, to the application, or to an open reader.

### MetricsLog

The assumptions are `MetricsAssumptions` and `ParserAssumption`: command lines the
parser makes one configuration of ask for one thing. The parser folds over its
arguments, so TLC checks this one, on the command lines of the instance; only
`LogOfOneReceiver` uses it.

None of the six properties is inductive, since what a writer may append depends on
what the files became under every earlier crash. `IInv` has a part for one file
(`FilesSound`), parts that relate files to runs, and one for the receivers.

* `Shaped`: the first text of a file is a header of its artifact and every other
  text is a row, also the texts glued into one line; only a file with a line can
  be unfinished. `HeaderFirst` needs it of texts no reader sees, as the first line
  may be damaged.
* `Damage`: acknowledged rows that cannot be read *plus one for an unfinished line*
  are at most the cut writes. The unfinished line is the credit that pays for the
  row glued to it later, which is then lost though its own write succeeded; the row
  in the unfinished line is not acknowledged. `WriteLoses` and `WriteDamage` say
  what one write does to this balance.
* `Ledger`: rows are numbered in the order of writing, and each accounts for the
  progress since the row of its run before it.
* `RowsTitled`, `PairTitled`: a log with rows of a run shows the flags of that run,
  and a hardware log the flags of the network log.
* `Sound`, of each receiver that runs: past the opening of a log its own flags are
  there, and its baselines are what its rows show, or more if the clock was set
  back (`Accounted`). `RunsUnique` keeps one receiver's rows out of another's sums.

`ActionKeeps` puts a step together from its parts, and `Logged` and `Unlogged` say
what becomes of the files when it writes or does not. `LogOfOneReceiver` follows
because the flags show all of a configuration (`SameFlagsSameConfig`): the interface
as its address or its index, the source by its presence, and nothing the environment
names replaces them.

### Only model-checked

* Liveness (`CallsReturn`, `RecvReturns`, `RemovalObserved`, `ReaderServes`):
  temporal reasoning under fairness is out of the prover's reach.
* What filter programs and frame parsers compute, as far as it is
  `FrameAssumptions`: induction over instructions and bytes, evaluated on the frames
  of the instance.
* What the parser of command lines computes, as far as it is `ParserAssumption`.

## 5. Not modelled

* Socket options (reuse, buffer sizes, non-blocking mode), the byte layout of
  control messages and the `WSARecvMsg` path of Windows: system-call glue. What
  control messages say is modelled for Unix.
* BPF records as bytes: a block is a sequence of frames. Malformed records and
  reads of length zero come from the kernel only.
* What a kernel makes of several memberships of one group on one socket, any-source
  and source-specific at once: each is kept apart, as the code's reference counts
  keep them.
* The conversion of arguments in the C and the Python bindings: texts are parsed by
  rules like those of `ReceiveArgs`; the remaining Python methods are one locked
  call each.
* Packets, errors, printing, rates, formats, node names, and the environment
  variables for paths and intervals: plain data.
* The receivers that only print (`mcrx_recv_meta`, `mcrx_raw_recv`,
  `mcrx_tokio_recv`): loops around modelled calls.
* Poisoned mutexes, panics in callbacks and the reuse of a 64-bit generation are
  left out of `FfiWorker`; memory orderings are sequentially consistent there,
  which the acquire/release pairs and the mutexes justify for the variables
  involved.

## 6. Plan

Done: all modules of section 2 and the proofs of section 4. Every invariant and
every action property of a passing run is a theorem; what is left to TLC is listed
under "Only model-checked".
