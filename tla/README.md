# A verification of Uringy

Uringy is a single-threaded runtime for fibers on io_uring: structured concurrency
(fibers form a tree, parents wait for children, cancellation goes down the tree),
system calls that look synchronous, a channel, a circular buffer for byte streams, and
an HTTP server built from these. This directory holds TLA+ models of its core, the TLC
configurations that check them on small instances, and proofs that TLAPS checks for
all instances.

All paths are relative to the repository. "mod.rs" without a directory is
`src/runtime/mod.rs`.

## Inventory

| component | source | state it keeps | operations | modelled by |
|---|---|---|---|---|
| fiber runtime | `src/runtime/mod.rs`, `tls.rs` | slab of `FiberState` (parent, children, join handle state, cancelled and completed flags, system call result), ready queue, running fiber, stack pool | `start`, `spawn`, `JoinHandle::{join, cancel, cancel_propagating, drop}`, `park`, `Waker::schedule`, `yield_now`, `cancel`, `cancel_propagating`, `syscall`, both trampolines, `process_io` | `Runtime`, `RuntimeLive`, `RuntimeProofs`, `RuntimeSafety`; promise: `FiberTree` |
| system call interface | `src/runtime/syscall.rs` | the io_uring instance | `issue`, `cancel`, `wait_for_completed`, `process_completed` | `Interface` |
| unbounded channel | `src/sync/channel.rs` | queue, wakers of waiting receivers, closed flag, reference counts of both ends | `send`, `recv`, `close` of both ends, `drop` of both ends | `Channel`, `ChannelProofs`; promise: `MessageQueue` |
| circular buffer | `src/circular_buffer.rs` | head, tail, memory mapped twice | `circular_buffer`, `Data::{deref, consume}`, `Uninit::{deref, deref_mut, commit}`, drop | `CircularBuffer`, `BufferMemory`, `BufferMemoryProofs`; promise: `ByteStream` |
| stacks | `src/runtime/stack.rs` | one mapping per stack | `new`, drop | counted in `Runtime`, mapped in `BufferMemory` |
| files | `src/fs.rs` | file descriptors, the flags of an `OpenOptions` | `File`, `OpenOptions`, `read`, `write`, `copy`, `metadata`, `remove_file` ... | `Descriptors`, `DescriptorsProofs` |
| TCP | `src/net/tcp.rs`, `net/mod.rs` | file descriptors | `connect`, `bind`, `accept`, `read`, `write`, std calls on a listener, `Listener::drop` | `Descriptors`, `DescriptorsProofs`; as the server's system calls also `HttpConnection` |
| timer, error types | `src/time.rs`, `src/lib.rs` | none | `sleep`, conversions between error types | `Descriptors`, `DescriptorsProofs` |
| HTTP server connections | `src/ecosystem/http/server/mod.rs` | one buffer, one waker cell, two fibers per connection | `serve`, `handle_connection`, `reader`, `parse_partial_uri`, `RealResponder::respond`, `serialize` | `HttpConnection`, `HttpConnectionProofs`, `Routing` |
| HTTP router | `src/ecosystem/http/server/route.rs` | matcher, method routers, fallback, state | `route`, `fallback`, `with_state`, `handle` | `Routing`, `MCRouting`, `RoutingProofs` |
| HTTP payloads, handlers, test client | `src/ecosystem/http/{mod, payload, mime}.rs`, `server/fake_client.rs` | requests, responses, lazily built maps | `header`, `query`, `Responder::{status, header, send}`, `FakeClient` | `Routing`, `MCRouting`, `RoutingProofs` |
| NATS protocol | `src/ecosystem/nats/proto.rs` | none | `encode`, `decode` | `Nats`, `MCNats`, `NatsProofs` |
| macros, context switch | `macros/`, `context_switch.rs` | none | a wrapper around `main`, a jump | not modelled |

How they interact. Everything runs on one thread. A fiber runs until it parks; `park`
calls `process_io`, which first hands every completion in the completion queue to the
fiber whose slab index is its `user_data` (stores the result, schedules the fiber), then
takes the head of the ready queue, and only if there is none submits the queue of
entries and waits in the kernel. So there is no preemption between two parks, and the
concurrency is of two kinds: fibers interleave at their parks, and the kernel completes
operations at any time and in any order. Wakers are bare slab indices: whoever holds one
can schedule whatever fiber has that index, in whatever park it then is. That is the
recurring difficulty of this code. `park` has no condition: the code after the parks of
`join`, `syscall` and the trampolines asserts, unwraps or reads memory on the
assumption that it was woken for the right reason.

What is hard here: wake-ups by several parties (completion, cancellation, last child,
joined fiber, sender, reader) in any order; slab indices and stacks that are reused while
something may still refer to them; cancellation that arrives at any park and at any depth
of the tree; the submission queue at its limit; waiting chains that end only if every
wake-up arrives; counters that wrap; descriptors whose numbers are reused while a handle may still hold
them; a lookup that is used both to register and to serve; byte streams that are cut anywhere. `PROJECT.json` lists these hazards with their
lines and the properties that address them.

## Modules

### Interface

The submission queue `sq` (a bounded sequence of operations and `AsyncCancel` entries),
the set `inflight` of operations in the kernel, the subset `cancelling` an `AsyncCancel`
has found, and the completion queue `cq`. `Issue` is `Interface::issue`: a full queue is
submitted first. `WaitForCompleted` is `submit_and_wait(1)`, and `ReadCompletion` one turn
of `process_completed`. The kernel's part (`Consume`, `KernelComplete`, `Found`) is external:
it takes entries in order, an `AsyncCancel` finds its target only if that is in flight when
the entry is reached, and an operation ends at any time. Result codes are
left out: the runtime never looks at them, it returns them.

### FiberTree, Runtime

`FiberTree` is what the runtime promises: a tree of fibers that grows at its fibers that run and loses only leaves; a
cancellation reaches the subtree as it is and whoever is spawned into it later; a panic nobody hears reaches everybody.
It knows no parks, handles, queues or rings.

`Runtime` has one action per operation. A fiber's position is a label in `pc`, so that each park of the
code is a label of its own: `Join1`/`Join2` and `Sys1`/`Sys2` are the two parks of `join` and
of `syscall`, `Children` the wait of the trampolines, `Parked` a park of code on top of the
runtime. Everything between two parks is one step, which is what a single thread without
preemption does. `Complete` is the trampoline from the end of the closure to the wait for
children or, without children, to its end; `ResumeChildren` the rest of it. `Retire` is the
notification of the joiner or, after a panic nobody joins, the cancellation of the root
(`nearest_contained` returns the root for every fiber, as the code's TODO says). `Leave` removes
the fiber from its parent, wakes a waiting parent if this was the last child, and frees
the slab entry and stack if the handle was dropped.

Closures are arbitrary: at label `User` a fiber makes any call in `Calls`, returns or
panics. `handle` says whose closure owns a `JoinHandle`. Handles may be moved into a spawned
closure (`Spawn`) and may get to any other fiber (`GiveHandle`: by an `Rc`, a channel, a return value), also to the fiber they
stand for or to one below it. `ForgetHandle` is `mem::forget`, where the drop does not run; it is external. `Held(i) = {}` in `Complete` is not a restriction: a closure that ends drops the
handles it still owns, and these drops are `DropHandle` steps before it.

Under the mapping `Tree`, `alive` are the fibers that have a stack and have not ended, `finished` those that wait for their children, and
`cancelled` those that have the flag and are not finished: the flag of a finished fiber stops nobody.

The order in which `cancel` visits the tree is kept (a fiber before its descendants,
children by index), since it decides the order of the ready queue.

Slab keys: `Spawn` picks any vacant key. The slab crate reuses the key that was freed last;
a free choice includes that and does not depend on the crate.

`OwnedParents` states an assumption about client code. The code is unsafe for a closure
that returns before its children while somebody owns its `JoinHandle`: `is_completed` is set
before the wait for children (mod.rs:253), and both `join` and `JoinHandle::drop` take it for the
end of the fiber. `OwnedParents = FALSE` excludes such closures, so that the other properties can be
checked; `OwnedParents = TRUE` allows them, and the run `owned_parents` shows what happens.

### RuntimeLive

`Runtime` with a budget `Fuel` of calls, after which closures only join or drop their handles
and return, a choice (`finite`) of whether operations end by themselves in this behaviour, and the fairness
under which something must happen.

### MessageQueue, Channel

`MessageQueue` is the promise of a channel nobody is cancelled in: a queue whose messages go to one receiver each, in order, with the
receivers that sleep and those that were woken and have not looked yet. Who sleeps goes to sleep at an empty open queue, and each message
wakes one of them.

`Channel` `EXTENDS Runtime`: the channel's operations are additional calls of closures, and a fiber in
`recv` is at label `Parked`. The state is the queue, the list of wakers, the closed flag and the
sets of fibers that own a `Sender` or a `Receiver` (the reference counts). `recv` loops in the
code; each turn is a step. Messages are numbered in the order they are sent. In the mapping `Promise` a receiver is asleep while it is parked and
not scheduled, and woken while it is parked and scheduled: neither is a variable of the channel, both depend on the runtime's ready queue.

### ByteStream, CircularBuffer

`ByteStream` is the promise: a queue of bytes in a bounded memory. The owner of the free end writes into the room and appends from
its beginning, the owner of the other end may change what is queued and gives the first bytes back; it breaks if too much is asked of it.

`CircularBuffer` has the code's indices, which wrap at `Word`, and its memory, written
through the tail end and read through the head end at cells modulo `Length`
(the double mapping). `Write` is one byte stored through `Uninit::deref_mut`, `WriteData` one through `Data::deref_mut`, `Commit` and
`Consume` are the code's, with `consume`'s order kept: it moves `head`, then asserts. A failed
assertion of `commit` changes nothing and is a guard; a failed one of `consume` leaves the moved
head behind, and the fiber at the other end goes on with it. `overdrawn` is a history variable: some `consume` asked for more than there
was. `DataLen` and `UninitLen` subtract modulo the word, as a build without overflow checks does; with the checks the plain
subtractions panic where they would wrap, that is after `tail` has wrapped or a request has moved `head` past it.

### BufferMemory

`EXTENDS CircularBuffer` with an address space of a few pages. The constructor is one step per call that can
fail (`Create` with `calculate_length`, `AnonymousFile` with `set_len`, whose argument is signed, `AnonymousMapping`, `FileMapping` twice), and each failure
leaves what the question mark leaves: the file is dropped, a mapping stays. A length that is no multiple of a page
(a request of 0 becomes 1) is not an address of a page, and the second `MAP_FIXED` fails. While it lives the
buffer is `CircularBuffer`. `State::drop` unmaps both halves, then each half again: three `DropState` steps, where
`RemoveMapping` takes whatever is mapped there, or the kernel refuses, which the drop ignores (`refused` counts this). A stack (`Stack::new`, its drop) is mapped and unmapped next to it. Neither the
constructor nor the drop parks, so in one thread nothing comes between their steps; `OtherThreads` lets another
runtime's stack come between, and then the second unmapping can hit it.

### Descriptors

The process's table of descriptors (`table`, the lowest free number is given out), the handles of each fiber
(`File`, `Listener`, a stream's halves), and the function a fiber is in, as a sequence of operations (`Programs`): the ring
operations go through `runtime::syscall`, the others block the thread. `bind` and `connect` resolve their address first: an error is
returned, an address that resolves to nothing panics. `next` is the iterator `IntoIncoming`, which ends with `None` whatever the
error. `Move` gives a handle to another fiber. `Refuse` is the check at the beginning of
`syscall` in a cancelled fiber, `Issue` its first park, the `Complete` actions the completion; the runtime itself is
`Runtime`. An operation of a cancelled fiber may still succeed. `Finish` is what follows an operation: the next one, or after an
error the drop of the `File` the function opened, which is itself a system call. `Converted` follows the error
through the conversions of `lib.rs`, in the places where the functions make them, with their unwraps. `Flags` is the flag
computation of `OpenOptions`; `TransferLength` the cast to u32 before the cap. `StdResults` says whether std calls on a
borrowed descriptor (`set_len`, `metadata`, `set_permissions`, `local_addr`, `set_ttl`, `ttl`) can fail.

### Routing, MCRouting

A router is built (`Route`, `Fallback`, `WithState`), then serves requests, either of the `FakeClient` (path, query and
headers given one by one) or of a connection (a target that `ParsePartialUri` splits). Paths are sequences of segments. The
matcher is the matchit crate, external: which patterns accept a path, which wins, and which cannot be inserted. `Route` looks its
path up with that matcher, as the code does. A method router is a table from methods to handlers, the list of
allowed methods, and the copy of it that the handler of 405 owns. `Handle` gives the possible replies: handlers may set the status, push any
list of headers in `HandlerHeaders` (repeated names and those that `serialize` writes itself included), and send what they looked up in the request. `Send` delivers the reply as it is to the `FakeClient` and with
the headers of `serialize`, or its panic, to a connection. `StaticFirst` excludes routes that are registered under a path another
route's pattern matches. `MCRouting` chooses patterns, targets and header names.

### Nats, MCNats

The encoder and the decoder as functions on sequences of symbols (tags are cut in two so that reads can end inside
them), written with nom's streaming combinators, which are external: a parser is ok, incomplete, or an error. Around them the
server sends operations, bytes arrive one by one, and the client decodes after any of them and consumes what `decode` says.
Numbers are written in decimal (`Number`) and read back (`Value`) with a bound `MaxU64`.

Which operations there are is in the assumptions on the constants, and it is more than the parsers know. A server's subject is any token: letters,
dots and wildcards ("x"), digits, any other byte ("~"). `parse_subject` knows letters, dots and wildcards only (proto.rs:251), so a subject such as `foo1` or `_INBOX.1` is
refused. Its texts may be no UTF-8 ("bad"). `Legible` are the operations the parsers know. Sids are numbers on both sides, as in the code (the
`FIXME`s at proto.rs:39, :44 and :123 say that a sid is alphanumeric; a server sends the sids it was given). A client passes any strings: `encode` writes
them as they are. `WellFormed` are its operations of the form the comments of `ClientOperation` give. `MCNats` chooses some of all of them: empty payloads, payloads
with newlines, the largest number, with and without optional fields, a limit of 0, subjects and texts the parsers refuse, and two
operations with the same encoding.

### HttpConnection

`EXTENDS Runtime`, but with definite closures: `stage` says where in `serve`, `handle_connection` or
`reader` a fiber is. The root serves; another fiber waits in a system call and then calls
`cancel_propagating`, standing for the program around the server. Bytes are counted. A peer
decides how many it sends (requests that never become complete are represented by one); whether the buffer holds a request is
`len >= wire + body` (the parser needs `wire` bytes to decide, then `content-length` must be there
too); what a complete request leads to is in `kind`: a response, a parse error or a panic in the
URI parser or the handler. `BufWriter` writes at the latest when it is dropped: one
system call, whose failure is a panic in `serialize().unwrap()` for a long response and goes unnoticed
otherwise; `reply` says what became of it. `NoBuffer` is the constructor of the buffer failing, and the `unwrap` that makes it the
handler's panic (server/mod.rs:42, :31). `OwnedParents = TRUE` here: the handles are dropped right after `spawn`, so the real
closures satisfy what is an assumption in `Runtime`, and a handler does return before its reader.

## Runs

| run | what it asks | states |
|---|---|---|
| `runtime` | the whole API, three fibers, a submission queue of two | 1 120 000 |
| `owned_parents` | violation: a parent does not outlive its children | |
| `liveness` | does `start` return? does a cancelled fiber end although its operation never would? | 202 000 |
| `channel` | order, wake-ups and closing, three fibers, two messages, no cancellation | 3 000 000 |
| `channel_cancelled` | violation: a cancelled receiver swallows a wake-up | |
| `buffer` | a buffer from constructor to drop: its pages, disjoint ends, where `consume` errs, the refinement of `ByteStream` | 871 000 |
| `http` | no request is slept on, no wake-up goes astray, requests are answered, a cancelled server stops | 182 000 |
| `descriptors` | handles own their descriptors, only cancellation loses one, errors arrive, flags are as documented | 954 000 |
| `std_errors` | violation: a failing std call closes the descriptor under its handle | |
| `routing` | the registered handler answers, 405 lists every method | 4 237 000 |
| `route_order` | violation: a path registered after a pattern that matches it takes over the pattern | |
| `nats` | streams cut anywhere are decoded as sent or refused, without waiting for more than is missing; well-formed operations of the client can be told apart | 48 500 |

### What `runtime` shows

- `NoDanglingIndex`: no index in the ready queue, the tree, join handles or the rings names a
  vacant slab entry. The runtime indexes its slab with them unchecked.
- `ParentOutlivesChildren`: the README's promise of structured concurrency.
- `WakeupsJustified`: a fiber that runs at a park was woken for the reason the comment at the
  park gives. This is what makes the unconditional code after the parks right.
- `IsFiberTree`: every step is one of `FiberTree` or none. Hence below a cancelled fiber that has not completed everyone is
  cancelled, also who was spawned later (`CancelPropagates`, proved on its own).
- `NobodyOversleeps`, the converse of `WakeupsJustified`: who has a reason to go on is running or queued. No
  cancelled fiber sleeps in something cancellation should have ended, nobody in a join with a fiber that has completed,
  in a system call that has its result, or in a wait for children without any.
- `ExactlyOneCompletion`, `AsyncCancelHitsOwner`: `user_data` is a reused slab index, yet no completion
  and no `AsyncCancel` meets a later system call or a later fiber of the same index.
- `StacksConserved`, `LeakFree`, `QuietExit`: stacks
  are neither shared nor lost, and `start` returns when nothing is left.
- `StandstillIsCircle`: where the runtime has nobody to run and expects nothing from the kernel, each fiber that is left waits
  for another that is left, in a `join` or for a child. Such circles exist: a handle can get to the fiber it stands for, or to one that fiber has to wait
  for, and `join` (mod.rs:327) does not look. So the run stops in some states, and the configuration says `CHECK_DEADLOCK FALSE`; what it
  shows is that nothing else stops the runtime.

### What the other passing runs show

- `liveness`: `Terminates` when operations end by themselves, `CancelledFibersEnd` even when they do not.
- `channel`: every step is one of `MessageQueue` or none, so messages arrive once and in order (`InOrderExactlyOnce`, proved on its own,
  also with cancellation) and nobody else puts receivers to sleep or wakes them; whoever can be served has been woken, and when the
  last sender goes nobody keeps waiting.
- `buffer`: `MappingsAreOwn` (no unmapping meets pages of somebody else, both halves are mapped while the buffer lives, its
  length is a power of two and a multiple of the page), `LeakOnlyAfterFailure` (pages stay mapped only after a constructor that failed, or a drop of which
  the kernel refused two unmappings), and for the buffer in use `EndsAreDisjoint`, the refinement `IsByteStream`, and
  `ConsumeErrsAtTheWrap`, which says exactly which requests `consume` takes for the wrong kind once an index wraps.
- `http`: `NoMissedRequest` and `WakerIsCurrent` are about the waker in the shared cell, `RequestsAnswered` and `ServerStops`
  about what must eventually happen. A request counts as answered when the write of its response has ended, and a handler is excused only
  if it is cancelled while it runs.
- `descriptors`: `HandleOwnsDescriptor` and `LostOnlyByCancellation` together say that a descriptor of a file or a listener is closed
  exactly once, by its owner, unless that was cancelled; `ErrorsSurvive` that a cancellation, and nothing
  else, is reported as one after all conversions; `OpensAsPromised` that the comments of the setters hold for every combination.
- `routing`: `AnswersAsRegistered` compares who answered with the calls of `route` alone, for HEAD too, except where only GET is registered
  (see below); `AllowIsComplete` is about the copied list, which names no method twice except HEAD next to GET.
- `nats`: `StreamIsDecoded`, `NoNeedlessWait` for the decoder, also that it refuses what it does not know and reads it as nothing else;
  `ServerCanSplit` for the encoder, on well-formed operations.

### Violations

Each is a disagreement between the code and what the repository says, recorded under
"findings" in `PROJECT.json`.

- `owned_parents`: fiber a spawns b and returns; a's owner joins or drops the handle while a waits for
  b. a's slab entry and stack are freed, and b later removes itself from an entry that is gone.
- `channel_cancelled`: a `recv` woken by cancellation leaves its waker in `no_longer_empty`. A later `send` pops it, and
  another receiver keeps sleeping on a message. (The stale waker can also wake its fiber out of the park where it waits
  for its children.)
- `std_errors`: `set_len` and the others forget the borrowed std value only after success. After an error the
  descriptor is closed under the `File`, the next open gets its number, and two handles hold it.
- `route_order`: `route` looks its path up like the path of a request. A static path registered after a pattern that
  matches it is put into the pattern's method router and answers for all of its paths.

### Known divergences

Where the code and its comments or tests disagree, and no run of its own shows it: the property of a passing run says what the code does, or leaves the case
out by name.

- Indices that wrap. The comments at circular_buffer.rs:77 and :128 call it "safe to overflow due to power of two length". For the cells it is; for the
  assertion of `consume` (:78) it is not: it compares the wrapped `head` with `tail`. After `tail` has wrapped it panics on legal requests that leave `head`
  behind the wrap, and a request of too much that wraps `head` is granted if `tail` has not wrapped. `ConsumeErrsAtTheWrap` says that these are
  the only cases. With 64 bits they take a stream of 2^64 bytes, or a request of about that size.
- HEAD. The test `head_defers_to_get` (route.rs:407, ignored) and the comment on `Method::Head` (payload.rs:138) expect GET's handler to
  answer a HEAD request, without the body. The router answers 405, with HEAD in its allow list. `HeadOfGet` is left out of `AnswersAsRegistered`.
- Headers of the same name. `header()` takes the last (payload.rs:80-86 says so), the `content-length` of `handle_connection` and
  `Response::header` are the first. `serialize` writes what a handler repeats as often as it was pushed.
- Strings of a NATS client. The comments of `ClientOperation` give the form of a subject; `encode` does not check it. A publication to "a b" and one to "a" with a
  reply to "b" have the same encoding. `ServerCanSplit` is about `WellFormed` operations.
- Subjects of a NATS server. `parse_subject` refuses digits and most other bytes that a subject may have, as the `TODO` at proto.rs:251 says.

### Bounds

- Three fibers: the root, a child and a grandchild or sibling. Each property is about a fiber
  and at most its parent, its joiner or the next owner of its slab index; three are
  the smallest number where parent, joiner and canceller differ. Fibers come and go without
  limit, so indices are reused arbitrarily often. The HTTP runs have four.
- `SqSize` 2 (1024 in the code) makes the queue overflow between an operation and its
  `AsyncCancel`.
- `Fuel` 7: enough to spawn both other fibers, make each of them wait, cancel one and
  yield.
- Two messages: one to wake a receiver, one to race it. The channel run has no cancellation
  because with it the properties fail (`channel_cancelled`).
- `Length` 4 with a word of 16: the memory is traversed several times before the indices wrap, and they do wrap.
  Requests are of every size a word has. `Requests` for the constructor: 0 becomes a length of 1, 3 the four bytes of the buffer in use, 7 a length whose double is no
  word, 14 overflows. `MaxPages` 6: a buffer of four pages and a stack of two fit exactly.
- `Capacity` 2 and three bytes: a request can be cut anywhere, fill the buffer exactly or not fit.
  `LowestKeys` gives out the lowest vacant slab key only, to keep the graph small enough for liveness checking; `runtime` has
  every key. `Distinct` is a bound too: of the connections whose bytes never make a request one stands for all, since the handler cannot tell them apart.
- Two descriptors and two fibers: one closes wrongly, the other opens the same number. `U32` 4 with lengths 0, 3 and 4: nothing,
  the largest that fits, the smallest that does not. `TriedOptions`: all options are tried while nothing is open, since flags
  do not depend on the table.
- Three routes over five patterns (root, static, parameter, rest, longer): every pair that can overlap, and a third method.
  `MaxSize` bounds routes, headers and parameters together. `MCHandlerHeaders`: none, a repeated one, one that `serialize` writes but
  does not refuse, two that it refuses.
- `MaxSent` 2: an operation and the one behind it; every cut of both. `MaxU64` 12 is exceeded by numbers of two digits.

### Fairness

The thread never pauses between parks, hence weak fairness of every step that runs on it
(`ThreadFairness`, `ThreadStep`). This includes that closures end: finite closures are what `Fuel` gives.
In `liveness` operations end by themselves (`finite`) or not; there and in `http` they may
take for ever (an accept nobody connects to, a read from a silent peer) and only those that an
`AsyncCancel` has found must end, which is what io_uring promises for them. `BytesArrive`: bytes a
peer has sent reach the reader. `RequestsAnswered` assumes in itself that peers take the responses (`ResponsesTaken`): a write to a peer that does not read
never ends. No fairness is assumed for new connections or for the decision to
stop the server.

## Proofs

Eight modules hold theorems, proved for every value of the constants that the named assumptions allow.

| module | theorems | assumed |
|---|---|---|
| `RuntimeProofs` | `TypeCorrect`, `StacksAreConserved` | nothing |
| `RuntimeSafety` | `IndicesNeverDangle`, `ParentsOutliveChildren`, `WakeupsAreJustified`, `CancellationPropagates`, `CancellationIsHeard`, `NobodyIsForgotten`, `OneCompletionEach`, `AsyncCancelsHitTheirOwner`, `ExitIsQuiet`, `NoLeaks`, `StandstillsAreCircles`, `FibersFormTree`, `OthersAreLeftAlone` | `~OwnedParents` |
| | `HandlesGoingDownAreSafe` | `~OwnedParents`, no "give" among the calls |
| `ChannelProofs` | `ChannelTypeCorrect`, `MessagesInOrder` | nothing |
| | `WakeupsAreNotLost`, `WakersAreThoseOfReceivers`, `LastSenderWakesAll`, `ChannelIsMessageQueue` | `~OwnedParents`, `NoCancelCalls` |
| `HttpConnectionProofs` | `HttpTypeCorrect`, `RequestsAreNotMissed`, `WakersAreCurrent`, `ServerIsSafe`, `ServerIsStructured`, `ServerLeavesNothing` | nothing |
| `DescriptorsProofs` | `DescriptorsTypeCorrect`, `ErrorsSurviveConversions`, `OpensKeepTheirPromises` | nothing |
| | `HandlesOwnTheirDescriptors`, `DescriptorsAreLostOnlyByCancellation` | `FALSE \notin StdResults` |
| `RoutingProofs` | `RequestsReachTheirRoutes`, `AllowHeadersAreComplete` | `StaticFirst` |
| `NatsProofs` | `OperationsAreDecodedOrRefused`, `NeverWaitsInVain`, `OperationsCanBeTold` | nothing |
| `BufferMemoryProofs` | `BufferTypeCorrect`, `EndsAlwaysDisjoint`, `ConsumeErrsOnlyAtTheWrap`, `BufferIsByteStream`, `MemoryImplementsBuffer` | nothing |
| | `MappingsStayOwn`, `LeaksComeFromFailures` | `~OtherThreads` |

Each assumption excludes a behaviour of the code that breaks a theorem resting on it.
Four violating runs show one each (`owned_parents`, `channel_cancelled`, `std_errors`, `route_order`); another thread between two unmappings is
explained under `BufferMemory`, and handles that are given away under `StandstillIsCircle`: without "give" the circles do not exist, which is what
`HandlesGoingDownAreSafe` proves as a discipline for client code, not as a property of all of it.

`RuntimeProofs`. `StackInv == TypeOK /\ StacksConserved /\ LinksKnown /\ ModeKnown` is inductive whatever closures do: with
`OwnedParents = TRUE` a stack may be pooled too early, as `owned_parents` shows, but it is pooled once and counted right.
`LinksKnown` is needed because `Leave` and the join steps follow `parent[i]` and `target[i]`, which are a slot only for
spawned fibers and for fibers in `join`; `ModeKnown` because `start` takes a slot that must be vacant, and because the root's
stack is pooled while its entry exists. The counting arguments (one stack more, one entry more) are lemmas of their own.

`RuntimeSafety`. One invariant carries all its theorems:

    StateInv   == StackInv /\ Hierarchy /\ Rooted /\ Handles /\ Joins /\ Cancellation
                  /\ CancelPropagates /\ Rings /\ AsyncCancels /\ Phases
    RuntimeInv == StateInv /\ Queue

`Queue` says that nobody is queued twice or while running, and that each queued fiber is `Justified`: if it ran now, the code
after its park would find what it takes for granted. `WakeupsJustified` speaks of the running fiber only and is not inductive: the
reason must hold from the moment somebody appends to the queue until the fiber runs. The parts need each
other. That a completion finds its fiber in a system call needs `Rings` (an entry anywhere in the rings is that of a
pending fiber, and in one place only); that an index in the rings is still that fiber's needs that a pending fiber has not ended;
that a joined fiber still exists needs `Joins` and `Handles` (its entry is kept for the handle in use); that a fiber at
its end finds its parent needs `Hierarchy` (parent and children links agree among fibers that have not ended). `Rooted` says
that every fiber's chain of parents ends at the root (no set of fibers is closed under `parent` without it), so that
when the root ends nobody is left. `~OwnedParents` is used in one lemma only, about the end of a closure, so that `HttpConnectionProofs` can
use the others.

Two more facts are inductive on top of `RuntimeInv`. `Tended` is `NobodyOversleeps` as the code keeps it: whoever is neither running nor
queued still stands in the entry of the fiber it joins, has no result yet, or has a child left. Every step that takes this away
is followed through the queue it appends to. At a standstill the queue and the rings are empty, so that what is left for a fiber to wait for is
another fiber that has not ended: `StandstillsAreCircles`. (The runtime's own API parks nowhere else, `NoOwnParks`; a channel's receivers can also
wait for a message.) `NoCircle` says that among any fibers one waits for none of the others, where a fiber may wait for its children and for whom it
has a handle of. It is kept if handles are given away only to the child that is just being spawned: nobody waits for that child but its parent, so a step
either takes links away (`Unlinks`) or adds a child to which only links of its parent move (`SpawnCircle`).

The refinement of `FiberTree` and `FibersAreIsolated` (what a step may do to a fiber that is not running: cancel it, give its system call the
result, free it after its end, and nothing else) go through the steps once more. They use `StateInv` and the single fact that who runs
after the wait for children has none, not the whole of `Queue`; so `HttpConnectionProofs`, where `RuntimeInv` fails, can use the same
lemmas. `TreeChildren` shows that `FiberTree`'s descendants, told from the parents alone, are the runtime's `Subtree`, which follows the
`children` links; `TreeRelease` that giving back entries and stacks is invisible in the tree. `FibersAreIsolated` is proved and not among the
runs' properties.

`ChannelProofs`. Order needs the types alone: `OrderInv == StackInv /\ ChannelTypeOK /\ InOrderExactlyOnce`. Wake-ups need `RuntimeInv`, that
nobody is cancelled (`Uncancelled`), and a count: `NoLostWakeup` is not inductive, since of two messages and two receivers, one
awake, that one may take a message and go; `MessagesCounted` says that while a receiver sleeps there are at most as many messages as
receivers awake, every `send` adding one of each and every `recv` taking one of each. `ChannelIsMessageQueue` needs of this invariant that wakers in
the list are those of the sleeping receivers (so the one a `send` pops is asleep, and a closing sender wakes all), and that each step of the
runtime leaves the sets of sleeping and woken receivers as they are.

`HttpConnectionProofs`. The server's handlers return before their readers, which `~OwnedParents` would only allow without an
owner of the handle; here it is proved that there is none at that time (`Owners`: handles live from a `spawn` to the drop that follows). The
rest of the invariant says what a fiber can be doing at each stage of its closure (`Role`), and what its connection's buffer
and cell then hold (`Buffer`, `Cell`). `RuntimeInv` itself is not kept: a handler that is cancelled in its loop leaves its waker in the cell, and a reader that
still gets bytes schedules it out of the wait for its children, with a child left. `HttpQueue` admits this
(`Early`) and shows why it does no harm: that child is the reader itself, it is cancelled, and it ends without parking again, so its
handler is alone by the time it runs. A reader that parked once more after its last `commit` would break `WakeupsJustified`.
`ServerIsStructured` then says of the server, which returns before its readers, what the runtime promises of closures that do not: it forms a
`FiberTree` and leaves fibers alone that do not run. `ServerLeavesNothing` needs one more inductive fact, `Kept`: a fiber's
entry and stack outlive it only for a handle, and every handle is dropped before its owner parks, so that nothing but the root remains
when it goes down. Its `NothingRemains` is proved and not among the runs' properties.

`DescriptorsProofs`. `DescriptorsInv == TableTypes /\ FrameInv` relates a fiber's position in its function to the handle and
descriptor it works on; `OwnershipInv` adds that handles and open descriptors correspond, both properties at once, since a handle that is
dropped without a close is a stream's because its entry is; `ResultsInv` follows the error from the operation
through `Converted` to the caller, and the bytes left and the capped length of `write` together. The proof
found two overlapping guards in `Converted`, where TLA+ leaves the choice open; they are disjoint now.

`RoutingProofs`. `RoutingInv == RouterOK /\ Order /\ AnswersAsRegistered /\ AllowIsComplete`: the matcher has exactly the registered paths, and under each
the handlers of that path, the list of their methods, and the same list in the handler of 405. That an answer is determined
at all rests on `BestIsUnique`: the best of the patterns that match a path precedes all others, and `Precedes` is
asymmetric (at the first segment where two patterns differ in rank), so there is at most one.

`BufferMemoryProofs`, first the buffer in use. The inductive invariant `BufferInv` adds to the types that `DataLen <= Length` until somebody asked for too
much, where `DataLen` is the difference modulo the word. That `Length` divides `Word` is all that is known of the wrap: a step of an index, wrapped or not, moves its
cell by the same amount (`ModUnique`, `ModInjective`, `ModSum`). From it, by arithmetic modulo an unknown number, cells of the two ends
differ, a write changes one byte of `View` or of `Room`, `Commit` moves a prefix of `Room` to the end of `View`, and `Consume` a prefix of `View` to the end of `Room`
or breaks: each step is a step of `ByteStream` or a stutter. `ConsumeErrsOnlyAtTheWrap` compares the two orders, of the numbers and modulo the word.

Then its memory. `MemoryInv == MemoryTypes /\ StackMapped /\ Apart /\ Progress`: from the first mapping on, the buffer's block holds no page of
a stack and everything outside it is free or a stack's (`Apart`), and each phase has mapped or unmapped what it should
(`Progress`). Powers of two and multiples of a page are proved for every request from the existence of a least element, by
the well-foundedness of the naturals. `MemoryImplementsBuffer` (`MemorySpec => BufferSpec`) carries the results about the buffer in use over.

`NatsProofs`. Sequences of any length are reasoned about by their elements: `Sits(s, i, t)` says that `t` stands in `s` at `i`. Functions that
recurse over a number (`Number`, `Value`, `Bytes`) are shown to be defined, and to satisfy their equations, by the least counterexample (a set of
naturals has a least element), which needs no induction over operators; so `Value(Number[n]) = n` for every `n` (`NumberFacts`). Two lemmas
about the decoder carry the first two theorems. `DecodeStreams`: on a beginning of its input every parser, and so `Decode`, is incomplete or has
the result it has on all of it, and consumes no more than there is. `DecodeOfEncode`: in front of anything the encoding of a `Legible`
operation is decoded to that operation and consumed to its last byte, and that of any other is refused. The case that takes care is a reply the parser
does not know: `opt` turns the failure into no reply, and the size is then looked for in the reply; it is an error there too, since a token that begins with digits is
followed by a space and not by a newline (`ReplyRefused`). The invariant is `NatsInv`: what has arrived is a beginning of the
encodings that remain (`Arrived`), so `Decode` is incomplete while the first of them is, and exact from then on.

`OperationsCanBeTold` reads the client's encodings with the same combinators, but with every byte a token may have (`TokenSymbols`), not those `parse_subject`
knows (`SubjectsFound`, `SameSubjects`, `SameNumber`): two encodings of well-formed operations that begin the same bytes have the same
tag, then the same fields one after the other, since each field's end is found in the bytes alone; that a limit is missing is told from the newline in its place
(`UnsubEnd`).

Only model-checked:

- all liveness (`Terminates`, `CancelledFibersEnd`, `RequestsAnswered`, `ServerStops`): fairness and `ENABLED` are out of this prover's reach.

## Not modelled

- Register saving, the assembly and the layout of a stack's union: no state at this level; a jump
  is a change of `running_fiber`.
- Result codes in `Runtime` (it only passes them on); `Descriptors` has those that are told apart.
- Signals: `submit_and_wait(1).unwrap()` panics on `EINTR`.
- Failing allocations of stacks in `create_fiber`, which unwraps; a path with a NUL byte, which panics in `CString`.
- `httparse`, matchit, nom and serde_urlencoded are libraries, modelled from how the code uses them. In
  `HttpConnection` what a request means to the parser is a choice of the peer.
- The macros, which wrap `main` in `start` at compile time; `client.rs` and `middleware.rs`, which are empty; HPUB and HMSG, `merge`
  and `nest`, which are unimplemented.
- Closures that yield for ever: `process_io` submits only when no fiber is ready, so two such fibers
  keep every operation from starting. The liveness specifications exclude them through `Fuel`.

## Plan

Every component with state of its own is modelled, every safety property of the runs is proved, and each promise (`FiberTree`, `MessageQueue`,
`ByteStream`) is shown to be kept by TLC and by proof. What would come next follows the code: HPUB and HMSG when `proto.rs` has them,
`merge` and `nest` when the router has them, `client.rs`, and a NATS connection that uses the channel and the buffer together.
