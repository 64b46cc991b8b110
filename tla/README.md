# Verification of shm-cpp

TLA+ models of the shared-memory transport in `include/shm_ipc/` and
of the demo programs built on it, the TLC runs that check them on small
instances, and TLAPS proofs about the ring buffer, the connection, the server,
both clients and the event loop that hold for every capacity, client set, set of
descriptor numbers and limit. Names of variables and actions are those of the
C++ code (`write_pos`, `hs_done_`, `Teardown`, `closeing`); `PROJECT.json` gives
the source lines of every definition.

## The system

Two processes exchange bytes through two rings in shared memory, one for each
direction.

| part | source | what it does |
|---|---|---|
| RingBuf | `ringbuf.hpp` | lock-free single-producer single-consumer byte ring; `TryWrite`, `TryRead`, `ReadExact`, zero-copy `Peek`/`CommitRead`, and a `BatchWriter` with `Reserve`, `RewindTo`, `Cancel` and `Flush` |
| RingChannel | `ring_channel.hpp` | two rings and two eventfds; the handshake that passes their descriptors over a Unix socket; `NotifyPeer`, `DrainNotify` |
| ShmConnection | `shm_connection.hpp` | packages over a channel: `SendCmd`, `DrainRing` with the codec, keepalive answers, the state from `established` to `closeed`, the verify phase |
| ShmServer | `shm_server.hpp` | listener, handshake thread, the table `conns_`, `Start`/`Stop` |
| ShmAsyncClient | `shm_async_client.hpp` | one connection at a time on an EventLoop, with callbacks |
| ShmClient | `shm_client.hpp` | blocking client, `Close` from another thread |
| EventLoop | `event_loop.hpp` | poll and timerfds; entries removed during dispatch become tombstones |
| frame codec | `codec.hpp`, `frame_reader.hpp` | length-prefixed frames, batch sending, zero-copy reading with a lazy commit |
| payload codecs | `pod_codec.hpp`, `proto_codec.hpp`, `simple_pod_codec.hpp` | typed payloads in frames |
| comm interfaces | `include/comm/` | abstract classes, enumerations |
| helpers | `common.hpp` | RAII descriptors and mappings, descriptor passing |
| demo programs | `src/server.cpp`, `src/client.cpp`, ... | examples and benchmarks |

The producer of a ring only stores `write_pos`, the consumer only `read_pos`.
After a write the producer adds to the eventfd of the other end, whose
EventLoop then drains the eventfd and decodes packages from the ring. The
socket carries nothing after the handshake: it becomes readable when the other
end is gone. The server accepts on its loop thread, shakes hands on a second
thread and adopts the finished connections on the loop thread again.

## Modules

| module | models | composes with |
|---|---|---|
| `ByteStream` | what a ring promises: a bounded FIFO of bytes, with batches that appear at once or not at all | abstract specification |
| `RingBuf` | `ringbuf.hpp` and the flush of `ChannelBatchWriter` | implements `ByteStream` |
| `RingBufProofs` | the theorems about `RingBuf`: invariants and action properties; that it implements `ByteStream` | |
| `ConnectionProofs`, `ShmServerProofs`, `ShmClientProofs`, `EventLoopProofs` | the theorems about `Connection`, `ShmServer`, `ShmClient` and `EventLoop` | |
| `ShmAsyncClientInv`, `ShmAsyncClientProofs` | the inductive invariant of `ShmAsyncClient` and the steps within a connection; connects, closes and the theorems | |
| `LoopEntriesProofs` | the lemmas about `LoopEntries` | |
| `Connection` | both ends of an established connection, their loops, notification, close and crash | uses a ring as the FIFO `RingBuf` implements |
| `Packages` | `SendCmd` and `DrainRing` with their codec: `SimplePodCodec`, or one the application brings | cells in two rings of its own; what ends a connection is in `Connection` |
| `ShmServer` | accept, handshake thread, `conns_`, `Start`/`Stop` | what happens on a connection is in `Connection` |
| `ShmAsyncClient` | one client object, its successive connections and their verify timers | runs on the entries of an `EventLoop` (`LoopEntries`) |
| `LoopEntries` | what `event_loop.hpp` does with `entries_`: `RemoveFd`, the loop that builds the pollfds, the test before a callback, `CompactDead` | used by `EventLoop`, `ShmAsyncClient` and `Demo` |
| `EventLoop` | `event_loop.hpp` | its promise that a handler runs only while it is registered is used by `Connection` and `ShmServer` |
| `Frames` | `codec.hpp`, `frame_reader.hpp`, and `Send`/`Recv` of PodCodec and ProtoCodec | uses a ring as the FIFO `RingBuf` implements |
| `Handshake` | `CreateRingChannel` of both roles, `SendFd`/`RecvFd` | the step `Handshake` of `ShmServer` in detail |
| `ShmClient` | `shm_client.hpp` | uses the ring as a count of bytes |
| `Demo` | `server.cpp` and `client.cpp` without their bench modes | the server runs on the entries of an `EventLoop` (`LoopEntries`); a ring is a count of messages |
| `MCRingBuf`, `MCConnection`, `MCFrames`, `MCPackages` | instances for TLC | |

### RingBuf

`mem`, `write_pos` and `read_pos` are the shared region. The producer is at
`wpc` inside the object `wop` (a `TryWrite` call or a `BatchWriter`, whose
members are `w_`, `r_`, `w_start_`, `count_`), the consumer at `rpc`. A position
has `Wrap` values, 2^64 in the code; the model takes any multiple of `Capacity`
from twice the capacity up, so the wrap of the counters is explored.

Each step accesses at most one atomic that the other side stores, and each
`memcpy` is a step: a wrapped write is `CopyTail`, `CopyHead` and then the
store. Interleaving semantics is enough because all the non-atomic accesses are
shown not to race (`NoDataRace`), and the positions are stored with release and
loaded with acquire. A call that returns without storing anything is a
stuttering step. One producer and one consumer, and one open `BatchWriter` at a
time, are what the header requires of its callers.

### Connection

`inbox[e]` holds the packages in the ring that end `e` reads and `avail[e]` the
bytes of them that are published: a package longer than `Capacity / 2` arrives
in pieces. `efd[e]` is whether the eventfd is readable (its count is never
used). `eof` is the shut-down or closed socket. `pc[e]` follows the loop thread
through `OnNotify`/`OnSocket`, `DrainRing`, callbacks and `WriteRaw`; the
application may send or close when the loop is at rest or in a message callback.
`Crash` kills an end at any step, in the middle of a write as well. `ReleaseConn`
is the application dropping its last reference to a connection that has been
taken out of the loop, which closes the socket; it may keep it for ever.

### Packages

A ring is an array of `Capacity` cells between the counts `w` and `r`; a cell is
a tag or one unit of the body of a numbered package, so a mixed-up, cut or
repeated package can be told apart. `Encode` is a round of the loop in `SendCmd`
or in `SendKeepaliveResponse`, `WriteRaw` one `TryWrite` of a piece, `Peek` and
`DecodeOne` a round of `DrainRing`; the other end may take steps in between.

`OpsOf` is the table of `RegisterPod`, where the last type registered with a tag
has the tag. `Answers` are what a codec says of the size it needs: enough, more,
as much as it has, nothing; for the answer to a heartbeat it may also refuse, and
the connection goes on (`Responses`). Two things are asked of the applications: both ends
mean the same type by a tag (`AgreeAssumption`), and a codec never returns a
length above what it wrote, which `SendCmd` would take on trust.

### ShmServer

`pc` is the loop thread, `worker` the handshake thread; a step is a critical
section of `hs_mtx_` or a call between two of them. A client stands for its
socket and for the connection built on it. The handshake is a step that succeeds
or fails; it fails when the client has left or Stop has shut the socket down.
`accept` may fail, which leaves the socket in the backlog. `Start` may fail after
the path is unlinked. The application can call `Stop` and
`Start` in a connection callback, and both again in the close callbacks that
`Stop` runs; `frames` holds the calls of `Stop` in progress. `RestartFrom` says
where it calls `Start`, and `starts` remembers where it did. `void` remembers the
sockets accepted before a `Stop`.

### ShmAsyncClient

Everything runs on the loop thread, so a call is a step; the concurrency is that
of the peers, and of one round of the loop with the calls made from its
callbacks. `entries_` and `pfds` are those of its `EventLoop`. `role` says what each
registration is for, `file` which of them has a number now: connections close
their two descriptors when the last of `conn_`, `conn` (the local variable of the
running handler) and `held` (what the application keeps) is dropped, and timers
theirs when they fire or are removed. The kernel gives out the smallest free
number. A handler is bound to the client and not to a connection; the model
keeps that. `Connect` may be called outside callbacks, in message and timer
callbacks and in the close callback (`ConnectFrom`), and the connection callback
may throw. A `Connect` that fails before it has a connection changes nothing that
lasts and is a stuttering step.

The application is asked for three things. It does not connect again after a
`Connect` that threw; it calls nothing on a connection whose close callback has
run; and 0 is an open descriptor, so that no timer has the number 0.

### EventLoop

`entries_` holds `[fd, reg, dead]`; `reg` numbers the `AddFd` calls, so that two
registrations under one number can be told apart. `file[fd]` is the registration
whose file has that number now: files are closed and numbers given out again
inside callbacks, smallest first as the kernel does. `pfds` holds the pollfds
with their indexes into `entries_`. `live` and `fired` remember what the
application did, for the properties only. `Run` is split at its store of
`running_`, because `Stop` may come from another thread or a signal handler.
`poll` may be interrupted, or fail, which makes `Run` throw.

### Frames

A cell stands for a field: a header is two cells, `len` and `seq`. Lengths are
added modulo `U32`, which stands for 2^32. `stream` is what is sent and how it is
read, one of `Streams` for a behaviour: frames for a PodCodec or a ProtoCodec
reader, or bytes that are no frames. A send is described by a record (the
announced length, the pieces that the callback writes, whether it throws), so
that `Send`, `PodSend`, `ProtoSend` and any other callback of `SendFrame` are
values of one kind. A send is one step: the batch is private to the sender until
it is flushed. On the reading side the `Commit` and the `Peek` of `TryRecv` are
separate steps, and frames that cross the end of the ring are read through the
same case split as in the code. A dropped frame is committed at the next step,
in the same loop of `Recv`. `sent`, `pend` and `log` record what the callers were
told.

### Handshake

Each end runs the list of operations of its role. A ring or eventfd has the name
of the end that made it, and `chan` holds the four descriptors of each
`RingChannel`. Either end may fail in each operation whatever the other one does,
stop doing anything with its socket open, or die. A message of 256 bytes on a
stream socket of the same host is taken to be queued whole or not at all. A
receive may also be interrupted by a signal (`RecvInterrupted`). `HangUp` stands for the socket handler that every owner
of an established channel has.

### ShmClient

Three threads: `rpc` is in `ReadMessage`, `cpc` in `Close`, `spc` in
`SendMessage`. `socket_fd_` is a plain int read by one thread and written by
another, so each access of it is a step. `file` says whose file has the number
of the socket; `OtherFile` is another thread that opens or closes a file. The
peer's write and its notification are two steps, and it may die between them.
`poll` may time out or fail (`PollFails`).
`npc` follows `Connect`, which the owner of the client calls while it has no
other call in progress; a `Close` may come between any two of its steps, and
`late` remembers that one did.

### Demo

The server is at `pc` in its loop; `clients` is its map from socket numbers to
`ClientState`, `file` what is open under each number. A callback is a step as far
as `DrainClientRing`, of which each frame read is a step (`pc` is `"drain"`): the
client may write between the eventfd and the ring and between two frames. With
the `ClientState` of a client its ring and eventfd are forgotten. A client process
is in a `phase`: it connects, runs, sleeps 100 ms after it has written the byte 0,
and is gone. A client of `Unruly` is another program: it may write a frame
whenever there is room, break the framing, send other bytes than 0 on the socket,
which the server reads and ignores, or leave without a byte.

`poll` looks at one descriptor after the other while the clients go on. What
matters of this is that it looks at the eventfd of a client before it looks at
the socket, so the model has two steps: `Poll` for listener, timers and eventfds,
and `PollSockets`. The 100 ms are taken to be longer than the time between the
two (`Exit`); a second signal in that sleep, which would cut it short, is left out.
A heartbeat timer may have expired at every `Poll` (`T`).

## Runs

| run | states | shows |
|---|---|---|
| `ringbuf` | 262,592 | race freedom, oldest bytes first, stable views, `NeverOverfull` with the stale `r_` of a batch, that a batch notifies exactly when it publishes, and that `RingBuf` implements `ByteStream` |
| `connection` | 385,882 | no end sleeps on a package (`NoLostWakeup`); the branch of `WriteRaw` marked unreachable is; data sent before a hang-up is delivered; one close callback; a close or crash ends both ends (`BothClose`) |
| `packages` | 116,917 | packages are dispatched whole, once and in order (`InOrder`), and all of them unless an end is closed (`Delivered`); `SendCmd` and heartbeat answers return whatever the codec asks for (`SendReturns`) |
| `server` | 175,737 | the limit counts every stage; one owner for each socket; one close callback; `Stop` returns and leaves nothing; handshakes are settled. With `Start` outside callbacks also: `Stop` discards what was in the handshake, and a started server can be reached |
| `async_client` | 131,480 | the loop polls the descriptors of `conn_` and the verify timers that connections know of, under the numbers their own files have, and nothing else (`LoopMatches`); each connection reported closed once; a hang-up, a `Close` and a failed or timed-out verification end in the close callback (`EndReported`). With `Connect` outside callbacks also: a connection only ends for a reason of its own |
| `event_loop` | 109,086 | the table matches the registrations; no callback after removal, none for an event of another file, one-shot timers fire once; readable descriptors are served, and a `Stop` that finds the loop running ends it |
| `frames` | 111,748 | only whole frames are published and the count of a batch is exact; each is received, dropped or skipped once and in order; `Recv` does not loop for ever, also on bytes that are no frames, calls no legal frame illegal and does not wait for the impossible (`LengthJudged`) |
| `handshake` | 186 | the two channels fit together, rings are zeroed before they are seen, a client that succeeded has a server that did not fail (`Crossed`); no end keeps a channel whose other end failed or died, or waits for ever for one that stalled (`NoHalfOpen`) |
| `shm_client` | 257,830 | the reader wakes for data, hang-up and `Close`, also for a `Close` during `Connect`; the end is reported after the last byte; no half message |
| `demo` | 328,749 | map, loop and open files of the server agree after every success and failure (`MapMatchesLoop`); what an orderly client wrote is read before the server removes it (`EndedIsRead`); no client stays for ever as long as `DrainClientRing` returns (`EveryoneLeaves`) |
| `async_client_reconnect` | | expected violation, see below |
| `client_close_race` | | expected violation |

Except in `RingBuf`, the type invariant `TypeOK` is a conjunct of one of the
invariants of its module.

Every property of a passing run is accompanied by a fault: a definition such as
`OnAcceptFault`, a plausible slip in the code, which no behaviour uses. With the
fault in the place of the definition it distorts, TLC finds the property
violated; `PROJECT.json` lists the pairs.

In two places a comment promises more than the code does, and a run shows it:

* `shm_async_client.hpp:240` allows `Connect()` in the close callback. If that
  callback runs because a message callback closed the client, the handler goes
  on to tear down the new connection, either because it is the socket handler or
  because the old ring ends in a package the codec rejects
  (`async_client_reconnect`).
* `shm_client.hpp:109` says that `Close()` may be called from any thread, and
  line 113 that the socket is given back in the next `Connect()` or the
  destructor. `ReadMessage` gives it back when the peer has closed (line 231), and
  a `Close()` in another thread that has tested the number before can shut down a
  file that got it since (`client_close_race`). `ClosesOwn` is about a `Close()`
  that overlaps no `Connect()`; the `Reset` of a `Connect()` that fails (line 88)
  can do the same to one that does.

Other places where the code does less than one may expect limit what the passing
runs show. Each is excepted in the property or excluded by an assumption:

* `ShmServer`: `Start()` in a close callback that `Stop()` runs succeeds, and
  then `Stop()` unlinks the new path; and `OnHandshakeComplete` looks at
  `started_` only, so that after `Stop()` and `Start()` in a connection callback
  it adopts connections of before the `Stop()`, in spite of the comment in
  `shm_server.hpp:363`. `ReachableOutside` and the second half of `StopComplete`
  are about applications that call `Start` outside callbacks (`Outside`).
* `ShmAsyncClient`: after a connection callback that throws, the client is in
  state `close` with `conn_` and the registered descriptors still in place.
  `EndReported` excepts such a connection (`Abandoned`), and another `Connect`
  would leave its descriptors and its timer in the loop (`MayConnect`).
* `ShmConnection`: `OnVerify(true)` after `Close()` makes the state `established`
  again (the end is still reported), and `StartVerifyTimer` after the close
  callback starts a timer with a pointer to a connection that may be gone
  (`Reach`).
* `ShmConnection`: after a protocol error the connection is taken out of the loop
  and its close callback runs, but the socket is open until the last reference is
  dropped. Until then the other end is told nothing; `BothClose` is about a socket
  that is shut down or closed, and about an end that has called `Close()`.
* `server.cpp:113`: `DrainClientRing` reads until the ring is empty. A client that
  writes as fast as the server reads keeps it from returning, and the heartbeats
  that would remove it, the other clients and a signal have to wait.
  `EveryoneLeaves` has the hypothesis that the server leaves that loop again and
  again; without it TLC finds the starvation.
* `EventLoop`: a `Stop()` that comes after the call of `Run` and before its store
  of `running_` is lost, although `event_loop.hpp:136` says that `Run` runs until
  `Stop()` is called. `Served` is about a `Stop()` that finds the loop running.
* `ShmClient`: a `Close()` during `Connect()` loses its mark, because `Connect`
  stores `closed_ = false` last. The next `ReadMessage` still returns (`Wakes`),
  but with 0 for a closed peer instead of -1 (`late` in `EofAfterData`).
* `codec.hpp:141`: the sum `kMsgHeaderSize + payload_len` wraps for a
  `payload_len` within 8 of 2^32. With a length of exactly 2^32 - 8 and less room
  than a header, `SendFrame` returns 0 and has written nothing, although line 135
  promises -1. `FrameSize` wraps as the code does, but no call of `MCStreams`
  announces such a length: `WholeFrames` is about shorter ones.

### Bounds

* `RingBuf`: capacity 4 and 8 positions, byte values {0, 1}, messages of up to 3
  bytes. Writes wrap at every offset, the counters wrap, the ring fills up, and
  messages of 3 bytes are longer than `max_write_size` = 2 and must be refused.
* `Connection`: capacity 4; packages of 1 and 3 bytes (3 takes two pieces), a
  heartbeat and a package the codec rejects; the client sends twice and the
  server once, and the server answers heartbeats. The ring of the server can be
  full while the client sends.
* `Packages`: rings of 4 cells, so that a package of 3 takes two pieces and lies
  across the end at every offset; packages of 2 and 3 cells and one that shares
  its tag; an encode buffer that starts too small for all and may grow to 3; three
  sends in all, by end 1 or as replies of end 2, which answers heartbeats.
* `ShmServer`: three clients for two seats, two `Start` calls, so that a stage
  of the pipeline can hold leftovers of an earlier start.
* `ShmAsyncClient`: two connections, of which the application keeps one, one
  timer and one package, on five numbers. The number of a timer that has fired
  comes back as that of a connection within one round, and the reverse.
* `EventLoop`: two numbers and three registrations. A number comes back within a
  round, a tombstone and a live entry have the same number, and an index differs
  from the position among the pollfds.
* `Frames`: 8 cells, four sends, a fall-back buffer of 3 cells; payloads from none
  to one cell more than fits the ring. Frames cross the end of the ring at every
  offset, with the header in one or two segments.
* `Handshake`: no bound.
* `ShmClient`: two connections, two bytes from the peer, messages of 1 and 2
  bytes to a ring of 2, whose `max_write_size` is 1.
* `Demo`: two clients, one of them unruly, two seats, one heartbeat for each and
  two messages for a ring that has room for one, so that it is full when a client
  writes, on the seven numbers that this takes; strangers come when the server is
  full.

`CHECK_DEADLOCK FALSE` is set where the system may really come to rest: a
connection closed at both ends, a server that is stopped, a client that is
destroyed, a reader that has reported an illegal header, programs that have ended.

### Fairness

Weak fairness on the steps a thread takes by itself: the loop polls again after
every handler, callbacks return, and the handshake thread is never blocked for
longer than the socket timeout. Nothing is assumed of applications, peers or
clients: they need not send, connect, close, leave or let go of a connection. No
signal and no failure of a system call has to come. A crashed process takes no
further step. `EventLoop` and `ShmClient` assume strong fairness of `Poll`: a
signal may interrupt some polls but not all of them for ever, and `Poll` is
disabled in between. In `ShmClient` a peer that has written and is not dead
notifies. In `ShmServer` the loop gets to `OnHandshakeComplete` again and again
while the eventfd is readable (strong fairness), also when `accept` keeps
failing: `poll` reports both, and a round calls both. In `Handshake` a receive that gets nothing times out, which is what
`HandshakeGuard` sets up, except at an end that has stalled. In `Demo` the timer
of every client that stays expires again and again: strong fairness of `Expired`,
as the server may be between two looks of `poll` whenever one expires.

## Proofs

Each proof module has an invariant `Inv` with `Init => Inv`,
`Inv /\ [Next]_vars => Inv'` and `Inv => P` for each property `P` it proves; the
parts of `Inv` were checked by TLC on the instance of the run first. The bounds on
sends, starts, connects and bytes are constants the proofs leave arbitrary.

### RingBufProofs

`RingBufProofs` proves, from the assumptions that `Capacity` is positive and
`Wrap` a multiple of it other than `Capacity` itself, for every set of messages:

| theorem | property |
|---|---|
| `TypeCorrect` | `TypeOK` |
| `NeverOverfullCorrect` | `NeverOverfull` |
| `PublishNotifiesCorrect` | `PublishNotifies` |
| `NoDataRaceCorrect` | `NoDataRace` |
| `ViewStableCorrect` | `ViewStable` |
| `ReadsOldestCorrect` | `ReadsOldest` |

None of the properties is inductive. `Inv` adds what a running call knows:

* `ProducerInv`: a writer started at the current `write_pos`; the `read_pos` it
  loaded is at or behind the real one (`Available <= Minus(write_pos, r_)`); and
  from that `read_pos` to the end of the write in progress is at most
  `Capacity`. So a stale `r_` can only refuse a write, never admit one.
* `CountInv`: `count_` is positive exactly when bytes are pending, and the same
  holds of a mark noted for a later `RewindTo`.
* `ConsumerInv`: what a read call saw as available still is.

The proof that steps preserve `Inv` has one lemma for each action over a layer
of arithmetic on wrapped positions (`MinusPlus`, `PhysPlus`, `FitsMeaning`). Race
freedom follows from `Inv` because positions less than `Capacity` apart have
different cells (`PhysInjective`). `ViewStable` follows because a copy only
touches cells at or beyond `w_` (`CopyTouches`, `UnreadStable`). `ReadsOldest`
needs `ReadInv`, which says what has been copied out so far, and is preserved
because unread bytes do not change.

The last theorem is `ImplementsByteStreamCorrect`: `RingBuf` implements `ByteStream`, from the same
assumptions. The refinement mapping takes the unread bytes and the pending bytes
of a batch to slices of the data area, delimited by `read_pos`, `write_pos` and
`w_`. A store of a position moves a boundary between two neighbouring slices
(`SliceAppend`, `SlicePrefix`, `SliceSuffix`). A `memcpy` changes neither slice,
because it writes behind both (`BehindStable`). To know that the bytes which
become visible are those of the message, the proof adds `WriteInv`: what the
first `memcpy` of a wrapped write has stored, and what both have. There is one
lemma for each step that is visible in `ByteStream`, and one for all that
stutter.

### ConnectionProofs

| theorem | property |
|---|---|
| `NoLostWakeupCorrect` | `NoLostWakeup` |
| `NoPartialWriteCorrect` | `NoPartialWrite` |
| `LastDataDeliveredCorrect` | `LastDataDelivered` |
| `CloseOnceCorrect` | `CloseOnce` |

Assumed: a ring has more than one byte, and a package has at least one byte and
fits in a ring. The parts of `Inv`, for each end:

* `WriteAt`: bytes are left to write only between the check of `WriteRaw` and its
  last piece, with room for them; the package `Decode` saw is still there at
  `CommitRead`. Both hold because a ring has one reader and one writer.
* `WakeAt`: `NoLostWakeup` at all the places from which the thread comes back to
  `poll` without another look at the ring (`Parked`).
* `AccountAt`: the published bytes and those left to write add up to the packages
  of the ring. The sum is stated by the offsets at which packages end
  (`Offsets`), with no recursion, so `Append` and `Tail` extend and shift them
  (`AccountAppend`, `AccountTail`). It follows that a first package that is not
  whole is the only one and still being written (`Unfinished`).
* `EndAt` and `QuietAt`: an end which leaves and has not closed by itself saw end
  of file, so the other end is closed or dead and sends nothing but answers to
  heartbeats; and it looked at the ring after that. What is at the front of the
  ring then is no data, except a package cut off by a crash.
* `CountAt`: `closes` is 1 exactly in state `closeed`.

### ShmServerProofs

| theorem | property |
|---|---|
| `SeatLimitCorrect` | `SeatLimit` |
| `OneOwnerCorrect` | `OneOwner` |
| `CloseOnceCorrect` | `CloseOnce` |
| `StopCompleteCorrect` | `StopComplete` |
| `ReachableOutsideCorrect` | `ReachableOutside` |

Assumed: `NoClient` is no client, `max_clients` is a natural number. `Clients`
need not be finite. The parts of `Inv`:

* `ControlInv`: where the two threads can be together. `Stop`s nest only in the
  close callbacks `Stop` runs, so the stack of interrupted ones has its outermost
  call at the bottom and `closecb` everywhere above.
* `StopInv`: what is left of a server that is not started; each `Stop` in
  progress, on top of the stack or in it, still has all of `conns_` to remove.
* `OwnerInv`: no client is twice in a queue or in two places, and each place has
  only clients that have connected. `SeatInv` needs it to know that adopting a
  client takes a seat from `ready` and adds one to `conns_`.
* `VoidInv`: with `Start` outside callbacks, what was accepted before a `Stop` is
  in none of the places.
* `SeatInv`: `SeatLimit`, with `conns_` finite.

### ShmClientProofs

| theorem | property |
|---|---|
| `NoHalfMessageCorrect` | `NoHalfMessage` |
| `EofAfterDataCorrect` | `EofAfterData` |

Assumed: the capacity and the lengths of messages are positive. `OwnerInv` says
that `closed_` is set throughout `Connect`, `ShutInv` that, unless a `Close`
overlapped the last `Connect`, a socket that is shut down, or about to be, belongs
to a client with `closed_` set. Hence a `ReadMessage` that finds its socket
readable and `closed_` not set knows that the peer is gone (`EofInv`), and no byte
comes after that.

### LoopEntriesProofs

`CompactDead` and the loop that builds the pollfds pick elements of a sequence by
their index. `Selected` is that loop as a recursive function, and `SelectedPicks`
says what it returns for every sequence: there is an increasing map from the
positions of the result onto the indexes picked, along which the elements agree
(`Picks`). The induction over the length of the sequence is on sets of natural
numbers (`NatSetInduction`, from `WFMin` of the library), because a theorem that
takes an operator cannot be instantiated by the provers.

### EventLoopProofs

| theorem | property |
|---|---|
| `EntriesMatchLiveCorrect` | `EntriesMatchLive` |
| `OwnCallbackCorrect` | `OwnCallback` |

Assumed: the numbers of descriptors are natural numbers, and there is one; the
bound on registrations is a natural number. The parts of `Inv`:

* `Match`: the entries that are no tombstones are those of the registrations in
  `live`, one each, and no two numbers lead to the file of one. It is
  `EntriesMatchLive` and the uniqueness that its count of entries needs.
* `Leads`: the index of a pollfd leads to an entry of its number, since entries
  are only appended or marked during a round.
* `Own`: what `poll` reported of an entry that is no tombstone is about that
  entry's own registration, although the number may belong to another one by
  now. `OwnCallback` follows from it.
* A one-shot timer that fired is not in `live`.

### ShmAsyncClientInv and ShmAsyncClientProofs

| theorem | property |
|---|---|
| `LoopMatchesCorrect` | `LoopMatches` |
| `EveryCloseReportedCorrect` | `EveryCloseReported` |
| `OwnCloseOutsideCorrect` | `OwnCloseOutside` |

Assumed: the numbers of descriptors are positive, and there is one; the bounds on
connections, timers and packages are natural numbers. Which calls `Connect` can
come from and which connections the application keeps is arbitrary. The parts of
`Inv`:

* `Roles`: every registration is for a connection made, two for each and the rest
  timers.
* `Polls`: the entries that are no tombstones are those of the two descriptors of
  `conn_` and of its verify timer, one each, under the numbers of their own files.
  It is `LoopMatches` by the arguments it depends on, so that each operator of the
  model has one lemma about it (`PollsConnected`, `PollsTimerAdded`,
  `PollsCompacted`, ...).
* `Leads`: the indexes of pollfds lead to entries, and those to a socket to a
  connection that has ended.
* `ConnInv`: the current connection is the last one made and the only one with a
  timer; every other has been reported closed once; one in state `closeing` has
  had its socket shut down. `EveryCloseReported` follows.
* `HandlerInv`: a running handler was called for the connection in its local
  variable. `OnSocket` was called because that connection had ended, and `conn_`
  is still that connection, or none, unless a callback has connected again
  (`inside`). `OwnCloseOutside` follows, and this is what fails in the run
  `async_client_reconnect`.

### What is only model-checked

* All liveness, which the proof system does not handle.
* `Demo`: its server does on the entries of a loop what `ShmAsyncClient` is shown
  to do right for one connection, for a map of clients.
* `Packages` and `Frames`: that what is received is what was sent relates a stream
  of cells to the list of packages or frames in it.
* `Handshake`, which has no constants: TLC explores all of its states.

## Not modelled

* In `Handshake`: the `Stop` of the server that shuts a socket down in the middle
  of its handshake; `ShmServer` has it.
* Serialisation of payloads, logging, and the wrappers of system calls in
  `common.hpp`: no state that the properties tell apart. Of `common.hpp` the
  passing of descriptors is in `Handshake`, and `UniqueFd::Reset` in `ShmClient`.
* The interfaces in `include/comm/` other than the contract of `Codec` and the
  connection states: abstract classes without code.
* The bench modes of `server.cpp` and `client.cpp`, and `bench/`: one exchange
  with a peer that takes turns, straight-line code over `FrameReader` and
  `SendFrame`.
* `app_server.cpp` and `app_client.cpp`: callbacks over `ShmServer` and
  `ShmAsyncClient`, with no state of their own that could go wrong.
  `socket_server.cpp` and `socket_client.cpp`: plain sockets, for comparison.
* The protobuf library that the repository carries along, and generated code.
