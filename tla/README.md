# TLA+ models of the OmniXtend host protocol engine

This directory models `omnixtend-rs`, the host side of OmniXtend (TileLink
over Ethernet), in TLA+ and checks it with TLC. The modules come from the
source under `src/host_software/omnixtend-rs/src`. The FPGA endpoint's code is
not in the repository, so the endpoint is modelled from `spec.md` instead.

## The system and how its parts interact

- **Application threads** (the simulator, bitload, the TUI) call
  `Operations::perform()`. `perform()` does these steps:
  1. counts the request as outstanding (`fetch_add`);
  2. takes a source id;
  3. waits for send credits on the request's channel;
  4. pushes the message onto the connection's queue;
  5. blocks in `wait_for_response()`.
- **The tick thread** (`tick.rs`) decides when a frame must be sent
  (`check_send`). A frame is due for queued messages, a pending state change,
  an ACK that is due, or a heartbeat.
  - `Connection::send_packet()` fills the frame and numbers it.
  - It also grants receive credits (`Credits::get_highest`).
  - It puts the frame into the resend buffer.
  - `check_resend` copies the whole buffer for resending after a NAK, with a
    cooldown.
- **The receive path** is `utils::process_packet` →
  `Connection::process_packets`. The receiver:
  - accepts the expected sequence number, or NAKs and drops the frame;
  - removes acknowledged frames from the resend buffer
    (`remove_from_resend`);
  - adds credits;
  - moves the connection state along Open/Close;
  - completes the matching operations.
- **Closing**: `close_connection()` waits until frame 0 is acknowledged,
  marks the connection ClosedByHost, and then waits for Idle. Two things
  bound the wait:
  - the tick thread sends the Close frame only when no operation is
    outstanding;
  - the endpoint's Close answer makes the host Idle.

- **The coherent cache** (`cache.rs`) sits on top of `perform()`: a miss
  sends an AcquireBlock and installs the Grant; a release sends Release or
  ReleaseData; the receive thread queues the endpoint's probes with
  `add_probe`, and the tick thread answers them in `process_probes` before
  it sends.
- **The codec**: `create_operation` packs each operation into flits
  (`pack_*`), `put_messages` packs queued messages into a frame and marks
  each start in a 64-bit mask trailer, and `process_messages` parses the
  endpoint's frames into credits, probes and responses.
- **The simulator's test threads** (`rust_sim/src/testcases.rs`): the FFI
  (`ffi.rs`) starts execution threads, each with its own `Sim` (connection
  and cache); the loop that started one per simulated host, `test_tlc` among
  them, is commented out, and today only `test_read_write_simple` runs on the
  first `Sim`. The FFI later stops (`stop_execution_thread`),
  polls (`can_destroy_execution_thread`) and joins them. `test_tlc` is the
  multi-host test: the hosts synchronise through cached reads, writes and
  read-modify-writes on shared endpoint memory.

## Modules

| Module | Models | Source |
|---|---|---|
| `SequenceNumber` | modular sequence numbers: `incr`, `diff`, `cmp` (self is newer when the distance is below half the modulus), the `max` sentinel | `sequence_number.rs` |
| `Credits` | the five credit pools: `new`, `add`, `take`, `any`; `get_highest` as a RECURSIVE `Log2Floor` plus the lowest channel holding the maximum; the receiver's decoding of a grant | `credits.rs`, `connection.rs` `update_send_credits` |
| `ReliableLink` | the abstract promise: what each side delivers is a prefix of what the other sent, in order | spec.md §4 |
| `OxLink` | one connection: host, endpoint and two lossy wires | `connection.rs`, `tick.rs`, `operations.rs`, `utils.rs` |
| `TLPermissions` | the cap, grow, prune and report parameters and `get_permission_change*`, `get_resulting_permission`, `get_report_from_cap` | `tilelink_messages.rs` |
| `CoherentCache` | the client cache with the application, tick and receive threads, and a TileLink manager | `cache.rs`, `tick.rs`, `operations.rs`, `utils.rs`, `sim.rs` |
| `TLCodec` | the wire codec: header bit layout, every `pack_*`, `credits()`, `chunkize_packet`, `process_messages` | `tilelink_messages.rs`, `operations.rs`, `channels.rs`, `utils.rs` |
| `OxFraming` | the frame path: `perform()` with the source pool, `put_messages`/`space_in_packet`, an endpoint that decodes by the start mask, `process_packet`, the completion channels | `operations.rs`, `connection.rs`, `utils.rs`, `sim.rs`, bitload `main.rs` |
| `TestTlc` | `test_tlc`'s coordinator and followers, with the `address_cmp` line cached per node and the other cached calls atomic, and the FFI's stop, poll and join of the execution threads | `testcases.rs`, `ffi.rs` |
| `MC_OxLink`, `MC_CoherentCache`, `MC_OxFraming`, `MC_TestTlc` | constants, state constraints and symmetry for TLC | – |

### OxLink

The host's atomic fields are VARIABLES with the code's names:
`nextRx`, `lastRx`, `nextTx`, `theyAcked`, `weAcked`, `firstInResend`,
`resendBuffer`, `resendData`, `packetData`, `lastAckStatus`,
`sendOutstanding`, `resendOutstanding`, `credSend` and `credRecv`.
`sentLog`, `dlvLog` and `numbered` are history variables: the messages
put into and handed out of each direction, and the frames each side has
numbered. No guard reads them.

Each handler is one action, and each action includes everything its handler
changes:

- `SendPacket` is `send_packet` up to its last read of `last_rx_seq`: the
  state transition, the header, `put_messages`, the credit grant and the
  push to the resend buffer. `TickSendAck` is that read: the copy of
  `last_rx_seq` into `we_acked` (line 294). `process_packets` sets
  `last_rx_seq` (line 465) before it takes the resend buffer lock that
  `send_packet` holds, so a receive can fall between the header's ack
  (line 339) and `we_acked`. `HostTransmit` cannot take the frame in
  between, because `send_packet` still holds `packet_data`'s lock.
- `TickSend` (then `TickSendAck`) and `TickResend` are the two halves of
  `Tick::tick`.
- `HostTransmit` is `get_packet`.
- `HostReceive` is `process_packets`, with three disjuncts for the expected,
  older and newer frame, followed by `process_messages` and the completions.
- `PerformStart`, `PerformCredits`, `PerformPush` and `PerformReturn` are the
  steps of `perform()`; a program counter per request records the step.
- `CloseCall`, `CloseInitiate`, `CloseDone` and `CloseTimedOut` are the
  waits of `close_connection()`.

The endpoint actions `Ep*` and `LoseFrame` are modelled from spec.md (the
map marks them `spec_modelled`). Time is not a clock: each timer (ACK
timeout, heartbeat, resend cooldown, close timeout) is a free boolean choice
at the step that reads it.

### CoherentCache

State: `entry` is the DashMap of `CachedEntry` (present, valid, modified,
release pending, cap, data); `lockOwner` is the thread holding an entry's
write guard; `probes`/`kept` are `Cache::probes` and what `retain()` keeps;
`tickPc` is the tick thread's place (in `process_probes` or not); `ops` is
`operations_outstanding`; `completion` the bounded(1) slot per source; `pc`,
`op`, `opsLeft`, `grantData` the application threads, `relLeft` the entries a
`release` call has still to visit. The manager keeps a
directory of the cap it believes the host holds and the memory value.

Actions: `AppStart` (a call of `Sim::cached_*`), `AppRead`, `AppWrite` and
`AppRmw` (one pass of the loop of `read`, `write` and `rmw`: the hit under
the entry's guard, `AppStore` for the two that modify, or `AppMiss`, the
AcquireBlock), `AppGranted` (the rest of `perform`,
GrantAck included), `AppInstall` (`insert_entry` and the access),
`AppRelease`/`AppReleased` (`release_addr` holding the guard across
`handle_release`), `AppReleaseAll`/`AppReleaseNext`/`AppReleaseAllDone`
(`Cache::release`, the TUI's `cda`: `iter_mut` visits the present entries in
an order the model leaves open, reads the filter under each guard and keeps
the guard through `handle_release`; guards are per line, as for `get_mut`),
`TickProbe`/`TickProbesDone` (`process_probes` with
`change_permission_probe` blocking in `get_mut`), `TickSend` (moving queued
messages to the wire), `HostRecv` (`process_packet`: `add_probe` waits for the
probes mutex, completions fill the slots). `Mgr*` and `OtherWrite` are the
manager and other clients (spec_modelled).

### TLCodec and OxFraming

A 64-bit word is the set of its 1-bit positions, so the header layout
(`From<ChanABCDTilelinkMessage> for u64` and back, `escape_bits_shift`,
`extract_bits_shift`) is checked bit for bit without 64-bit integers. A flit
is a record of its word and its length in bytes; a tail shorter than 8 bytes
stays short, as `pack_write_len` copies it. `Pack` dispatches to `PackA` and
`PackC` (every `pack_*`); `PackError` is the `NotPowTwo` error and the buffer
overrun of `pack_write_partial`. `ParseFrom` is the loop of
`process_messages` as a RECURSIVE operator, with every handler, the
`while pos < len - 8` bound, the panics on channels A, C, E, 6 and 7 and on
unknown D opcodes, and the endless loop on an unknown B opcode.

`OxFraming` composes it: `Perform` is `perform()` up to the push
(`get_source` on the FIFO pool, `create_operation` and its error path that
gives the source back to the tail), `SendFrame` is `put_messages` with
`SpaceInPacket` (the take_while of `space_in_packet`), `HostParse` is
`process_packet` (credits, probes, completions into the bounded(1)
channels), `AppReturn` is the rest of `perform()` (source back to the pool,
`send_response`'s GrantAck). The endpoint (`EpReceive`, `EpProbe`, `EpSend`)
decodes a frame at the flits its mask marks, using the OmniXtend header
layout of spec.md rather than the host's, and answers each request.
`SimCall` and `BitloadWriteOps` give the operations the simulator's API and
bitload actually build; the MC module draws its inputs from them.

### TestTlc

`barrier` and `line` are the endpoint memory at `address_barrier` and the 16
lines at `address_base + i * address_move` (`NumLines` of them). The line at
`address_cmp` (a boolean: holds `success_val` or not) is cached: `cmpMem` is
the endpoint's memory, `cmpLine` each node's cache entry (cap and data),
`cmpDir` the cap the endpoint's directory records for each node, `cmpAcq`
each node's AcquireBlock in flight and `cmpBusy` a Grant awaiting its
GrantAck. `ReadCmp` is one pass of the follower's `cached_read` spin loop and
`WriteCmp` one pass of the coordinator's `cached_write`: a usable entry
serves the call, otherwise AcquireBlock is sent. `CmpGrant` is the endpoint
serving it: it probes the other holders (`Probed`), each answered from that
node's entry as `process_probes` does (`ProbeLine`: no entry means NtoN, no
data), and grants its memory. `CmpGrantAck` is `perform()` sending the
GrantAck, and `CmpInstall` the later `insert_entry`. `pc`, `zi` and `iter`
are each thread's place in `test_tlc` and its two loop indices; `stop` and
`active` are the two `AtomicBool`s the FFI holds. `SetBarrier` and
`ZeroLine` are the coordinator's writes, `IncBarrier`/`DecBarrier` the
barrier rmws, `Work` one iteration of the 50-step loop with its check of
`stop`, `ReadBarrier` one read of the wait for 0, `Close`/`Reconnect`/`Close2`
the closes and the coordinator's new `Sim` (`get_sim`). `*x -= 1` at 0 panics
when `DebugBuild` and wraps at `Width` bits otherwise.

The barrier and line calls are one atomic memory step each. That is one
of the orders the code can take, not all of them: the `grantack` run shows
a cached call is not atomic against another client. So `TestTlc` has
fewer behaviours than the code, and only a violation of it says something
about the code. The endpoint answers a probe of a node that has closed from
the node's dropped cache, the most favourable case.

## Runs

| Run | Checks | Shows |
|---|---|---|
| `link` | `TypeOK`, `NoRxPanic`, `CreditConservation`, `NoFrameLostForGood`, `LinkSpec` | Two requests and one lost frame, the host's sequence numbers wrapping around, receives between `send_packet`'s two reads of `last_rx_seq`: `remove_from_resend` never pops an empty buffer; per channel, the flits in pools, wires, queues and grants add up to the initial credits; no resend buffer drops a frame the peer has not received; and the pair of logs refines `ReliableLink` under `sent <- sentLog, delivered <- dlvLog`. |
| `close` | `ClosedTogether` | Host- and endpoint-initiated close, with loss, never leave the host Idle while the endpoint is Active. |
| `ackonly` (violation) | `NoFrameLostForGood` | `process_packets` takes `last_rx_seq` from an AckOnly frame (connection.rs:467): the host acknowledges a frame it never received. |
| `cancel` (violation) | `InFlightCancelledOnClose` | A perform that starts after the Close frame stays blocked after `close_connection` returned; spec.md §5 promises ConnectionClosed. |
| `cache` | `TypeOK`, `DataCoherent` | One thread on two lines with reads, writes, rmws, single-line releases and release-all calls while the manager probes: a line the cache reads from holds the last value written to it. |
| `cache_live` | `OpsComplete`, `ProbeAnswered` | Without releases, every cache call returns and every probe is answered, including one that arrives while the tick thread holds the probes mutex. |
| `grantack` (violation) | `DataCoherent` | `perform()` sends the GrantAck before the cache installs the Grant (operations.rs:548); a probe answered in between lets another client's write be lost to a stale read. |
| `relprobe` (violation) | `OpsComplete` | A probe of a line being released blocks the tick thread in `get_mut` on the guard `release_addr` or `release` holds (cache.rs:129): tick and caller wait on each other. |
| `twothreads` (violation) | `DataCoherent` | Two threads missing on one line both acquire it and the second `insert_entry` overwrites the first thread's write (cache.rs:116). |
| `framing` | `TypeOK`, `FramesDecode`, `ResponsesParsed`, `CreditsCoverFlits`, `SourcesConserved` | Two operations of every flit-aligned kind, a GrantAck and a probe: every header field and written byte reaches the endpoint at the start the mask marks; `process_messages` returns every response, probe and credit; `credits()` covers every packed flit; and with both sources in use and a `NotPowTwo` error among the inputs, every source is in the pool exactly once or held by exactly one waiting `perform()`. |
| `testtlc` (violation) | `AllThreadsFinish` | A coordinator and one follower from fresh memory. The follower's GrantAck for `address_cmp` goes out before its `insert_entry`. The coordinator's acquire probes it in between and finds no entry. The follower then spins for ever on a stale ToB copy that no one probes again, so `can_destroy_execution_thread` never returns true. |
| `partialmask` (violation) | `FramesDecode` | bitload's 12-byte tail becomes a PutPartialData whose mask is inverted (operations.rs:414): the endpoint writes the 4 padding bytes and none of the caller's. |

Each property of a passing run has a mutant in `PROJECT.json`, a plausible
bug in the mapped code that TLC finds: an off-by-one `get_highest`; a linear
grant decoding; acking `next_rx`; removing one frame too many; accepting old
frames; skipping ClosedByHostIndicated; a read acquiring like a write; a
release that forgets dirty data; an rmw acquiring only B; `add_probe` as a
try-lock that drops the probe; `get_source` peeking instead of popping; the
param field shifted by a bit; `handle_read` without its one-flit minimum;
`credits()` of a ReleaseData without its header flits;
`create_operation`'s error path not giving its source back.

## Bounds

- `link`: `SeqModulus = 8` under `MCWrapConstraint`. A behaviour either
  numbers at most `MaxFrames = 3` frames per side, with any resend
  buffers (the old bound), or goes on to `SeqModulus + MaxFrames` frames
  while both resend buffers together hold at most `Window = 2`. The host
  then numbers 9 and more frames, so frame numbers are reused and `last_rx`,
  `they_acked` and `first_in_resend` pass through 7, the value the code
  also uses as "nothing yet" (`SequenceNumber::max()`). The endpoint
  answers two requests with at most 5 frames, so its own numbers do not
  wrap. TLC checks invariants on the first state past a constraint, so
  the bounds keep every buffer at most half the space (4 of 8) even one
  step beyond them, where `cmp` still tells older from newer. A buffer of
  half the space or more is the `sequence_number.rs:55` hazard; the 22-bit
  code needs 2^21 unacknowledged frames to get there.
- Other OxLink runs: `SeqModulus = 16`, `MaxFrames = 3` under
  `MCConstraint`; every live distance is far below half the space.
- `WireMax = 1`, `MaxLoss = 1`: one lost frame reaches NAK, resend and
  duplicates. `DefaultCredits = RecvCredits = 2` flits: a grant smaller than
  the pool and an empty pool. `EthernetMax = 70` in OxLink, so a frame holds
  one message and `put_messages` must split the queue.
- Cache: one or two threads, one or two lines, values 0..1, up to 4 calls,
  2–3 probes and one other client's write: enough for a miss, a hit, a dirty
  release, a probe during a release and a probe between Grant and install.
- Framing: `MaxOps = 2` of 11 operation inputs with 2 sources, one probe,
  `EthernetMax = 400` so that several messages share a frame and their start
  mask is non-trivial. Every opcode the host packs except PutPartialData
  (the subject of `partialmask`), a `NotPowTwo` error, and every D opcode
  the endpoint answers with, denied or not, occur.

- `link`: endpoint AckOnly frames are off (`EpAckOnly = FALSE`) so that two
  requests fit in two minutes; `EpSendAckOnly` is exercised by `close`, and
  the AckOnly hazard by `ackonly`.
- TestTlc: a coordinator and one follower, `NumLines = 2`, `Iters = 2`:
  the hang needs only the follower's read of `address_cmp` and the
  coordinator's write. No symmetry, as the run checks a liveness property.
  If the GrantAck window is closed (a scratch variant in which the endpoint
  does not grant while a node is between GrantAck and `insert_entry`), TLC
  still finds a lasso under weak fairness alone. In it the two nodes'
  acquires take the line from each other before either uses it.

## Fairness

`CoherentCache`'s `FairSpec` assumes weak fairness of the tick thread's
actions (`Tick::tick` runs in an endless loop), of the application threads
(each runs its call to completion) and of the manager. `HostRecv` has strong
fairness: `add_probe` waits for the probes mutex that the tick thread takes on
every tick, so the receive thread is enabled only intermittently, and
parking_lot's mutex hands the lock to a waiter eventually (its eventual
fairness). `TestTlc`'s `FairSpec` has weak fairness of each execution thread: each is
an OS thread whose spin loops call `thread::yield_now`, and no thread holds
anything another needs between two calls; the endpoint's `CmpGrant` is
weakly fair, as it serves every AcquireBlock it has; `stop_execution_thread` gets no
fairness, as the simulator may never call it. OxLink and OxFraming check
only safety; `Finished` in OxFraming is
the stuttering end of a behaviour in which everything was answered, so
deadlock is still checked there.

## Not modelled, and the plan

- **Not modelled:** sockets, the FFI bindings other than the execution-thread control, the TUI's network thread and rendering, the
  configuration tool (pure I/O); a ReadLen of a length that is not a power of
  two (the panic is in bitload's slice copy); the mask counter's saturation at
  64 flits; frames larger than 400 bytes; `sim_next_flit`'s multiplexing of
  several `Sim`s onto one wire (it can interleave two packets, see the
  hazard at `ffi.rs:157`, but only with two populated `Sim`s, which the
  current `start_execution_thread` never creates).
- **test_tlc's barrier and lines.** The barrier count, lost increments
  and the decrement at 0 are not checked. `TestTlc` takes those calls as
  atomic, so they could only be reported as violations. Making them
  faithful would mean the GrantAck race of operations.rs:548 on every line and the endpoint's
  treatment of a closed host's lines. `test_tlc` is also not started by the
  current `start_execution_thread`. The run starts with `address_cmp` not
  holding the magic value, as the test assumes. That `close_connection`
  never releases the coordinator's dirty line holding the magic value is
  listed as a hazard; what the endpoint does with a closed host's lines is
  hardware behaviour outside `src/`. The other three test cases are
  single-threaded write-then-read sequences on one `Sim`.
- **Liveness of close in OxLink** is not checked: `MCConstraint` cuts
  behaviours at `MaxFrames` and heartbeats consume sequence numbers, so a
  leads-to under that constraint would be vacuous.
- **The `send_packet` race at connection.rs:339** is modelled in
  `OxLink` (`TickSend`, then `TickSendAck`), and the `link` run reaches it: a state where `we_acked` is
  newer than the ack of the last frame sent. `LinkSpec`,
  `NoFrameLostForGood` and `NoRxPanic` hold with it: the ACK is only
  delayed until the endpoint resends. A delay is not a safety property, and
  liveness is out of reach (see above).
- **Open work:**
  1. a violation run for the short WriteLen that misaligns a frame
     (operations.rs:242), folded into `partialmask` or a run of its own;
  2. liveness of close and of perform in OxLink: sequence numbers now
     wrap, but `numbered` is still bounded, so a leads-to would again be
     cut off at the bound;
  3. an abstract cache spec that `CoherentCache` refines: with `latest`
     already the single-copy memory, it says no more than `DataCoherent`
     unless read results are added.
