# TLA+ models of NetNodeGateway

This directory holds TLA+ models of the NetNodeGateway code under `src/src/`, with:

- TLC configurations that model-check the models on small instances;
- TLAPS proofs of the central invariants for every value of the constants.

`PROJECT.json` records four things for every model definition and run:

- the source lines each definition translates;
- each run and what it checks;
- the mutants that show each property can fail;
- the hazards found in the code.

## The system

NetNodeGateway has two kinds of traffic: sensor telemetry arrives over UDP, and operators query and configure the gateway over TCP.

| Part | Source | Role |
|---|---|---|
| Gateway loop | `gateway/gateway.cpp` | `run()` receives datagrams in one thread until `stop()` sets `should_stop_`. `process_frame` parses each one, feeds it to the tracker, updates the statistics and publishes events. |
| Telemetry parser | `gateway/telemetry_parser.cpp` | `parse_frame` checks, in order: length, version, message type, payload length, truncation, CRC. |
| Sequence tracker | `gateway/sequence_tracker.cpp` | Per source: `{initialized, next_expected, 64-bit seen_window}`. `track` classifies each frame as FIRST, OK, GAP, REORDER or DUPLICATE. |
| Statistics | `gateway/stats_manager.cpp` | Global and per-source counters. Each mutator takes a unique lock and each reader a shared lock. |
| Control node | `control_node/*.cpp` | An accept thread plus one thread per TCP client. It decodes length-prefixed frames (`tcp_framer`) and answers GET/SET through one shared `CommandHandler`, which reads the StatsManager. |
| Event bus, logger | `common/` | The event bus publishes to subscribers, calling them outside its lock. The logger only produces output. |
| Recorder / replay, UDP socket | `gateway/`, `replay/` | Frame sources and sinks (I/O). |
| Sensor simulator, fault injector | `sensor_sim/` | A separate process that generates test traffic. |

The two threads that meet in the model are the following:

- **The gateway loop writes the statistics.** It makes one, two or three StatsManager calls per frame, each under its own lock.
- **The control-node client threads read them, at any moment.** `GET STATS` and `GET HEALTH` can land between any two of those calls.

## Modules

| Module | Models | State | Actions |
|---|---|---|---|
| `SequenceTracker` | `SequenceTracker::track / reset / reset_all` | `trk` (source → SourceState). Ghost variables: `seen` (sequence numbers received), `firstSeq`, `lastEvt` (the last verdict). | `Track(s, seq)`, `Reset(s)`, `ResetAll` |
| `StatsManager` | `StatsManager` mutators and readers | `global`, `perSource`, `created` (the lazily created entries) | `RecordRx` … `RecordCrcFail`, `StatsReset`. The readers are operators: `Health`, `GetSourceStats`, and `HealthRank` orders the health levels. |
| `TelemetryParser` | `parse_frame` | none (a pure operator over an abstract datagram) | `ParseFrame(d, crc)` |
| `Gateway` | `Gateway::run / stop / process_frame`, composing the three above | The above, plus `pending` (this frame's StatsManager calls not yet made), `shouldStop`, `running` and `nFrames` | `ReceiveValid`, `ReceiveMalformed`, `StatsCall`, `Stop`, `Exit`. `FairSpec` adds fairness for the loop thread. |
| `GatewayMain` | `gateway_main.cpp` `main` and `signal_handler`, around `Gateway` | `mainPc` (where main is), `gShutdown` | `Signal`, `Publish` (g_gateway set), `RunStart`, `RunFail`, `LoopStep` |
| `MessageStream` | what the framer promises: requests delivered whole, once, in order | the requests sent and those delivered | `Send`, `Deliver` |
| `TcpFramer` | `TcpFramer::feed / try_extract_frames / has_frame / pop_frame / reset` | the byte buffer, the extracted frames | `Feed(chunk)`, `Pop`, `Reset`; refines `MessageStream` |
| `CommandHandler` | `CommandHandler::handle / handle_get / handle_set` | none: `Handle(h, req, g)` maps a handler state and a request to the new state and the reply | operators only |
| `ControlNode` | `ControlNode::start / stop / accept_loop / client_loop` with one shared `CommandHandler`, reading `StatsManager` | the owner thread's `spc`, `listenFd`, `openFds`, `clientFds`, thread states, each client's `cpc`/`cfd`/`creq`, the handler state | `Start`, each step of `stop()`, `AcceptPoll`, `AcceptConn`, `AcceptFail`, `AcceptPush`, `AcceptExit`, and per client `ClientRecv`, `ClientReply`, `ClientSeesStop`, `PeerHangup`, `ClientClose`, `ClientErase` |
| `EventBus` | `EventBus::subscribe / subscribe_all / unsubscribe / publish` | `subs` (the entries of `subs_`), `nextId`, each subscriber's state and id, the publisher's copy `toCall`. Ghost variables: `pubCat`, `subAt`, `goneAt`, `called`. | `Subscribe`, `Unsubscribe`, `PublishSnapshot`, `PublishCall`, `PublishDone` |
| `MC*` | small instances for TLC | | |
| `SequenceTrackerProofs`, `GatewayProofs`, `SequenceAccountingProofs`, `EventBusProofs`, `ControlNodeProofs` | TLAPS proofs | | |

Modelling choices:

- **Sequence arithmetic.** `uint32_t` arithmetic is `U32(x) == x % SeqMod`. The code has `SeqMod = 2^32`; TLC uses 8, so a run reaches the wrap in a few frames.
- **The window.** The `std::bitset<64>` is the set of its set bit indices. `<<=` is `ShiftLeft`, which drops the bits shifted past the top. The window size is the constant `WindowSize`.
- **Parsing then counting.** `process_frame` is split at its lock boundaries:
  - `ReceiveValid` and `ReceiveMalformed` do the thread-local work (parse and `track`). They queue the StatsManager calls the code makes for that frame, in code order: `ValidCalls` (record_rx, then the anomaly counter) or `MalformedCalls` (record_malformed, then record_crc_fail for a CRC mismatch).
  - `StatsCall` performs one queued call atomically.

  So every state of the model is one a concurrent reader can observe.
- **The receive.** The datagram source delivers any datagram of `Datagrams`, from any source, with any sequence number. Loss, duplication and reordering on the wire, and replayed frames, are all among those choices. A timed-out receive changes nothing and is a stutter.
- **The control node's threads.** `stop()` is split into its steps (clear `running_`, close the listening socket, close every client fd, join the accept thread, take `clients_mutex_` and join the client threads), because the other threads run between them. A client thread's loop is receive, handle, reply; the peer may hang up at any time. Requests reach the handler whole: the framer is checked on its own (`TcpFramer`), and a reply is one atomic send.
- **File descriptors.** The kernel hands out the lowest free number (`LowestFree`), so a number closed by one thread is the next one `accept` returns.
- **The accept thread's check and call.** `accept_loop` re-checks `should_stop_` after `poll` (line 102) and only then calls `::accept` (line 108). These are two steps, `AcceptPoll` and `AcceptConn`, so `stop()` can set the flag in between. If `stop()` has also closed the listening socket, `::accept` fails (`AcceptFail`).
- **Commands.** A request is a record (verb, argument, key, value, whether it had `=`); `toupper` and trimming are lookup tables over that small vocabulary. `GET STATS` and `GET HEALTH` read the StatsManager state at the moment of the call.
- **The event bus.** `subs_` is the set of its entries. Ids only grow while they do not wrap (`NoIdWrap`; nothing under `src/` subscribes, so the 2^32 subscriptions a wrap needs cannot happen), so the vector's order is the id order, and `PublishCall` calls the smallest id left. `publish` is cut where it releases the lock: `PublishSnapshot` copies the matching entries under the lock, and each `PublishCall` runs one copied callback without it. Callbacks do not call back into the bus.
- **Left out of the gateway model:**
  - `publish_event` and the per-message-type payload dispatch: they only produce output, and no gateway state changes.
  - The recorder.
  - The reset operations: only tests call them, so they are not in the gateway's `Next`.

## Runs

| Run | Cfg | Expect | Checks |
|---|---|---|---|
| gateway | `MCGateway.cfg` | pass | `TypeOK`, `CauseBeforeEffect`, `SequenceAccounting`, `StopHonoured`, `HealthNeverImproves` |
| tracker_dup | `MCSequenceTracker_dup.cfg` | violation | `NoFalseDuplicate` |
| tracker_stream | `MCSequenceStream.cfg` | violation | `LossReportedAsGap` |
| framer | `MCTcpFramer.cfg` | pass | `FramerRefinesStream` |
| framer_desync | `MCTcpFramer_desync.cfg` | violation | `FramerRefinesStream` (with a frame over the limit) |
| control | `MCControlNode.cfg` | pass | `FdsClosedWhenStopped`, `NoForeignClose` |
| control_stop | `MCControlNode_StopReturns.cfg` | violation | `StopReturns` |
| control_fds | `MCControlNode_ClientFdsTracked.cfg` | violation | `ClientFdsTracked` |
| control_handler | `MCControlNode_HandlerOwned.cfg` | violation | `HandlerOwned` |
| control_close | `MCControlNode_CloseOnlyOpen.cfg` | violation | `CloseOnlyOpen` |
| gateway_ctrlc | `MCGatewayMain.cfg` | violation | `CtrlCStops` |
| eventbus | `MCEventBus.cfg` | pass | `DeliveryExact` |

The tracker's type invariant no longer has a run of its own: `TrkTypeCorrect` proves it for every instance, and the gateway run checks the tracker state as part of `TypeOK`.

The properties that hold:

- **`CauseBeforeEffect`.** No reader ever sees an effect before its cause. A source's reorders and duplicates are strictly fewer than its received frames, and zero before its first frame. `crc_fail_total ≤ malformed_total`. It takes several frames and a reader between two StatsManager calls to break.
- **`SequenceAccounting`.** Between frames, the tracker's `next_expected` equals `firstSeq + (frames that advanced it) + Σ gap sizes (mod 2^32)`. This ties the tracker's state to what `record_gap` adds.
- **`HealthNeverImproves`.** An action property: no step of the gateway makes `get_health()` better. A client polling `GET HEALTH` never sees OK after DEGRADED or ERROR unless someone calls `reset`.
- **`StopHonoured`.** Once `stop()` has set `should_stop_` while the loop runs, the loop exits.
- **`FramerRefinesStream`.** The framer implements `MessageStream`: whatever the recv chunking, the frames popped are exactly the requests sent, in order, each once.
- **`FdsClosedWhenStopped`.** When `stop()` has returned, every descriptor the node opened is closed.
- **`NoForeignClose`.** An action property: a client thread's `::close` (line 160) never closes a number that another thread holds. That covers the listening socket, the fd the accept thread has not pushed yet, and the fd of another serving client. The client may close a number that `stop()` has already closed (see control_close), but no thread of the node can have been given that number in between.
- **`DeliveryExact`.** Whenever `publish` is not running, each subscriber has been called back for exactly the events of the categories it wants that were published after its `subscribe` returned and before its `unsubscribe` returned. A callback can therefore run after `unsubscribe` returns, but only for an event whose publish copied the list earlier. A `subscribe_all` subscriber gets every category, although the bus stores it under TRACKING.

Bounds:

- **The gateway run.** Two sources (0 doubles as the source malformed frames are charged to), `SeqMod = 8`, `WindowSize = 4`, up to 4 frames, and three datagrams: good, bad CRC, bad version. Four frames are enough for a FIRST, a gap, a late frame and a duplicate of one source, or for interleavings of two sources with malformed frames. 280 577 distinct states.
- **The framer run.** Five framed requests (lengths 5, 0, 2, 5, 2, so an empty request is included) cut into recv chunks of every size from 1 to 5 bytes, under the real 10 MiB limit. Chunks of up to 5 bytes split a length prefix in every place and also carry a frame's end together with the next frame's start. The desync run puts a prefix announcing a frame over the limit (its first byte is 1, so the length is 2^24) before them.
- **The control run.** Two clients, one request each from four (GET STATS, GET HEALTH, SET CRC, a malformed one), descriptors from 3. Two clients are enough for one to close while the other is accepted and for both to share the handler. 21 307 distinct states.
- **The event bus run.** Three subscribers (one to TRACKING, one to NETWORK, one to all), two categories, up to 3 events, `IdMod = 16`. Every subscribe, unsubscribe and publish order is explored, including an unsubscribe between the copy and the call. 168 247 distinct states.

Fairness, and why the code justifies it:

- **The gateway loop** (`FairSpec`): weak fairness of `StatsCall` and `Exit`. The loop thread never blocks between StatsManager calls, and its `recv` returns after at most 100 ms, after which it re-reads `should_stop_`.
- **The control node** (`CnFairness`): weak fairness of the owner's stop steps, of the accept thread's `::accept` after `poll` saw a peer, its push and exit, and of each client thread's reply, stop check, close and erase. `poll` in both loops times out after 100 ms, so a thread re-checks `running_` without waiting for a peer. There is no fairness on `Start`, on `stop()` being called, on peers connecting or hanging up, or on requests arriving: those are the environment's choices.
- **`GatewayMain`**: weak fairness of main's own steps (publishing `g_gateway`, starting `run()`) and of the loop's steps as above. There is none on the signal, which the user may send at any moment.

Deadlock checking is off only where the program may really stop: after `Exit` in the gateway, after `stop()` returns in the control node, and once the event bus has published its last event.

Mutants (in PROJECT.json) show that each passing property fails under a plausible bug:

| Mutant | Breaks |
|---|---|
| an unmasked bitset shift | `TypeOK` |
| `record_rx` issued after the anomaly counter | `CauseBeforeEffect` |
| `record_gap` counting 1 instead of the gap size | `SequenceAccounting` |
| the loop exiting on `should_stop_` only once the source is exhausted | `StopHonoured` |
| `get_health` testing gaps before the error rate | `HealthNeverImproves` |
| the length prefix read little-endian | `FramerRefinesStream` |
| `stop()` not closing the listening socket | `FdsClosedWhenStopped` |
| `stop()` closing the client sockets right after setting `should_stop_`, before the listening socket | `NoForeignClose` |
| `publish`'s filter requiring both `all_categories` and the category | `DeliveryExact` |

## What the violations show

1. **The window shift direction (tracker_dup).**
   - Bit `i` is meant to stand for sequence `next_expected − 64 + i` (`sequence_tracker.h:38`, spec §3).
   - When `next_expected` advances, the bits must move toward bit 0. The code's `<<=` moves them toward bit 63.
   - Trace: FIRST 3, late 0 (REORDER), OK 4. Then frame 2, never received, is reported DUPLICATE.
2. **A loss at the 2^32 wrap (tracker_stream).**
   - `MCSequenceStream` feeds the tracker from a sender that numbers its frames consecutively modulo `SeqMod` over a network that only loses frames (at most `MaxLoss = 1` in a row). `LossReportedAsGap` says each frame after the first is OK, or a GAP of the number lost.
   - The code compares `seq > next_expected` as unsigned 32-bit values, as spec §4.3 requires. When the frame numbered 2^32 − 1 is lost, `next_expected` is 2^32 − 1 and frame 0 is called REORDER with age 2^32 − 1 (trace: FIRST 6, frame 7 lost, frame 0 REORDER, with `SeqMod = 8`).
   - The very-old REORDER branch leaves the state unchanged, so every later frame is REORDER too until the counter comes round. The loss is never counted in `gap_total`.
   - The spec's glossary calls a jump ahead by n a gap of n lost frames, and says `next_expected` wraps; its compare rule makes a loss at the wrap a reorder. The spec does not say which should win (a spec gap).
3. **A double close (control_close).** `stop()` shuts down and closes every fd in `client_fds_` (lines 70-73). The client thread then leaves its loop and closes the same number again at line 160 (`CloseOnlyOpen`). The second close fails with EBADF, or closes whatever another thread of the process was given that number for in between. Inside the node nobody can be (`NoForeignClose` holds), so the model shows the second close but not a victim.
4. **The framer's oversize reset (framer_desync).** On a length prefix over 10 MiB, `try_extract_frames` clears the whole buffer, including bytes of the next frames that came in the same `recv` chunk. Whether a later request survives depends on how TCP cut the stream.
5. **`stop()` can hang (control_stop).** `stop()` holds `clients_mutex_` while it joins the client threads. A client thread that has left its loop blocks taking that mutex to erase its fd, so the join never returns.
6. **Descriptor reuse (control_fds).** `client_loop` closes its fd before erasing it from `client_fds_`. The accept thread can get the same number for a new client and push it. The old thread's `remove` then erases the new client's entry, and `stop()` never shuts that client down.
7. **The shared handler (control_handler).** The spec gives each client thread its own command handler. The code has one `handler_` that every client thread calls without a lock, so two clients' valid SETs (`Writes`: a SET with an `=` and, for `LOG_LEVEL` and `CRC`, an accepted value) assign `config_` and `crc_enabled_` at the same time. A SET that handle_set rejects writes nothing and is not counted.
8. **A lost Ctrl+C (gateway_ctrlc).** A signal before `g_gateway` is set only sets `g_shutdown`, which nothing reads. A signal after that but before `run()` begins is overwritten when `run()` stores `should_stop_ = false`. In both cases the gateway runs on.

## What is proved

`SequenceTrackerProofs` proves `TrkTypeCorrect: TrkSpec => []TrkTypeOK`, for all `Sources`, `WindowSize` and `SeqMod` satisfying `TrackerAssumption`:

- A lemma per `track` branch shows the new window stays within `0 .. WindowSize − 1`.
- The REORDER branch needs `1 ≤ age ≤ WindowSize`, which holds because `seq` is neither `next_expected` nor above it.

`GatewayProofs` proves three theorems, for all constants satisfying `GatewayAssumption`:

- **`TypeCorrect`:** `Spec => []TypeOK`.
- **`CauseBeforeEffectHolds`:** `Spec => []CauseBeforeEffect`.
- **`HealthNeverImprovesHolds`:** `Spec => HealthNeverImproves`. Lemma `GlobalGrows` shows every step only adds to the global counters, and `HealthRankMonotone` that `get_health` never ranks better when counters grow.

`CauseBeforeEffect` is not inductive on its own:

- **Between `record_rx` and `record_reorder`** the count of late frames is about to grow by one, so the state must already have room for it.
- **A source the tracker knows** may have its `record_rx` still pending.

The inductive invariant `IInv` is `TypeOK /\ CauseBeforeEffect /\ PendingInv /\ InitTracked`. TLC checked it as an invariant of the gateway instance before it was proved.

- **`PendingInv`** describes the pending queue:
  - its shape (at most two calls: record_rx then an anomaly of the same source, or malformed then crc_fail);
  - when an anomaly call is pending alone, `reorders + duplicates + 1 < rx_count`;
  - when `crc_fail` is pending alone, `crc_fail_total < malformed_total`.
- **`InitTracked`** says an initialized tracker entry has `rx_count ≥ 1`, or its `record_rx` is the pending head.

A TRACK-time REORDER needs the source to be already initialized, so its `record_rx` has happened. Together with the fresh `record_rx` queued ahead of it, that gives the strict inequality. The step proof has one lemma per action (`IInvReceiveValid`, `IInvReceiveMalformed`, `IInvStatsCall`, `IInvStopExit`), and `IInvStatsCall` has one case per StatsManager call.

`EventBusProofs` proves **`DeliveryExactHolds`:** `BusSpec => []DeliveryExact`, for all subscribers, categories and event bounds satisfying `BusAssumption` and `NoIdWrap` (fewer subscriptions than `2^32 − 1`, so ids do not wrap). `DeliveryExact` speaks only of quiet moments, and it is not inductive. The strengthening `IInv` (checked by TLC on the event-bus instance first) says:

- **`SubsInv`:** `subs_` holds exactly one entry per subscribed subscriber, carrying the id `subscribe` returned.
- **`IdsInv`:** `next_id_` is one more than the number of subscriptions made, and the ids are distinct and below it. This is why `unsubscribe`'s erase-by-id removes only the caller's entry.
- **`HistInv`:** the ghost counters never run ahead of the events published.
- **`CallInv`:** while `publish` is calling, each subscriber owed the current event either has been called or is still in `to_call`, never both, and no one else is in either.
- **`DoneInv`:** `DeliveryExact` for every finished event.

There is one lemma per action (`IInvSubscribe`, `IInvUnsubscribe`, `IInvSnapshot`, `IInvCall`, `IInvDone`).

`SequenceAccountingProofs` proves **`SequenceAccountingHolds`:** `Spec => []SequenceAccounting`, for all constants satisfying `GatewayAssumption`. `SequenceAccounting` speaks only of moments when no StatsManager call is pending: between `track` and those calls the counters lag behind `next_expected`. The strengthening `AInv` (checked by TLC on the gateway instance first, 280 577 states) is `IInv /\ AcctInv /\ FreshInv`:

- **`AcctInv`:** for every initialized source, `next_expected = U32(firstSeq + counted + pending)`. Here `counted` is `rx − reorders − duplicates + gaps` and `pending` is what the queued calls will add. A `record_rx` adds 1, a `record_gap(n)` adds n, and a `record_reorder` or `record_duplicate` takes 1 away. Each `StatsCall` moves its delta from the pending part into the counters, so the account does not change.
- **`FreshInv`:** a source the tracker has not initialized has zero counters, and no call of it is queued except the malformed ones. Its FIRST frame then starts the account at `firstSeq + 1`.

The arithmetic rests on lemmas about `% SeqMod` with a symbolic modulus. These cover the range of `x % m`, its uniqueness (`x = k·m + r` with `0 ≤ r < m` gives `x % m = r`), and `U32Shift`: adding to a value that is already reduced, then reducing again, is the same as reducing once. `TrackAccount` shows what one `track` call does to `next_expected` in each branch.

`ControlNodeProofs` proves two theorems for every finite set of clients:

- **`FdsClosedWhenStoppedHolds`:** `CnSpec => []FdsClosedWhenStopped`. The strengthening `CnInv` says:
  - every open number has an owner that will close it: the listening socket until `stop()` closes it, the fd the accept thread has not pushed yet, or a serving client's fd (`FdsOwned`);
  - every client thread that has not finished is in `client_threads_`, and `stop()` clears that list only after joining them (`ThreadsJoined`);
  - the accept thread has exited once `stop()` has joined it (`AcceptJoined`).
- **`NoForeignCloseHolds`:** `CnSpec => NoForeignClose`. The strengthening `ExclInv` adds:
  - the holders' numbers are pairwise distinct (`FdsExclusive`);
  - while the listening socket is open, `stop()` has shut nothing down and every holder's number is open (`FdsOpen`), so the least free number that `::accept` returns belongs to nobody;
  - the listening socket is open only between `start()` and its close (`ListenPhase`), so no number is handed out after `stop()` starts closing client sockets.

  That `LowestFree` exists at all needs two facts:
  - **`FdCount`:** there are `|Clients| + 1` numbers, and at most one is open per accepted client plus the listening socket. This is a cardinality argument from `FiniteSetTheorems`.
  - **`MinFree`:** the free numbers have a least member above every bound. Stating this as part of the invariant avoids an induction over sets of numbers, which the provers cannot instantiate. It is preserved by removing the least member (`MinsRemoveLeast`) and by adding one number (`MinsAddOne`).

  Both strengthenings were checked by TLC on the control instance, and on a three-client instance, before they were proved.

Only model-checked:

- `FramerRefinesStream`. The framer's refinement rests on what the recursive `Extract` decodes from a byte sequence. That is induction over data, and a module that reaches a RECURSIVE operator loses the SMT backend.
- The liveness properties `StopHonoured` (and the violated `StopReturns` and `CtrlCStops`). TLAPS does not reason about fairness and ENABLED here.
- The violated properties, whose counterexamples TLC prints.

## Not modelled

- **The `SET CRC` policy.** `CommandHandler` models `crc_enabled_`, but no code passes it to the gateway's parser, and `main()` never constructs a `ControlNode`. There is no interaction to compose, so the hazard at `command_handler.cpp:115` is listed without a property.
- **Short sends.** A reply is one atomic `send`. The code only checks `sent < 0`, so a partial send would leave the client's framer out of step. Modelling it needs the client side's byte stream.
- **`start()` failure paths** (socket, bind and listen errors) in the control node: they return before any thread starts.
- **Callbacks re-entering the event bus.** Only tests subscribe, and their callbacks do not call the bus.
- **CRC-32** (abstracted to a flag), **the logger**, **the UDP socket**, **the recorder and replay**, **the sensor simulator**, and **the CLI client and option parsing.** They are pure I/O or computation, or sit outside the gateway process. Their effect on the gateway is covered by the nondeterministic receive.
