# TLA+ verification of gbnet

`gbnet` is a game networking library: reliable messages over UDP in a polling
game loop. Every host is single-threaded; what makes it hard is the network
between the hosts, sequence numbers that wrap around, timers, and two state
machines (server and client) that never agree instantly. This directory models
the protocol core in TLA+, checks it with TLC on small instances and proves
most of its safety properties with TLAPS for every instance.

Paths below are relative to the repository (`gbnet/src/...`).

## 1. The system

| Component | State | Operations | Hard behaviour | What makes it correct |
|---|---|---|---|---|
| Sequence numbers (`util.rs`) | none | `sequence_greater_than`, `sequence_diff` | wrap-around; half a turn apart the order is not transitive | numbers issued within half a turn compare as issued |
| Message channel (`channel.rs`) | send buffer, `pending_ack`, awaited and last number, ordered buffer, delivery queue | `send`, `get_outgoing_message`, `get_retransmit_messages`, `acknowledge_message`, `mark_for_fast_retransmit`, `on_packet_received`, `update`, `receive`, `reset` | lost, repeated, reordered datagrams; full buffers; gap timeout racing the late message; retries racing acks | order, at most once, gaps only after a timeout, bounded memory, retries that end |
| Reliable endpoint (`reliability.rs`) | in-flight records, newest number received, 64 ack bits, ring of received numbers, RTT estimate | `on_packet_sent`, `on_packet_received`, `process_acks`, `get_ack_info` | late and repeated acks, duplicates the ring forgot, jumps as wide as the bit field, eviction | acks complete and honest, fast retransmission only of overtaken packets |
| Connection (`connection/`) | channels, endpoint, send queue, fragments, congestion, timers | `connect`, `disconnect`, `update_tick`, `handle_packet`, `process_incoming_header`, `reset_connection` | where packet numbers and message numbers meet: retransmissions, fragments, reset | what is delivered is acknowledged and stops being sent |
| Server (`server.rs`) | connections, pending challenges, disconnecting connections, migration cooldowns, rate limiter | `update`, `send`, `disconnect`, `shutdown`, one handler per packet type | handshakes of several clients interleaved, late packets of former sessions, check and use of limits far apart | admission bounded, one connection per client, nothing half-open for ever |
| Client (`client.rs`) | state, timers, retry count, its connection | `connect`, `reconnect`, `disconnect`, `shutdown`, `update`, one handler per packet type and state | as above | every handshake and goodbye ends |
| Fragmentation, MTU discovery (`fragment.rs`) | reassembly buffers and their total size; search interval | `fragment_message`, `process_fragment`, `cleanup`; `next_probe`, `on_probe_success`, `check_probe_timeout` | duplicate and late fragments, late probe answers | no live message thrown away while there is room, interval never empty |
| Congestion, batching (`congestion.rs`) | mode, timers, budget; window, bytes in flight | `update`, `refill_budget`, `deduct_budget`; `on_send`, `on_ack`, `on_loss`; `batch_messages`, `unbatch_messages` | alternation of modes, window that never reopens | recovery time within limits, batches decode to what was batched |
| Security (`security.rs`) | used tokens, request times | cookies, `allow`, `validate`, CRC, encryption | windows of time, bounded memory | no token accepted twice within its entry's lifetime |
| Delta compression (`delta.rs`) | pending snapshots, confirmed baseline; received snapshots | `encode`, `on_ack`, `decode`, `push_snapshot` | lost and late acks, evicted baselines | what is decoded is what was encoded |
| Priority, interest, interpolation | per-entity accumulators; none; snapshot ring | `accumulate`, `apply_modifier`, `drain_top`; `relevant`, `priority_mod`; `push`, `sample` | starvation; late snapshots | every entity not held back is sent eventually; the display never goes back |
| Simulator (`simulator.rs`) | delayed packets, tokens | `process_send`, `receive_ready` | used as the network of tests | can it do what its configuration says |
| Serialization (`serialize/`), derive macros (`gbnet_macros`), packets (`packet.rs`) | a buffer with its positions | `write_bits`, `read_bits`, alignment; the generated code; `serialize`, `deserialize` | fast and slow paths, attributes that combine freely, limits checked at one end only | round trips; nothing is cut off silently |
| Configuration, socket, stats | none or counters | `validate`, `send_to`, `recv_from` | none | none |

Interactions. The application calls `NetServer`/`NetClient`; both own one UDP
socket. `update()` reads every datagram, hands it to the handler of its packet
type and then runs `Connection::update_tick` of each connection: it asks the
channels for messages and retransmissions, numbers a packet for each
(`create_header` adds the endpoint's ack information) and queues them.
An incoming header goes to the endpoint, which returns the messages it found
acknowledged (to `Channel::acknowledge_message`) or skipped three times (to
`mark_for_fast_retransmit`); the payload goes to `Channel::on_packet_received`.

## 2. Modules

| Module | Models | |
|---|---|---|
| `SeqNum` | `util.rs` | circular numbers; the half range is a parameter |
| `SeqNum_proofs` | | their theorems |
| `Channel` | `channel.rs` | both halves of a channel and the datagrams between them |
| `ChannelDelivery` | | what a channel promises, as a specification of its own |
| `Channel_proofs` | | type correctness and safety of `Channel` |
| `ChannelDelivery_proofs` | | `Channel` implements `ChannelDelivery`; what its steps never do |
| `Reliability` | `reliability.rs`, `create_header`, `process_incoming_header` | sending half of an endpoint and receiving half of its peer |
| `Reliability_proofs` | | its safety, and what `Connection` assumes of it |
| `Connection` | `connection/io.rs`, `reset_connection`, `FragmentAssembler` as it uses it | one direction of a connected pair of hosts, over several sessions |
| `Connection_proofs` | | its safety |
| `Session` | `server.rs`, `client.rs`, parts of `connection/` | one server and several clients |
| `Session_proofs` | | its safety |
| `Fragments` | `fragment.rs`, `FragmentAssembler` | reassembly and the running total of bytes held |
| `MtuDiscovery` | `fragment.rs`, `MtuDiscovery` | the search and the network that answers or not |
| `Congestion` | `congestion.rs`, `CongestionController` | the two modes and the recovery time |
| `Sending` | `connection/io.rs`, the loop over the channels; `congestion.rs`, `CongestionWindow` and the budgets | which messages a tick sends |
| `BitBuffer` | `serialize/mod.rs` | the buffer of bits |
| `Codec` | `serialize/primitives.rs`, `collections.rs`, what `NetworkSerialize` generates | types, values and their two wire forms |
| `FragmentFormat` | `fragment.rs`, `fragment_message`, `FragmentHeader`, `FragmentBuffer` | pure functions, byte by byte |
| `Packets` | `packet.rs`, the way of a message to datagrams and back, with `Codec` and `FragmentFormat` | |
| `Batching` | `congestion.rs`, `batch_messages`, `unbatch_messages` | pure functions, byte by byte |
| `Delta` | `delta.rs`, `DeltaTracker`, `BaselineManager` | both ends and the network |
| `Security` | `security.rs`, `TokenValidator`, `ConnectionRateLimiter` | two parts |
| `Interest` | `interest.rs` | pure geometry |
| `Priority` | `priority.rs`, `PriorityAccumulator` | one sender's entities and an observer |
| `Interpolation` | `interpolation.rs`, `SnapshotBuffer` | snapshots and the display |
| `Simulator` | `simulator.rs`, `NetworkSimulator` | the network of tests |
| `Parts_proofs` | | the theorems about `Fragments`, `MtuDiscovery`, `Congestion`, `Sending`, `Delta`, `Security`, `Interpolation`, `Simulator` and `Interest` |
| `Wire_proofs` | | the round trips of `Batching`, `BitBuffer` and `FragmentFormat` |
| `MC*` | | constants for TLC; the types, values and packets of `Codec` and `Packets` are in `MCTypes` |

**SeqNum.** `SeqGreater`, `SeqDiff`, `SeqPlus`, `SeqMinus` are
`sequence_greater_than`, `sequence_diff`, `wrapping_add`, `wrapping_sub`, for
numbers `0 .. 2 * HalfRange - 1`. In the code `HalfRange` is 32768; TLC uses 4
or 8, so that a few messages wrap around.

**Channel.** A message is its rank, the how-manieth accepted by `send`.
Variables have the fields' names; `delivered` is the history of everything
pushed on `delivery_queue`. `wire` is the set of datagrams in flight: `Lose`
removes one, `OnPacketReceived` may leave a copy, and any may come next.
Timestamps are ages counted by `Tick`, so events within a tick are not ordered
by their timestamps (`Instant`s may be equal). The history `attempts` has, of each message that
awaits its ack, how often it was sent, the quiet ticks since, and whether it was reported missing
since. Loops that remove runs of
buffered messages are one step (`RunEndsAt`, `DeliverRun`). The packet layer
appears as two inputs: `AcknowledgeMessage` of a message whose packet arrived,
`MarkForFastRetransmit` of any message.

**ChannelDelivery.** Accept adds a message, Deliver appends messages to the log;
if the channel is ordered or sequenced, with increasing ranks. `Channel`
implements it with the refinement mapping `monotone <- Sequenced \/ Ordered,
accepted <- sent, log <- delivered`.

**Reliability.** One direction of a connection. Packets are ranks; any packet
sent may arrive any number of times (`OnPacketReceived`), any ack information
ever sent may be processed any number of times (`ProcessAcks`), so loss, delay,
repetition and reordering need no actions of their own. The history `tracked_at` has the moment each
packet was tracked. `overflow_checks`
distinguishes debug and release builds where a shift overflows. The raw headers
of `MtuProbeAck` (all numbers 0) are modelled for new connections.

**Connection.** Where message numbers meet packet numbers: `SendMessage` is one
turn of the loop in `update_tick` over `get_outgoing_message`, `Retransmit` one over
`get_retransmit_messages`, `ProcessAcks` and `ReceivePacket` are the two ends of
`process_incoming_header` and the data handlers. `Channel` and `Reliability` appear
by what their runs establish, not by their state: messages are numbered from 0 in
each session; a retransmission timer may run out whenever it is looked at; while a
session has fewer packets than `AckBitsWindow` the ack information is the set of numbers
received, plus 0. `packets` are those in flight or arrived, and any may be
received again. `Reconnect` resets what `reset_connection` resets: everything but the
client's endpoint, so at a client that sends, `sent_packets` survives, at one that
receives, `received_packets` does, and packets of the former session may still be
in flight. The server has dropped its `Connection` by then and makes a new one; a client that
reconnects while the server still has it, so that the server only answers `ConnectionAccept` and
keeps it (`server.rs:305-308`, `370-373`, `426-429`), is left out.

**Session.** A client is its address. Packets are their types; "Data" is every
packet only an open connection accepts. One over `max_message_size` is dropped before it touches
its connection, but from an unknown address it migrates one all the same (`server.rs:469-485`).
Timers are ages. Each handler is an
action of its own, and so is each timer, in any order: `update()` handles
packets and then timers, so the model has every order the code has and more.

The remaining modules are parts that keep a state of their own and share none.
`MCParts` extends all of them; the variable `part`, chosen in `PartsInit`, says
which one moves.

**Fragments.** A fragment is its header and its size; what is held is counted as a set of bytes
(`BytesIn`, `SizeOf`). `Take` and `DropMismatched`
are the two ways through `process_fragment`, both beginning with `cleanup`; which
of the equally old buffers `expire_oldest` takes is open, as a hash map leaves it
open. Fragments with the index of one already held, with an index beyond the count or with the
count 0 are processed like any other, but not stored. The total counts them all the same, and
nothing takes them off again: the assertion in `cleanup` (`SizeTracked`, "size tracking drifted",
`fragment.rs:231-235`) fails as soon as a fragment is repeated (run `fragments_drift`). The
histories `repeated` and `repeats` say by how many bytes and how often, and
`SizeAccounted` that there is no other drift. `LiveMessagesKept` is what that costs: a message that is not overdue loses
its fragments only as the oldest, when all held and all drifted bytes leave no room for one
more fragment. So a total that has drifted by `max_buffer_size` makes every new
message expire an old one, and since one buffer is expired at a time, the limit
is not strictly kept either.

**MtuDiscovery.** The network carries probes up to `path_mtu`; each may be answered,
late or never. An answer that comes after its probe was declared too large can turn the search
interval over: when 8 and then 6 have been declared too large, the late answer for 8 leaves
`min_mtu` 8 above `max_mtu` 6, and `max_mtu - min_mtu` in `next_probe` underflows (a debug
build panics, a release build wraps around and goes on probing). `IntervalOrdered` says that
nothing else turns it over: with no such answer it is ordered, whatever is lost or late. `next_probe` and `check_probe_timeout` are called in this order in each
`update_tick`, so a timeout is only noticed when it falls between the two.

**Congestion.** Seconds are whole; the loop that halves the recovery time is the trace of its
values (`Halvings`); `is_bad` is whatever the network makes `update` see. The recovery time stays
between `MIN_RECOVERY` and `MAX_RECOVERY`, widened by the configured one where that lies outside
(`CongestionTypeOK`).

**Sending.** One tick of an open connection is fine-grained: `StartTick` clears the packet
count and refills the byte budget, `SendFrom` is one turn of the inner loop with all the gates
before it, `NextChannel` the end of it. Messages are sizes. `Acknowledge` and `LoseTracked`
are what becomes of a tracked packet; `leaked` notes that bytes were sent which no
acknowledgment will give back. Four things follow from the code and are written into
`ChannelsServed` as its exceptions or into the module as its shape: a `send_rate` below 1
passes `validate()` and never sends anything, as the budget of a tick never holds a packet;
the rate is one per tick, not per second; nobody calls `on_loss`, `exit_recovery` or
`record_loss_sample(true)`, so the window stays in slow start and only the round trip time
makes the controller leave its good mode; and with the window in use, pacing lets at most one
message pass per tick.

**BitBuffer.** A byte has `ByteBits` bits, a word `WordBits`; both are the sets of their bits that
are 1, so that the code's `|` and `&` are union and intersection and its shifts move the members
(`Lifted`, `BitsOf`). `WriteBits` and `ReadBits` have the fast path, the slow path and the padding
of the code; the loop of a slow path is a function over its turns, `PutChunk` and `TakeChunk` are
their bodies. Operations that fail return no result. The writer that only measures is written to
in step with the real one. Numbers become bits and bits numbers in `Codec` and `Packets` (`BitsIn`,
`WordOf`).

**Codec.** A type is a record, a field carries its attributes. `BitForm` and `ByteForm` say
which numbers of which width a value of a type becomes, `BitRead` and `ByteRead` how the
generated code reads them; `SerializeBits` and `SerializeBytes` put messages one after the other
into one stream. `Sound` names the declarations that the macro accepts although they do not
decode, so that everything else is shown to: a `#[variant_id]` equal to the implicit index of
another variant (`gbnet_macros/src/lib.rs:956`), a field with `#[no_serialize]` that is not the
last of a tuple (896, 1141), and a float in fewer bits than it has (344), which is cut off
silently. Among the sound ones, a negative number in a derived field narrower than 64 bits
is always refused in bit mode (354), and in byte mode `#[max_len]` plays no part, so
that a list may be written that is too long to read. A derived `i8` field is modelled as taking
one byte in byte mode, which its code would if it compiled (`gbnet_macros/src/lib.rs:428`, `549`). A refused message leaves the bits
written before the refusal in the writer; callers give it up.

**Packets.** The fourteen types of packets as the derive macro sees them, built with `Codec`, so the
datagrams are those bit patterns. `SendData` is what becomes of a message: one packet, or
fragments with their header (`FragmentMessage` of `FragmentFormat`), or nothing; `SendControl` the rest. `Deliverable` names the
messages lost without a word: a channel past the eighth (`ChannelBits`), which
`max_channels` allows; one of more than 255 fragments (`connection/io.rs:113`), 261 KB with the
default threshold, where `max_message_size` is 1 MB by default; and one whose packets, counting the message's
number or the fragment header, exceed `default_channel_config.max_message_size` at the receiver
(`server.rs:483`, `client.rs:296`), while `send` checked the message against its own channel's.

**Batching.** `Radix` values to the byte, `BatchMessages` and `UnbatchMessages` as folds;
the list of messages grows by one at a time and every state checks the round trip.

**Delta.** A state gives each field a whole number below the field's `Capacity`, the number of
values its bits can hold (`DeltaAssumption`; the derived code masks silently what does not fit).
`PlaceOf` is `iter().position()`. `Difference`,
`Applied`, `Written` and `ReadBack` are what `NetworkDelta` derives: the changed
fields behind a bitmask. States are numbered as they are sent; a payload names its
baseline and an ack may come late or never. A receiver that has dropped the baseline refuses the
payload; until an ack of a later snapshot arrives nothing makes the sender return to
a full state.

**Security.** Tokens and request times by their ages, the used tokens in the order in which they
were used, the requests of an address in the order in which they came: what `retain` leaves of
either is its end (`Fresh`, `YoungerThan`). `Issue` is the application's
token service, `Validate` and `Allow` are the code's. A token's `expire_duration` and the validator's
`token_lifetime` are given separately (`security.rs:66`, `104`) and nothing in the code or in the model relates them:
a token that outlives its entry is accepted again once `cleanup` has dropped the entry, so
`TokenAcceptedOnce` speaks of the entry's lifetime (`since_accepted`), not of the token's.

**Interest, Priority.** `Interest` computes with whole positions; `priority_mod` is in parts of
the radius. In `Priority` the application registers what its manager finds relevant to an
observer who moves, may unregister anything, and calls `accumulate`, `apply_modifier` and
`drain_top` in every `Frame`; entities with equal priority may come in any order. A modifier
below 1 multiplies all that was gathered, in every frame, so priority no longer grows without
limit: "all entities eventually get sent" (`priority.rs:4`) holds for entities that are not held
back (`HeldBack`). At exactly the radius an entity is relevant and its modifier 0
(`interest.rs:40`, `48`).

**Interpolation.** The state of a snapshot is its own timestamp, so what `sample`
interpolates is the moment of the server's time on display. The playback delay is constant;
`set_playback_delay_ms`, which moves the display back when it raises the delay, is left out.

**Simulator.** Each random draw is a choice of whole ticks. The history `passed` has the bytes that
passed in the last so many ticks. The queue is released from
its front, so `out_of_order_chance` never reorders packets that wait, only such that
wait with such that do not.

## 3. Runs

`tlc -config <cfg> <module>`; every passing run ends without error.

| Run | Shows |
|---|---|
| `channel` | all modes: order, at most once (`InOrderOnce`), gaps only after `ordered_buffer_timeout` (`NoGapBeforeTimeout`), buffers that agree with each other and keep their bounds (`BuffersSound`), a message sent again only after its whole backoff or when it was reported missing, and forgotten only when it arrived or after all its transmissions, the last one waited for too unless reported missing (`KeepsTrying`), no message pending or buffered for ever (`NothingWaitsForEver`), refinement of `ChannelDelivery` (`KeepsDeliveryPromise`) |
| `channel_guarantee` | violation: a message is evicted by its receiver, then acknowledged and forgotten by its sender, and so never delivered |
| `reliability` | acks complete (`AckBitsComplete`) and honest (`AcksHonest`), fast retransmission at most once and only of overtaken packets (`FastRetransmitSound`), in-flight records bounded (`TypeOK`), and one for each of the latest `max_in_flight` tracked packets until it is acknowledged (`RecentStayTracked`) |
| `reliability_false_ack` | violation: a jump of exactly 64 numbers acknowledges packets that were lost |
| `session` | admission may exceed `max_clients`, by less than `max_pending` (`AdmissionBounded`); one address per connection and no handshake beside an open one (`ServerTablesAgree`) |
| `session_live` | half-open states at either side (`HalfOpenEnds`), handshakes (`HandshakeEnds`) and goodbyes (`GoodbyeEnds`) end |
| `session_migration` | violation: a late payload moves another client's connection |
| `connection` | in a session begun with nothing left of the former one, what is acknowledged arrived (`AcknowledgedArrived`) and no two messages are mixed when reassembled (`NeverMixed`); in every session a message is sent at most 1 + `max_reliable_retries` times and its first packet, acknowledged, settles it (`TransmissionsEnd`) |
| `connection_retransmit` | violation: a message goes on being sent although a retransmission of it was acknowledged |
| `connection_reconnect` | violation: after `reconnect()` a lost message counts as acknowledged |
| `fragments_drift` | violation: a repeated fragment is counted twice, and the assertion on the reassembly total fails |
| `parts` | messages under reassembly are thrown away only for want of room (`LiveMessagesKept`); the MTU interval turns over only after the answer to a probe that was declared too large (`IntervalOrdered`); no recovery before a calm spell (`GoodOnlyAfterCalm`); channels in the order of their priorities (`PriorityKept`), and none starved but for the reasons named (`ChannelsServed`); bits (`BitsReadBack`), messages of derived types (`MessagesRoundTrip`), packets and fragments (`PacketsArrive`) and batches (`BatchesRoundTrip`) decode to what was encoded; what a delta decodes to is what was encoded (`DecodedIsEncoded`) and baselines only advance (`BaselineAdvances`); a token is not accepted again before its entry's lifetime has passed or `MaxTrackedTokens` others were used (`TokenAcceptedOnce`); at most `max_requests` in any window (`AllowedWithinRate`); every entity that fits and is not held back is sent (`EntitiesSent`); the display never goes back (`NeverShownBackwards`); the simulator's bursts are bounded (`WithinBandwidth`) and its queue drains (`DelayedComesOut`) |

Bounds. `channel`: `HalfRange` 4 and `StartSeq` 6, so the second message wraps;
three messages, the most that keeps `MaxSends < HalfRange`, are enough for a
missing message, a buffered one and one that finds the buffer of one entry full.
One retry, one duplicate and one nack let every race between them happen once;
ages are capped one tick past the timeouts, beyond which the code does not tell
them apart. There is one length of backoff here; the theorem covers the others. `reliability`: the bit window is 2 wide and the ring has 2 slots, so
with 4 packets a number can be inside the window, exactly as far as it is wide,
and beyond it, and the ring forgets; two in-flight records and 4 packets force
evictions; the threshold is 2 and nack counts go past it. `session`: two clients
compete for one place; `MaxCalls` bounds the applications' calls of all kinds
together, and four are enough for a second session of a client while packets of
the first are still in flight, with a goodbye of either side or of both at once. A goodbye is not repeated there
(`DisconnectRetries` 0), in `session_live` it is.
`session_live` bounds the calls by two and lets the network repeat a packet, which
can begin a handshake nobody asked for. Symmetry is used for clients in the
safety run only.
`connection`: each configuration bounds its headers and sessions (`MCConfigs`): one session
with two fragmented messages of two fragments each and room for a retransmission,
and two sessions, with the client at either end, with and without the probe that
takes number 0, each with enough headers for a message to be lost, sent again and
followed by another. One packet outlives its session (`MaxLate`), which is all it
takes for a former session to interfere.

`parts`: three messages of two and three fragments, one of them mistaken for that of a
former session, an index beyond the count, a count of 0, and three fragments that are not stored, enough to drift past the
buffer's limit of 5 bytes; paths of MTU 4, 7, 9 and 20 in a search from 4 to 12 with
five attempts, so that the path is narrower than, inside and wider than the interval;
recovery times configured below and within their limits 2 and 8, and ages up to 9, beyond
which no timer counts; five states of two fields (two and four values),
which change one at a time, together, not at all and back, numbered from 9 across 11, the
sentinel for no baseline, with two pending and two received snapshots, so that both ends
forget;
three clients for two tracked tokens, which expire after as long as their entries, as in the code's tests; three requests in a window of three
ticks from two addresses of which one has two ports; four entities that do not all fit a
budget of 3, with `MaxAccumulated` 8, which no entity that fits reaches
(`PriorityTypeOK`); batches of bytes with three values, so that two messages fill the
count and three bytes need a second digit; two seconds of two ticks, with two bytes each
or no limit, and three packets; six snapshots in a buffer of four; three positions of the
observer, for which entities are in the middle, within the radius, on its border and beyond, and
in the same, the next and a further cell on both sides of 0.

`Sending`: two channels, one of them reliable, with messages of one byte, which go whole, and of
three, which do not, in buffers of two; packets of two bytes; rates of half a packet, which never sends, and
of three; a window from two to four bytes and one tracked packet: enough for a window that
closes, opens and leaks. `BitBuffer`: bytes of 4 and words of 12 bits, three writes of widths
0, 1, 3, 4, 6, 12 and 13: nothing, less than a byte, a byte, across a border, a word, and too much;
three writes meet every alignment. `Codec`: streams of two messages, so that the second begins
at any bit, of nine types that have every kind, attribute and refusal; the longest lists are one
longer than the limit. `Packets`: two requests, channels 0, 7 and 8, the last the first that has
no number; five messages that go whole, in two and in three fragments or in too many, under four
pairs of size limits around the length of a header.

What the bounds leave out: repeated session packets in the safety run
(`MaxDuplicates` 0: a client's new attempt produces the same late packets), and channels that lag by half the number space
(`WindowAssumption`): there two live messages are compared the wrong way round,
and at the default buffer sizes (hundreds) and width (65536) they cannot.

Deadlock is not checked: the instances stop when their bounds are used up.

Fairness. `update()` is called every tick of the game loop and does everything
that is due, and time passes; so `Channel` has weak fairness of
`GetOutgoingMessage`, `GetRetransmitMessages`, `Update` and `Tick`, and `Session` of
every timer and `Tick`. In `parts` the game loop sends frame after frame (`Frame`) and tick
after tick (`SendingTick`), and the simulator is polled while time passes. In `Sending` alone
something is assumed of the network: a tracked packet does not stay in flight for ever, it is
acknowledged or lost (strong fairness of the two together, as ticks come in between). Elsewhere nothing is assumed of
the network or the application: no message need ever arrive, and nobody need call anything.

## 4. Proofs

`tlapm` checks eight modules: `SeqNum_proofs`, `Channel_proofs`, `ChannelDelivery_proofs`,
`Reliability_proofs`, `Session_proofs`, `Connection_proofs`, `Parts_proofs`, `Wire_proofs`.
The assumptions are those named in the modelled modules (`HalfRangeAssumption`,
`ChannelAssumption`, `ReliabilityAssumption`, ...): types, limits that the configuration or the
code's own constants keep, and bounds large enough for the timers; TLC evaluates each of them on
a run. Three say more.
`WindowAssumption` and `PacketWindowAssumption` bound a history: the numbers alive together lie
within half a turn. `ReliabilityAssumption` has histories of at least one packet. Nothing is
assumed of the network or of the application, nor of how two durations of the configuration relate where the
code does not relate them.

The proofs share one shape: an inductive invariant, one lemma per action that keeps it, and
the theorems as its consequences. TLC checked each invariant on the instances of its run first.

`SeqNum_proofs`. The comparison is total, agrees with the difference, and `WindowOrder`: numbers
fewer than half a turn apart compare as they were issued. With it, comparisons of numbers become
comparisons of ranks in `Channel_proofs` and `Reliability_proofs`.

`Channel_proofs`. `InOrderOnce` says nothing about where the next message comes from, so it is
not inductive. `IInv` adds how numbers and ranks correspond everywhere a message may be (queue,
pending map, wire, ordered buffer), that everything delivered is older than the awaited number
and everything buffered newer, and that the last delivered rank is the last received number.
From it follow `TypeCorrect`, `DeliveredInOrder` and, with an induction of its own for the size
of the ordered buffer (`NextBufferBounded`: a full buffer loses an entry before it gains one),
`BuffersAlwaysSound`.

`ChannelDelivery_proofs`. The same `IInv` gives `ChannelImplementsDelivery`, step by step: the
runs a channel delivers at once are sequences of accepted messages, increasing where the
abstract specification wants it. `OrderedLeavesNoEarlyGap` (`NoGapBeforeTimeout`) is an action
property: each action either cannot do the thing or is the one allowed to. `ReliableKeepsTrying`
(`KeepsTrying`) compares the history `attempts` with what the code can see, a retry count and a timestamp that
`mark_for_fast_retransmit` overwrites; `AttemptsInv` says that they agree: the retry count is one
less than the transmissions, and the age is the quiet time unless the message was reported missing.

`Reliability_proofs`. `IInv` is `TypeOK` and four parts about ranks. `RankOf` takes a number back
to the packet it stands for, which is unambiguous in `Span`, the packets of the history and those
before it that the buffer or the bits may still name. `InfoSound` (what ack information claims has
arrived) is kept of every information ever sent, since any may be processed late. Completeness
(`NothingArrivedIsForgotten`) fails without `BufferNoted`: a packet taken for a repeat is not
noted again, so whatever the ring of received numbers recognises must have been noted before,
which relates the ring, eviction included, to the bits. Honesty (`AcknowledgmentsAreHonest`) holds
until the window was skipped, the case that `reliability_false_ack` shows.
`FastRetransmitIsSound` and `RecentAreTracked` concern the sender. The latter needs `TrackInv`: a record's
`send_time` is the moment its packet was tracked. When one is evicted, the records left are all of packets
tracked no earlier, and there are `max_in_flight` of them with the new one. `ConnectionAckInfo` is the link to
the next module: with no more packets than the bits have places, what ack information covers is the
packets received, and the first. `Connection` takes that as its `AckInfo`.

`Connection_proofs`. Two invariants side by side. `SendingInv` holds in every session, whatever it
inherits: the copies of a message in the network are counted against its retries (`Pursued`), and
a pending message sent whole still has the record of its first packet (`FirstRecord`); together
`EveryTransmissionEnds`. `Clean` holds in a session begun with nothing left of the former one, the
premise of the other two theorems: a number names one packet, a fragment id one message, and what
the receiver noted came from the network (`NumbersTell`, `IdsTell`, `ReceivedTells`); from it
`AcknowledgedMessagesArrived` and `FragmentsNeverMix`.

`Session_proofs`. `TableStep` says that a step does one of four things to the server's tables: it
shrinks them, challenges a client, opens a challenged client's connection, or moves a
connection. `AdmissionBounded` and `ServerTablesAgree` follow from these four, with `IdsIssued` for
connections that move. `TypeOK` bounds the ids of connections by the calls made, which takes a count
across the handshake: every connection opened, challenge pending, request and cookie in flight
goes back to a call of an application or a repetition by the network (`HandshakesCounted`).

`Parts_proofs`. The parts share no state, and each has its own invariant.

| Theorem | Invariant, and what it adds |
|---|---|
| `PriorityAlwaysKept` | `TurnInv`: the channels before the turn are empty, or the gates are closed and stay so for the tick |
| `ShownNeverGoesBack` | `ShownInv`: what was shown is not beyond the newest snapshot, and beyond the oldest only as far as the clock; the buffer moves on under it |
| `SearchWithinLimits`, `IntervalStaysOrdered` | `SearchInv`: while no declared size was answered, every size sent was answered, has timed out or is the one awaited, the middle of the present interval |
| `BandwidthKept` | `BucketInv`: what passed in any last ticks and what the bucket holds are bounded together |
| `RecoveryTimeBounded`, `FullRateOnlyAfterCalm` | `CalmInv`: conditions have been good for as long as the controller believes; halvings and doublings stay in the limits however many |
| `BaselineOnlyAdvances` | `BaselineInv`: what is pending is in order and newer than the baseline; distances of numbers identify it |
| `DecodedAsEncoded` | `DecodeInv`: every payload in flight makes its state of the state its baseline's number stands for; a difference applied to its base gives the state back |
| `TokensAcceptedOnce` | `TokensInv`: while its lifetime lasts, a token accepted still has its entry (`Remembered`) unless enough others pushed it out: what was used after it are other clients', and clean-ups take only what is older |
| `RateAlwaysKept` | `LimiterInv`: the requests granted in the window are those timestamps kept that are still young, cleaned up or not |
| `SizeAlwaysAccounted` | `HeldInv`: buffers are finite, so sizes add up as buffers come and go; the drift is exactly `repeated` |
| `LiveMessagesAlwaysKept` | the same: `cleanup` takes off what its buffers held, so the total it leaves is that of the live messages and the drift |

The types of the parts (`SendingWithinLimits`, `InterpolationTypeCorrect`, `SimulatorTypeCorrect`,
`SecurityBounded`, `FragmentsTypeCorrect`, `DeltaTypeCorrect`, and with them `SearchWithinLimits`,
`RecoveryTimeBounded` and, of `Wire_proofs`, `BitBufferTypeCorrect`) are the conjuncts of `MCParts.TypeOK`. Most are not inductive, for their
limits rest on an order: the rate limiter removes what is old from the front of a list, which
removes all of it only because timestamps are kept in order; a buffer of fragments is never left
complete because it is removed in the step that completes it.

In `Parts_proofs` also the geometry of `Interest`. `GridCoverage` brackets a coordinate by the borders of its cell (`CellBounds`);
`RadiusFalloff` needs that every number has a whole square root (`SquareRoot`, by the least number
whose successor's square exceeds it) and that squares grow.

`Wire_proofs`. `BatchesAlwaysRoundTrip`: for every list of messages, size and limit. Both loops are
recursive functions over their turns, and what they compute is a set of turns that contains 0 and
with each turn the next, which is an induction the provers accept. The invariant of packing is
where the list is cut: the batches finished after a turn are those slices of the list, the one
under construction is the rest. Reading a batch back goes turn by turn through the offsets of
its entries (a length of two digits is the length, as it is less than their range), and a batch
that lost its last byte fails in the last turn and in no earlier one.

`BitsAlwaysReadBack`: for bytes and words of any width, any widths and any number of writes. The proof
speaks of a stream of bits: `Ones` are the positions of those that are 1, the most significant of
the first byte being 0, and `ByteAt` and `LeftAt` say where a position is (`Place`, `PlaceIs`). Setting
bits of a byte adds their positions (`OnesSet`), pushing bytes adds them behind (`OnesJoined`),
and a number of a certain width at a certain position is the set `Spelled`. Every way of
writing, the fast path (`PushedIs`), the slow path turn by turn (`ChunkPut`, `ChunksPut`) and
`write_bit` (`BitWritten`), adds exactly that; every way of reading returns exactly what is there or
fails where the bytes end (`WholeBytesRead`, `TakingsTake`, `BitsRead`). The inductive invariant
`BitBufferIInv` has the positions at which the numbers written end, and that no bit is 1 behind the last:
without that, `write_bit(false)` would have something to clear, and the padding would not be zeros.

`FragmentsReassemble`, about the functions of `FragmentFormat`, for every message but the empty one, which is
never fragmented, and every size of a fragment. A message is refused exactly if it is longer
than as many full fragments as can be counted (`PiecesAre` brackets the quotient that is rounded
up). Otherwise the pieces lie side by side (`PieceIs`), each has at least one byte and at most a
full fragment, the header of each is read as it was written (`FragmentReadBack`), and put together
they are the message (`PiecesJoin`). For any set of them that arrived, as many indices as the count
says means all of them, so that the receiver makes the message when the last is there and nothing before.
It says nothing of two messages with one id: `NeverMixed` of `Connection` does. The id is any
number; its bytes are compared as they are.

Only model-checked, and why:

- Liveness (`NothingWaitsForEver`, `HalfOpenEnds`, `HandshakeEnds`, `GoodbyeEnds`, `EntitiesSent`,
  `DelayedComesOut`, `ChannelsServed`): the prover has no rules for fairness and `ENABLED`.
- `MessagesRoundTrip`, `PacketsArrive`: `Codec` recurses over types with RECURSIVE operators, which
  the prover does not accept, and `Packets` is built on it. The buffer below them and the
  fragments within them are proved.
- `MCParts.TypeOK` as a whole, as it joins the types of all parts, those two included. Its other
  conjuncts are proved one by one, but for `PriorityTypeOK`: that no priority exceeds
  `MaxAccumulated` is a property of the instance's priorities and budget.

## 5. Findings

Six runs end in a counterexample that contradicts the repository's own words
(`PROJECT.json`, "findings"): messages acknowledged and forgotten by their sender may never be delivered by an
"ordered, guaranteed" channel; a fragment that arrives twice is counted twice, so that the total's
own assertion fails; a jump of exactly 64 packets yields false acks in
a release build and a panic in a debug build; migration can hand a connection to another client; a
retransmission is numbered but not tracked, so its acknowledgment settles nothing
(and a fragmented message is tracked under a number that no packet carries, so no
acknowledgment ever settles it before packet numbers wrap); `reconnect()` keeps the
records of the former session's packets, and the numbers start again from 0.

Four more things that documents say and the code does not are left to prose, two of them named in a
property that holds. `max_clients` is checked when a client is challenged and not when it answers
(`server.rs:425`), so concurrent handshakes can exceed it, where a test says "Second client should be
rejected" (`tests/integration.rs:239`); `AdmissionBounded` has the bound that is kept.
`mark_for_fast_retransmit` promises that its message is "retransmitted on the next" call
(`channel.rs:393-394`); after the last retry that call forgets the message instead, the case
`KeepsTrying` excepts, and a message that backs off for more than 60 s is not even due. The repository's README promises retransmission per fragment: the fragments kept in
`pending_fragments` are forgotten at the next incoming header, as their packets are never
tracked, and what is sent again is the whole message in a single packet, however large
(`connection/io.rs:160`). It also promises an automatic return to full state when a baseline is
lost, which `DeltaTracker` leaves to the application. Two more are slips no document speaks of: a late
answer to a probe turns the MTU interval over (section 2, MtuDiscovery), and two idle peers answer each
other's `AckOnly` packets with `AckOnly` packets for ever (`connection/mod.rs:373`, `connection/io.rs:183`).

## 6. Plan

Every component of the repository that keeps a protocol state or computes something a peer
relies on is modelled. Every safety property the runs check is proved, except the round trips
of `Codec` and `Packets` (section 4). What is left, in this order:

1. The round trip of `Codec`, which needs induction over types, and with it that of `Packets`.
2. In `Session`: the rate limiter and the expiry of cookies.

Not modelled, and why. Configuration: `validate()` is a list of independent checks of single
values; its limits are the modules' assumptions where a module needs them. Sockets: calls of the
operating system. Statistics: counters nothing reads back. Of modelled components: the
estimates in floating point (RTT, loss, bandwidth); the CRC, the cookie's hash and AES-GCM, which are
computations with nothing to check in small (only `Connection::update` encrypts at all, which neither `NetServer` nor
`NetClient` calls); `#[with]`, generics and type aliases in derived types; window phases nothing
in the crate enters.
