# Verification of airguitar

airguitar is an AirPlay (RAOP) audio receiver. A client opens an RTSP
connection, announces an encrypted stream, sets up UDP ports, starts
recording and sends RTP audio packets; the receiver decrypts and decodes
them, puts them in order, asks for the ones that are missing and plays them.
This directory holds TLA+ models of its parts, the TLC runs that check them on
small instances, and TLAPS proofs of the main results for all sizes.

## 1. The system

| Part | State | Operations | Talks to |
|---|---|---|---|
| `server.rs`, `main.rs`, `shutdown.rs` | the select over listener, mdns, player and Ctrl-C; the broadcast `notify_shutdown`; the `shutdown_complete` channel | start, stop, wait for handlers | everything |
| `rtsp/listener.rs` | back off | accept, spawn a handler | handlers |
| `rtsp/connection.rs` | read buffer | read a message, write a response | one handler |
| `rtsp/handler.rs`, `rtp_info.rs` | one request at a time | one arm per RTSP method: build a command, send it, wait for the one-shot answer, respond | the player's channel (4 slots) |
| `player/mod.rs` | keys, cipher, decoder, volume, the current buffer, `_notify_shutdown`, `control_tx`, the sink | Announce, Setup, Record, Teardown, SetParameter, GetParameter, Flush, PutPacket | handlers, tasks, the buffer |
| `player/frame_buffer.rs` | map from `Seq` to packet, read and write marker; the packet being played | `add_packet`, `flush`, `pop_front`, `FrameBufferSource::next` | player and audio thread, through a Mutex |
| `player/server_receiver.rs`, `control_receiver.rs` | the packet just read | receive, pass on, end | player's channel |
| `player/control_sender.rs` | the request just taken | take, send, end | player, through a channel of 4 |
| `player/timing_*.rs`, `ntp.rs` | none that matters | send a fixed datagram, log answers, end | each other, through a socket |
| `mdns.rs` | is the service registered | register, wait | server |
| `base64.rs`, `error.rs`, `result.rs` | none | | |

What is hard here, and what correctness means for each part:

- **Frame buffer.** Sequence numbers have 16 bits and wrap; packets are lost,
  repeated and reordered; the audio thread pops between any two packets; a
  flush moves the read marker. Correct means: what arrives is played once and
  in order, every loss is noticed, nothing else is requested, silence is heard
  only for want of a packet, and `BTreeMap<Seq, _>` never holds keys that the
  wrapped comparison cannot order.
- **Player and tasks.** One loop serves all connections and the packets of all
  sessions, over bounded channels, and waits inside an arm while it holds the
  buffer's Mutex. A session ends by dropping a broadcast sender, while packets
  are in the socket, in a receiver and in the channel. Correct means: each
  request is answered once, key and cipher agree, locks are released, old
  sessions and the whole server come to an end, and nothing a client may
  legitimately do stops the player.
- **Handlers.** An arm may fail before, between or after its commands, and the
  player may go away meanwhile. Correct means: every request is answered or its
  connection ends, and what is refused has had no effect, with the exceptions
  the properties name.
- **Connection.** TCP cuts messages anywhere. Correct means: messages come out
  whole, in order and once; None and errors mean what the doc comment says;
  every response leaves its buffer.
- **Listener and server.** accept fails and is retried, peers come, go, reset
  and stall, and exit is negotiated by dropping channel ends. Correct means:
  connections are accepted, one peer does no harm to others, and the process
  exits exactly when every handler has returned.
- **Decryption and timing.** The padding of the last block must not eat into the
  packet; the timing tasks must go on as long as the session and no longer.

`PROJECT.json` lists these hazards at the lines where they bite.

## 2. The modules

| Module | Models | Extends |
|---|---|---|
| `SeqNum` | `rtp_rs::Seq`: wrapping numbers, their comparison and ranges (a library, modelled from its use) | |
| `FrameBuffer` | the struct `FrameBuffer` and its methods, as operators | `SeqNum` |
| `FlushLoop` | the loop inside `flush`, an iteration per step | `FrameBuffer` |
| `Stream` | one recorded stream: the buffer, the packets added, flushes, and `FrameBufferSource::next` | `FrameBuffer` |
| `Playback` | abstract: a jitter buffer without numbers, which `Stream` implements | |
| `Player` | `Player::run`, the handlers' side of it, and the tasks of every SETUP | |
| `Service` | abstract: what the player promises a handler, which `Player` implements | |
| `Handler` | `Handler::run` and `execute`, for several connections, on top of an instance of `Service` | |
| `Connection` | `read_message`, `parse_message`, `write_response` in the handler's loop | |
| `MessageStream` | abstract: what `read_message` promises, which `Connection` implements | |
| `Server` | `server::run`, `Listener::run` and `accept`, `Mdns::run`, the life of handler tasks | |
| `Decrypt` | the decryption in the PutPacket arm | |
| `Timing` | the two timing tasks of a SETUP | |
| `MCStream`, `MCPlayer`, `MCHandler` | constants for TLC | `Stream`, `Player`, `Handler` |
| `MCParts` | `FlushLoop`, `Decrypt`, `Timing` and `Connection` side by side, for TLC | the four |
| `SeqNumProofs`, `StreamProofs`, `PlaybackProofs`, `PlayerProofs`, `HandlerProofs`, `ConnectionProofs`, `ServerProofs`, `PartsProofs` | lemmas and theorems | the module they are about (`PartsProofs`: `MCParts`) |

**SeqNum** has one constant, `Half`, half the size of the number space: 2^15
in the code, 4 or 6 in the runs, any number from 4 up in the proofs.

**Stream** names packets by their position in the sender's stream, of which
the wire carries the remainder modulo `2 * Half` (`SeqOf`). `fb` is the struct
of the code; `readAt` and `writeAt` are the positions its markers stand for,
and `received`, `asked`, `flushedTo` are history. `Arrive(n)` is
`Command::PutPacket` once the packet is decoded: `add_packet` and, unless the
range is empty, the request. `Flush(f)` is `Command::Flush`. `PlayCurrent`,
`PlayNext` and `PlaySilence` are the three ways `next` returns. The Mutex makes
each a single step. A request reaches the sender as a range of numbers, and the
sender resolves a number to the latest packet that carried it.

The environment is bounded by `Window`: a packet is at most `Window` positions
from the last one added and less than that ahead of the read marker. `Window`
may be anything up to `Half - 2`: an outage of half the number space (over four
minutes of audio) is where the comparison of `Seq` stops meaning anything.

A packet may come when the read marker has passed it: once a resent packet has
moved the write marker back, the next one makes the player request again what it
already has, and `add_packet` inserts whatever comes. The packet then stays in
the map, and its number comes round again. With `Late = FALSE` flushes go forward
and packets come late only if the stream does not outlive them by half a round
of numbers (`LeftInLastHalf`), so at any time in a stream of fewer than
`Half - 1` packets, about four minutes; the properties that a stale number
breaks (`NothingLost`, `PlaysInOrder`, `SilenceOnlyWhenStarved`, `PlaysAsIdeal`)
are stated for that case. With `Late = TRUE` any packet and any flush may fall
behind. `KeysOrdered` is about that case: the keys are totally ordered until a
packet that came late has been left more than `Half - Window` packets behind
(`LongLeft`).
Neither the packets left behind more recently nor a flush that goes back breaks
the order; the bound is tight, as with one packet more TLC finds keys in a
circle. The code does reach `LongLeft`, in a long stream. From there on what
`BTreeMap` does is unspecified, while the model's map still finds every key, so
the properties checked with `Late` are those that do not look into the map (the
gaps and the requests) and `KeysOrdered` itself.

**Player** has an action for each arm of the `match` and for each way an arm
can end: `Announce`/`AnnouncePanics`, `Setup`/`SetupFails`, `Record`,
`Teardown`, `SetParameter`, `GetParameter`, `FlushBuffer`,
`PutPacket`/`PutPacketTodo`/`PutPacketUndecodable`, and for the await inside
PutPacket `MissingSent`/`MissingFails`. A handler moves through `Ask` (a
request is read), `Send` (the command gets its slot), `Answered`, and
`HandlerFails` or `Close`. Each SETUP starts a generation of tasks: receivers
`Receive` and `PassOn`, the ControlSender does `TakeMissing` and `SendMissing`,
and they end when the player no longer holds the broadcast sender of their
generation, or for good when their socket fails (`ReceiverFails`). `ServerStops` drops the player wherever it is. A panic of the
player ends the process, so nothing follows it. A packet is named by the key it
was encrypted under; what the buffer does with it is `Stream`'s matter, so
whether it reveals a gap is a free choice here. A resend may be lost.

**Service** is the seam between `Player` and `Handler`: a command is pending,
is served in one step, and is answered, or fails because the player is gone.
`Player` refines it (`ServesAtomically`: a command is served when the player
answers it, and the mapping forgets channels, tasks and keys); `Handler` is
written against it, so what is shown of handlers holds for the real player
without its state space.

**Handler** describes an arm of `execute` by four things: whether every `?`
before the first command passes, the commands, whether every `?` after them
passes, and the status of the response. Of a request it keeps whether the part
its arm needs is usable (transport ports, SDP with an fmtp line, RtpInfo, text),
whether its challenge can be answered, and its volume lines. `Read`,
`ReadRefused` and `ReadPanics` start a request; `Call`, `Serve`, `Returned` and
`BrokenOff` are the commands; `Respond`, `NoResponse`, `FailLate` and
`WriteFails` end it; `Ends` is the peer's close or the signal.

**Connection** counts bytes from the start of the connection, so that the
buffer is what lies between `consumed` and `filled`. `Parse`, `NeedMore` and
`Invalid` are the results of `parse_message`; `Fill(n)` is a read of any size.
The parser is external: it may find a malformed message before it is complete.
`execute` ends in one of three ways: `Write` and `Flush`, a response; `NoResponse`,
for the requests in `Silent` (a SETUP without ports, handler.rs:150-204); and
`ExecuteFails`, the `?` at handler.rs:87 or a panic, which any request may meet.

**Server** has the select of `server::run` end for any of its reasons; what is
dropped then is one step, as nothing is awaited in between. `senders` is the set
of owners of a clone of `shutdown_complete_tx`; recv() returns when it is empty.
`failures` and `slept` are history. Of a handler it keeps whether it is reading,
executing or writing: only the read races the signal.

**Decrypt** lets the cipher produce any string. The library's ZeroPadding strips
zeros off the last block only, which here is the one made of the rest of the
packet and sixteen zeros. **Timing** has one action for each branch of the two
selects.

## 3. The runs

| Run | Question | Bounds |
|---|---|---|
| `stream_wrap` | Is a stream buffered and played correctly while the numbers wrap? `NothingLost`, `PlaysInOrder`, `SilenceOnlyWhenStarved`; is it what an ideal buffer plays (`PlaysAsIdeal`)? Does playback go on if what is requested comes back (`EventuallyPlayed`)? | 8 numbers, 9 packets, so that the number 5 occurs twice and both markers wrap; `Window` 2, the largest for 8 numbers; the last three packets may also come late, so that the map holds up to three keys beside the marker |
| `stream_late` | Are the keys ordered, every gap and nothing else requested, when any packet may come late and flushes go back? `KeysOrdered`, `GapsRequested`, `AskedWithinStream` | 8 numbers, 6 packets across the wrap, `Window` 2: the map holds packets from as far as 6 behind the marker to 1 ahead, and `LongLeft` begins at 3 behind, so both sides of the limit occur |
| `stream_first` | Is the first packet awaited like the others? **Violated**: it is not | 12 numbers, 5 packets across the wrap, `Window` 4 |
| `stream_flush` | Does a flush remove everything before its target, as its comment says? **Violated** | the same, with late packets |
| `parts` | Does the loop of `flush` compute the closed form, and end (`FlushComputed`, `FlushEnds`)? What does the decoder get, and what panics (`DecodesWhatWasSent`, `PanicsOnlyOnZeros`)? Do the timing tasks go on, and end (`KeepsAsking`, `TasksEnd`)? Does framing implement `MessageStream` (`ReadsMessages`), and is every request answered that is not left without an answer (`RequestsAnswered`)? | 8 numbers, every set of keys, every marker and target; packets of up to 5 bytes of 2 values in blocks of 3, so none or one whole block with every rest; 3 datagrams waiting, of any kind; 5 messages of 1 to 3 bytes, the third left unanswered, the last malformed, every cut into reads, and any request may fail |
| `player_session` | One client that follows the protocol, with faults: `FirstSessionSound`, `NoCircularWait`, `RequestsEnd`, `LockReleased`, `SessionsEnd`, `ShutdownCompletes` | 5 requests, 2 packets and their resends, channels of 2 and 1, so that both fill up |
| `player_any` | Any requests from two connections, with faults: `CipherMatches`, `OneAnswerEach`; does the player implement `Service` (`ServesAtomically`)? | 2 requests each, 1 SETUP, 1 packet, channels of 1, two good keys and one of wrong length. A second generation of tasks is beyond these bounds; the theorems about all three properties cover any number of SETUPs |
| `player_stops` | Does only a shutdown stop the player, for a client that follows the protocol? **Violated** | 2 sessions (8 requests), 2 keys, 2 packets and their resends, channels of 2 and 1 |
| `handler` | Is every request answered, which ones fail after they took effect, and what is the volume after interleaved, partly bad SET_PARAMETERs? `EachAnswered`, `RefusedWithoutEffect`, `VolumeIsLastLine` | one connection with every method, usable or not, with a good or a bad challenge, one that sets volumes; 2 requests each |
| `server_exit` | `SendersExact`, `ExitsClean`, `ExitCompletes`, `ConnectionsAccepted`, `GivesUpAfterSix` | 2 connections; the back off as in the code |
| `server_one_reset` | Does no single connection end the server? **Violated** | 1 connection |
| `server_fourth_try` | Does accept give up on the 4th try, as its comment says? **Violated** | 1 connection; the back off as in the code |

`MCParts` runs its parts one at a time, as they share nothing: the player never
runs the loop of a flush and a decryption together, and the timing tasks and a
connection touch neither. The connection has its turn when the others have
finished.

Packets have 0, 1 or 2 samples in turn, which covers the empty packet, the
packet exhausted at once, and the packet played in several calls. Deadlock is
not checked for the player, the handlers, connections, the server and the timing
tasks (they may idle, or have ended), nor for the small parts, which end.

Symmetry: connections, and keys that are not of the wrong length, are
interchangeable in `player_any`. Its one temporal property, `ServesAtomically`, is
a safety property whose mapping treats them alike, so the reduction is sound; the
runs with liveness properties use no symmetry.

Fairness. In `stream_wrap`: the audio device keeps pulling samples, and a
packet that was requested arrives in the end; the second is not the code's to
give, it is the condition under which playback is promised, since a request is
sent only once (control_sender.rs:53). In `player_session`: tokio polls each
task that is ready (weak fairness); its mpsc channels are first come first
served and `select!` polls its branches in random order, so a sender that can
send again and again does, and a shutdown branch that is ready again and again
is taken (strong fairness for sends and for the ends of tasks). Weak fairness
alone would not do: resends can keep the channel busy. Clients and sockets owe
nothing, and the network may lose every resend.

In `server_exit` (`TasksRun`): the process polls its tasks, an accept with a
connection in the queue returns it or fails, a sleep ends, the player answers or
is gone (`RequestsEnd`), a read or write on a dead connection fails, and the
signal, which races the read in a `select!`, is not passed over for ever (strong
fairness). No fault is forced. It adds that peers read their responses
(`PeersRead`), which the code does not ensure: a write races neither the signal
nor a timeout, so a peer that keeps its connection open without reading keeps
its handler, and the process, from ending (listener.rs:28-29 promises more).
`handler`, and the connection in `parts`, assume only that the task is polled, and
that the player serves or is gone. In `parts` sleeps end as well, and the signal is not passed
over for ever; datagrams owe nothing.

Where a property says less than one would like, that is what the code does:
`RefusedWithoutEffect` names the arms that check the challenge after the player
has acted, and `EachAnswered` and `RequestsAnswered` except a SETUP without ports.
A source, once appended to the sink, never ends, so the RECORD of a second session
appends one that is never heard; no property is about that, as nothing in the
repository speaks of it.

Each property has a mutant in the modules, marked as such next to the
definition it stands in for: a change of the code that the property catches.

### What the violations say

- `stream_first`: `FrameBuffer::new` starts the write marker at the first
  packet's number, as if it had arrived. If that packet is lost, no gap is seen;
  the read marker stays there and nothing is heard until a flush.
- `stream_flush`: a packet that arrives behind the read marker is not removed by
  a later flush.
- `player_stops`: the client sends its last packet, then TEARDOWN; the packet is
  still in the socket, the receiver or the channel when TEARDOWN is handled, and
  PutPacket without keys is `todo!()`. `FirstSessionSound` shows that this takes
  a TEARDOWN: before the first one only a socket that SETUP cannot open or a
  packet that does not decode stops the player.
- `server_one_reset`: a peer that resets its connection before it is accepted
  makes `peer_addr()` fail in `Connection::new`, whose error ends the listener.
- `server_fourth_try`: the back off is compared with 16 before it is doubled, so
  accept sleeps 1, 2, 4, 8 and 16 seconds and returns the error of the sixth try
  (`GivesUpAfterSix`), where listener.rs:103-104 speaks of the fourth.

One more comment says something else than what is checked here: handler.rs:45-47
has work in flight continued on shutdown, while server.rs:89 drops the player first, so that a SET_PARAMETER of several lines can
be cut off (`BrokenOff`) with exactly the lines before the cut applied
(`VolumeIsLastLine`).

## 4. The proofs

`StreamProofs` proves, for every `Half` from 4 up, every first and last packet,
every packet length and every `Window` up to `Half - 2`:

- `TypeCorrect`, `NoGapUnnoticed`, `RequestsWithinStream`, with packets and
  flushes behind the read marker at any time;
- `KeysStayOrdered`, in the same generality, up to `LongLeft`, which without
  `Late` never holds;
- `NoPacketLost`, `PlaybackInOrder`, `SilenceMeansStarved`, when flushes go forward
  and packets come late only in the last half round of the stream.

The assumptions are `HalfAssumption` and `StreamAssumption`, which TLC evaluates
in the runs. None of the invariants is inductive. `IInv` adds what the code
relies on without saying so: the markers are the numbers of `readAt` and
`writeAt`; the packet at the write marker has arrived, or is the first
(`MarkersAgree`); each packet in the map is there under its own number, and none
is further ahead than the window (`KeysOwn`); and, without `Late`, what is behind
the marker was left there in the last half round, and everything between the
packet last played and the read marker was flushed (`WindowHeld`). The
argument rests on five facts:

1. positions less than `Half` apart compare as their numbers do
   (`SubIsDistance`), and positions less than `SeqMod` apart with the same
   number are equal (`SeqOfInjective`);
2. so what a packet reveals is exactly the gap between the last packet added and
   it (`MissingIsGap`). A gap before the write marker was requested when the
   packet at the marker came, so comparing with one packet is enough even when
   the marker moves back;
3. the packet popped is the one the read marker stands for (`FrontIsRead`);
4. the numbers a flush forward passes are those of the packets before its target,
   and of none after it (`PassedAreBefore`); a flush back takes the marker once
   around, past everything ahead of it, so that what is left lies behind where the
   marker was (`PassedNumbers`, `RewindLeavesBehind`);
5. packets that lie less than `Half` apart have numbers that are totally ordered
   (`SpanOrdered`). Those in the map reach `Window - 1` ahead of the read marker
   and, up to `LongLeft`, `Half - Window` behind it.

`PlayerProofs` holds for any finite set of connections, any requests, keys and
packets, and any capacity of the two channels (`PlayerAssumption`).

- `CipherStaysMatched`: `CipherMatches` is inductive by itself.
- `PlayerTypeCorrect`, `EachAnsweredOnce`, from `PlayerInv`. `OneAnswerEach`
  counts, and a count is not inductive. `ChannelInv` says instead that a command
  in the channel belongs to a handler that waits and has no answer, that no two
  commands there are of one handler, that a handler that waits while the player
  runs has a command or an answer, and that the channel is empty once the player
  has gone without a panic; without the last, a handler whose `rx.await` fails
  would leave its command behind. `SetupsBounded` counts the SETUPs under way
  with those served, which is why a generation exists for each that is served.
- `PlayerImplementsService`, from the same invariant. The steps are sorted by
  what they do to the channel: `Served` (an arm that answers) is `Serve`,
  `Consumed` (a packet, or a panic) and `Stopped` are `Stop` or a stutter,
  `TaskStep` is a stutter; of a handler's steps `Send` is a stutter and the
  others are one abstract step each. `HeadCommand` is what matters: the command
  the player takes is one its handler still waits for.
- `NobodyWaitsInCircle`, that handlers, the player that holds the buffer's lock
  and its ControlSenders never all wait for each other (`NoCircularWait`), from
  `PlayerInv` and `WaitInv`: the player waits only for a channel it has, and the
  ControlSender of every SETUP served has been spawned.
- `FirstSessionServed`, under the hypotheses of the run `player_session`:
  `OneClient` (at most one connection, which follows the protocol) and
  `Announces` (its ANNOUNCE carries keys and a decoder). It comes from
  `SessionInv`, stated in terms of `Stage`, how far the
  session is for the player, which is ahead of the client while an answer is on
  its way. Up to the TEARDOWN there is one SETUP and one RECORD (`OneSession`),
  no packet anywhere before the first is sent and none sent before the session
  records (`AudioInOrder`), and the control channel the player sends on belongs
  to a ControlSender that has not been told to end (`ChannelOpen`).

`HandlerProofs` proves `HandlerTypeCorrect`, `RefusalsHaveNoEffect` and
`LastLineIsSet` for any connections and any requests, with volume lines of any
number and any of them bad. `HandlerInv` ties the history to the program: `todo`
is the end of the arm's list of commands, `effects` is the number of those
before it, and one more while the answer waits, and the command under way is
the first of `todo`; so the k-th effect of a SET_PARAMETER is its k-th line
(`ServedCommand`). That the lines up to a bad one exist as a prefix
(`UpToBadKeeps`) is the one fact about data; it takes the least index that
stops the loop.

`ConnectionProofs` proves `ConnectionTypeCorrect` and that `Connection`
implements `MessageStream` (`ConnectionImplementsStream`), for every list of
increasing message ends and every way reads cut the stream. `ConnectionInv` is
`Aligned`, the buffer starts where a message does, and `FillsIncomplete`,
`read_buf` is called only when what is in the buffer parses as incomplete: then
end of file with an empty buffer is the end of a whole number of messages; and
`ExecutesRequest`, what is executed is a message that was returned.

`PartsProofs` proves the two loops over data. For `Decrypt`, `DecodedIsSent` and
`PanicNeedsZeros` for every block size and every packet: the padding takes
zeros off the end only (`UnpadStrips`) and none of the whole blocks, so what is
short is short by zeros. For `FlushLoop`, `FlushIsClosedForm` for every buffer
and target: `FlushInv` says that the buffer after d iterations is the one before
less the d numbers passed. The library's induction theorems cannot be applied
(their operator parameter cannot be instantiated), so where a least index is
needed it comes from the well-foundedness of `<` (`LeastElement`,
`LeastNumber`).

`PlaybackProofs` proves that `Stream` implements `Playback` when flushes go forward
and packets come late only in the last half round (`StreamImplementsPlayback`),
from the same `IInv`. The mapping takes the map to those of its values that are
not behind the read marker, and the read marker to `readAt`. What needs an
argument: a packet added displaces no other, and changes nothing that is heard if
it comes late (`ArriveAdds`: two packets less than a round apart with the same
number are the same packet), a flush removes exactly the packets before its target
(`FlushSkips`), and the packet under the read marker is the one that is due
(`FrontIsHeld`, `PlayNextPlays`).

`ServerProofs` proves `ServerTypeCorrect`, `SendersAreExact`, `ExitIsClean` and
`ListenerPatient` for any number of connections, from `ServerAssumption` (a connection is none of the
names of the other senders). `SendersExact` is inductive with the types: whatever
ends the select removes the three clones that are not a handler's, and a handler
that returns its own. `ExitsClean` follows once recv() is known to have returned
with no sender left (`SendersHeld`). `GivesUpAfterSix` needs `BackoffCounted`, the table of
failures, back off and seconds slept that the loop goes through.

Every safety property of a passing run, and every refinement, is proved for all
values of the constants. Before a proof each inductive invariant was checked by
TLC with the constants of the runs of its module.

Only model-checked: the liveness properties (`EventuallyPlayed`, `FlushEnds`,
`TasksEnd`, `KeepsAsking`, `RequestsEnd`, `LockReleased`, `SessionsEnd`,
`ShutdownCompletes`, `EachAnswered`, `RequestsAnswered`, `ExitCompletes`,
`ConnectionsAccepted`), as the prover does neither fairness nor ENABLED.

## 5. Not modelled

The command line, what mdns advertises, base64 and error types: fixed data and
calls of libraries, without state of their own. Decoding, SDP and header
parsing, the contents of responses and the times in timing answers are
abstracted to the outcomes the code tells apart. See the components in
`PROJECT.json`.

## 6. Plan

Every part that keeps state is modelled, and what the runs check of safety is
proved. What is left:

1. The safety half of `SessionsEnd` as an invariant, as `NoCircularWait` is that
   of `LockReleased`: a task of a session that has ended is past its last `await`
   on the player or told to end.
2. The types of `Timing`'s tasks and of `FlushLoop`'s iterations as a bound on
   the number of steps that are left.
3. `SeqMap`: the lookup of a BTreeMap under a comparison that is not
   transitive, refining a map as long as `KeysOrdered` holds.
