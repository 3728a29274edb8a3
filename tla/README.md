# WireTone in TLA+

WireTone carries a PC's sound to a phone. A Windows sender captures what the
default render device plays (48 kHz stereo PCM) and cuts it into frames of 960
samples; the protocol library fragments frames into datagrams and reassembles
them in a receiver session; an Android receiver plays frames through AAudio.
At this commit the parts are built and tested separately: the sender is a probe
that captures and prints, the receiver plays a local test signal, and no socket
joins them. The modules here follow that cut.

## 1. The system

| Component | State it keeps | Operations | Talks to |
|---|---|---|---|
| Playback queue `native/playback/src/pcm_queue.cpp` | a ring of 32 slots, two atomic positions, an atomic offset into the oldest slot, relaxed counters | `enqueue`, `snapshot` (producer), `render`, `discard_pending` (consumer), `reset` (both quiet) | AAudio callback, control thread |
| Playback lifecycle `native/playback/src/lifecycle.cpp` | one of five states | `prepare`, `start`, `stop`, `disconnect`, `fail`, `reset` | Android output |
| Android output `.../cpp/aaudio_output.cpp` | stream, queue, lifecycle, one atomic word for the error a callback leaves | `open`, `start`, `stop`, `queue_local_test_signal`, `clear_queue`, `close`, data and error callbacks | AAudio's threads, the bridge |
| Bridge and activity `.../cpp/native_bridge.cpp`, `MainActivity.kt` | one output for the process, behind a mutex; the instances of the activity | six JNI functions that change state; `onCreate`, `onStart`, `onStop`, `onDestroy`, three buttons | output, Android |
| Wire packets and control payloads `native/protocol/src/packet.cpp`, `control_payload.cpp`, `byte_order.hpp` | none | parse, validate, encode | session, a sender |
| Fragmentation `native/protocol/src/audio_frame.cpp:14-150` | none | `fragment_audio_frame` | a sender |
| Reassembler `native/protocol/src/audio_frame.cpp:152-316` | a window of slots, a clock | `accept_datagram`, `advance_time`, `reset` | session |
| Receiver session `native/protocol/src/session.cpp` | active stream, reassembler, queue of 8 completed frames, two clocks, 18 counters | `accept_datagram`, `advance_time`, `pop_frame`, `reset` | the network's reader, the player |
| Packet conversion `native/capture/src/captured_packet.cpp` | none | `convert_float32_stereo_to_pcm_s16le` | capture loop |
| PCM frame assembler `native/capture/src/pcm_frame_assembler.cpp` | a partial frame and its marks, the next sequence number | `accept_packet`, `discard_partial`, `reset` | capture loop, frame sink |
| Recovery controller `native/capture/src/recovery.cpp` | state of a recovery cycle, attempt and trigger counts, an owed discontinuity | `request`, `begin_attempt`, `complete_success`, `complete_failure`, `consume_discontinuity`, `reset` | capture loop |
| Loopback capture `apps/windows-sender/src/wasapi_loopback_capture.cpp` | endpoint, clients, lifecycle, assembler, controller, counters, atomic `pending_recovery_flags` | `initialize`, `start`, `drain_available`, `stop`, the probe's simulated invalidation, `OnDefaultDeviceChanged` on a thread of Windows | WASAPI, `main.cpp` |

What is hard here, and hard to reach with a unit test:

- two threads without a lock, in the ring (positions and offset are separate
  atomics, slots are plain memory) and in the capture (one atomic word of flags
  against calls into Windows, whose answer changes under the caller);
- fragments lost, duplicated, delayed across a stream change, and reordered;
  two clocks that age frames and sessions; slots and ring entries used again;
  sequence numbers modulo 2^32; unsigned differences of times;
- failures half way: a recovery attempt that has an endpoint and no client, a
  packet read and then lost, a call in the wrong state;
- marks that must survive from where a gap arises to the frame the listener
  gets, through retries, partial frames and packets that span frames;
- an output that AAudio may fail, disconnect, or never stop while a call is
  under way, told of it once by a callback, and driven by activities of which
  a new one may be created before the old one is destroyed;
- bytes that arrive damaged, and text cut off inside a character.

`PROJECT.json` lists each of these hazards at its line, with the properties
that would catch it, and the few that no property covers with the reason.

What makes each part correct, in a sentence: the queue is a bounded FIFO that
never overwrites, repeats or tears a frame; a session holds frames of one
stream, made of what arrived in that stream, and nothing older than its
timeouts; the capture ends up on the default device, never runs on clients it
does not have, loses no sample silently and hides no gap; the output shows the
truth about the device, plays nothing stale and leaves nothing behind; encoders
and parsers agree.

## 2. Modules

| Module | What it is |
|---|---|
| `PlaybackFifo` | abstract: a bounded FIFO of frames played without gap or repetition |
| `PcmPlaybackQueue` | the ring, one action per atomic load, store or run of plain accesses |
| `WirePacket` | datagrams as records, and which of them parse |
| `ControlPayload` | the five control payloads as bytes: encoders, parsers, UTF-8 |
| `WireCodec` | a sender, a network that damages bytes, and a receiver, over both |
| `AudioFragmenter` | a frame to its datagrams |
| `AudioFrameReassembler` | the window: records and the operators of `accept_datagram`, `advance_time` |
| `ReceiverContract` | abstract: one stream, and the newest completed frames sent in it |
| `ReceiverSession` | every branch of the session, composed with the reassembler |
| `CapturedPacket`, `PcmFrameAssembler`, `CaptureRecovery` | the capture's parts, as records and operators |
| `WasapiCapture` | the capture thread, the notification thread and Windows, composed with those parts |
| `PlaybackLifecycle` | the five states of the playback lifecycle |
| `AndroidOutput` | the output and its JNI functions, the two callbacks and AAudio, over the FIFO the queue implements |
| `ReceiverActivity` | overlapping instances of the activity as the caller of `AndroidOutput` |
| `MC*` | constants for TLC: the traffic, the packets, the sizes |
| `*_proofs` | theorems about the module of that name |

An object owned by one thread (reassembler, assembler, controller, session) is
a record, and its methods are operators on it; the module of the owner has the
variables and the actions. `PROJECT.json` "map" gives the lines of each
definition. A definition marked `slip` is the one below it with a plausible
mistake in it; nothing uses it, and putting it in place of the right one breaks
a property. There is one for each property.

### PcmPlaybackQueue

The producer thread (`pPc`, `p...` locals) runs `Enqueue` and `TakeSnapshot`;
the consumer (`cPc`, `c...` locals) runs `Render` and `Discard`. A step is one
access to an atomic, or a run of plain accesses to a slot. Release stores meet
acquire loads on every value one thread takes from the other, so an
interleaving of the steps is exact for them; the relaxed counters are only
compared when both threads are idle. A frame's samples are one tag, so a torn
or overwritten frame shows as a wrong tag. `Discard` begins only between
renders and `Reset` only when both threads are idle. No comment of the source
asks this of callers: `docs/DECISIONS.md:191` (D-016) only names one producer
and one consumer, and the rest is what the code needs, since both functions
store the read position and the offset without a look at the callback. That the
output's calls meet it is a property of its own, `QueueContract` of
`AndroidOutput`.

Of `snapshot` only the queued frames are modelled. The write position cannot
move between its loads, since it runs in the producer's role, and the callback
never passes it, so the difference at line 185 does not underflow; the offset,
loaded last, may be newer than the read position. The twelve counters it also
copies, each in a load of its own, are left out.

### ReceiverSession

One action per way out of `accept_datagram`. Each first observes the time
(`Observed`: it ages the reassembler, and may end the session) and then treats
the datagram in the state this leaves, as one step, as the caller sees it.
The network delivers any datagram of `Datagrams`, in any order, any number of
times or never. A call whose time runs backwards returns an error and changes
nothing (session.cpp:39-42), so it is a stuttering step. `has_observed_time_`
is left out: while it is false the last observed time is 0, and no time is
below 0. The branch session.cpp:48-52 is unreachable, and `NothingOverstays`
says why: the reassembler's clock is never ahead. `arrived` and `history` are
history variables for the properties. Events and error codes returned to the
caller are left out.

### WasapiCapture

A call of the capture thread is cut where it reads the flags or asks Windows
for the default device; `step` says where it is. Between two steps the default
device may move (`ChangeDefaultDevice`, which queues a notice if the client is
registered) and a notice may arrive (`OnDefaultDeviceChanged`). A call into
Windows fails by `Fault`. A sample is its client and its place on that client's
timeline, so a repeated, lost or mixed sample shows. `delivered` is the history
of frames handed to the sink in this run. The 50 ms between attempts is the
freedom to interleave. Left out: COM reference counts, device names, error
codes, counters no property needs, the position in QPC time (it moves with the
device position), and refusals that cannot arise because the loop checked the
same condition before: the controller's when called out of turn and line 554,
the loop's end without a result (`ControllerNeverRefuses`), and the four
errors of `accept_packet`.
`CallOutOfOrder` has the calls in the wrong state.

### AndroidOutput and ReceiverActivity

The control thread runs one JNI call at a time (the bridge's mutex): `call` is
the call, `pc` where it is. A call is cut where it loads or stores the word the
callbacks write (`asyncError`), where it asks AAudio for something, and around
each use of the queue; `sync`, `guard` and the steps of stopping are shared by
the calls as they are in the code. The data callback enters, renders one part
of the oldest frame at a time and returns; a part of a frame stands for
whatever size of output AAudio asks for. The queue is the bounded FIFO that
`PcmPlaybackQueue` is shown to implement for callers that keep its contract.
`lifecycle` changes only through the operators of `PlaybackLifecycle`.
JNI functions without a result are modelled as returning `TRUE`.

AAudio is external. Assumed of it is what the code relies on: a stream that is
stopped, disconnected or failed has no data callback in progress, a stream that
failed makes no more of them and calls the error callback once, and closing a stream
waits for its callbacks. It may refuse any request, fail or disconnect at any
moment, and never report a stop. Left out: the stream's parameters and whether
AAudio granted them (one of the reasons `open` may fail), underrun counters.

`ReceiverActivity` runs handlers of the main thread as scripts of JNI calls.
Instances of the activity are created, started, stopped and destroyed in any
order Android allows, also a new one before the old one is destroyed. The
status text only reads.

### WireCodec

One datagram at a time is encoded, damaged and parsed. Numbers of 32 and 64
bits are sequences of 16-bit words, since TLC's integers are too narrow; each
word is written and read as its two bytes, the most significant first. The
header's checks are those of `WirePacket`, applied to what was read from the
bytes (`AsDatagram`), so the records of the session's model are those of
bytes. Which of several errors a call reports is left out. A sender offers
headers and payloads of the types of the source's structs (`PacketHeader`,
`StreamStartPayload` and the others), the header naming the payload's type and
size, as `encode_header` and the payload's encoder are used together.

The unsigned 64-bit counters of the capture and the sequence number of a frame
are naturals: a run would have to last for millions of years to wrap them.

## 3. Runs

| Run | Properties | What it shows |
|---|---|---|
| `queue_ring` | `TypeOK`, `NoSlotRace`, `RingHoldsPublished`, `PlaysInOrder`, `ReportsWhatItPlayed`, `CountersAddUp`, `SnapshotNeverUnderstates`, `NeverReplays` | no data race, no overwriting, order, accounting, and a snapshot on the safe side |
| `queue_fifo` | `ImplementsFifo`, `EveryFrameLeaves` | the ring implements the FIFO; a published frame is played or discarded |
| `session_frames` | `TypeOK`, `IdleIsClean`, `SlotsAreIncompleteFrames`, `SlotsHoldWhatArrived`, `QueueHoldsWhatArrived`, `ImplementsContract` | what is kept is of the active stream and arrived in it; the queue is the newest frames a sender sent, byte for byte |
| `session_counters` | `NothingOverstays`, `CompletedFramesAddUp`, `OpenedFramesAddUp`, `OnlyAcceptedTrafficKeepsAlive` | both timeouts hold and no difference of times underflows; each frame is counted once; rejected traffic does not keep a session alive |
| `session_discontinuity` | `DiscontinuityClearsOnlyOlder` | violated: first finding |
| `session_rejects` | `RejectedDataIsCounted` | violated: second finding |
| `capture_recovery` | `TypeOK`, `StreamIsLive`, `RecoveryIsAnnounced`, `GapsAreAnnounced`, `SamplesAddUp` | failures and device changes at any step leave no dead client, no hidden gap and no lost sample |
| `capture_devices` | `NoChangeIsMissed`, `RestartsAddUp`, `CatchesUp` | the handover between the two threads, the attempts, and that a polled capture reaches the default device |
| `capture_packets` | `FramesAreWhole` | every combination of flags, and packets shorter and longer than a frame |
| `wire_codec` | `ReadsWhatWasWritten`, `TextIsUnicode` | encoders and parsers agree on every field and check; a message is accepted exactly when the Unicode standard's table of byte ranges accepts it |
| `output_lifecycle` | `AppTypeOK`, `QueueContract`, `StatusIsHonest`, `NothingLeftBehind`, `HiddenIsSilent`, `FailureSticks`, `HearsFreshAudio`, `CallsReturn`, `UnheardIsTold` | with two activities and an AAudio that fails: the queue's contract is kept without a lock, the status is true, only fresh audio is heard, no call hangs, and nothing plays or stays behind |
| `output_discard` | `StopDiscardsWhenStopped` | violated: third finding |

Bounds, and why they are enough:

- Queue: two slots of two PCM frames and three offers make the ring go round
  and fill, callbacks of one to three PCM frames end inside, at and beyond a
  frame, and counters modulo 3 wrap. Positions are naturals: at 100 frames a
  second their 64 bits do not run out. Callers also pass wrong sizes and flags.
- Session: payloads of two bytes and frames of three give a full first and a
  short last fragment; two slots and two queue entries fill up; sequence
  numbers wrap at four, and a frame lies across the wrap. `session_frames` does
  not bound the datagrams: with `CounterModulus` 1 the counters vanish and the
  state space is finite. `session_counters` keeps the counters and takes five
  datagrams, enough for a frame, its replacement and an expiry, out of every
  kind of datagram that can be told apart, and more time than the longer
  timeout.
- Capture: frames of two samples. `capture_recovery` has three endpoints, one
  of them unsupported, three faults and two device changes, with two attempts
  a cycle in place of three so that giving up, giving up in a second cycle, and
  a change during a retry are all within three faults; `capture_devices` has
  the code's three attempts and four faults. `capture_packets` has no faults
  and longer packets. `MaxPosition` bounds the samples of one client; it does
  not bound the packets the loop refuses, which are not taken, so that a packet
  longer than the endpoint's buffer also comes up in the first and the last.
- Output: two instances of the activity overlap; two test signals of two frames
  of two parts, so that one can be cut off in the middle of a frame and
  followed by another; two faults, so that a failure is followed by another
  during its handling; two changes of state in a wait, so that it confirms,
  goes on, and gives up. The taps of the user are not bounded otherwise.
- Codec: the code's own sizes, but messages of at most four bytes, enough for
  the longest character; all messages of up to three bytes over the ends of
  the ranges that UTF-8 tells apart, and the four-byte characters around its
  limits. One damage: a byte at any place, one cut off or one added.

Deadlock is checked in every run: nothing here stops for good.

Fairness. `PcmPlaybackQueue!FairSpec` assumes that callbacks keep coming and
that a call that began ends: neither thread ever waits for the other, as there
is no lock and no retry loop. `WasapiCapture!FairSpec` assumes that the steps of
a call happen (none waits for another thread), that the caller polls while it
captures (`main.cpp:84-97` and 117), and that Windows delivers notifications.
The loop over packets is assumed to come to its end: a device that fills faster
than the loop drains would hold the recovery up for ever, and `MaxPosition`
excludes that here. It is listed as a hazard. `AAudioFairness` assumes that
AAudio calls back while a stream is started, that a callback returns, and that
the error callback of a failed stream comes; `ControlFairness` and the fairness
of `MakeCall`, that a call or handler under way goes on, as its waits for
AAudio have timeouts. That AAudio ever confirms a stop is not assumed, nor that
Android or the user does anything. The session and the codec wait for nothing
and have no liveness of their own.

## 4. Findings

1. `docs/PROTOCOL.md:229` says a discontinuous frame clears queued *older*
   frames. `session.cpp:198-200` clears the whole queue: when a later frame
   overtakes the discontinuous one on the network, it is cleared too
   (`session_discontinuity`).
2. `docs/PROTOCOL.md:231-232, 257-262` asks that malformed and rejected data be
   counted. `session.cpp:184-188` counts refusals of the reassembler only when
   they are duplicate or inconsistent fragments: a short non-final fragment,
   one that would be too long, or one that finds the window full moves only
   `datagrams_received` (`session_rejects`).
3. `docs/DECISIONS.md:195-196` says that stop waits for AAudio to leave the
   running state before queued and partly played data are discarded.
   `aaudio_output.cpp:147` first calls `synchronize_async_error`, which discards
   (line 401) when a callback has left an error, and `stop` then returns
   `invalid_state` without asking AAudio to stop (`output_discard`). That no
   callback is in render then rests on the stream having failed or been
   disconnected, which is assumed of AAudio, not checked: `QueueContract` says
   something of stops that are waited for and of closing, and of this path only
   that it is not taken before the stream is in such a state.

## 5. Proofs

All theorems hold for every value of the constants that meets the named
assumptions in the module of each constant. These are sizes greater than zero,
sets of the right type, and of Windows, that it marks a gap in what it hands
out with the discontinuity flag.

**Queue** (`PcmPlaybackQueue_proofs`): `TypeOK`, `RingHoldsPublished`,
`NoSlotRace`, `NeverReplays`. That the slot being written is free is not
inductive: it rests on what a thread knows of the other's position. `IInv` adds
it: the producer's copy of the read position may be old, but positions only
grow, so a slot found free stays free (`ProducerInv`); the consumer's copy of
its own position is exact (`ConsumerInv`); and two positions less than a ring
apart are in different slots (`DistinctSlots`).
A second invariant, `HInv`, adds what the history says: how the shared offset
lags behind the playing cursor (`OffsetInv`), what a snapshot knows between
its three loads (`SnapshotInv`), the counters in the middle of a call
(`CountInv`), the last PCM frame played (`LastInv`) and what `render` is about
to report (`ReportInv`). From it follow `PlaysInOrder`, `ReportsWhatItPlayed`,
`CountersAddUp` and `SnapshotNeverUnderstates`, and with it the refinement:
`RingImplementsFifo` maps the one store or copy of each call at which it takes
effect to an action of `PlaybackFifo` and every other step to none
(`ImplementsFifo`).

**Session** (`AudioFrameReassembler_proofs`, `ReceiverSession_proofs`):
`TypeOK`, `IdleIsClean`, `NothingOverstays`, `SlotsAreIncompleteFrames`, and
that the queue is of the active stream. The invariant is a predicate `Inv(s)`
of the session record, with a lemma for each operator, so that an action
follows from the operators it composes. It adds that blank slots are blank,
that slots collect different frames, and that sizes at their offsets stay
within a frame; hence no write of the reassembler leaves its storage.
Three invariants rest on it. `Ledger` balances counters, queue and window, for
counters that wrap, and gives `CompletedFramesAddUp` and `OpenedFramesAddUp`.
`Hoard` says, of each slot and each queued frame, which of the datagrams that
arrived in this stream its bytes come from, and gives `SlotsHoldWhatArrived`
and `QueueHoldsWhatArrived`. `Timely` orders the clocks, and gives
`OnlyAcceptedTrafficKeepsAlive`, which needs counters of more than one value
(a counter modulo 1 does not show that a datagram was accepted).
`SessionImplementsContract` is the refinement of `ReceiverContract`: a frame
whose fragments are all there equals the frame sent, byte for byte, because
fragments of one header are fragments of one frame. This, that every datagram
of the shape of audio is a fragment of a frame sent, is assumed of the traffic
(`SentAssumption`: no frame sent twice under one header, nothing forged); only
this theorem uses it, and all others hold for any datagrams.
`FragmentsAreTaken` is the other half, of every frame: each datagram that
`fragment_audio_frame` makes is one that `parse_datagram` and
`validate_fragment_shape` take, which is also why `AudioFragmenter` has no
branch for a header that cannot be encoded.

**Capture** (`PcmFrameAssembler_proofs`, `WasapiCapture_proofs`): `TypeOK`,
`NoChangeIsMissed`, `StreamIsLive`, `RestartsAddUp`, `RecoveryIsAnnounced`,
`SamplesAddUp`, `GapsAreAnnounced`, `FramesAreWhole`. The loop of `accept_packet` is a recursive function of the
turn; that it is well defined and what every turn keeps are inductions over
sets of turns (`IntervalInduction`, `AcceptInduction`), because an induction
theorem that takes an operator is out of the provers' reach.
`AcceptPacketKeeps` then says that no sample is lost and that a discontinuity
stays owed or on the partial frame until a frame carries it. The inductive
invariant `IInv` ties the step to the lifecycle and to the controller's state
(`Control`), which none of the properties does alone: without it a recovery
could be begun in a stable controller. It also counts the cycle under way
against its trigger (`RestartsHold`). `ControllerNeverRefuses` adds that a
pending cycle has an attempt left, so that the ends of `recover_if_requested`
left out of the model are dead code.
That no gap is hidden takes a second invariant, `Stream`, of data: while the
capture runs, the partial frame is consecutive samples of one client, marked
like the frame it will be, and starts where the last frame ended or is
discontinuous (`ComesNext`); and while no recovery is under way the next
sample goes behind the last one held, unless the controller still owes the
discontinuity (`GoesBehind`). A turn of the loop keeps both (`TurnPlaces`), so
a packet does (`PacketPlaces`); dropping a partial frame breaks the second and
happens only where a discontinuity is owed. The theorems rest on
`CaptureAssumption`: Windows marks the gaps it makes.

**Output** (`AndroidOutput_proofs`): `TypeOK`, `QueueContract`,
`StatusIsHonest`, `FailureSticks`, `HearsFreshAudio`, and two properties that
no run repeats: a disconnected stream is never shown as usable
(`DisconnectIsReported`), and the test signal always fits, so that
`local_test_queue_failed` is unreachable (`TestSignalFits`). All are proved for
JNI calls in any order. That no callback is in render where the control thread
discards is not inductive: it follows from the stream's state, which follows
from the lifecycle and the step of the call, unless a callback left an error,
and then from the stream having failed. `IInv` ties these together
(`StreamInv`, `LifecycleInv`, `StepInv`), and says which frames are queued
and that the next part to be played follows what was heard (`QueuedFrames`).

**Activity** (`ReceiverActivity_proofs`): `ActivityIsACaller` shows that the
activity with the output is a behaviour of the output alone, so the theorems
above hold of it. For any number of overlapping instances, `AppTypeOK`,
`NothingLeftBehind` and `HiddenIsSilent` follow from what the order of calls
adds: with no instance left the close is due, under way or done (`GoneInv`),
and with none on the screen nothing starts the output and a running one is
about to be stopped (`HiddenInv`).

**Codec** (`WireCodec_proofs`): `ReadsWhatWasWritten`, for every value of every
field, every payload and any number of damages. `Holds(b, o, s)` says that the
bytes `s` stand in `b` behind the first `o`. The bytes of a number stand there
exactly when the number is read from there, those of a concatenation when its
parts stand one behind the other; so an encoder's bytes stand in `b` exactly
when its parser reads the same record (`HeaderHolds`, a lemma for each payload,
`DatagramHolds`). One direction gives that an undamaged datagram is read as it
was meant (`WrittenIsRead`), the other that whatever is accepted is what a
sender would write (`AcceptedWasWritten`). The proof assumes that the control
payloads fit into a datagram (`CodecAssumption`: 258 bytes at most, of 1168)
and that a sender names in the header the payload that follows it, with its
size (`OffersAssumption`).
`MessagesAreUnicode` is `TextIsUnicode`, for texts of any size: `valid_utf8`
computes a code point and compares it with limits, the standard lists ranges of
bytes, and they accept the same texts. The invariant `Judged` says that the
status tells whether the loop accepted the text. The loop is a recursive
function of the place; `ValidIsWellFormed` is an induction over the places
where it could differ from `WellFormedFrom`, which says that what is left can be
cut into characters of the table. At the last such place both look at the same
next character (`CharacterAt`, from one lemma for each of the four lengths)
and agree behind it (`WellFormedStep`, `WellFormedTurn`).

Only model-checked: liveness under fairness (`EveryFrameLeaves`, `CatchesUp`,
`CallsReturn`, `UnheardIsTold`), which is out of the prover's reach.

## 6. Not modelled

- Which of several errors a parser, encoder or converter reports, and the
  events `accept_datagram` returns: no state depends on them.
- The rounding of float samples (`captured_packet.cpp:13-24`): the range of a
  sample is no state, and floating point is outside TLA+.
- The probe's deadlines and what it prints (`main.cpp`); its polling is the
  caller and the fairness of `WasapiCapture`.
- COM lifetimes, names of devices, the properties asked of an AAudio stream.
- The status text of the activity and its refresh, which only read under the
  bridge's mutex.
- Version and product name, build files: constants.

## 7. Plan

1. Done: the queue, the session, the capture, the bytes of datagrams, and the
   Android output with the activity that drives it, each with its abstract
   specification or its history, its runs, and theorems.
2. Done: theorems for every safety and action property of the runs, and both
   refinements.
3. The output over the ring itself, in place of the FIFO it implements, now
   that `ImplementsFifo` is proved.
