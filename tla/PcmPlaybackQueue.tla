-------------------------- MODULE PcmPlaybackQueue --------------------------
(***************************************************************************)
(* The lock-free single-producer single-consumer ring of decoded PCM       *)
(* frames between the JNI control thread and the AAudio callback           *)
(* (native/playback/src/pcm_queue.cpp), at the granularity of its atomic   *)
(* loads and stores.                                                       *)
(*                                                                         *)
(* Two threads take steps.  The producer thread runs enqueue() and         *)
(* snapshot(), which the receiver serialises with its output mutex.  The   *)
(* consumer thread runs render(); discard_pending() also runs in the       *)
(* consumer's role, that is never while a render is in progress.  reset()  *)
(* needs both threads quiet.                                               *)
(*                                                                         *)
(* Every value one thread reads from the other is guarded by an acquire    *)
(* load of a release store, so interleaving the steps is exact for them.   *)
(*                                                                         *)
(* The 960 samples of a frame are one tag, the number of the call that     *)
(* offered the frame; an offset counts PCM frames inside it.               *)
(*                                                                         *)
(* Beside some definitions stands the same one with a mistake in it, marked *)
(* "slip": nothing uses it, and the runs show that the properties tell the *)
(* two apart.                                                              *)
(***************************************************************************)
EXTENDS Naturals, Sequences

CONSTANTS
    Capacity,        \* pcm_playback_queue_capacity (32)
    FrameLength,     \* logical_pcm_frame_frames (960)
    CounterModulus,  \* width of the diagnostic counters (2^64)
    OfferedSizes,    \* sample counts a caller may pass to enqueue
    OfferedFlags,    \* flag words a caller may pass to enqueue
    RenderSizes,     \* frame counts AAudio may ask a render for
    MaxOffers        \* bound: frames offered in a behaviour

ASSUME CapacityAssumption == Capacity \in Nat \ {0}
ASSUME FrameLengthAssumption == FrameLength \in Nat \ {0}
ASSUME CounterAssumption == CounterModulus \in Nat \ {0}
ASSUME InputAssumption == /\ OfferedFlags \subseteq Nat
                          /\ OfferedSizes \subseteq Nat
                          /\ RenderSizes \subseteq Nat
                          /\ MaxOffers \in Nat

VARIABLES
    slots,          \* slots_: the ring itself, plain memory
    writePosition,  \* write_position_
    readPosition,   \* read_position_
    readOffset,     \* read_offset_frames_
    stats,          \* the relaxed diagnostic counters
    pPc,            \* producer thread: where it is
    pFrame,         \* the frame view being enqueued
    pWrite,         \* its copy of write_position_
    pRead,          \* its copy of read_position_ (snapshot)
    snap,           \* the result of the last snapshot
    cPc,            \* consumer thread: where it is
    cRead,          \* its copy of read_position_
    cOffset,        \* its slot_offset
    cWrite,         \* discard_pending's copy of write_position_
    cRequested,     \* frame_count of the render in progress
    cCopied,        \* output_frame_offset of the render in progress
    enqueueError,   \* error of the last enqueue
    offers,         \* history: frames offered so far
    published,      \* history: frames published since the last reset
    discarded,      \* history: positions dropped by discard_pending
    rendered        \* history: PCM frames copied to the device

shared   == <<slots, writePosition, readPosition, readOffset, stats>>
pLocals  == <<pPc, pFrame, pWrite, pRead, snap, enqueueError, offers>>
cLocals  == <<cPc, cRead, cOffset, cWrite, cRequested, cCopied>>
history  == <<published, discarded, rendered>>
vars     == <<shared, pLocals, cLocals, history>>

Discontinuity == 1
KnownFlags    == {0, Discontinuity}
Errors        == {"none", "invalid_sample_count", "zero_sequence_number",
                  "unknown_flags", "queue_full"}

Frame     == [samples : Nat, sequence_number : Nat, flags : Nat]
NoFrame   == [samples |-> 0, sequence_number |-> 0, flags |-> 0]
Snapshot  == [queued : Nat, pcm : Nat]
NoSnapshot == [queued |-> 0, pcm |-> 0]
Counter   == 0 .. CounterModulus - 1
Stats     == [enqueued : Counter, consumed : Counter, queueOutput : Counter,
              silenceOutput : Counter, underruns : Counter, dropped : Counter,
              discarded : Counter, discardedPartial : Counter,
              discontinuities : Counter, lastEnqueued : Nat,
              lastConsumed : Nat, lastConsumedFlags : Nat]
ZeroStats == [enqueued |-> 0, consumed |-> 0, queueOutput |-> 0,
              silenceOutput |-> 0, underruns |-> 0, dropped |-> 0,
              discarded |-> 0, discardedPartial |-> 0,
              discontinuities |-> 0, lastEnqueued |-> 0,
              lastConsumed |-> 0, lastConsumedFlags |-> 0]

\* fetch_add on an unsigned counter of the machine's width.
Plus(counter, n) == (counter + n) % CounterModulus

SlotOf(position) == position % Capacity

\* write - read in unsigned arithmetic, capped at the capacity the way each
\* caller uses it: a read position ahead of the write position wraps to a
\* huge distance, which every caller takes for a full ring.
QueuedFrames(write, read) ==
    IF read <= write /\ write - read <= Capacity THEN write - read ELSE Capacity

FullButForOne(write, read) == QueuedFrames(write, read) > Capacity    \* slip
Full(write, read) == QueuedFrames(write, read) >= Capacity

NotTheLast(read, write) == read + 1 >= write                          \* slip
Empty(read, write) == read = write

SecondOf(a, b) == b                                                   \* slip
AtMost(a, b) == IF a <= b THEN a ELSE b

Init ==
    /\ slots = [i \in 0 .. Capacity - 1 |-> NoFrame]
    /\ writePosition = 0
    /\ readPosition = 0
    /\ readOffset = 0
    /\ stats = ZeroStats
    /\ pPc = "idle" /\ pFrame = NoFrame /\ pWrite = 0 /\ pRead = 0
    /\ snap = NoSnapshot
    /\ enqueueError = "none"
    /\ offers = 0
    /\ cPc = "idle" /\ cRead = 0 /\ cOffset = 0 /\ cWrite = 0
    /\ cRequested = 0 /\ cCopied = 0
    /\ published = <<>>
    /\ discarded = {}
    /\ rendered = <<>>

-----------------------------------------------------------------------------
(* enqueue(): the producer. *)

ValidationError(size, sequence, flags) ==
    IF size # FrameLength THEN "invalid_sample_count"
    ELSE IF sequence = 0 THEN "zero_sequence_number"
    ELSE IF flags \notin KnownFlags THEN "unknown_flags"
    ELSE "none"

\* A frame that fails validation returns before anything is loaded.
EnqueueInvalid(size, sequence, flags) ==
    /\ pPc = "idle"
    /\ ValidationError(size, sequence, flags) # "none"
    /\ enqueueError' = ValidationError(size, sequence, flags)
    /\ pPc' = "rejected"
    /\ UNCHANGED <<shared, pFrame, pWrite, pRead, snap, offers, cLocals, history>>

\* The positions are loaded; a full ring drops the new frame.
EnqueueLoad(size, flags) ==
    LET sequence == offers + 1
        full     == Full(writePosition, readPosition)
    IN  /\ pPc = "idle"
        /\ offers < MaxOffers
        /\ ValidationError(size, sequence, flags) = "none"
        /\ offers' = offers + 1
        /\ \/ /\ full
              /\ enqueueError' = "queue_full"
              /\ stats' = [stats EXCEPT !.dropped = Plus(@, 1)]
              /\ pPc' = "rejected"
              /\ UNCHANGED <<pFrame, pWrite>>
           \/ /\ ~full
              /\ pPc' = "samples"
              /\ pFrame' = [samples |-> sequence, sequence_number |-> sequence,
                            flags |-> flags]
              /\ pWrite' = writePosition
              /\ UNCHANGED <<stats, enqueueError>>
        /\ UNCHANGED <<slots, writePosition, readPosition, readOffset, pRead,
                       snap, cLocals, history>>

EnqueueSamples ==
    /\ pPc = "samples"
    /\ pPc' = "metadata"
    /\ slots' = [slots EXCEPT ![SlotOf(pWrite)].samples = pFrame.samples]
    /\ UNCHANGED <<writePosition, readPosition, readOffset, stats, pFrame, pWrite,
                   pRead, snap, enqueueError, offers, cLocals, history>>

SequenceOnly(slot) ==                                                 \* slip
    [slot EXCEPT !.sequence_number = pFrame.sequence_number]
WithMetadata(slot) == [slot EXCEPT !.sequence_number = pFrame.sequence_number,
                                   !.flags = pFrame.flags]

EnqueueMetadata ==
    /\ pPc = "metadata"
    /\ pPc' = "publish"
    /\ slots' = [slots EXCEPT ![SlotOf(pWrite)] = WithMetadata(@)]
    /\ stats' = [stats EXCEPT !.lastEnqueued = pFrame.sequence_number,
                              !.enqueued = Plus(@, 1)]
    /\ UNCHANGED <<writePosition, readPosition, readOffset, pFrame, pWrite, pRead,
                   snap, enqueueError, offers, cLocals, history>>

EnqueuePublish ==
    /\ pPc = "publish"
    /\ pPc' = "idle"
    /\ writePosition' = pWrite + 1
    /\ published' = Append(published, pFrame)
    /\ pFrame' = NoFrame
    /\ pWrite' = 0
    /\ UNCHANGED <<slots, readPosition, readOffset, stats, pRead, snap,
                   enqueueError, offers, cLocals, discarded, rendered>>

-----------------------------------------------------------------------------
(* snapshot(): positions and offset are three separate loads. *)

SnapshotWrite ==
    /\ pPc = "idle"
    /\ pPc' = "snapRead"
    /\ pWrite' = writePosition
    /\ UNCHANGED <<shared, pFrame, pRead, snap, enqueueError, offers, cLocals, history>>

SnapshotRead ==
    /\ pPc = "snapRead"
    /\ pPc' = "snapOffset"
    /\ pRead' = readPosition
    /\ UNCHANGED <<shared, pFrame, pWrite, snap, enqueueError, offers, cLocals, history>>

SnapshotOffset ==
    LET queued == QueuedFrames(pWrite, pRead)
    IN  /\ pPc = "snapOffset"
        /\ pPc' = "snapDone"
        /\ snap' = [queued |-> queued,
                    pcm |-> IF queued # 0 THEN queued * FrameLength - readOffset ELSE 0]
        /\ pWrite' = 0
        /\ pRead' = 0
        /\ UNCHANGED <<shared, pFrame, enqueueError, offers, cLocals, history>>

\* The caller takes the result of a rejected enqueue or of a snapshot.
Return ==
    /\ pPc \in {"rejected", "snapDone"}
    /\ pPc' = "idle"
    /\ enqueueError' = "none"
    /\ snap' = NoSnapshot
    /\ UNCHANGED <<shared, pFrame, pWrite, pRead, offers, cLocals, history>>

-----------------------------------------------------------------------------
(* render(): the consumer. *)

FromTheStart == 0                                                     \* slip
ResumeOffset == readOffset

RenderBegin(count) ==
    /\ cPc = "idle"
    /\ count # 0
    /\ cPc' = "check"
    /\ cRequested' = count
    /\ cCopied' = 0
    /\ cRead' = readPosition
    /\ cOffset' = ResumeOffset
    /\ UNCHANGED <<shared, pLocals, cWrite, history>>

\* Head of the loop: stop when the ring looks empty.
RenderCheck ==
    /\ cPc = "check"
    /\ cPc' = IF Empty(cRead, writePosition) THEN "finish" ELSE "copy"
    /\ UNCHANGED <<shared, pLocals, cRead, cOffset, cWrite, cRequested, cCopied, history>>

\* One memcpy out of the slot, up to its end or the end of the output.
RenderCopy ==
    LET n    == AtMost(FrameLength - cOffset, cRequested - cCopied)
        slot == slots[SlotOf(cRead)]
    IN  /\ cPc = "copy"
        /\ rendered' = rendered \o [k \in 1 .. n |->
                           [samples |-> slot.samples, offset |-> cOffset + k - 1]]
        /\ cCopied' = cCopied + n
        /\ cOffset' = cOffset + n
        /\ cPc' = IF cOffset + n = FrameLength THEN "complete" ELSE "finish"
        /\ UNCHANGED <<shared, pLocals, cRead, cWrite, cRequested, published, discarded>>

SlotAfter == slots[SlotOf(cRead + 1)]                                  \* slip
CompletedSlot == slots[SlotOf(cRead)]

OffsetAsItWas == readOffset                                           \* slip
OffsetOfNextSlot == 0

\* The slot is used up: its metadata goes to the counters and the shared
\* offset is cleared before the position moves.
RenderComplete ==
    LET slot == CompletedSlot
    IN  /\ cPc = "complete"
        /\ cPc' = "release"
        /\ cRead' = cRead + 1
        /\ cOffset' = 0
        /\ readOffset' = OffsetOfNextSlot
        /\ stats' = [stats EXCEPT
               !.consumed = Plus(@, 1),
               !.lastConsumed = slot.sequence_number,
               !.lastConsumedFlags = slot.flags,
               !.discontinuities = IF slot.flags = Discontinuity THEN Plus(@, 1) ELSE @]
        /\ UNCHANGED <<slots, writePosition, readPosition, pLocals, cWrite,
                       cRequested, cCopied, history>>

ReleasedSlot == SlotOf(cRead)                                         \* slip
ReleasedPosition == cRead

RenderRelease ==
    /\ cPc = "release"
    /\ cPc' = IF cCopied < cRequested THEN "check" ELSE "finish"
    /\ readPosition' = ReleasedPosition
    /\ UNCHANGED <<slots, writePosition, readOffset, stats, pLocals, cRead, cOffset,
                   cWrite, cRequested, cCopied, history>>

RenderFinish ==
    LET silence == cRequested - cCopied
    IN  /\ cPc = "finish"
        /\ cPc' = "idle"
        /\ readOffset' = cOffset
        /\ stats' = [stats EXCEPT
               !.queueOutput = Plus(@, cCopied),
               !.silenceOutput = Plus(@, silence),
               !.underruns = IF silence # 0 THEN Plus(@, 1) ELSE @]
        /\ cRead' = 0 /\ cOffset' = 0 /\ cRequested' = 0 /\ cCopied' = 0
        /\ UNCHANGED <<slots, writePosition, readPosition, pLocals, cWrite, history>>

-----------------------------------------------------------------------------
(* discard_pending(), in the consumer's role. *)

DiscardLoad ==
    /\ cPc = "idle"
    /\ cPc' = "discardOffset"
    /\ cWrite' = writePosition
    /\ cRead' = readPosition
    /\ cOffset' = readOffset
    /\ UNCHANGED <<shared, pLocals, cRequested, cCopied, history>>

DiscardOffset ==
    /\ cPc = "discardOffset"
    /\ cPc' = "discardPosition"
    /\ readOffset' = 0
    /\ UNCHANGED <<slots, writePosition, readPosition, stats, pLocals, cRead, cOffset,
                   cWrite, cRequested, cCopied, history>>

QueuedByNow == QueuedFrames(writePosition, cRead)                     \* slip
DiscardedFrames == QueuedFrames(cWrite, cRead)

DiscardPosition ==
    /\ cPc = "discardPosition"
    /\ cPc' = "idle"
    /\ readPosition' = cWrite
    /\ stats' = [stats EXCEPT
           !.discarded = Plus(@, DiscardedFrames),
           !.discardedPartial = IF cOffset # 0 THEN Plus(@, 1) ELSE @]
    /\ discarded' = discarded \cup (cRead + 1) .. cWrite
    /\ cRead' = 0 /\ cOffset' = 0 /\ cWrite' = 0
    /\ UNCHANGED <<slots, writePosition, readOffset, pLocals, cRequested, cCopied,
                   published, rendered>>

-----------------------------------------------------------------------------
(* reset(): every atomic returns to zero, the slots keep their contents. *)

Reset ==
    /\ pPc = "idle"
    /\ cPc = "idle"
    /\ writePosition' = 0
    /\ readPosition' = 0
    /\ readOffset' = 0
    /\ stats' = ZeroStats
    /\ published' = <<>>
    /\ discarded' = {}
    /\ rendered' = <<>>
    /\ UNCHANGED <<slots, pLocals, cLocals>>

-----------------------------------------------------------------------------

Enqueue ==
    \/ \E size \in OfferedSizes, sequence \in {0, offers + 1}, flags \in OfferedFlags :
           EnqueueInvalid(size, sequence, flags)
    \/ \E size \in OfferedSizes, flags \in OfferedFlags : EnqueueLoad(size, flags)
    \/ EnqueueSamples
    \/ EnqueueMetadata
    \/ EnqueuePublish

TakeSnapshot == SnapshotWrite \/ SnapshotRead \/ SnapshotOffset \/ Return

RenderStep ==
    \/ RenderCheck
    \/ RenderCopy
    \/ RenderComplete
    \/ RenderRelease
    \/ RenderFinish

Render == (\E count \in RenderSizes : RenderBegin(count)) \/ RenderStep

Discard == DiscardLoad \/ DiscardOffset \/ DiscardPosition

Next == Enqueue \/ TakeSnapshot \/ Render \/ Discard \/ Reset

Spec == Init /\ [][Next]_vars

\* AAudio keeps calling back while the stream runs, so a render or a discard
\* under way finishes, and another render follows; a producer inside enqueue
\* is a running thread.  Nobody has to offer frames, discard or reset.
Fairness == /\ WF_vars(Render)
            /\ WF_vars(DiscardOffset \/ DiscardPosition)
            /\ WF_vars(EnqueueSamples \/ EnqueueMetadata \/ EnqueuePublish)

FairSpec == Spec /\ Fairness

-----------------------------------------------------------------------------
(* Properties. *)

Locations == {"idle", "samples", "metadata", "publish", "rejected",
              "snapRead", "snapOffset", "snapDone"}
Rendering == {"check", "copy", "complete", "release", "finish"}

TypeRing ==
    /\ slots \in [0 .. Capacity - 1 -> Frame]
    /\ writePosition \in Nat /\ readPosition \in Nat
    /\ readOffset \in 0 .. FrameLength - 1
TypeProducer ==
    /\ pPc \in Locations
    /\ pFrame \in Frame /\ pWrite \in Nat /\ pRead \in Nat
    /\ snap \in Snapshot
    /\ enqueueError \in Errors
    /\ offers \in Nat
TypeConsumer ==
    /\ cPc \in Rendering \cup {"idle", "discardOffset", "discardPosition"}
    /\ cRead \in Nat /\ cOffset \in 0 .. FrameLength /\ cWrite \in Nat
    /\ cRequested \in Nat /\ cCopied \in Nat
TypeHistory ==
    /\ published \in Seq(Frame)
    /\ discarded \in SUBSET Nat
    /\ rendered \in Seq([samples : Nat, offset : Nat])

\* Every variable keeps the type the source gives it; in particular the offset
\* into a slot stays short of its end between calls.
TypeOK == TypeRing /\ stats \in Stats /\ TypeProducer /\ TypeConsumer /\ TypeHistory

\* The producer never touches, without synchronisation, the slot the callback
\* is copying from: the memcpy of render and the std::copy of enqueue are plain
\* accesses, so an overlap would be a data race.
NoSlotRace ==
    (pPc \in {"samples", "metadata"} /\ cPc \in {"copy", "complete"})
        => SlotOf(pWrite) # SlotOf(cRead)

\* Between the read and the write position the ring holds exactly the frames
\* published there, in order, whatever has been written since: a published
\* frame is never overwritten before it is used up.
RingHoldsPublished ==
    \A i \in readPosition .. writePosition - 1 :
        slots[SlotOf(i)] = published[i + 1]

\* The device hears the published frames in order: after each PCM frame comes
\* the next one of the same frame, or the first one of a later frame, and then
\* the rest of the earlier frame and every frame in between was discarded.
PlaysInOrder ==
    \A k \in 1 .. Len(rendered) - 1 : \E i, j \in DOMAIN published :
        LET a == rendered[k]
            b == rendered[k + 1]
        IN  /\ published[i].samples = a.samples
            /\ published[j].samples = b.samples
            /\ \/ i = j /\ b.offset = a.offset + 1
               \/ /\ i < j /\ b.offset = 0
                  /\ a.offset = FrameLength - 1 \/ i \in discarded
                  /\ (i + 1) .. (j - 1) \subseteq discarded

\* The sequence number reported as consumed is that of the frame whose last
\* sample was just played, though it is read from the slot after the copy.
ReportsWhatItPlayed ==
    cPc = "release" =>
        LET last == rendered[Len(rendered)]
        IN  last.offset = FrameLength - 1 /\ last.samples = stats.lastConsumed

\* When neither thread is inside a call, the counters account for every frame
\* enqueued (consumed, discarded or still queued) and for every PCM frame
\* played, modulo the width of the counters.
CountersAddUp ==
    (pPc = "idle" /\ cPc = "idle") =>
        /\ stats.enqueued = Plus(stats.consumed + stats.discarded,
                                 writePosition - readPosition)
        /\ stats.queueOutput = Plus(0, Len(rendered))
        /\ discarded = {} => Len(rendered) = FrameLength * readPosition + readOffset

\* How much of the oldest frame in the ring was played (between the copy and
\* the release it is played to its end), and the PCM published and not played.
PlayedOfHead ==
    IF cPc = "idle" THEN readOffset
    ELSE IF cPc = "release" THEN FrameLength ELSE cOffset
Remaining == (writePosition - readPosition) * FrameLength - PlayedOfHead

\* A snapshot taken while the callback runs never shows less queued PCM than
\* is left when it returns: its loads are three, and render stores a cleared
\* offset before the new position.
SnapshotNeverUnderstates == pPc = "snapDone" => snap.pcm >= Remaining

\* Only reset takes the read position back: a frame that was played or
\* discarded is never played again.
NeverReplays == [][readPosition' < readPosition => writePosition' = 0]_vars

\* Every published frame leaves the ring once callbacks keep coming.
EveryFrameLeaves ==
    \A k \in 1 .. MaxOffers :
        (writePosition >= k) ~> (readPosition >= k \/ writePosition < k)

\* The frames the ring holds, oldest first.
RingContents == [k \in 1 .. writePosition - readPosition |->
                     slots[SlotOf(readPosition + k - 1)]]

OfferedFrames == [samples : 1 .. MaxOffers, sequence_number : 1 .. MaxOffers,
                  flags : KnownFlags]

Fifo == INSTANCE PlaybackFifo WITH
            Frames <- OfferedFrames, queue <- RingContents,
            played <- PlayedOfHead, output <- rendered

\* The ring, with its split loads and stores, implements the bounded FIFO.
ImplementsFifo == Fifo!Spec
=============================================================================
