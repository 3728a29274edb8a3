------------------------ MODULE AudioFrameReassembler ------------------------
(***************************************************************************)
(* The reassembly window of native/protocol/src/audio_frame.cpp: a fixed   *)
(* array of slots, each collecting the fragments of one frame in whatever  *)
(* order they arrive.  The object has no thread of its own and is only     *)
(* called by its owner, so it is a record                                  *)
(*   [slots, last_observed_time]                                           *)
(* and its methods are operators from a record to a record.                *)
(*                                                                         *)
(* has_observed_time_ is not modelled: it is false only while              *)
(* last_observed_time_ms_ is 0, and no time is below 0.                    *)
(***************************************************************************)
EXTENDS WirePacket, FiniteSets

CONSTANTS
    MaximumInFlight,      \* maximum_in_flight_audio_frames (8)
    MaximumFramePayload,  \* maximum_audio_frame_payload_size (3840)
    ReassemblyTimeout,    \* audio_frame_reassembly_timeout_ms (250)
    SequenceModulus       \* 2^32, the width of sequence_number

ASSUME ReassemblerAssumption ==
    /\ MaximumInFlight \in Nat \ {0}
    /\ MaximumFramePayload \in Nat \ {0}
    /\ ReassemblyTimeout \in Nat \ {0}
    /\ SequenceModulus \in Nat \ {0}

MaximumFragmentCount ==
    (MaximumFramePayload + MaximumPayloadSize - 1) \div MaximumPayloadSize

SlotIds     == 1 .. MaximumInFlight
FragmentIds == 0 .. MaximumFragmentCount - 1
Offsets     == 1 .. MaximumFramePayload

Slot ==
    [active : BOOLEAN, stream_id : Nat, frame_id : Nat,
     first_sequence_number : Nat, timestamp_samples : Nat, flags : Nat,
     fragment_count : Nat, received : [FragmentIds -> BOOLEAN],
     fragment_sizes : [FragmentIds -> Nat], storage : [Offsets -> Nat],
     received_count : Nat, last_arrival_time : Nat]

EmptySlot ==
    [active |-> FALSE, stream_id |-> 0, frame_id |-> 0,
     first_sequence_number |-> 0, timestamp_samples |-> 0, flags |-> 0,
     fragment_count |-> 0, received |-> [f \in FragmentIds |-> FALSE],
     fragment_sizes |-> [f \in FragmentIds |-> 0],
     storage |-> [o \in Offsets |-> 0],
     received_count |-> 0, last_arrival_time |-> 0]

Reassembler == [slots : [SlotIds -> Slot], last_observed_time : Nat]

\* reset(), and a reassembler as constructed.
ResetReassembler == [slots |-> [i \in SlotIds |-> EmptySlot],
                     last_observed_time |-> 0]

InFlight(r) == {i \in SlotIds : r.slots[i].active}

---------------------------------------------------------------------------
(* Time.                                                                   *)

OnlyInactive(slot) == [slot EXCEPT !.active = FALSE]                      \* slip
\* A slot that is given up or done with: slot = Slot{}.
Released(slot) == EmptySlot

AgeLater(slot, now) == now - slot.last_arrival_time > ReassemblyTimeout   \* slip
AgeExpired(slot, now) == now - slot.last_arrival_time >= ReassemblyTimeout

\* The frames advance_time(now) gives up.
Expired(r, now) == {i \in InFlight(r) : AgeExpired(r.slots[i], now)}

\* advance_time(now) for a time that does not run backwards.
Advanced(r, now) ==
    [slots |-> [i \in SlotIds |-> IF i \in Expired(r, now)
                                THEN Released(r.slots[i]) ELSE r.slots[i]],
     last_observed_time |-> now]

---------------------------------------------------------------------------
(* One fragment.                                                           *)

\* validate_fragment_shape: silence is one empty fragment; any other
\* fragment but the last is full, and none reaches past the frame's end.
CanonicalShape(d) ==
    /\ d.fragment_count <= MaximumFragmentCount
    /\ HasFlag(d.flags, FlagSilence) =>
         /\ d.payload = <<>>
         /\ d.fragment_count = 1 /\ d.fragment_index = 0
    /\ ~ HasFlag(d.flags, FlagSilence) =>
         /\ d.payload # <<>>
         /\ d.fragment_index + 1 # d.fragment_count =>
              Len(d.payload) = MaximumPayloadSize
         /\ d.fragment_index * MaximumPayloadSize + Len(d.payload)
                <= MaximumFramePayload

\* Unsigned subtraction: the index may exceed a sequence number that wrapped.
FirstSequence(d) ==
    (d.sequence_number + SequenceModulus
         - (d.fragment_index % SequenceModulus)) % SequenceModulus

Least(S) == CHOOSE i \in S : \A j \in S : i <= j

Matches(slot, d) ==
    /\ slot.active
    /\ slot.stream_id = d.stream_id
    /\ slot.frame_id = d.frame_id

MatchingSlots(r, d) == {i \in SlotIds : Matches(r.slots[i], d)}
FreeSlots(r)        == SlotIds \ InFlight(r)

WindowFull(r, d) == MatchingSlots(r, d) = {} /\ FreeSlots(r) = {}

\* The scan over slots_: the first slot of this frame, else the first free.
TargetSlot(r, d) ==
    IF MatchingSlots(r, d) # {} THEN Least(MatchingSlots(r, d))
                                ELSE Least(FreeSlots(r))

SameMetadata(slot, d) ==
    /\ slot.first_sequence_number = FirstSequence(d)
    /\ slot.timestamp_samples = d.timestamp_samples
    /\ slot.flags = d.flags
    /\ slot.fragment_count = d.fragment_count

\* Why accept_datagram refuses an audio datagram that parsed; "malformed"
\* stands for the four errors of validate_fragment_shape.
Refusal(r, d) ==
    IF ~ CanonicalShape(d) THEN "malformed"
    ELSE IF WindowFull(r, d) THEN "reassembly_window_full"
    ELSE IF MatchingSlots(r, d) = {} THEN "none"
    ELSE LET slot == r.slots[TargetSlot(r, d)]
         IN  IF ~ SameMetadata(slot, d) THEN "inconsistent_fragment_metadata"
             ELSE IF slot.received[d.fragment_index] THEN "duplicate_fragment"
             ELSE "none"

\* A free slot taken for the frame of d; its marks, sizes and bytes are
\* those the slot had when it was free.
Opened(slot, d, now) ==
    [slot EXCEPT !.active = TRUE, !.stream_id = d.stream_id,
                 !.frame_id = d.frame_id,
                 !.first_sequence_number = FirstSequence(d),
                 !.timestamp_samples = d.timestamp_samples,
                 !.flags = d.flags, !.fragment_count = d.fragment_count,
                 !.last_arrival_time = now]

OwnSizeOffset(d) == d.fragment_index * Len(d.payload)                     \* slip
PayloadOffset(d) == d.fragment_index * MaximumPayloadSize

\* The fragment copied to its place in the slot.
Stored(slot, d, now) ==
    [slot EXCEPT
       !.storage = [o \in Offsets |->
           IF o - PayloadOffset(d) \in 1 .. Len(d.payload)
           THEN d.payload[o - PayloadOffset(d)] ELSE @[o]],
       !.received[d.fragment_index] = TRUE,
       !.fragment_sizes[d.fragment_index] = Len(d.payload),
       !.received_count = @ + 1,
       !.last_arrival_time = now]

\* The slot that fragment d goes to, after it is stored there.
SlotWith(r, d, now) ==
    LET slot == r.slots[TargetSlot(r, d)]
    IN  Stored(IF slot.active THEN slot ELSE Opened(slot, d, now), d, now)

HasLastFragment(slot) == slot.received[slot.fragment_count - 1]           \* slip
Complete(slot) == slot.received_count = slot.fragment_count

Completes(r, d, now) == Complete(SlotWith(r, d, now))

FramePayloadSize(slot) ==
    (slot.fragment_count - 1) * MaximumPayloadSize
        + slot.fragment_sizes[slot.fragment_count - 1]

FrameOf(slot) ==
    [stream_id |-> slot.stream_id,
     first_sequence_number |-> slot.first_sequence_number,
     timestamp_samples |-> slot.timestamp_samples,
     frame_id |-> slot.frame_id, flags |-> slot.flags,
     payload |-> [o \in 1 .. FramePayloadSize(slot) |-> slot.storage[o]]]

\* accept_datagram of a fragment it does not refuse: the slot keeps it, or
\* is released when the frame is complete.
Accepted(r, d, now) ==
    [r EXCEPT !.slots[TargetSlot(r, d)] =
        IF Completes(r, d, now) THEN Released(@) ELSE SlotWith(r, d, now)]

CompletedFrame(r, d, now) == FrameOf(SlotWith(r, d, now))
=============================================================================
