-------------------------- MODULE PcmFrameAssembler --------------------------
(***************************************************************************)
(* native/capture/src/pcm_frame_assembler.cpp: packets of any length are   *)
(* cut into frames of FrameSamples samples.  The object belongs to the     *)
(* capture thread, so it is a record and its methods are operators.  The   *)
(* position in QPC time moves with the device position and is left out.    *)
(***************************************************************************)
EXTENDS CapturedPacket

CONSTANT FrameSamples     \* logical_pcm_frame_samples (960)

ASSUME FrameSamplesAssumption == FrameSamples \in Nat \ {0}

Assembler ==
    [pending : Seq(Sample), flags : SUBSET KnownFlags, all_silent : BOOLEAN,
     device_position : Nat, next_sequence_number : Nat \ {0}]

\* PcmFrameView, as handed to the sink.
Frame == [sequence_number : Nat \ {0}, flags : SUBSET KnownFlags,
          device_position : Nat, samples : Seq(Sample)]

NewAssembler ==
    [pending |-> <<>>, flags |-> {}, all_silent |-> TRUE,
     device_position |-> 0, next_sequence_number |-> 1]

HasPartial(a) == a.pending # <<>>

ClearPartial(a) ==
    [a EXCEPT !.pending = <<>>, !.flags = {}, !.all_silent = TRUE,
              !.device_position = 0]

\* discard_partial() and reset(); both also report HasPartial(a).
DiscardPartial(a) == ClearPartial(a)
Reset(a) == [ClearPartial(a) EXCEPT !.next_sequence_number = 1]

---------------------------------------------------------------------------
(* accept_packet.  The work on a packet is a record of the assembler, the  *)
(* samples consumed so far, whether the discontinuity is still to be put   *)
(* on a frame, and the frames handed to the sink.                          *)

DropsPartial(a, packet) == "discontinuity" \in packet.flags /\ HasPartial(a)

OpenPacket(a, packet) ==
    [assembler     |-> IF DropsPartial(a, packet) THEN ClearPartial(a) ELSE a,
     consumed      |-> 0,
     discontinuity |-> "discontinuity" \in packet.flags,
     frames        |-> <<>>]

BeginFrameAtPacket(w, packet) ==                                          \* slip
    IF HasPartial(w.assembler) THEN w
    ELSE [w EXCEPT !.assembler.flags = IF w.discontinuity THEN {"discontinuity"} ELSE {},
                   !.assembler.all_silent = TRUE,
                   !.assembler.device_position = packet.device_position,
                   !.discontinuity = FALSE]

BeginFrame(w, packet) ==
    IF HasPartial(w.assembler) THEN w
    ELSE [w EXCEPT !.assembler.flags = IF w.discontinuity THEN {"discontinuity"} ELSE {},
                   !.assembler.all_silent = TRUE,
                   !.assembler.device_position = packet.device_position + w.consumed,
                   !.discontinuity = FALSE]

MarkFrame(w, packet) ==
    [w EXCEPT !.assembler.flags = @ \cup (packet.flags \cap {"timestamp_error"}),
              !.assembler.all_silent = @ /\ "silence" \in packet.flags]

CopyRestOfPacket(w, packet) ==                                            \* slip
    [w EXCEPT !.assembler.pending =
                 @ \o SubSeq(packet.samples, w.consumed + 1, packet.frame_count),
              !.consumed = packet.frame_count]

CopySamples(w, packet) ==
    LET in_frame  == FrameSamples - Len(w.assembler.pending)
        in_packet == packet.frame_count - w.consumed
        count     == IF in_frame < in_packet THEN in_frame ELSE in_packet
    IN  [w EXCEPT !.assembler.pending =
                     @ \o SubSeq(packet.samples, w.consumed + 1, w.consumed + count),
                  !.consumed = @ + count]

CompletedFrame(a) ==
    [sequence_number |-> a.next_sequence_number,
     flags           |-> a.flags \cup (IF a.all_silent THEN {"silence"} ELSE {}),
     device_position |-> a.device_position,
     samples         |-> a.pending]

NextFrame(a) == [ClearPartial(a) EXCEPT !.next_sequence_number = @ + 1]

EndFrame(w) ==
    IF Len(w.assembler.pending) # FrameSamples THEN w
    ELSE [w EXCEPT !.frames = Append(@, CompletedFrame(w.assembler)),
                   !.assembler = NextFrame(w.assembler)]

CopyChunk(w, packet) ==
    EndFrame(CopySamples(MarkFrame(BeginFrame(w, packet), packet), packet))

\* The loop consumes at least one sample a turn.
Turn(w, packet) ==
    IF w.consumed = packet.frame_count THEN w ELSE CopyChunk(w, packet)

AfterTurns(a, packet) ==
    LET after[turn \in 0 .. packet.frame_count] ==
          IF turn = 0 THEN OpenPacket(a, packet) ELSE Turn(after[turn - 1], packet)
    IN  after

AcceptPacket(a, packet) == AfterTurns(a, packet)[packet.frame_count]
=============================================================================
