--------------------------- MODULE AudioFragmenter ---------------------------
(***************************************************************************)
(* fragment_audio_frame (native/protocol/src/audio_frame.cpp): the         *)
(* datagrams a sender makes of one logical audio frame.  Pure operators    *)
(* from a frame record to the set of its datagrams.                        *)
(***************************************************************************)
EXTENDS AudioFrameReassembler

Silent(frame) == HasFlag(frame.flags, FlagSilence)

\* validate_frame_view finds no error.
ValidFrame(frame) ==
    /\ frame.stream_id # 0
    /\ frame.frame_id # 0
    /\ ~ UnknownFlags(frame.flags)
    /\ Len(frame.payload) <= MaximumFramePayload
    /\ Silent(frame) <=> frame.payload = <<>>

FragmentCount(frame) ==
    IF Silent(frame) THEN 1
    ELSE (Len(frame.payload) + MaximumPayloadSize - 1) \div MaximumPayloadSize

\* The part of the payload that fragment i carries.
FragmentPayload(frame, i) ==
    SubSeq(frame.payload, i * MaximumPayloadSize + 1,
           IF (i + 1) * MaximumPayloadSize < Len(frame.payload)
           THEN (i + 1) * MaximumPayloadSize ELSE Len(frame.payload))

FragmentDatagram(frame, i) ==
    LET payload == FragmentPayload(frame, i)
    IN  [size |-> PacketHeaderSize + Len(payload), magic |-> TRUE,
         version |-> ProtocolVersion, type |-> "audio",
         flags |-> frame.flags, stream_id |-> frame.stream_id,
         sequence_number |->
             (frame.first_sequence_number + i) % SequenceModulus,
         timestamp_samples |-> frame.timestamp_samples,
         payload_size |-> Len(payload), fragment_index |-> i,
         fragment_count |-> FragmentCount(frame), frame_id |-> frame.frame_id,
         payload |-> payload, content |-> InvalidContent]

\* result.datagrams; none when the frame is refused.  encode_header takes every
\* header made here (FragmentsAreTaken in ReceiverSession_proofs).
FragmentAudioFrame(frame) ==
    IF ~ ValidFrame(frame) THEN {}
    ELSE {FragmentDatagram(frame, i) : i \in 0 .. FragmentCount(frame) - 1}

\* result.next_sequence_number.
NextSequenceNumber(frame) ==
    IF ~ ValidFrame(frame) THEN frame.first_sequence_number
    ELSE (frame.first_sequence_number + FragmentCount(frame)) % SequenceModulus
=============================================================================
