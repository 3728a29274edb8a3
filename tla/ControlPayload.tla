--------------------------- MODULE ControlPayload ---------------------------
(***************************************************************************)
(* The payloads of control packets as bytes                                *)
(* (native/protocol/src/control_payload.cpp, byte_order.hpp): what each    *)
(* encoder refuses and writes, and what each parser refuses and reads.     *)
(* Which of several errors is reported is left out.                        *)
(*                                                                         *)
(* A number of 32 or 64 bits is the sequence of its 16-bit words, the most *)
(* significant first, so that TLC's integers hold every value.             *)
(***************************************************************************)
EXTENDS Naturals, SequencesExt

CONSTANT ErrorMessageMaximumSize   \* error_message_maximum_size (256)

ASSUME MessageAssumption == ErrorMessageMaximumSize \in Nat

(* Big-endian numbers. *)

Byte     == 0 .. 255
Word     == 0 .. 65535
Number32 == Word \X Word
Number64 == Word \X Word \X Word \X Word

Bytes16(word)  == <<word \div 256, word % 256>>
BytesOf(words) == FlattenSeq([i \in 1 .. Len(words) |-> Bytes16(words[i])])

Read16(bytes, offset) == 256 * bytes[offset + 1] + bytes[offset + 2]
Read32(bytes, offset) == <<Read16(bytes, offset), Read16(bytes, offset + 2)>>
Read64(bytes, offset) == Read32(bytes, offset) \o Read32(bytes, offset + 4)

Zero32 == <<0, 0>>

(* UTF-8. *)

\* Bytes that follow a first byte of a longer character, 0 if it cannot begin one.
ContinuationCount(first) ==
    CASE first \in 192 .. 223 -> 1
      [] first \in 224 .. 239 -> 2
      [] first \in 240 .. 247 -> 3
      [] OTHER                -> 0

Continuation(byte) == byte \in 128 .. 191

\* The first byte holds what its length bits leave, each other byte six bits.
FirstByteValues(count) == <<32, 16, 8>>[count]

CodePoint(text, index, count) ==
    LET value[k \in 0 .. count] ==
            IF k = 0 THEN text[index + 1] % FirstByteValues(count)
            ELSE 64 * value[k - 1] + (text[index + 1 + k] % 64)
    IN value[count]

AnyCodePoint(count) == 0                                              \* slip
MinimumCodePoint(count) == <<128, 2048, 65536>>[count]

ValidCodePoint(value, count) ==
    /\ value >= MinimumCodePoint(count)
    /\ value <= 1114111
    /\ value \notin 55296 .. 57343

\* The character that begins after the first index bytes is complete and valid.
ValidCharacter(text, index, count) ==
    /\ count > 0
    /\ index + count < Len(text)
    /\ \A k \in 1 .. count : Continuation(text[index + 1 + k])
    /\ ValidCodePoint(CodePoint(text, index, count), count)

ValidUtf8(text) ==
    LET validFrom[index \in 0 .. Len(text)] ==
            IF index = Len(text) THEN TRUE
            ELSE IF text[index + 1] < 128 THEN validFrom[index + 1]
            ELSE LET count == ContinuationCount(text[index + 1])
                 IN ValidCharacter(text, index, count) /\ validFrom[index + count + 1]
    IN validFrom[0]

-----------------------------------------------------------------------------
(* The payloads, records with their packet type. *)

PcmS16le == 1
Opus     == 2

StreamStartPayload ==
    [type : {"stream_start"}, codec : Byte, channels : Byte, frame_duration_ms : Word,
     sample_rate : Number32, target_bitrate : Number32, pre_skip_samples : Word]
StreamStopPayload == [type : {"stream_stop"}, reason : Byte]
HeartbeatPayload  == [type : {"heartbeat"}, sender_monotonic_time_us : Number64]
ReceiverReportPayload ==
    [type : {"receiver_report"}, highest_sequence_number_received : Number32,
     cumulative_missing_datagrams : Number32, cumulative_late_datagrams : Number32,
     estimated_network_jitter_us : Number32, buffered_audio_ms : Word,
     cumulative_playback_underruns : Word]
ErrorPayload == [type : {"error"}, code : Word, message : Seq(Byte)]

ControlPayloads == StreamStartPayload \cup StreamStopPayload \cup HeartbeatPayload
                       \cup ReceiverReportPayload \cup ErrorPayload

SupportedFormat(p) ==
    p.channels = 2 /\ p.frame_duration_ms = 20 /\ p.sample_rate = <<0, 48000>>

\* validate_stream_start
ValidStreamStart(p) ==
    /\ p.codec \in {PcmS16le, Opus}
    /\ SupportedFormat(p)
    /\ p.codec = PcmS16le => p.target_bitrate = Zero32 /\ p.pre_skip_samples = 0
    /\ p.codec = Opus => p.target_bitrate # Zero32

StreamStartBytes(p) ==
    <<p.codec, p.channels>> \o Bytes16(p.frame_duration_ms) \o BytesOf(p.sample_rate)
    \o BytesOf(p.target_bitrate) \o Bytes16(p.pre_skip_samples) \o Bytes16(0)
StreamStopBytes(p) == <<p.reason>>
HeartbeatBytes(p)  == BytesOf(p.sender_monotonic_time_us)
ReceiverReportBytes(p) ==
    BytesOf(p.highest_sequence_number_received) \o BytesOf(p.cumulative_missing_datagrams)
    \o BytesOf(p.cumulative_late_datagrams) \o BytesOf(p.estimated_network_jitter_us)
    \o Bytes16(p.buffered_audio_ms) \o Bytes16(p.cumulative_playback_underruns)
ErrorBytes(p) == Bytes16(p.code) \o p.message

PayloadBytes(p) ==
    CASE p.type = "stream_start"    -> StreamStartBytes(p)
      [] p.type = "stream_stop"     -> StreamStopBytes(p)
      [] p.type = "heartbeat"       -> HeartbeatBytes(p)
      [] p.type = "receiver_report" -> ReceiverReportBytes(p)
      [] p.type = "error"           -> ErrorBytes(p)

ValidMessage(message) == Len(message) <= ErrorMessageMaximumSize /\ ValidUtf8(message)

\* The encoder of the payload accepts it, given an output of that many bytes.
PayloadEncodes(p, room) ==
    /\ p.type = "stream_start" => ValidStreamStart(p)
    /\ p.type = "error" => ValidMessage(p.message)
    /\ room >= Len(PayloadBytes(p))

\* What the parsers read, once the size is right.
ReadStreamStart(b) ==
    [type |-> "stream_start", codec |-> b[1], channels |-> b[2],
     frame_duration_ms |-> Read16(b, 2), sample_rate |-> Read32(b, 4),
     target_bitrate |-> Read32(b, 8), pre_skip_samples |-> Read16(b, 12)]
ReadStreamStop(b) == [type |-> "stream_stop", reason |-> b[1]]
ReadHeartbeat(b)  == [type |-> "heartbeat", sender_monotonic_time_us |-> Read64(b, 0)]
ReadReceiverReport(b) ==
    [type |-> "receiver_report", highest_sequence_number_received |-> Read32(b, 0),
     cumulative_missing_datagrams |-> Read32(b, 4), cumulative_late_datagrams |-> Read32(b, 8),
     estimated_network_jitter_us |-> Read32(b, 12), buffered_audio_ms |-> Read16(b, 16),
     cumulative_playback_underruns |-> Read16(b, 18)]
Message(b)   == SubSeq(b, 3, Len(b))
ReadError(b) == [type |-> "error", code |-> Read16(b, 0), message |-> Message(b)]

PayloadRead(type, b) ==
    CASE type = "stream_start"    -> ReadStreamStart(b)
      [] type = "stream_stop"     -> ReadStreamStop(b)
      [] type = "heartbeat"       -> ReadHeartbeat(b)
      [] type = "receiver_report" -> ReadReceiverReport(b)
      [] type = "error"           -> ReadError(b)

PayloadSizes(type) ==
    CASE type = "stream_start" -> {16}
      [] type = "stream_stop" -> {1}
      [] type = "heartbeat" -> {8}
      [] type = "receiver_report" -> {20}
      [] type = "error" -> 2 .. 2 + ErrorMessageMaximumSize

AnyReserved(b) == TRUE                                                \* slip
ReservedIsZero(b) == Read16(b, 14) = 0

\* The parser of the payload accepts the bytes.
PayloadParses(type, b) ==
    /\ Len(b) \in PayloadSizes(type)
    /\ type = "stream_start" => ReservedIsZero(b) /\ ValidStreamStart(ReadStreamStart(b))
    /\ type = "error" => ValidUtf8(Message(b))
=============================================================================
