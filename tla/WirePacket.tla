----------------------------- MODULE WirePacket -----------------------------
(***************************************************************************)
(* What a receiver sees of one UDP datagram and what parse_datagram makes  *)
(* of it (native/protocol/src/packet.cpp).                                 *)
(*                                                                         *)
(* A datagram is a record of the fields its 32 header bytes encode, its    *)
(* size on the wire, and its payload.  The bytes of an audio payload are   *)
(* numbers; of a control payload only the outcome of its parser matters,   *)
(* "content": the value it yields, or InvalidContent when it reports an    *)
(* error.  Which of several errors a datagram is refused for is not        *)
(* modelled: no state depends on it.                                       *)
(***************************************************************************)
EXTENDS Naturals, Sequences

CONSTANTS
    PacketHeaderSize,     \* packet_header_size (32)
    MaximumPayloadSize,   \* maximum_payload_size (1168)
    ControlSizes          \* payload sizes each control type may have

InvalidContent  == 0
ProtocolVersion == 1

FlagDiscontinuity == 1
FlagSilence       == 2
KnownFlagMask     == FlagDiscontinuity + FlagSilence

ControlTypes == {"stream_start", "stream_stop", "heartbeat",
                 "receiver_report", "error"}
PacketTypes  == ControlTypes \cup {"audio"}
UnknownType  == "unknown"

ASSUME PacketAssumption ==
    /\ PacketHeaderSize \in Nat
    /\ MaximumPayloadSize \in Nat \ {0}
    /\ ControlSizes \in [ControlTypes -> SUBSET Nat]

Datagram ==
    [size : Nat, magic : BOOLEAN, version : Nat,
     type : PacketTypes \cup {UnknownType}, flags : Nat, stream_id : Nat,
     sequence_number : Nat, timestamp_samples : Nat, payload_size : Nat,
     fragment_index : Nat, fragment_count : Nat, frame_id : Nat,
     payload : Seq(Nat), content : Nat]

HasFlag(flags, flag) == (flags \div flag) % 2 = 1
UnknownFlags(flags)  == flags > KnownFlagMask

ValidPayloadSize(type, size) ==
    IF type = "audio" THEN size <= MaximumPayloadSize
                      ELSE size \in ControlSizes[type]

\* The rules a control packet has beyond those of every packet.
ValidControlHeader(d) ==
    /\ d.flags = 0
    /\ d.fragment_count = 1 /\ d.fragment_index = 0
    /\ d.frame_id = 0

\* The rules an audio packet has beyond those of every packet.
ValidAudioHeader(d) ==
    /\ d.frame_id # 0
    /\ d.payload_size = 0 => HasFlag(d.flags, FlagSilence)

ValidHeader(d) ==
    /\ d.version = ProtocolVersion
    /\ d.type \in PacketTypes
    /\ ~ UnknownFlags(d.flags)
    /\ d.stream_id # 0
    /\ d.fragment_count # 0
    /\ d.fragment_index < d.fragment_count
    /\ IF d.type = "audio" THEN ValidAudioHeader(d) ELSE ValidControlHeader(d)
    /\ ValidPayloadSize(d.type, d.payload_size)

\* parse_datagram(d).ok(): size limits, magic, header, then the length.
ParsesOk(d) ==
    /\ d.size >= PacketHeaderSize
    /\ d.size <= PacketHeaderSize + MaximumPayloadSize
    /\ d.magic
    /\ ValidHeader(d)
    /\ d.size - PacketHeaderSize = d.payload_size

\* Whether the parser of the control payload accepts it.
ContentOk(d) == d.content # InvalidContent
=============================================================================
