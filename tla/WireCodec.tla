------------------------------ MODULE WireCodec ------------------------------
(***************************************************************************)
(* A datagram as bytes: a sender encodes header and payload, the network   *)
(* damages bytes, cuts or extends the datagram, and a receiver parses it   *)
(* (encode_header and parse_datagram in native/protocol/src/packet.cpp,    *)
(* with the encoders and parsers of the payloads).  The checks of the      *)
(* header are those of WirePacket, which the receiver's session uses too.  *)
(*                                                                         *)
(* The network is external.  UDP's own checksum is left out: the parsers   *)
(* are to be right for any bytes.                                          *)
(***************************************************************************)
EXTENDS WirePacket, ControlPayload

CONSTANTS
    Offers,         \* what the sender is asked to send
    DamagedBytes,   \* bound: values a damaged byte takes
    MaxDamage       \* bound: damages to one datagram

ASSUME CodecAssumption ==
    /\ MaxDamage \in Nat
    /\ PacketHeaderSize = 32
    /\ ControlSizes = [type \in ControlTypes |-> PayloadSizes(type)]
    /\ \A type \in ControlTypes : \A size \in ControlSizes[type] :
           size <= MaximumPayloadSize
    /\ DamagedBytes \subseteq Byte

PacketHeader ==
    [version : Byte, type : PacketTypes, flags : Word, stream_id : Number32,
     sequence_number : Number32, timestamp_samples : Number64, payload_size : Word,
     fragment_index : Byte, fragment_count : Byte, frame_id : Number32]

AudioPayload == [type : {"audio"}, bytes : Seq(Byte)]

VARIABLES
    offer,     \* the header, the payload and the room for it
    wire,      \* the bytes of the datagram
    status,    \* "idle", "unsent", "sent", "accepted" or "refused"
    damage,    \* damages so far
    received   \* the header and the payload the receiver has read

vars == <<offer, wire, status, damage, received>>

Nobody == [header |-> "none", payload |-> "none"]

Init == /\ offer = Nobody /\ wire = <<>> /\ status = "idle"
        /\ damage = 0 /\ received = Nobody

(* The header. *)

Magic       == <<87, 84, 80, 75>>
TypeOrder   == <<"stream_start", "stream_stop", "audio", "heartbeat", "receiver_report", "error">>
TypeCode(t) == CHOOSE code \in DOMAIN TypeOrder : TypeOrder[code] = t
TypeOf(code) == IF code \in DOMAIN TypeOrder THEN TypeOrder[code] ELSE UnknownType

\* The checks ask of a stream and of a frame only whether they are zero.
Checked(h) ==
    [h EXCEPT !.stream_id = IF @ = Zero32 THEN 0 ELSE 1,
              !.frame_id = IF @ = Zero32 THEN 0 ELSE 1]

HeaderEncodes(h) == ValidHeader(Checked(h))

HeaderBytes(h) ==
    Magic \o <<h.version, TypeCode(h.type)>> \o Bytes16(h.flags) \o BytesOf(h.stream_id)
    \o BytesOf(h.sequence_number) \o BytesOf(h.timestamp_samples)
    \o Bytes16(h.payload_size) \o <<h.fragment_index, h.fragment_count>>
    \o BytesOf(h.frame_id)

HeaderRead(b) ==
    [version |-> b[5], type |-> TypeOf(b[6]), flags |-> Read16(b, 6),
     stream_id |-> Read32(b, 8), sequence_number |-> Read32(b, 12),
     timestamp_samples |-> Read64(b, 16), payload_size |-> Read16(b, 24),
     fragment_index |-> b[27], fragment_count |-> b[28], frame_id |-> Read32(b, 28)]

\* The record that the session's model has for these bytes, as far as its
\* checks read it.
AsDatagram(b) ==
    LET h == Checked(HeaderRead(b))
    IN  [size |-> Len(b), magic |-> SubSeq(b, 1, 4) = Magic,
         version |-> h.version, type |-> h.type, flags |-> h.flags,
         stream_id |-> h.stream_id, payload_size |-> h.payload_size,
         fragment_index |-> h.fragment_index, fragment_count |-> h.fragment_count,
         frame_id |-> h.frame_id]

DatagramParses(b) == Len(b) >= PacketHeaderSize /\ ParsesOk(AsDatagram(b))

Body(b) == SubSeq(b, PacketHeaderSize + 1, Len(b))

-----------------------------------------------------------------------------
(* Sending and receiving. *)

\* The bytes of an audio payload are taken as they are.
BodyEncodes(payload, room) == payload.type = "audio" \/ PayloadEncodes(payload, room)
BodyBytes(payload) == IF payload.type = "audio" THEN payload.bytes ELSE PayloadBytes(payload)

\* A sender names in the header the payload that follows it.
ASSUME OffersAssumption ==
    \A o \in Offers :
        /\ o.header \in PacketHeader /\ o.payload \in ControlPayloads \cup AudioPayload
        /\ o.header.type = o.payload.type
        /\ o.header.payload_size = Len(BodyBytes(o.payload))

BodyParses(type, b) == type = "audio" \/ PayloadParses(type, b)
BodyRead(type, b) ==
    IF type = "audio" THEN [type |-> type, bytes |-> b] ELSE PayloadRead(type, b)

DatagramBytes(h, payload) == HeaderBytes(h) \o BodyBytes(payload)

\* The sender encodes the header and the payload, and sends if both succeed.
Encode(o) ==
    /\ offer' = o /\ damage' = 0 /\ received' = Nobody
    /\ IF HeaderEncodes(o.header) /\ BodyEncodes(o.payload, o.room)
       THEN status' = "sent" /\ wire' = DatagramBytes(o.header, o.payload)
       ELSE status' = "unsent" /\ wire' = <<>>

Damage ==
    /\ status = "sent" /\ damage < MaxDamage
    /\ damage' = damage + 1
    /\ \/ \E i \in 1 .. Len(wire), b \in DamagedBytes : wire' = [wire EXCEPT ![i] = b]
       \/ wire # <<>> /\ wire' = Front(wire)
       \/ \E b \in DamagedBytes : wire' = Append(wire, b)
    /\ UNCHANGED <<offer, status, received>>

Receive ==
    /\ status = "sent"
    /\ IF DatagramParses(wire) /\ BodyParses(HeaderRead(wire).type, Body(wire))
       THEN /\ status' = "accepted"
            /\ received' = [header |-> HeaderRead(wire),
                            payload |-> BodyRead(HeaderRead(wire).type, Body(wire))]
       ELSE status' = "refused" /\ UNCHANGED received
    /\ UNCHANGED <<offer, wire, damage>>

\* The next datagram; all that is kept of the one before is forgotten.
NextDatagram ==
    /\ status \in {"unsent", "accepted", "refused"}
    /\ offer' = Nobody /\ wire' = <<>> /\ status' = "idle"
    /\ damage' = 0 /\ received' = Nobody

Next ==
    \/ status = "idle" /\ \E o \in Offers : Encode(o)
    \/ Damage \/ Receive \/ NextDatagram

Spec == Init /\ [][Next]_vars

-----------------------------------------------------------------------------
(* Properties. *)

\* Encoders and parsers agree on every field and every check: what was sent is
\* read as it was meant, and whatever is accepted, damaged or not, is what a
\* sender may send and would write byte for byte, so no two datagrams are read
\* as the same message.
ReadsWhatWasWritten ==
    /\ (damage = 0 /\ status \in {"accepted", "refused"}) =>
           /\ status = "accepted"
           /\ received = [header |-> offer.header, payload |-> offer.payload]
    /\ status = "accepted" =>
           /\ HeaderEncodes(received.header)
           /\ BodyEncodes(received.payload, Len(wire))
           /\ DatagramBytes(received.header, received.payload) = wire

\* The well-formed characters of UTF-8 (the Unicode standard, table 3-7): the
\* ranges of their bytes.
Tail80BF == 128 .. 191
Characters ==
    {<<0 .. 127>>,
     <<194 .. 223, Tail80BF>>,
     <<{224}, 160 .. 191, Tail80BF>>,
     <<225 .. 236, Tail80BF, Tail80BF>>,
     <<{237}, 128 .. 159, Tail80BF>>,
     <<238 .. 239, Tail80BF, Tail80BF>>,
     <<{240}, 144 .. 191, Tail80BF, Tail80BF>>,
     <<241 .. 243, Tail80BF, Tail80BF, Tail80BF>>,
     <<{244}, 128 .. 143, Tail80BF, Tail80BF>>}

IsCharacter(bytes) ==
    \E ranges \in Characters :
        Len(ranges) = Len(bytes) /\ \A i \in 1 .. Len(bytes) : bytes[i] \in ranges[i]

\* The text can be cut into well-formed characters.
WellFormed(text) ==
    \E cuts \in SUBSET (0 .. Len(text)) :
        /\ {0, Len(text)} \subseteq cuts
        /\ \A from \in cuts, to \in cuts :
               (from < to /\ \A cut \in cuts : ~(from < cut /\ cut < to))
                   => IsCharacter(SubSeq(text, from + 1, to))

\* The message of an error is Unicode: sender and receiver accept a text of the
\* right size exactly when the standard does, also one cut off in a character.
TextIsUnicode ==
    /\ (status \in {"sent", "unsent"} /\ damage = 0 /\ offer.header.type = "error"
          /\ HeaderEncodes(offer.header) /\ offer.room >= Len(PayloadBytes(offer.payload)))
           => ((status = "sent") <=> WellFormed(offer.payload.message))
    /\ (status \in {"accepted", "refused"} /\ DatagramParses(wire)
          /\ HeaderRead(wire).type = "error")
           => ((status = "accepted") <=> WellFormed(Message(Body(wire))))
=============================================================================
