--------------------------- MODULE MCWasapiCapture ---------------------------
(***************************************************************************)
(* Frames of two samples, and packets of one to five, so that a packet may *)
(* end in, at the end of, or beyond a frame, and one that is longer than   *)
(* the buffer of the endpoint.                                             *)
(***************************************************************************)
EXTENDS WasapiCapture

Packet(count, flags, skipped) ==
    [announced |-> count, frame_count |-> count, flags |-> flags,
     skipped |-> skipped, data |-> "finite"]

OneSample == Packet(1, {}, 0)
Oversized == Packet(EndpointBuffer + 1, {}, 0)

\* Every combination of flags; a gap; and packets longer than a frame.
AllFlags == {[Packet(n, flags, 0) EXCEPT !.data = IF "silence" \in flags THEN "missing" ELSE @] :
               n \in {1}, flags \in SUBSET KnownFlags}
Streams == AllFlags \cup {Packet(1, {"discontinuity"}, 1), Packet(5, {}, 0),
                          Packet(5, {"discontinuity", "timestamp_error"}, 1)}

\* Packets the loop refuses, each for a reason of its own.
Refused == {[OneSample EXCEPT !.announced = 2], Oversized,
            Packet(1, {"unknown"}, 0), [OneSample EXCEPT !.data = "non_finite"]}

FewPackets == {OneSample, Packet(3, {}, 0), Packet(1, {"discontinuity"}, 1),
               Oversized}
OnePacket == {OneSample}
AllPackets == Streams \cup Refused
=============================================================================
