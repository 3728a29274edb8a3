---------------------------- MODULE CapturedPacket ----------------------------
(***************************************************************************)
(* A packet read from the loopback endpoint and its normalisation, from    *)
(* native/capture/src/captured_packet.cpp.  The value of a sample is left  *)
(* out: a sample is known by the audio client it came from and its place   *)
(* on that client's timeline, and by whether the conversion wrote zeros.   *)
(***************************************************************************)
EXTENDS Naturals, Sequences

KnownFlags == {"silence", "discontinuity", "timestamp_error"}

Sample == [client : Nat \ {0}, position : Nat, silent : BOOLEAN]

\* convert_float32_stereo_to_pcm_s16le succeeds on a packet: there is
\* something to convert, it fits, and unless it is silent its data are
\* present, of the right size and finite.
Converts(packet, capacity) ==
    /\ packet.frame_count # 0
    /\ packet.flags \subseteq KnownFlags
    /\ packet.frame_count <= capacity
    /\ "silence" \in packet.flags \/ packet.data = "finite"

\* The samples it then writes.
Normalized(packet, client, position) ==
    [i \in 1 .. packet.frame_count |->
       [client |-> client, position |-> position + i - 1,
        silent |-> "silence" \in packet.flags]]
=============================================================================
