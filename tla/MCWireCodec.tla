----------------------------- MODULE MCWireCodec -----------------------------
(***************************************************************************)
(* Datagrams of every type, with values that differ in every byte, offers  *)
(* that an encoder refuses, and messages over the bytes at the ends of the *)
(* ranges of UTF-8.  Messages have at most four bytes (in the code: 256).  *)
(***************************************************************************)
EXTENDS WireCodec

CodecControlSizes == [type \in ControlTypes |-> PayloadSizes(type)]

Room == 64

Header(type, size, flags, frame) ==
    [version |-> 1, type |-> type, flags |-> flags, stream_id |-> <<258, 772>>,
     sequence_number |-> <<65535, 65534>>, timestamp_samples |-> <<1286, 1800, 2314, 2828>>,
     payload_size |-> size, fragment_index |-> 0, fragment_count |-> 1, frame_id |-> frame]

Offer(payload) ==
    [header |-> Header(payload.type, Len(PayloadBytes(payload)), 0, Zero32),
     payload |-> payload, room |-> Room]

Pcm == [type |-> "stream_start", codec |-> 1, channels |-> 2, frame_duration_ms |-> 20,
        sample_rate |-> <<0, 48000>>, target_bitrate |-> Zero32, pre_skip_samples |-> 0]
OpusStart == [Pcm EXCEPT !.codec = 2, !.target_bitrate = <<1, 62464>>,
                         !.pre_skip_samples = 312]
Starts == {Pcm, OpusStart, [Pcm EXCEPT !.codec = 3], [Pcm EXCEPT !.channels = 1],
           [Pcm EXCEPT !.sample_rate = <<0, 44100>>],
           [Pcm EXCEPT !.frame_duration_ms = 10], [Pcm EXCEPT !.target_bitrate = <<0, 1>>],
           [Pcm EXCEPT !.pre_skip_samples = 1], [OpusStart EXCEPT !.target_bitrate = Zero32]}

Others == {[type |-> "stream_stop", reason |-> 5],
           [type |-> "heartbeat", sender_monotonic_time_us |-> <<772, 1286, 1800, 2314>>],
           [type |-> "receiver_report",
            highest_sequence_number_received |-> <<257, 514>>,
            cumulative_missing_datagrams |-> <<771, 1028>>,
            cumulative_late_datagrams |-> <<1285, 1542>>,
            estimated_network_jitter_us |-> <<1799, 2056>>,
            buffered_audio_ms |-> 2313, cumulative_playback_underruns |-> 2570]}

ErrorOf(message) == [type |-> "error", code |-> 258, message |-> message]

EdgeBytes == {65, 128, 143, 144, 159, 160, 191, 192, 193, 194, 223, 224, 237, 240, 244, 245, 255}
Heads     == {225, 239, 240, 241, 243, 244}
Messages  == BoundedSeq(EdgeBytes, 3)
    \cup {<<a, b, c, d>> : a \in Heads, b \in {128, 143, 144, 191}, c \in {128, 191}, d \in {65, 128, 191}}
    \cup {<<65, 65, 65, 65, 65>>}

Audio(flags, frame, payload) ==
    [header |-> Header("audio", Len(payload), flags, frame),
     payload |-> [type |-> "audio", bytes |-> payload], room |-> Room]

Sound == Audio(1, <<9, 10>>, <<1, 2, 3>>)

TestOffers ==
    {Offer(p) : p \in Starts \cup Others \cup {ErrorOf(m) : m \in Messages}}
    \cup {Sound, Audio(2, <<9, 10>>, <<>>), Audio(0, <<9, 10>>, <<>>), Audio(0, Zero32, <<1>>),
          Audio(4, <<9, 10>>, <<1>>), [Offer(Pcm) EXCEPT !.room = 15],
          [Sound EXCEPT !.header.stream_id = Zero32],
          [Sound EXCEPT !.header.fragment_index = 3, !.header.fragment_count = 4],
          [Sound EXCEPT !.header.fragment_index = 4, !.header.fragment_count = 4]}

TestDamage == {0, 1, 2, 3, 7, 65, 128, 143, 144, 159, 160, 192, 193, 224, 237, 240, 244, 255}
=============================================================================
