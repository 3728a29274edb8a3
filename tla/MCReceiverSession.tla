-------------------------- MODULE MCReceiverSession --------------------------
(***************************************************************************)
(* Payloads of at most two bytes and frames of at most three, so that a    *)
(* frame has two fragments and the second is short (in the code: four of   *)
(* 1168 bytes, the last of 336); two slots in the window, two in the       *)
(* queue, sequence numbers that wrap at four, frames that expire after one *)
(* or two ticks and sessions after two or three.                           *)
(***************************************************************************)
EXTENDS ReceiverSession

Fragmenter == INSTANCE AudioFragmenter

TestControlSizes == [type \in ControlTypes |->
    CASE type = "stream_stop" -> {0} [] type = "error" -> {1, 2} [] OTHER -> {1}]

AudioFrame(stream, id, sequence, timestamp, flags, payload) ==
    [stream_id |-> stream, first_sequence_number |-> sequence,
     timestamp_samples |-> timestamp, frame_id |-> id, flags |-> flags,
     payload |-> payload]

\* Two frames of two fragments (the sequence numbers of the first wrap), a
\* discontinuity, a silence, a frame of another stream, and a frame of a
\* sender that starts over and uses the first frame's identifier again.
First    == AudioFrame(1, 1, 3, 10, 0, <<11, 12, 13>>)
Second   == AudioFrame(1, 2, 1, 20, 0, <<21, 22, 23>>)
Fresh    == AudioFrame(1, 3, 3, 30, 1, <<31>>)
Silence  == AudioFrame(1, 4, 0, 40, 2, <<>>)
Other    == AudioFrame(2, 1, 3, 10, 0, <<51, 52, 53>>)
Again    == AudioFrame(1, 1, 0, 60, 0, <<61, 62>>)

Sent(frames) == UNION {Fragmenter!FragmentAudioFrame(f) : f \in frames}

Control(type, stream, size, content) ==
    [size |-> PacketHeaderSize + size, magic |-> TRUE,
     version |-> ProtocolVersion, type |-> type, flags |-> 0,
     stream_id |-> stream, sequence_number |-> 0, timestamp_samples |-> 0,
     payload_size |-> size, fragment_index |-> 0, fragment_count |-> 1,
     frame_id |-> 0, payload |-> [b \in 1 .. size |-> 0], content |-> content]

StartOf(stream) == Control("stream_start", stream, 1, 7)
StopOf(stream)  == Control("stream_stop", stream, 0, 7)
Heartbeat       == Control("heartbeat", 1, 1, 9)
RemoteError     == Control("error", 1, 2, 7)
Report          == Control("receiver_report", 1, 1, 7)

\* Control packets whose payload their parser refuses.
BadControls == {[c EXCEPT !.content = InvalidContent] :
                c \in {StartOf(1), Heartbeat}}

OneFragment == Fragmenter!FragmentDatagram(First, 0)

\* Fragments that parse, but are refused by the reassembler: too many
\* fragments, a short first fragment, a frame that is too long, and a
\* silence with bytes.
Refusable == {[OneFragment EXCEPT !.fragment_count = 3],
              [OneFragment EXCEPT !.payload = <<11>>, !.payload_size = 1,
                                  !.size = PacketHeaderSize + 1],
              [OneFragment EXCEPT !.fragment_index = 1],
              [OneFragment EXCEPT !.flags = 2, !.fragment_count = 1]}

\* Datagrams that do not parse, each for a reason of its own.
Unparsable == {[OneFragment EXCEPT !.magic = FALSE],
               [OneFragment EXCEPT !.fragment_index = 2],
               [OneFragment EXCEPT !.size = PacketHeaderSize + 1],
               [Heartbeat EXCEPT !.flags = 1]}

AudioFrames == {First, Second, Fresh, Silence, Other}
AudioTraffic == Sent(AudioFrames) \cup {StartOf(1), StartOf(2), StopOf(1)}

\* The discontinuous frame overtaken by a later one.
Reordered == {[Fresh EXCEPT !.payload = <<32>>, !.timestamp_samples = 5], Silence}
ReorderedTraffic == Sent(Reordered) \cup {StartOf(1)}

AllFrames  == AudioFrames \cup {Again}
AllTraffic == Sent(AllFrames) \cup {StartOf(1), StartOf(2), StopOf(1),
                Heartbeat, RemoteError, Report}
                \cup BadControls \cup Refusable \cup Unparsable
=============================================================================
