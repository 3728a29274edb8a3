--------------------------- MODULE ReceiverSession ---------------------------
(***************************************************************************)
(* The receiver session (native/protocol/src/session.cpp): it is handed    *)
(* the datagrams that reach the receiver, each with its arrival time, and  *)
(* keeps the active stream, its reassembler and the queue of its completed *)
(* frames.                                                                 *)
(*                                                                         *)
(* The network may deliver any datagram of the constant set Datagrams, in  *)
(* any order, any number of times, or never; so loss, duplication, delay   *)
(* and reordering are all behaviours.  Time passes by any amount between   *)
(* two calls.  A call whose time runs backwards changes nothing            *)
(* (session.cpp:39-42): it is a stuttering step.  Any other call first     *)
(* observes the time, which ages the reassembler and may end the session,  *)
(* and then treats the datagram in the state this leaves.                  *)
(*                                                                         *)
(* As in the reassembler, has_observed_time_ is not modelled: while it is  *)
(* false last_observed_time_ms_ is 0, and no time is below 0.              *)
(*                                                                         *)
(* Definitions marked "slip" are mistakes the properties tell apart.       *)
(***************************************************************************)
EXTENDS AudioFrameReassembler

CONSTANTS
    QueueCapacity,     \* receiver_frame_queue_capacity (8)
    SessionTimeout,    \* receiver_session_timeout_ms (3000)
    CounterModulus,    \* width of the counters (2^64)
    Datagrams,         \* the datagrams that may reach the receiver
    SentFrames,        \* the frames the senders fragmented
    MaxTime,           \* bound: the latest time of a call
    MaxDatagrams,      \* bound: datagrams_received in a behaviour
    CallerResets       \* whether the caller may call reset()

ASSUME SessionAssumption ==
    /\ QueueCapacity \in Nat \ {0}
    /\ SessionTimeout \in Nat \ {0}
    /\ CounterModulus \in Nat \ {0}
    /\ Datagrams \subseteq Datagram
    /\ MaxTime \in Nat /\ MaxDatagrams \in Nat
    /\ CallerResets \in BOOLEAN

\* The datagrams that parse_datagram accepts.
Parsed == {d \in Datagrams : ParsesOk(d)}

VARIABLES
    session,   \* the members of ReceiverSession but for its counters
    counters,  \* counters_
    arrived,   \* history: fragments kept since the stream started
    history    \* history: where frames went

vars == <<session, counters, arrived, history>>

CounterNames ==
    {"datagrams_received", "malformed_datagrams", "invalid_control_payloads",
     "rejected_before_start", "wrong_stream_datagrams",
     "unexpected_packet_types", "duplicate_fragments",
     "inconsistent_fragments", "expired_frames", "completed_frames",
     "dropped_frames", "discontinuities", "stream_starts",
     "stream_replacements", "stream_stops", "heartbeats", "remote_errors",
     "session_timeouts"}

Counter == 0 .. CounterModulus - 1
Frame   == [stream_id : Nat, first_sequence_number : Nat,
            timestamp_samples : Nat, frame_id : Nat, flags : Nat,
            payload : Seq(Nat)]
NoFrame == [stream_id |-> 0, first_sequence_number |-> 0,
            timestamp_samples |-> 0, frame_id |-> 0, flags |-> 0,
            payload |-> <<>>]

\* What the network delivers was sent: an audio datagram of a shape that the
\* reassembler takes is one that fragment_audio_frame made of a frame sent,
\* and no two frames sent differ in their payload alone.  Only that the
\* session implements its contract rests on this.
Sender == INSTANCE AudioFragmenter

SameHeader(a, b) ==
    /\ a.stream_id = b.stream_id /\ a.frame_id = b.frame_id
    /\ a.first_sequence_number = b.first_sequence_number
    /\ a.timestamp_samples = b.timestamp_samples /\ a.flags = b.flags

ASSUME SentAssumption ==
    /\ SentFrames \subseteq Frame
    /\ \A frame \in SentFrames : frame.first_sequence_number < SequenceModulus
    /\ \A a, b \in SentFrames : SameHeader(a, b) => a = b
    /\ \A d \in Parsed :
         d.type = "audio" /\ CanonicalShape(d) =>
           \E frame \in SentFrames : d \in Sender!FragmentAudioFrame(frame)

QueueSlots == 0 .. QueueCapacity - 1
NoStream   == 0
NoFormat   == 0
NoTime     == 0

Session ==
    [state : {"idle", "streaming"}, active_stream_id : Nat,
     active_format : Nat, reassembler : Reassembler,
     frame_queue : [QueueSlots -> Frame],
     queue_head : QueueSlots, queue_size : 0 .. QueueCapacity,
     last_observed_time : Nat, last_liveness_time : Nat,
     last_sender_time : Nat]

NewSession ==
    [state |-> "idle", active_stream_id |-> NoStream,
     active_format |-> NoFormat, reassembler |-> ResetReassembler,
     frame_queue |-> [q \in QueueSlots |-> NoFrame],
     queue_head |-> 0, queue_size |-> 0,
     last_observed_time |-> 0, last_liveness_time |-> 0,
     last_sender_time |-> NoTime]

ZeroCounters == [name \in CounterNames |-> 0]
NoHistory    == [popped |-> 0, cleared |-> 0, opened |-> 0, abandoned |-> 0]

Streaming(s) == s.state = "streaming"

---------------------------------------------------------------------------
(* What the session does with its own state.                               *)

OnlyHead(s) == [s EXCEPT !.queue_head = 0]                                \* slip
\* clear_frame_queue
QueueCleared(s) == [s EXCEPT !.queue_head = 0, !.queue_size = 0]

WithOldSlots(s) ==                                                        \* slip
    [QueueCleared(s) EXCEPT
       !.state = "idle", !.active_stream_id = NoStream,
       !.active_format = NoFormat, !.last_sender_time = NoTime]
\* clear_stream_state
Cleared(s) ==
    [QueueCleared(s) EXCEPT
       !.state = "idle", !.active_stream_id = NoStream,
       !.active_format = NoFormat, !.reassembler = ResetReassembler,
       !.last_sender_time = NoTime]

SilentLonger(s, now) ==                                                   \* slip
    Streaming(s) /\ now - s.last_liveness_time > SessionTimeout
\* The test of observe_time, session.cpp:57.
TimesOut(s, now) ==
    Streaming(s) /\ now - s.last_liveness_time >= SessionTimeout

\* observe_time(now): its state, and what it counts.
Observed(s, now) ==
    LET aged == [s EXCEPT !.last_observed_time = now,
                          !.reassembler = Advanced(@, now)]
    IN  IF TimesOut(s, now) THEN Cleared(aged) ELSE aged

\* The queue slot an index names, and the frames queued, oldest first.
QueueSlot(s, i) == (s.queue_head + i) % QueueCapacity
Queued(s) == [i \in 1 .. s.queue_size |-> s.frame_queue[QueueSlot(s, i - 1)]]

OldestGone(s) ==
    [s EXCEPT !.queue_head = QueueSlot(s, 1), !.queue_size = @ - 1]

OverFull(s)  == s.queue_size > QueueCapacity                              \* slip
QueueFull(s) == s.queue_size = QueueCapacity

BeyondTail(s, frame) ==                                                   \* slip
    [s EXCEPT !.frame_queue[s.queue_size % QueueCapacity] = frame,
              !.queue_size = @ + 1]
AtTail(s, frame) ==
    [s EXCEPT !.frame_queue[QueueSlot(s, s.queue_size)] = frame,
              !.queue_size = @ + 1]

\* enqueue_frame: a full queue gives up its oldest frame first.
Enqueued(s, frame) == AtTail(IF QueueFull(s) THEN OldestGone(s) ELSE s, frame)

---------------------------------------------------------------------------
(* The counters, and the ledger the model keeps beside them.               *)

Add(c, name, n) == [c EXCEPT ![name] = (@ + n) % CounterModulus]

Count(c, names) ==
    [name \in CounterNames |->
        IF name \in names THEN (c[name] + 1) % CounterModulus ELSE c[name]]

OneExpiry(c, r, now) ==                                                   \* slip
    Add(c, "expired_frames", IF Expired(r, now) = {} THEN 0 ELSE 1)
CountExpired(c, r, now) == Add(c, "expired_frames", Cardinality(Expired(r, now)))

ObservedCounters(now) ==
    LET c == CountExpired(counters, session.reassembler, now)
    IN  IF TimesOut(session, now) THEN Count(c, {"session_timeouts"}) ELSE c

\* The counters after a datagram at time now that counts under these names.
Tally(now, names) ==
    Count(ObservedCounters(now), {"datagrams_received"} \cup names)

Note(h, entry, n) == [h EXCEPT ![entry] = (@ + n) % CounterModulus]

\* The ledger when the stream state of s is cleared.
Forgotten(h, s) ==
    Note(Note(h, "cleared", s.queue_size), "abandoned",
         Cardinality(InFlight(s.reassembler)))

ObservedHistory(now) ==
    IF TimesOut(session, now)
    THEN Forgotten(history, [session EXCEPT !.reassembler = Advanced(@, now)])
    ELSE history

ObservedArrivals(now) == IF TimesOut(session, now) THEN {} ELSE arrived

Init ==
    /\ session = NewSession
    /\ counters = ZeroCounters
    /\ arrived = {}
    /\ history = NoHistory

---------------------------------------------------------------------------
(* The calls.                                                              *)

\* observe_time succeeds for this time: it does not run backwards, neither
\* for the session nor for its reassembler.
TimeAdvances(now) ==
    /\ now >= session.last_observed_time
    /\ now >= session.reassembler.last_observed_time

\* accept_datagram(d, now) within the bounds of the model.
Arrives(d, now) ==
    /\ TimeAdvances(now)
    /\ counters["datagrams_received"] < MaxDatagrams

\* The session does nothing with the datagram beyond counting it.
OnlyCounts(now, names) ==
    /\ session' = Observed(session, now)
    /\ counters' = Tally(now, names)
    /\ history' = ObservedHistory(now)
    /\ arrived' = ObservedArrivals(now)

MalformedDatagram(d, now) ==
    /\ d \notin Parsed
    /\ Arrives(d, now)
    /\ OnlyCounts(now, {"malformed_datagrams"})

\* A stream_start is taken from any sender at any time.
StreamStarted(s, d, now) ==
    [Cleared(s) EXCEPT !.state = "streaming", !.active_stream_id = d.stream_id,
                       !.active_format = d.content, !.last_liveness_time = now]

AcceptStreamStart(d, now) ==
    LET s == Observed(session, now)
    IN  /\ d \in Parsed /\ d.type = "stream_start" /\ ContentOk(d)
        /\ Arrives(d, now)
        /\ session' = StreamStarted(s, d, now)
        /\ counters' = Tally(now, {"stream_starts"} \cup
               (IF Streaming(s) THEN {"stream_replacements"} ELSE {}))
        /\ history' = Forgotten(ObservedHistory(now), s)
        /\ arrived' = {}

\* A packet other than a stream_start that is for the active stream.
ForActiveStream(s, d) ==
    /\ d \in Parsed /\ d.type # "stream_start"
    /\ Streaming(s)
    /\ d.stream_id = s.active_stream_id

InvalidControlPayload(d, now) ==
    /\ ~ ContentOk(d)
    /\ Arrives(d, now)
    /\ \/ d \in Parsed /\ d.type = "stream_start"
       \/ /\ d.type \in {"stream_stop", "heartbeat", "error"}
          /\ ForActiveStream(Observed(session, now), d)
    /\ OnlyCounts(now, {"invalid_control_payloads"})

RejectBeforeStart(d, now) ==
    /\ d \in Parsed /\ d.type # "stream_start"
    /\ Arrives(d, now)
    /\ ~ Streaming(Observed(session, now))
    /\ OnlyCounts(now, {"rejected_before_start"})

RejectWrongStream(d, now) ==
    /\ d \in Parsed /\ d.type # "stream_start"
    /\ Arrives(d, now)
    /\ Streaming(Observed(session, now))
    /\ d.stream_id # Observed(session, now).active_stream_id
    /\ OnlyCounts(now, {"wrong_stream_datagrams"})

AcceptStreamStop(d, now) ==
    LET s == Observed(session, now)
    IN  /\ d.type = "stream_stop" /\ ContentOk(d)
        /\ Arrives(d, now)
        /\ ForActiveStream(s, d)
        /\ session' = Cleared(s)
        /\ counters' = Tally(now, {"stream_stops"})
        /\ history' = Forgotten(ObservedHistory(now), s)
        /\ arrived' = {}

AcceptHeartbeat(d, now) ==
    LET s == Observed(session, now)
    IN  /\ d.type = "heartbeat" /\ ContentOk(d)
        /\ Arrives(d, now)
        /\ ForActiveStream(s, d)
        /\ session' = [s EXCEPT !.last_liveness_time = now,
                                !.last_sender_time = d.content]
        /\ counters' = Tally(now, {"heartbeats"})
        /\ history' = ObservedHistory(now)
        /\ arrived' = ObservedArrivals(now)

AcceptRemoteError(d, now) ==
    LET s == Observed(session, now)
    IN  /\ d.type = "error" /\ ContentOk(d)
        /\ Arrives(d, now)
        /\ ForActiveStream(s, d)
        /\ session' = [s EXCEPT !.last_liveness_time = now]
        /\ counters' = Tally(now, {"remote_errors"})
        /\ history' = ObservedHistory(now)
        /\ arrived' = ObservedArrivals(now)

RejectReport(d, now) ==
    /\ d.type = "receiver_report"
    /\ Arrives(d, now)
    /\ ForActiveStream(Observed(session, now), d)
    /\ OnlyCounts(now, {"unexpected_packet_types"})

---------------------------------------------------------------------------
(* Audio.  The reassembler observes the time a second time before it looks *)
(* at the fragment.                                                        *)

\* The session as the reassembler's accept_datagram finds it.
AtFragment(now) ==
    LET s == Observed(session, now)
    IN  [s EXCEPT !.reassembler = Advanced(@, now)]

FragmentCounters(now, names) ==
    CountExpired(Tally(now, names), Observed(session, now).reassembler, now)

AudioArrives(d, now) ==
    /\ d.type = "audio"
    /\ Arrives(d, now)
    /\ ForActiveStream(Observed(session, now), d)

\* The counters an error of the reassembler moves: two of its errors do.
RefusalCounters(refusal) ==
    CASE refusal = "duplicate_fragment"             -> {"duplicate_fragments"}
      [] refusal = "inconsistent_fragment_metadata" -> {"inconsistent_fragments"}
      [] OTHER                                      -> {}

RefusedAlive(s, now) == [s EXCEPT !.last_liveness_time = now]             \* slip
Refused(s, now) == s

RefuseFragment(d, now) ==
    LET s == AtFragment(now)
        refusal == Refusal(s.reassembler, d)
    IN  /\ AudioArrives(d, now)
        /\ refusal # "none"
        /\ session' = Refused(s, now)
        /\ counters' = FragmentCounters(now, RefusalCounters(refusal))
        /\ history' = ObservedHistory(now)
        /\ arrived' = ObservedArrivals(now)

\* The session after the reassembler kept fragment d.
WithFragment(s, d, now) ==
    [s EXCEPT !.reassembler = Accepted(s.reassembler, d, now),
              !.last_liveness_time = now]

OpensFrame(s, d) == MatchingSlots(s.reassembler, d) = {}

OpenedHistory(d, now) ==
    Note(ObservedHistory(now), "opened",
         IF OpensFrame(AtFragment(now), d) THEN 1 ELSE 0)

StoreFragment(d, now) ==
    LET s == AtFragment(now)
    IN  /\ AudioArrives(d, now)
        /\ Refusal(s.reassembler, d) = "none"
        /\ ~ Completes(s.reassembler, d, now)
        /\ session' = WithFragment(s, d, now)
        /\ counters' = FragmentCounters(now, {})
        /\ history' = OpenedHistory(d, now)
        /\ arrived' = ObservedArrivals(now) \cup {d}

StartsAnew(frame) == HasFlag(frame.flags, FlagDiscontinuity)

\* The session after it queued a completed frame; a discontinuity clears
\* the queue first.
WithFrame(s, frame) ==
    Enqueued(IF StartsAnew(frame) THEN QueueCleared(s) ELSE s, frame)

SilentDrop(s, frame) == {"completed_frames"}                              \* slip
CompletionCounters(s, frame) ==
    {"completed_frames"}
      \cup (IF StartsAnew(frame) THEN {"discontinuities"} ELSE {})
      \cup (IF ~ StartsAnew(frame) /\ QueueFull(s) THEN {"dropped_frames"}
                                                   ELSE {})

CompleteFrame(d, now) ==
    LET s == AtFragment(now)
        frame == CompletedFrame(s.reassembler, d, now)
    IN  /\ AudioArrives(d, now)
        /\ Refusal(s.reassembler, d) = "none"
        /\ Completes(s.reassembler, d, now)
        /\ session' = WithFrame(WithFragment(s, d, now), frame)
        /\ counters' = FragmentCounters(now, CompletionCounters(s, frame))
        /\ history' = Note(OpenedHistory(d, now), "cleared",
                           IF StartsAnew(frame) THEN s.queue_size ELSE 0)
        /\ arrived' = ObservedArrivals(now) \cup {d}

---------------------------------------------------------------------------

AdvanceTime(now) ==
    /\ TimeAdvances(now)
    /\ session' = Observed(session, now)
    /\ counters' = ObservedCounters(now)
    /\ history' = ObservedHistory(now)
    /\ arrived' = ObservedArrivals(now)

PopFrame ==
    /\ session.queue_size # 0
    /\ session' = OldestGone(session)
    /\ history' = Note(history, "popped", 1)
    /\ UNCHANGED <<counters, arrived>>

Reset ==
    /\ CallerResets
    /\ session' = [Cleared(session) EXCEPT !.last_observed_time = 0,
                                           !.last_liveness_time = 0]
    /\ counters' = ZeroCounters
    /\ history' = NoHistory
    /\ arrived' = {}

Accept(d, now) ==
    \/ MalformedDatagram(d, now)
    \/ AcceptStreamStart(d, now)
    \/ InvalidControlPayload(d, now)
    \/ RejectBeforeStart(d, now)
    \/ RejectWrongStream(d, now)
    \/ AcceptStreamStop(d, now)
    \/ AcceptHeartbeat(d, now)
    \/ AcceptRemoteError(d, now)
    \/ RejectReport(d, now)
    \/ RefuseFragment(d, now)
    \/ StoreFragment(d, now)
    \/ CompleteFrame(d, now)

Next ==
    \/ \E d \in Datagrams, now \in 0 .. MaxTime : Accept(d, now)
    \/ \E now \in 0 .. MaxTime : AdvanceTime(now)
    \/ PopFrame
    \/ Reset

Spec == Init /\ [][Next]_vars

---------------------------------------------------------------------------
(* Correctness.                                                            *)

\* Every variable has its type (session.hpp:104-123).
TypeOK ==
    /\ session \in Session
    /\ counters \in [CounterNames -> Counter]
    /\ arrived \subseteq Datagrams
    /\ history \in [{"popped", "cleared", "opened", "abandoned"} -> Counter]

ActiveSlots == {session.reassembler.slots[i] : i \in InFlight(session.reassembler)}

\* An idle session keeps nothing of a stream that ended (session.cpp:19-26):
\* no identifier, no incomplete frame, no queued frame.
IdleIsClean ==
    ~ Streaming(session) =>
        /\ session.active_stream_id = NoStream
        /\ session.active_format = NoFormat
        /\ InFlight(session.reassembler) = {}
        /\ session.queue_size = 0

\* After any call at a time, no session that has been silent for the
\* timeout is still streaming, no incomplete frame that old is kept, and no
\* timestamp lies ahead of the clock, so that the unsigned differences of
\* session.cpp:57 and audio_frame.cpp:169 do not wrap.  The reassembler's
\* clock is never ahead of the session's, so the error branch
\* session.cpp:48-52 is never taken.
NothingOverstays ==
    /\ session.last_liveness_time <= session.last_observed_time
    /\ session.reassembler.last_observed_time <= session.last_observed_time
    /\ Streaming(session) =>
         session.last_observed_time - session.last_liveness_time < SessionTimeout
    /\ \A slot \in ActiveSlots :
         /\ slot.last_arrival_time <= session.last_observed_time
         /\ session.last_observed_time - slot.last_arrival_time < ReassemblyTimeout

\* A slot in use holds an incomplete frame of the active stream with at
\* least one fragment, its count is the number of its marks, and no two
\* slots collect the same frame (audio_frame.cpp:235-296).
SlotsAreIncompleteFrames ==
    /\ \A slot \in ActiveSlots :
         /\ slot.stream_id = session.active_stream_id
         /\ slot.received_count = Cardinality({f \in FragmentIds : slot.received[f]})
         /\ 0 < slot.received_count /\ slot.received_count < slot.fragment_count
         /\ slot.fragment_count <= MaximumFragmentCount
         /\ \A f \in FragmentIds : slot.received[f] => f < slot.fragment_count
    /\ \A i, j \in InFlight(session.reassembler) :
         session.reassembler.slots[i].frame_id = session.reassembler.slots[j].frame_id
           => i = j

\* The fragments of frame identity (stream, frame id) that arrived in this
\* stream, and whether fragment f explains these metadata.
FragmentOf(f, metadata) ==
    /\ f.stream_id = metadata.stream_id /\ f.frame_id = metadata.frame_id
    /\ f.timestamp_samples = metadata.timestamp_samples
    /\ f.flags = metadata.flags
    /\ FirstSequence(f) = metadata.first_sequence_number

\* Every fragment a slot claims to have is one that arrived since the
\* present stream started, and its bytes stand where it says.
SlotsHoldWhatArrived ==
    \A slot \in ActiveSlots : \A i \in FragmentIds :
      slot.received[i] =>
        \E f \in arrived :
          /\ FragmentOf(f, slot) /\ f.fragment_index = i
          /\ f.fragment_count = slot.fragment_count
          /\ slot.fragment_sizes[i] = Len(f.payload)
          /\ \A b \in 1 .. Len(f.payload) :
               slot.storage[PayloadOffset(f) + b] = f.payload[b]

QueuedFrames == {Queued(session)[i] : i \in 1 .. session.queue_size}

\* A queued frame belongs to the active stream and each of its bytes came
\* in a fragment of that very frame since the stream started: fragments of
\* two frames, or of a stream before this one, are never mixed, and no byte
\* is left over from an earlier use of the slot.
QueueHoldsWhatArrived ==
    \A frame \in QueuedFrames :
      /\ Streaming(session) /\ frame.stream_id = session.active_stream_id
      /\ \A o \in 1 .. Len(frame.payload) :
           \E f \in arrived :
             /\ FragmentOf(f, frame)
             /\ o - PayloadOffset(f) \in 1 .. Len(f.payload)
             /\ frame.payload[o] = f.payload[o - PayloadOffset(f)]

\* Every completed frame is accounted for once: taken by the caller,
\* dropped from a full queue, cleared with its stream or by a
\* discontinuity, or still queued.
CompletedFramesAddUp ==
    counters["completed_frames"] =
      (history["popped"] + counters["dropped_frames"] + history["cleared"]
         + session.queue_size) % CounterModulus

\* Every frame begun is accounted for once: completed, expired, given up
\* with its stream, or in flight.  A frame is never both expired and
\* completed, nor expired twice by the two clocks of one call.
OpenedFramesAddUp ==
    history["opened"] =
      (counters["completed_frames"] + counters["expired_frames"]
         + history["abandoned"] + Cardinality(InFlight(session.reassembler)))
           % CounterModulus

\* Only traffic of the active stream that was accepted keeps the session
\* alive: a call that moves the liveness time counted a start, a heartbeat
\* or a remote error, or kept a fragment it did not have.
OnlyAcceptedTrafficKeepsAlive ==
    [][session'.last_liveness_time > session.last_liveness_time =>
         \/ \E name \in {"stream_starts", "heartbeats", "remote_errors",
                         "completed_frames"} : counters'[name] # counters[name]
         \/ \E i \in SlotIds :
              LET old == session.reassembler.slots[i]
                  new == session'.reassembler.slots[i]
              IN  new.active /\ new.last_arrival_time > old.last_arrival_time
      ]_vars

\* PROTOCOL.md:229: a completed frame carrying discontinuity clears queued
\* OLDER frames.  The code clears every queued frame, whatever its time.
DiscontinuityClearsOnlyOlder ==
    [][counters'["discontinuities"] # counters["discontinuities"] =>
         \A frame \in QueuedFrames :
           frame.timestamp_samples
             <= Queued(session')[session'.queue_size].timestamp_samples]_vars

Outcomes == CounterNames \ {"datagrams_received", "expired_frames",
                            "session_timeouts"}

\* PROTOCOL.md:231 and 257-262: malformed and rejected data are counted.  A
\* datagram moves a counter of its own, or its fragment is now in a slot.
RejectedDataIsCounted ==
    [][counters'["datagrams_received"] # counters["datagrams_received"] =>
         \/ \E name \in Outcomes : counters'[name] # counters[name]
         \/ \E i \in SlotIds :
              /\ session'.reassembler.slots[i].active
              /\ session'.reassembler.slots[i] # session.reassembler.slots[i]
      ]_vars

\* The session implements its contract: every queued frame is one a sender
\* fragmented, byte for byte, and the queue is the newest of them in order
\* of completion.
Contract ==
    INSTANCE ReceiverContract WITH
      Streams <- {d.stream_id : d \in Datagrams} \ {0},
      Frames <- SentFrames,
      IsDiscontinuous <- StartsAnew,
      Capacity <- QueueCapacity,
      stream <- session.active_stream_id,
      pending <- Queued(session)

ImplementsContract == Contract!Spec
=============================================================================
