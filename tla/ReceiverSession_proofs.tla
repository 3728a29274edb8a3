------------------------ MODULE ReceiverSession_proofs ------------------------
(***************************************************************************)
(* Proofs about the receiver session, for every window, queue, payload and *)
(* frame size, every timeout, and every set of datagrams that may arrive.  *)
(*                                                                         *)
(* Each call is a composition of a few operators on the session, so the    *)
(* invariant is a predicate of a session, Inv(s), and one lemma for each   *)
(* operator says that it preserves Inv.  Besides the properties proved it  *)
(* holds what they rest on: blank slots are blank, no two slots collect    *)
(* the same frame, and what is in a slot or queued is of the active        *)
(* stream.                                                                 *)
(*                                                                         *)
(* Three further invariants rest on it, each with a section of its own:    *)
(* Ledger, that the counters account for every frame; Hoard, that every    *)
(* byte held came in a datagram of its frame; and Timely, on the order of  *)
(* the clocks.  With Hoard, and what is assumed of the senders, the        *)
(* session implements ReceiverContract.                                    *)
(***************************************************************************)
EXTENDS ReceiverSession, AudioFrameReassembler_proofs

\* An idle session keeps nothing of a stream.
Clean(s) ==
    ~ Streaming(s) => /\ s.active_stream_id = NoStream
                      /\ s.active_format = NoFormat
                      /\ InFlight(s.reassembler) = {}
                      /\ s.queue_size = 0

\* Slots and queue hold frames of the active stream only.
OneStream(s) ==
    /\ \A i \in InFlight(s.reassembler) :
         s.reassembler.slots[i].stream_id = s.active_stream_id
    /\ \A i \in 0 .. s.queue_size - 1 :
         s.frame_queue[QueueSlot(s, i)].stream_id = s.active_stream_id

\* Incomplete frames are younger than the timeout at time now.
YoungAt(r, now) ==
    \A i \in InFlight(r) :
      /\ r.slots[i].last_arrival_time <= now
      /\ now - r.slots[i].last_arrival_time < ReassemblyTimeout

Punctual(s) ==
    /\ s.last_liveness_time <= s.last_observed_time
    /\ s.reassembler.last_observed_time <= s.last_observed_time
    /\ Streaming(s) =>
         s.last_observed_time - s.last_liveness_time < SessionTimeout
    /\ YoungAt(s.reassembler, s.last_observed_time)

Inv(s) ==
    /\ s \in Session
    /\ SoundWindow(s.reassembler) /\ Distinct(s.reassembler)
    /\ Clean(s) /\ OneStream(s) /\ Punctual(s)

CountersTyped(c) == c \in [CounterNames -> Counter]
HistoryTyped(h)  == h \in [{"popped", "cleared", "opened", "abandoned"} -> Counter]

IInv ==
    /\ Inv(session)
    /\ CountersTyped(counters)
    /\ arrived \subseteq Datagrams
    /\ HistoryTyped(history)

---------------------------------------------------------------------------
(* Operators on the session.                                               *)

\* Indices of the ring are indices of its array.
LEMMA QueueSlotInRing ==
    ASSUME NEW s \in Session, NEW i \in Nat
    PROVE  /\ QueueSlot(s, i) \in QueueSlots
           /\ QueueSlot(s, i) = (s.queue_head + i) % QueueCapacity
<1>1. QueueCapacity \in Nat \ {0} /\ s.queue_head \in Nat
  BY SessionAssumption DEF Session, QueueSlots
<1>2. (s.queue_head + i) % QueueCapacity \in 0 .. QueueCapacity - 1
  <2>1. s.queue_head + i \in Nat
    BY <1>1
  <2> QED BY <1>1, <2>1
<1> QED BY <1>2 DEF QueueSlot, QueueSlots

\* A number has one remainder.
LEMMA OneRemainder ==
    ASSUME NEW C \in Nat \ {0}, NEW p \in Int, NEW q \in Int,
           NEW r \in 0 .. C - 1, NEW t \in 0 .. C - 1, C * p + r = C * q + t
    PROVE  r = t
<1>1. C * (p - q) = t - r
  BY C * (p - q) = C * p - C * q
<1>2. CASE p - q >= 1
  <2>1. C * (p - q) >= C
    BY <1>2
  <2> QED BY <1>1, <2>1
<1>3. CASE p - q <= -1
  <2>1. C * (p - q) <= -C
    BY <1>3
  <2> QED BY <1>1, <2>1
<1>4. CASE p = q
  BY <1>4
<1> QED BY <1>2, <1>3, <1>4

\* Stepping the head of a ring shifts the indices of its entries.
LEMMA RingShift ==
    ASSUME NEW C \in Nat \ {0}, NEW a \in Nat, NEW b \in Nat
    PROVE  ((a % C) + b) % C = (a + b) % C
<1>1. PICK ra \in 0 .. C - 1, qa \in Int : ra = a % C /\ a = C * qa + ra
  <2>1. a % C \in 0 .. C - 1 /\ a \div C \in Int /\ a = C * (a \div C) + (a % C)
    OBVIOUS
  <2> QED BY <2>1
<1>2. PICK rx \in 0 .. C - 1, qx \in Int :
         rx = (ra + b) % C /\ ra + b = C * qx + rx
  <2> DEFINE x == ra + b
  <2>1. x \in Nat
    OBVIOUS
  <2> HIDE DEF x
  <2>2. x % C \in 0 .. C - 1 /\ x \div C \in Int /\ x = C * (x \div C) + (x % C)
    BY <2>1
  <2> QED BY <2>2 DEF x
<1>3. PICK rs \in 0 .. C - 1, qs \in Int :
         rs = (a + b) % C /\ a + b = C * qs + rs
  <2> DEFINE x == a + b
  <2>1. x \in Nat
    OBVIOUS
  <2> HIDE DEF x
  <2>2. x % C \in 0 .. C - 1 /\ x \div C \in Int /\ x = C * (x \div C) + (x % C)
    BY <2>1
  <2> QED BY <2>2 DEF x
<1>4. C * qs + rs = C * qa + (C * qx + rx)
  BY <1>1, <1>2, <1>3
<1>5. C * qa + C * qx = C * (qa + qx)
  OBVIOUS
<1>6. C * qs + rs = C * (qa + qx) + rx
  BY <1>4, <1>5
<1>7. rs = rx
  BY <1>6, OneRemainder
<1> QED BY <1>1, <1>2, <1>3, <1>7

---------------------------------------------------------------------------

\* A new session.
LEMMA NewSessionInv == Inv(NewSession)
<1>1. /\ SoundWindow(ResetReassembler) /\ InFlight(ResetReassembler) = {}
      /\ Distinct(ResetReassembler) /\ ResetReassembler \in Reassembler
  BY ResetSound DEF SoundWindow
<1>2. NoFrame \in Frame
  BY DEF NoFrame, Frame
<1>3. NewSession \in Session
  BY <1>1, <1>2, SessionAssumption
     DEF NewSession, Session, QueueSlots, NoStream, NoFormat, NoTime
<1>4. /\ ~ Streaming(NewSession)
      /\ NewSession.reassembler = ResetReassembler
      /\ NewSession.queue_size = 0 /\ NewSession.active_stream_id = NoStream
      /\ NewSession.active_format = NoFormat
      /\ NewSession.last_liveness_time = 0
      /\ NewSession.last_observed_time = 0
      /\ ResetReassembler.last_observed_time = 0
  BY DEF NewSession, Streaming, ResetReassembler
<1> QED BY <1>1, <1>3, <1>4 DEF Inv, Clean, OneStream, Punctual, YoungAt

\* clear_stream_state leaves an idle session that keeps its clocks.
LEMMA ClearedInv ==
    ASSUME NEW s \in Session, s.last_liveness_time <= s.last_observed_time
    PROVE  /\ Inv(Cleared(s)) /\ ~ Streaming(Cleared(s))
           /\ Cleared(s).last_observed_time = s.last_observed_time
           /\ Cleared(s).last_liveness_time = s.last_liveness_time
<1> DEFINE c == Cleared(s)
<1>1. /\ SoundWindow(ResetReassembler) /\ InFlight(ResetReassembler) = {}
      /\ Distinct(ResetReassembler) /\ ResetReassembler \in Reassembler
      /\ ResetReassembler.last_observed_time = 0
  BY ResetSound DEF SoundWindow, ResetReassembler
<1>2. /\ c.state = "idle" /\ c.active_stream_id = NoStream
      /\ c.active_format = NoFormat /\ c.reassembler = ResetReassembler
      /\ c.queue_size = 0
      /\ c.last_observed_time = s.last_observed_time
      /\ c.last_liveness_time = s.last_liveness_time
  BY DEF Cleared, QueueCleared, Session
<1>3. c \in Session
  <2> DEFINE q == QueueCleared(s)
  <2>1. q \in Session
    <3>1. 0 \in QueueSlots /\ 0 \in 0 .. QueueCapacity
      BY SessionAssumption DEF QueueSlots
    <3> QED BY <3>1 DEF QueueCleared, Session
  <2> HIDE DEF q
  <2>2. c = [q EXCEPT !.state = "idle", !.active_stream_id = 0,
               !.active_format = 0, !.reassembler = ResetReassembler,
               !.last_sender_time = 0]
    BY DEF Cleared, NoStream, NoFormat, NoTime, q
  <2> DEFINE q1 == [q EXCEPT !.state = "idle"]
             q2 == [q1 EXCEPT !.active_stream_id = 0]
             q3 == [q2 EXCEPT !.active_format = 0]
             q4 == [q3 EXCEPT !.reassembler = ResetReassembler]
             q5 == [q4 EXCEPT !.last_sender_time = 0]
  <2>3. q1 \in Session
    BY <2>1 DEF Session
  <2>4. q2 \in Session
    BY <2>3 DEF Session
  <2>5. q3 \in Session
    BY <2>4 DEF Session
  <2>6. q4 \in Session
    BY <1>1, <2>5 DEF Session
  <2>7. q5 \in Session
    BY <2>6 DEF Session
  <2>8. c = q5
    BY <2>1, <2>2 DEF Session
  <2> QED BY <2>7, <2>8
<1>4. s.last_observed_time \in Nat
  BY DEF Session
<1> QED BY <1>1, <1>2, <1>3, <1>4
        DEF Inv, Clean, OneStream, Punctual, YoungAt, Streaming

\* The reassembler aged to the session's own time.
LEMMA AgedInv ==
    ASSUME NEW s, s \in Session, SoundWindow(s.reassembler),
           Distinct(s.reassembler), Clean(s), OneStream(s),
           \A i \in InFlight(s.reassembler) :
             s.reassembler.slots[i].last_arrival_time <= s.last_observed_time,
           s.last_liveness_time <= s.last_observed_time,
           Streaming(s) =>
             s.last_observed_time - s.last_liveness_time < SessionTimeout,
           NEW now \in Nat, now = s.last_observed_time
    PROVE  Inv([s EXCEPT !.reassembler = Advanced(@, now)])
<1> DEFINE r == s.reassembler
           a == Advanced(r, now)
           t == [s EXCEPT !.reassembler = a]
<1>1. /\ SoundWindow(a) /\ a.last_observed_time = now
      /\ InFlight(a) = InFlight(r) \ Expired(r, now)
      /\ \A i \in InFlight(a) : a.slots[i] = r.slots[i]
  BY AdvancedSound
<1> HIDE DEF a
<1>2. /\ t \in Session /\ t.reassembler = a /\ t.state = s.state
      /\ t.active_stream_id = s.active_stream_id
      /\ t.active_format = s.active_format
      /\ t.frame_queue = s.frame_queue /\ t.queue_head = s.queue_head
      /\ t.queue_size = s.queue_size
      /\ t.last_observed_time = s.last_observed_time
      /\ t.last_liveness_time = s.last_liveness_time
  BY <1>1 DEF Session, SoundWindow
<1>3. Distinct(a)
  BY <1>1 DEF Distinct
<1>4. YoungAt(a, now)
  <2>1. SUFFICES ASSUME NEW i \in InFlight(a)
                 PROVE  /\ r.slots[i].last_arrival_time <= now
                        /\ now - r.slots[i].last_arrival_time < ReassemblyTimeout
    BY <1>1 DEF YoungAt
  <2>2. i \in InFlight(r) /\ i \notin Expired(r, now)
    BY <1>1
  <2>3. ~ now - r.slots[i].last_arrival_time >= ReassemblyTimeout
    BY <2>2 DEF Expired, AgeExpired
  <2>4. r.slots[i].last_arrival_time \in Nat
    BY <2>2 DEF SoundWindow, Reassembler, InFlight, Slot
  <2> QED BY <2>2, <2>3, <2>4, ReassemblerAssumption
<1>5. Clean(t)
  BY <1>1, <1>2 DEF Clean, Streaming
<1>6. OneStream(t)
  BY <1>1, <1>2 DEF OneStream, QueueSlot
<1>7. Punctual(t)
  BY <1>1, <1>2, <1>4 DEF Punctual, Streaming
<1>8. Inv(t)
  BY <1>1, <1>2, <1>3, <1>5, <1>6, <1>7 DEF Inv
<1> QED BY <1>8 DEF a

\* observe_time preserves the invariant and sets the clock.
LEMMA ObservedInv ==
    ASSUME NEW s, Inv(s), NEW now \in Nat, now >= s.last_observed_time
    PROVE  /\ Inv(Observed(s, now))
           /\ Observed(s, now).last_observed_time = now
<1> DEFINE o == [s EXCEPT !.last_observed_time = now]
           t == [o EXCEPT !.reassembler = Advanced(@, now)]
<1>1. /\ s \in Session /\ SoundWindow(s.reassembler)
      /\ s.last_liveness_time \in Nat /\ s.last_observed_time \in Nat
  BY DEF Inv, Session
<1>2. /\ o \in Session /\ o.state = s.state /\ o.reassembler = s.reassembler
      /\ o.active_stream_id = s.active_stream_id
      /\ o.active_format = s.active_format
      /\ o.frame_queue = s.frame_queue /\ o.queue_head = s.queue_head
      /\ o.queue_size = s.queue_size /\ o.last_observed_time = now
      /\ o.last_liveness_time = s.last_liveness_time
  BY <1>1 DEF Session
<1>3. t = [s EXCEPT !.last_observed_time = now, !.reassembler = Advanced(@, now)]
  BY <1>1 DEF Session
<1>4. s.last_liveness_time <= now
  BY <1>1 DEF Inv, Punctual
<1>5. CASE TimesOut(s, now)
  <2>1. Observed(s, now) = Cleared(t)
    BY <1>3, <1>5 DEF Observed
  <2>2. t \in Session /\ t.last_observed_time = now
        /\ t.last_liveness_time = s.last_liveness_time
    BY <1>1, <1>2, AdvancedSound DEF Session, SoundWindow
  <2> QED BY <1>4, <2>1, <2>2, ClearedInv
<1>6. CASE ~ TimesOut(s, now)
  <2>1. Observed(s, now) = t
    BY <1>3, <1>6 DEF Observed
  <2>2. \A i \in InFlight(o.reassembler) :
          o.reassembler.slots[i].last_arrival_time <= now
    <3>1. SUFFICES ASSUME NEW i \in InFlight(s.reassembler)
                   PROVE  s.reassembler.slots[i].last_arrival_time <= now
      BY <1>2
    <3>2. s.reassembler.slots[i].last_arrival_time <= s.last_observed_time
      BY <3>1 DEF Inv, Punctual, YoungAt
    <3>3. s.reassembler.slots[i].last_arrival_time \in Nat
      BY <1>1, <3>1 DEF SoundWindow, Reassembler, InFlight, Slot
    <3> QED BY <1>1, <3>2, <3>3
  <2>3. Clean(o)
    BY <1>2 DEF Clean, Inv, Streaming
  <2>4. OneStream(o)
    BY <1>2 DEF OneStream, Inv, QueueSlot
  <2>5. Streaming(o) => now - o.last_liveness_time < SessionTimeout
    BY <1>1, <1>2, <1>6, SessionAssumption DEF TimesOut, Streaming
  <2>6. SoundWindow(o.reassembler) /\ Distinct(o.reassembler)
    BY <1>2 DEF Inv
  <2>7. Inv(t)
    BY <1>2, <1>4, <2>2, <2>3, <2>4, <2>5, <2>6, AgedInv
  <2>8. t.last_observed_time = now
    BY <1>2 DEF Session
  <2> QED BY <2>1, <2>7, <2>8
<1> QED BY <1>5, <1>6

\* The session as the reassembler finds it.
LEMMA AtFragmentInv ==
    ASSUME NEW s, Inv(s), NEW now \in Nat, s.last_observed_time = now
    PROVE  /\ Inv([s EXCEPT !.reassembler = Advanced(@, now)])
           /\ [s EXCEPT !.reassembler = Advanced(@, now)].last_observed_time = now
           /\ [s EXCEPT !.reassembler = Advanced(@, now)].state = s.state
           /\ [s EXCEPT !.reassembler = Advanced(@, now)].active_stream_id
                = s.active_stream_id
<1>1. s \in Session
  BY DEF Inv
<1>2. Inv([s EXCEPT !.reassembler = Advanced(@, now)])
  BY AgedInv DEF Inv, Punctual, YoungAt
<1> QED BY <1>1, <1>2 DEF Session

\* A live session refreshes its liveness, and may note the sender's time.
LEMMA RefreshedInv ==
    ASSUME NEW s, Inv(s), NEW now \in Nat, s.last_observed_time = now,
           NEW time \in Nat
    PROVE  /\ Inv([s EXCEPT !.last_liveness_time = now])
           /\ Inv([s EXCEPT !.last_liveness_time = now, !.last_sender_time = time])
<1>1. ASSUME NEW t, t \in Session, t.state = s.state,
             t.reassembler = s.reassembler,
             t.active_stream_id = s.active_stream_id,
             t.active_format = s.active_format,
             t.frame_queue = s.frame_queue, t.queue_head = s.queue_head,
             t.queue_size = s.queue_size, t.last_observed_time = now,
             t.last_liveness_time = now
      PROVE  Inv(t)
  <2>1. Clean(t) /\ OneStream(t)
    BY <1>1 DEF Inv, Clean, OneStream, Streaming, QueueSlot
  <2>2. Punctual(t)
    BY <1>1, SessionAssumption DEF Inv, Punctual, Streaming
  <2> QED BY <1>1, <2>1, <2>2 DEF Inv
<1>2. s \in Session
  BY DEF Inv
<1> DEFINE a == [s EXCEPT !.last_liveness_time = now]
           b == [s EXCEPT !.last_liveness_time = now, !.last_sender_time = time]
<1>3. Inv(a)
  <2>1. a \in Session
    BY <1>2 DEF Session
  <2> QED BY <1>1, <1>2, <2>1 DEF Session
<1>4. Inv(b)
  <2>1. b \in Session
    BY <1>2 DEF Session
  <2> QED BY <1>1, <1>2, <2>1 DEF Session
<1> QED BY <1>3, <1>4

\* A valid stream_start.
LEMMA StreamStartedInv ==
    ASSUME NEW s, Inv(s), NEW d, d \in Datagram, NEW now \in Nat,
           s.last_observed_time = now
    PROVE  Inv(StreamStarted(s, d, now))
<1> DEFINE c == Cleared(s)
           t == StreamStarted(s, d, now)
<1>1. /\ Inv(c) /\ ~ Streaming(c) /\ c.last_observed_time = now
      /\ c \in Session
  BY ClearedInv DEF Inv, Punctual
<1> HIDE DEF c
<1>2. t = [c EXCEPT !.state = "streaming", !.active_stream_id = d.stream_id,
                    !.active_format = d.content, !.last_liveness_time = now]
  BY DEF StreamStarted, c
<1>3. /\ t \in Session /\ t.state = "streaming"
      /\ t.reassembler = c.reassembler /\ t.queue_size = c.queue_size
      /\ t.last_liveness_time = now /\ t.last_observed_time = now
  BY <1>1, <1>2 DEF Session, Datagram
<1>4. InFlight(c.reassembler) = {} /\ c.queue_size = 0
  BY <1>1 DEF Inv, Clean
<1>5. Clean(t) /\ OneStream(t)
  BY <1>3, <1>4 DEF Clean, OneStream, Streaming
<1>6. Punctual(t)
  BY <1>1, <1>3, <1>4, SessionAssumption DEF Punctual, YoungAt, Inv
<1> HIDE DEF t
<1> QED BY <1>1, <1>3, <1>5, <1>6 DEF Inv, t

\* A fragment that is kept.
LEMMA WithFragmentInv ==
    ASSUME NEW s, Inv(s), NEW d, Audio(d), NEW now \in Nat,
           s.last_observed_time = now, s.active_stream_id = d.stream_id,
           Streaming(s), Refusal(s.reassembler, d) = "none"
    PROVE  /\ Inv(WithFragment(s, d, now)) /\ Streaming(WithFragment(s, d, now))
           /\ WithFragment(s, d, now).active_stream_id = d.stream_id
<1> DEFINE r == s.reassembler
           a == Accepted(r, d, now)
           t == WithFragment(s, d, now)
<1>1. s \in Session /\ SoundWindow(r) /\ Distinct(r)
  BY DEF Inv
<1>2. /\ SoundWindow(a) /\ Distinct(a)
      /\ a.last_observed_time = r.last_observed_time
      /\ \A i \in InFlight(a) :
           \/ i \in InFlight(r) /\ a.slots[i] = r.slots[i]
           \/ /\ a.slots[i].stream_id = d.stream_id
              /\ a.slots[i].last_arrival_time = now
  BY <1>1, AcceptedSound
<1> HIDE DEF a
<1>3. t = [s EXCEPT !.reassembler = a, !.last_liveness_time = now]
  BY DEF WithFragment, a
<1>4. /\ t \in Session /\ t.state = s.state /\ t.reassembler = a
      /\ t.active_stream_id = d.stream_id
      /\ t.frame_queue = s.frame_queue /\ t.queue_head = s.queue_head
      /\ t.queue_size = s.queue_size /\ t.last_observed_time = now
      /\ t.last_liveness_time = now
  BY <1>1, <1>2, <1>3 DEF Session, SoundWindow
<1> HIDE DEF t
<1>5. Streaming(t)
  BY <1>4 DEF Streaming
<1>6. OneStream(t)
  BY <1>2, <1>4 DEF OneStream, Inv, QueueSlot
<1>7. YoungAt(a, now)
  BY <1>2, ReassemblerAssumption DEF YoungAt, Inv, Punctual
<1>8. Punctual(t)
  BY <1>2, <1>4, <1>7, SessionAssumption DEF Punctual, Inv
<1> QED BY <1>2, <1>4, <1>5, <1>6, <1>8 DEF Inv, Clean, t

\* Dropping the oldest frame.
LEMMA OldestGoneInv ==
    ASSUME NEW s, Inv(s), s.queue_size # 0
    PROVE  /\ Inv(OldestGone(s))
           /\ OldestGone(s).queue_size = s.queue_size - 1
           /\ OldestGone(s).state = s.state
           /\ OldestGone(s).active_stream_id = s.active_stream_id
<1> DEFINE t == OldestGone(s)
           C == QueueCapacity
<1>1. /\ s \in Session /\ C \in Nat \ {0}
      /\ s.queue_size \in 1 .. C /\ s.queue_head \in Nat
  BY SessionAssumption DEF Inv, Session, QueueSlots
<1>2. QueueSlot(s, 1) \in QueueSlots
  BY <1>1, QueueSlotInRing
<1>3. /\ t.queue_head = QueueSlot(s, 1) /\ t.queue_size = s.queue_size - 1
      /\ t.state = s.state /\ t.reassembler = s.reassembler
      /\ t.active_stream_id = s.active_stream_id
      /\ t.active_format = s.active_format /\ t.frame_queue = s.frame_queue
      /\ t.last_observed_time = s.last_observed_time
      /\ t.last_liveness_time = s.last_liveness_time
  BY <1>1 DEF OldestGone, Session
<1>4. t \in Session
  <2>1. s.queue_size - 1 \in 0 .. C
    BY <1>1
  <2> QED BY <1>1, <1>2, <2>1 DEF OldestGone, Session
<1> HIDE DEF t
<1>5. ASSUME NEW i \in 0 .. t.queue_size - 1
      PROVE  t.frame_queue[QueueSlot(t, i)].stream_id = t.active_stream_id
  <2>1. i \in Nat /\ i + 1 \in 0 .. s.queue_size - 1
    BY <1>1, <1>3, <1>5
  <2>2. QueueSlot(t, i) = (((s.queue_head + 1) % C) + i) % C
    BY <1>3 DEF QueueSlot
  <2>3. (((s.queue_head + 1) % C) + i) % C = ((s.queue_head + 1) + i) % C
    <3>1. s.queue_head + 1 \in Nat
      BY <1>1
    <3> HIDE DEF C
    <3> QED BY <1>1, <2>1, <3>1, RingShift
  <2>4. (s.queue_head + 1) + i = s.queue_head + (i + 1)
    BY <1>1, <2>1
  <2>5. QueueSlot(t, i) = QueueSlot(s, i + 1)
    BY <2>2, <2>3, <2>4 DEF QueueSlot
  <2> QED BY <1>3, <2>1, <2>5 DEF Inv, OneStream
<1>6. Clean(t) /\ OneStream(t) /\ Punctual(t)
  <2>1. Clean(t)
    BY <1>1, <1>3 DEF Inv, Clean, Streaming
  <2>2. OneStream(t)
    BY <1>3, <1>5 DEF Inv, OneStream
  <2>3. Punctual(t)
    BY <1>3 DEF Inv, Punctual, Streaming
  <2> QED BY <2>1, <2>2, <2>3
<1> QED BY <1>3, <1>4, <1>6 DEF Inv, t

\* A discontinuity clears the queue of a live session.
LEMMA QueueClearedInv ==
    ASSUME NEW s, Inv(s)
    PROVE  /\ Inv(QueueCleared(s)) /\ QueueCleared(s).queue_size = 0
           /\ QueueCleared(s).state = s.state
           /\ QueueCleared(s).active_stream_id = s.active_stream_id
<1> DEFINE t == QueueCleared(s)
<1>1. s \in Session
  BY DEF Inv
<1>2. t \in Session
  <2>1. 0 \in QueueSlots /\ 0 \in 0 .. QueueCapacity
    BY SessionAssumption DEF QueueSlots
  <2> QED BY <1>1, <2>1 DEF QueueCleared, Session
<1>3. /\ t.queue_size = 0 /\ t.state = s.state /\ t.reassembler = s.reassembler
      /\ t.active_stream_id = s.active_stream_id
      /\ t.active_format = s.active_format
      /\ t.last_observed_time = s.last_observed_time
      /\ t.last_liveness_time = s.last_liveness_time
  BY <1>1 DEF QueueCleared, Session
<1> HIDE DEF t
<1> QED BY <1>2, <1>3 DEF Inv, Clean, OneStream, Punctual, Streaming, t

\* A frame of the active stream joins a queue that is not full.
LEMMA AtTailInv ==
    ASSUME NEW s, Inv(s), Streaming(s), s.queue_size < QueueCapacity,
           NEW frame \in Frame, frame.stream_id = s.active_stream_id
    PROVE  Inv(AtTail(s, frame))
<1> DEFINE t == AtTail(s, frame)
           C == QueueCapacity
           tail == QueueSlot(s, s.queue_size)
<1>1. /\ s \in Session /\ C \in Nat \ {0}
      /\ s.queue_size \in 0 .. C - 1 /\ s.queue_head \in Nat
      /\ s.frame_queue \in [QueueSlots -> Frame]
  BY SessionAssumption DEF Inv, Session, QueueSlots
<1>2. tail \in QueueSlots
  BY <1>1, QueueSlotInRing
<1>3. /\ t.frame_queue = [s.frame_queue EXCEPT ![tail] = frame]
      /\ t.queue_head = s.queue_head /\ t.queue_size = s.queue_size + 1
      /\ t.state = s.state /\ t.reassembler = s.reassembler
      /\ t.active_stream_id = s.active_stream_id
      /\ t.active_format = s.active_format
      /\ t.last_observed_time = s.last_observed_time
      /\ t.last_liveness_time = s.last_liveness_time
  BY <1>1 DEF AtTail, Session
<1>4. t \in Session
  <2>1. /\ s.queue_size + 1 \in 0 .. C
        /\ [s.frame_queue EXCEPT ![tail] = frame] \in [QueueSlots -> Frame]
    BY <1>1, <1>2
  <2> QED BY <1>1, <2>1 DEF AtTail, Session
<1> HIDE DEF t
<1>5. ASSUME NEW i \in 0 .. t.queue_size - 1
      PROVE  t.frame_queue[QueueSlot(t, i)].stream_id = t.active_stream_id
  <2>1. i \in Nat /\ i <= s.queue_size
    BY <1>1, <1>3, <1>5
  <2>2. QueueSlot(t, i) = QueueSlot(s, i) /\ QueueSlot(s, i) \in QueueSlots
    BY <1>1, <1>3, <2>1, QueueSlotInRing DEF QueueSlot
  <2>3. CASE QueueSlot(s, i) = tail
    BY <1>1, <1>2, <1>3, <2>2, <2>3
  <2>4. CASE QueueSlot(s, i) # tail
    <3>1. i # s.queue_size
      BY <2>4
    <3>2. i \in 0 .. s.queue_size - 1
      BY <1>1, <2>1, <3>1
    <3> QED BY <1>1, <1>3, <2>2, <2>4, <3>2 DEF Inv, OneStream
  <2> QED BY <2>3, <2>4
<1>6. OneStream(t)
  BY <1>3, <1>5 DEF Inv, OneStream
<1>7. Clean(t) /\ Punctual(t)
  BY <1>3 DEF Inv, Clean, Punctual, Streaming
<1> QED BY <1>3, <1>4, <1>6, <1>7 DEF Inv, t

\* A completed frame is queued.
LEMMA WithFrameInv ==
    ASSUME NEW s, Inv(s), Streaming(s), NEW frame \in Frame,
           frame.stream_id = s.active_stream_id
    PROVE  Inv(WithFrame(s, frame))
<1>1. s.queue_size \in 0 .. QueueCapacity /\ QueueCapacity \in Nat \ {0}
  BY SessionAssumption DEF Inv, Session
<1> DEFINE q == IF StartsAnew(frame) THEN QueueCleared(s) ELSE s
           o == IF QueueFull(q) THEN OldestGone(q) ELSE q
<1>2. /\ Inv(q) /\ Streaming(q) /\ q.active_stream_id = s.active_stream_id
      /\ q.queue_size \in 0 .. QueueCapacity
  BY <1>1, QueueClearedInv DEF Streaming
<1> HIDE DEF q
<1>3. /\ Inv(o) /\ Streaming(o) /\ o.active_stream_id = s.active_stream_id
      /\ o.queue_size < QueueCapacity
  BY <1>1, <1>2, OldestGoneInv DEF Streaming, QueueFull
<1> HIDE DEF o
<1>4. Inv(AtTail(o, frame))
  BY <1>3, AtTailInv
<1> QED BY <1>4 DEF WithFrame, Enqueued, o, q

---------------------------------------------------------------------------
(* The counters and the ledger stay within their width.                    *)

\* Sums of counters are counters.
LEMMA SumInCounter ==
    ASSUME NEW a \in Nat, NEW b \in Nat
    PROVE  (a + b) % CounterModulus \in Counter
<1>1. a + b \in Nat /\ CounterModulus \in Nat \ {0}
  BY SessionAssumption
<1>2. \A x \in Nat : x % CounterModulus \in 0 .. CounterModulus - 1
  BY <1>1
<1> QED BY <1>1, <1>2 DEF Counter

\* Counting an event keeps the counters typed.
LEMMA CountTyped ==
    ASSUME NEW c, CountersTyped(c), NEW names
    PROVE  CountersTyped(Count(c, names))
<1>1. ASSUME NEW name \in CounterNames
      PROVE  c[name] \in Counter /\ (c[name] + 1) % CounterModulus \in Counter
  <2>1. c[name] \in Counter
    BY DEF CountersTyped
  <2>2. c[name] \in Nat
    BY <2>1, SessionAssumption DEF Counter
  <2> QED BY <2>1, <2>2, SumInCounter
<1> QED BY <1>1 DEF Count, CountersTyped

\* So does counting the expired frames.
LEMMA CountExpiredTyped ==
    ASSUME NEW c, CountersTyped(c), NEW r, NEW now
    PROVE  CountersTyped(CountExpired(c, r, now))
<1>1. Cardinality(Expired(r, now)) \in Nat
  BY FiniteIndices
<1>2. "expired_frames" \in CounterNames
  BY DEF CounterNames
<1>3. c["expired_frames"] \in Nat
  BY <1>2, SessionAssumption DEF CountersTyped, Counter
<1>4. (c["expired_frames"] + Cardinality(Expired(r, now))) % CounterModulus
        \in Counter
  BY <1>1, <1>3, SumInCounter
<1> QED BY <1>2, <1>4 DEF CountExpired, Add, CountersTyped

\* So does counting a datagram and its outcome.
LEMMA TallyTyped ==
    ASSUME CountersTyped(counters), NEW now
    PROVE  /\ CountersTyped(ObservedCounters(now))
           /\ \A names : CountersTyped(Tally(now, names))
           /\ \A names : CountersTyped(FragmentCounters(now, names))
<1>1. CountersTyped(ObservedCounters(now))
  BY CountExpiredTyped, CountTyped DEF ObservedCounters
<1>2. \A names : CountersTyped(Tally(now, names))
  BY <1>1, CountTyped DEF Tally
<1> QED BY <1>1, <1>2, CountExpiredTyped DEF FragmentCounters

\* A note in the history keeps it typed.
LEMMA NoteTyped ==
    ASSUME NEW h, HistoryTyped(h), NEW n \in Nat,
           NEW entry \in {"popped", "cleared", "opened", "abandoned"}
    PROVE  HistoryTyped(Note(h, entry, n))
<1>1. h[entry] \in Nat
  BY SessionAssumption DEF HistoryTyped, Counter
<1>2. (h[entry] + n) % CounterModulus \in Counter
  BY <1>1, SumInCounter
<1> QED BY <1>2 DEF Note, HistoryTyped

\* So does the note of what is given up with a stream.
LEMMA ForgottenTyped ==
    ASSUME NEW h, HistoryTyped(h), NEW s, s.queue_size \in Nat
    PROVE  HistoryTyped(Forgotten(h, s))
<1>1. Cardinality(InFlight(s.reassembler)) \in Nat
  BY FiniteIndices
<1>2. HistoryTyped(Note(h, "cleared", s.queue_size))
  BY NoteTyped
<1> QED BY <1>1, <1>2, NoteTyped DEF Forgotten

\* Every step keeps the history typed.
LEMMA HistoryStep ==
    ASSUME IInv, NEW d, NEW now
    PROVE  /\ HistoryTyped(ObservedHistory(now))
           /\ HistoryTyped(OpenedHistory(d, now))
           /\ ObservedArrivals(now) \subseteq Datagrams
<1>1. HistoryTyped(history) /\ session \in Session
  BY DEF IInv, Inv
<1>2. HistoryTyped(ObservedHistory(now))
  <2> DEFINE t == [session EXCEPT !.reassembler = Advanced(@, now)]
  <2>1. t.queue_size \in Nat
    BY <1>1, SessionAssumption DEF Session
  <2>2. HistoryTyped(Forgotten(history, t))
    BY <1>1, <2>1, ForgottenTyped
  <2> QED BY <1>1, <2>2 DEF ObservedHistory
<1>3. HistoryTyped(OpenedHistory(d, now))
  BY <1>2, NoteTyped DEF OpenedHistory
<1>4. ObservedArrivals(now) \subseteq Datagrams
  BY DEF ObservedArrivals, IInv
<1> QED BY <1>2, <1>3, <1>4

---------------------------------------------------------------------------
(* The calls.                                                              *)

\* A new session satisfies the invariant.
LEMMA InitIInv == Init => IInv
<1> SUFFICES ASSUME Init PROVE IInv
  OBVIOUS
<1>1. 0 \in Counter
  BY SessionAssumption DEF Counter
<1>2. CountersTyped(counters) /\ HistoryTyped(history)
  BY <1>1 DEF Init, ZeroCounters, NoHistory, CountersTyped, HistoryTyped
<1> QED BY <1>2, NewSessionInv DEF Init, IInv

\* The session observed at a time that does not run backwards.
LEMMA ObservedSession ==
    ASSUME IInv, NEW now \in Nat, TimeAdvances(now)
    PROVE  /\ Inv(Observed(session, now))
           /\ Observed(session, now).last_observed_time = now
           /\ Observed(session, now) \in Session
BY ObservedInv DEF IInv, TimeAdvances, Inv

\* Calls that do nothing but count.
LEMMA OnlyCountsStep ==
    ASSUME IInv, NEW now \in Nat, TimeAdvances(now), NEW names,
           OnlyCounts(now, names)
    PROVE  IInv'
<1>1. Inv(session')
  BY ObservedSession DEF OnlyCounts
<1>2. CountersTyped(counters')
  BY TallyTyped DEF OnlyCounts, IInv
<1>3. HistoryTyped(history') /\ arrived' \subseteq Datagrams
  BY HistoryStep DEF OnlyCounts
<1> QED BY <1>1, <1>2, <1>3 DEF IInv

\* Calls that start or stop the stream.
LEMMA StreamStep ==
    ASSUME IInv, NEW d \in Datagrams, NEW now \in Nat,
           AcceptStreamStart(d, now) \/ AcceptStreamStop(d, now)
    PROVE  IInv'
<1> DEFINE s == Observed(session, now)
<1>1. TimeAdvances(now) /\ d \in Datagram
  BY SessionAssumption DEF AcceptStreamStart, AcceptStreamStop, Arrives
<1>2. Inv(s) /\ s.last_observed_time = now /\ s \in Session
  BY <1>1, ObservedSession
<1>3. Inv(session')
  <2>1. CASE AcceptStreamStart(d, now)
    BY <1>1, <1>2, <2>1, StreamStartedInv DEF AcceptStreamStart
  <2>2. CASE AcceptStreamStop(d, now)
    BY <1>2, <2>2, ClearedInv DEF AcceptStreamStop, Inv, Punctual
  <2> QED BY <2>1, <2>2
<1>4. CountersTyped(counters')
  BY TallyTyped DEF AcceptStreamStart, AcceptStreamStop, IInv
<1>5. HistoryTyped(history')
  <2>1. s.queue_size \in Nat
    BY <1>2, SessionAssumption DEF Session
  <2>2. HistoryTyped(ObservedHistory(now))
    BY HistoryStep
  <2> QED BY <2>1, <2>2, ForgottenTyped
          DEF AcceptStreamStart, AcceptStreamStop
<1>6. arrived' = {}
  BY DEF AcceptStreamStart, AcceptStreamStop
<1> QED BY <1>3, <1>4, <1>5, <1>6 DEF IInv

\* A heartbeat or an error of the active stream.
LEMMA SignalStep ==
    ASSUME IInv, NEW d \in Datagrams, NEW now \in Nat,
           AcceptHeartbeat(d, now) \/ AcceptRemoteError(d, now)
    PROVE  IInv'
<1>1. TimeAdvances(now) /\ d.content \in Nat
  BY SessionAssumption DEF AcceptHeartbeat, AcceptRemoteError, Arrives, Datagram
<1>2. Inv(session')
  <2> DEFINE s == Observed(session, now)
  <2>1. Inv(s) /\ s.last_observed_time = now
    BY <1>1, ObservedSession
  <2>2. \/ session' = [s EXCEPT !.last_liveness_time = now,
                               !.last_sender_time = d.content]
        \/ session' = [s EXCEPT !.last_liveness_time = now]
    BY DEF AcceptHeartbeat, AcceptRemoteError
  <2> HIDE DEF s
  <2> DEFINE time == d.content
  <2>3. time \in Nat
    BY <1>1
  <2> HIDE DEF time
  <2>4. /\ Inv([s EXCEPT !.last_liveness_time = now])
        /\ Inv([s EXCEPT !.last_liveness_time = now, !.last_sender_time = time])
    BY <2>1, <2>3, RefreshedInv
  <2> QED BY <2>2, <2>4 DEF time
<1>3. CountersTyped(counters')
  BY TallyTyped DEF AcceptHeartbeat, AcceptRemoteError, IInv
<1>4. HistoryTyped(history') /\ arrived' \subseteq Datagrams
  BY HistoryStep DEF AcceptHeartbeat, AcceptRemoteError
<1> QED BY <1>2, <1>3, <1>4 DEF IInv

\* The session an audio datagram of the active stream meets.
LEMMA AudioMeets ==
    ASSUME IInv, NEW d \in Datagrams, NEW now \in Nat, AudioArrives(d, now)
    PROVE  /\ Inv(AtFragment(now)) /\ Streaming(AtFragment(now))
           /\ AtFragment(now).last_observed_time = now
           /\ AtFragment(now).active_stream_id = d.stream_id
           /\ Audio(d)
<1>1. /\ TimeAdvances(now) /\ ForActiveStream(Observed(session, now), d)
      /\ d.type = "audio"
  BY DEF AudioArrives, Arrives
<1>2. /\ Inv(Observed(session, now))
      /\ Observed(session, now).last_observed_time = now
  BY <1>1, ObservedSession
<1>3. Audio(d)
  BY <1>1, SessionAssumption DEF ForActiveStream, Parsed, Audio
<1> QED BY <1>1, <1>2, <1>3, AtFragmentInv
        DEF AtFragment, ForActiveStream, Streaming

\* A fragment that is refused, kept, or completes a frame.
LEMMA AudioStep ==
    ASSUME IInv, NEW d \in Datagrams, NEW now \in Nat,
           \/ RefuseFragment(d, now)
           \/ StoreFragment(d, now)
           \/ CompleteFrame(d, now)
    PROVE  IInv'
<1> DEFINE s == AtFragment(now)
           w == WithFragment(s, d, now)
           frame == CompletedFrame(s.reassembler, d, now)
<1>1. /\ Inv(s) /\ Streaming(s) /\ s.last_observed_time = now
      /\ s.active_stream_id = d.stream_id /\ Audio(d)
  BY AudioMeets DEF RefuseFragment, StoreFragment, CompleteFrame
<1> HIDE DEF s
<1>2. Inv(session')
  <2>1. CASE RefuseFragment(d, now)
    BY <1>1, <2>1 DEF RefuseFragment, Refused, s
  <2>2. ASSUME Refusal(s.reassembler, d) = "none"
        PROVE  /\ Inv(w) /\ Streaming(w) /\ w.active_stream_id = d.stream_id
    BY <1>1, <2>2, WithFragmentInv
  <2>3. CASE StoreFragment(d, now)
    BY <2>2, <2>3 DEF StoreFragment, s
  <2>4. CASE CompleteFrame(d, now)
    <3>1. Refusal(s.reassembler, d) = "none"
      BY <2>4 DEF CompleteFrame, s
    <3>2. frame \in Frame /\ frame.stream_id = d.stream_id
      BY <1>1, <3>1, CompletedFrameTyped DEF Frame, Inv
    <3>3. session' = WithFrame(w, frame)
      BY <2>4 DEF CompleteFrame, s
    <3> HIDE DEF w, frame
    <3> QED BY <2>2, <3>1, <3>2, <3>3, WithFrameInv
  <2> QED BY <2>1, <2>3, <2>4
<1>3. CountersTyped(counters')
  BY TallyTyped DEF RefuseFragment, StoreFragment, CompleteFrame, IInv
<1>4. arrived' \subseteq Datagrams
  BY HistoryStep DEF RefuseFragment, StoreFragment, CompleteFrame
<1>5. HistoryTyped(history')
  <2>1. (IF StartsAnew(frame) THEN s.queue_size ELSE 0) \in Nat
    BY <1>1, SessionAssumption DEF Inv, Session
  <2> DEFINE n == IF StartsAnew(frame) THEN s.queue_size ELSE 0
  <2>2. HistoryTyped(Note(OpenedHistory(d, now), "cleared", n))
    BY <2>1, HistoryStep, NoteTyped
  <2> QED BY <2>2, HistoryStep DEF RefuseFragment, StoreFragment, CompleteFrame, s
<1> QED BY <1>2, <1>3, <1>4, <1>5 DEF IInv

\* Calls without a datagram.
LEMMA OtherStep ==
    ASSUME IInv, (\E now \in Nat : AdvanceTime(now)) \/ PopFrame \/ Reset
    PROVE  IInv'
<1>1. ASSUME NEW now \in Nat, AdvanceTime(now) PROVE IInv'
  <2>1. Inv(session')
    BY <1>1, ObservedSession DEF AdvanceTime
  <2>2. CountersTyped(counters')
    BY <1>1, TallyTyped DEF AdvanceTime, IInv
  <2>3. HistoryTyped(history') /\ arrived' \subseteq Datagrams
    BY <1>1, HistoryStep DEF AdvanceTime
  <2> QED BY <2>1, <2>2, <2>3 DEF IInv
<1>2. CASE PopFrame
  <2>1. Inv(session')
    BY <1>2, OldestGoneInv DEF PopFrame, IInv
  <2>2. HistoryTyped(history')
    BY <1>2, NoteTyped DEF PopFrame, IInv
  <2> QED BY <1>2, <2>1, <2>2 DEF PopFrame, IInv
<1>3. CASE Reset
  <2> DEFINE c == Cleared(session)
  <2>1. Inv(c) /\ ~ Streaming(c) /\ c \in Session
    BY ClearedInv DEF IInv, Inv, Punctual
  <2> HIDE DEF c
  <2>2. session' = [c EXCEPT !.last_observed_time = 0, !.last_liveness_time = 0]
    BY <1>3 DEF Reset, c
  <2>3. /\ session' \in Session /\ session'.state = c.state
        /\ session'.reassembler = c.reassembler
        /\ session'.active_stream_id = c.active_stream_id
        /\ session'.active_format = c.active_format
        /\ session'.queue_size = c.queue_size
        /\ session'.last_observed_time = 0 /\ session'.last_liveness_time = 0
    BY <2>1, <2>2 DEF Session
  <2>4. c.reassembler.last_observed_time = 0 /\ InFlight(c.reassembler) = {}
    <3>1. c.reassembler = ResetReassembler
      BY DEF c, Cleared, QueueCleared, IInv, Inv, Session
    <3> QED BY <3>1, ResetSound DEF ResetReassembler
  <2>5. Inv(session')
    BY <2>1, <2>3, <2>4
       DEF Inv, Clean, OneStream, Punctual, YoungAt, Streaming
  <2>6. CountersTyped(counters') /\ HistoryTyped(history')
    <3>1. 0 \in Counter
      BY SessionAssumption DEF Counter
    <3> QED BY <1>3, <3>1
            DEF Reset, ZeroCounters, NoHistory, CountersTyped, HistoryTyped
  <2>7. arrived' = {}
    BY <1>3 DEF Reset
  <2> QED BY <2>5, <2>6, <2>7 DEF IInv
<1> QED BY <1>1, <1>2, <1>3

\* Every call, and a stuttering step, keeps the invariant.
LEMMA NextIInv == IInv /\ [Next]_vars => IInv'
<1> SUFFICES ASSUME IInv, [Next]_vars PROVE IInv'
  OBVIOUS
<1>1. \A now \in 0 .. MaxTime : now \in Nat
  BY SessionAssumption
<1>2. ASSUME NEW d \in Datagrams, NEW now \in 0 .. MaxTime, Accept(d, now)
      PROVE  IInv'
  <2>1. CASE \/ MalformedDatagram(d, now) \/ InvalidControlPayload(d, now)
             \/ RejectBeforeStart(d, now) \/ RejectWrongStream(d, now)
             \/ RejectReport(d, now)
    <3>1. TimeAdvances(now) /\ \E names : OnlyCounts(now, names)
      BY <2>1 DEF MalformedDatagram, InvalidControlPayload, RejectBeforeStart,
                  RejectWrongStream, RejectReport, Arrives
    <3> QED BY <1>1, <3>1, OnlyCountsStep
  <2>2. CASE AcceptStreamStart(d, now) \/ AcceptStreamStop(d, now)
    BY <1>1, <2>2, StreamStep
  <2>3. CASE AcceptHeartbeat(d, now) \/ AcceptRemoteError(d, now)
    BY <1>1, <2>3, SignalStep
  <2>4. CASE \/ RefuseFragment(d, now) \/ StoreFragment(d, now)
             \/ CompleteFrame(d, now)
    BY <1>1, <2>4, AudioStep
  <2> QED BY <1>2, <2>1, <2>2, <2>3, <2>4 DEF Accept
<1>3. CASE (\E now \in 0 .. MaxTime : AdvanceTime(now)) \/ PopFrame \/ Reset
  BY <1>1, <1>3, OtherStep
<1>4. CASE UNCHANGED vars
  BY <1>4 DEF vars, IInv
<1> QED BY <1>2, <1>3, <1>4 DEF Next

---------------------------------------------------------------------------

\* The invariant holds throughout.
THEOREM Invariance == Spec => []IInv
<1>1. Init => IInv
  BY InitIInv
<1>2. IInv /\ [Next]_vars => IInv'
  BY NextIInv
<1> QED BY <1>1, <1>2, PTL DEF Spec

\* Every variable keeps its type: indices stay in the ring, the queue does
\* not outgrow it, and a completed frame fits its storage.
THEOREM TypeCorrect == Spec => []TypeOK
<1>1. IInv => TypeOK
  BY DEF IInv, Inv, TypeOK, CountersTyped, HistoryTyped
<1> QED BY <1>1, Invariance, PTL

\* An idle session keeps nothing of a stream.
THEOREM NothingOutlivesItsStream == Spec => []IdleIsClean
<1>1. IInv => IdleIsClean
  BY DEF IInv, Inv, Clean, IdleIsClean
<1> QED BY <1>1, Invariance, PTL

\* No session and no incomplete frame overstays its timeout, and no
\* difference of times in the code wraps.
THEOREM TimeoutsHold == Spec => []NothingOverstays
<1>1. IInv => NothingOverstays
  BY DEF IInv, Inv, Punctual, YoungAt, NothingOverstays, ActiveSlots
<1> QED BY <1>1, Invariance, PTL

\* Every slot in use collects a frame of the active stream that is not
\* complete, and no two collect the same.
THEOREM SlotsAreSound == Spec => []SlotsAreIncompleteFrames
<1>1. IInv => SlotsAreIncompleteFrames
  <2> SUFFICES ASSUME IInv PROVE SlotsAreIncompleteFrames
    OBVIOUS
  <2> DEFINE r == session.reassembler
  <2>1. ASSUME NEW i \in InFlight(r)
        PROVE  LET slot == r.slots[i]
               IN  /\ slot.stream_id = session.active_stream_id
                   /\ slot.received_count
                        = Cardinality({f \in FragmentIds : slot.received[f]})
                   /\ 0 < slot.received_count
                   /\ slot.received_count < slot.fragment_count
                   /\ slot.fragment_count <= MaximumFragmentCount
                   /\ \A f \in FragmentIds :
                        slot.received[f] => f < slot.fragment_count
    <3>1. Sound(r.slots[i]) /\ r.slots[i].active
      BY DEF IInv, Inv, SoundWindow, InFlight
    <3>2. r.slots[i].stream_id = session.active_stream_id
      BY DEF IInv, Inv, OneStream
    <3> QED BY <3>1, <3>2 DEF Sound, Consistent, Marks
  <2>2. \A i, j \in InFlight(r) :
          r.slots[i].frame_id = r.slots[j].frame_id => i = j
    BY DEF IInv, Inv, Distinct, OneStream
  <2> QED BY <2>1, <2>2 DEF SlotsAreIncompleteFrames, ActiveSlots
<1> QED BY <1>1, Invariance, PTL

\* Every queued frame is of the active stream.
THEOREM QueueIsOfOneStream ==
    Spec => [](\A i \in 1 .. session.queue_size :
                 Queued(session)[i].stream_id = session.active_stream_id)
<1>1. IInv => \A i \in 1 .. session.queue_size :
                Queued(session)[i].stream_id = session.active_stream_id
  <2> SUFFICES ASSUME IInv, NEW i \in 1 .. session.queue_size
               PROVE  Queued(session)[i].stream_id = session.active_stream_id
    OBVIOUS
  <2>1. session.queue_size \in Nat
    BY SessionAssumption DEF IInv, Inv, Session
  <2>2. i - 1 \in 0 .. session.queue_size - 1
    BY <2>1
  <2> QED BY <2>1, <2>2 DEF Queued, IInv, Inv, OneStream
<1> QED BY <1>1, Invariance, PTL
---------------------------------------------------------------------------
(* The ledgers.                                                            *)

\* Every completed frame is taken, dropped, cleared or queued.
QueueBalance(s, c, h) ==
    c["completed_frames"] =
      (h["popped"] + c["dropped_frames"] + h["cleared"] + s.queue_size)
        % CounterModulus

\* Every frame begun is completed, expired, given up or in flight.
WindowBalance(s, c, h) ==
    h["opened"] =
      (c["completed_frames"] + c["expired_frames"] + h["abandoned"]
         + Cardinality(InFlight(s.reassembler))) % CounterModulus

Balanced(s, c, h) ==
    /\ CountersTyped(c) /\ HistoryTyped(h)
    /\ QueueBalance(s, c, h) /\ WindowBalance(s, c, h)

\* A number is a multiple of the modulus and a remainder.
LEMMA Division ==
    ASSUME NEW x \in Nat
    PROVE  /\ x % CounterModulus \in Counter
           /\ \E k \in Int : x = CounterModulus * k + (x % CounterModulus)
<1> DEFINE M == CounterModulus
<1>1. M \in Nat \ {0}
  BY SessionAssumption
<1>2. /\ x % M \in 0 .. M - 1 /\ x \div M \in Int
      /\ x = M * (x \div M) + (x % M)
  BY <1>1
<1> QED BY <1>2 DEF Counter

Balances(total, p1, p2, p3, q) ==
    /\ total \in Counter /\ p1 \in Counter /\ p2 \in Counter /\ p3 \in Counter
    /\ q \in Nat
    /\ total = (p1 + p2 + p3 + q) % CounterModulus

Movement(n, n1, n2, n3, q, q2) ==
    /\ n \in Nat /\ n1 \in Nat /\ n2 \in Nat /\ n3 \in Nat
    /\ q \in Nat /\ q2 \in Nat
    /\ n + q = n1 + n2 + n3 + q2

\* An account that balances still does when each of its entries moves and
\* the movements balance.
LEMMA LedgerKept ==
    ASSUME NEW total, NEW p1, NEW p2, NEW p3, NEW q, NEW q2,
           NEW n, NEW n1, NEW n2, NEW n3,
           Balances(total, p1, p2, p3, q), Movement(n, n1, n2, n3, q, q2)
    PROVE  Balances((total + n) % CounterModulus,
                    (p1 + n1) % CounterModulus, (p2 + n2) % CounterModulus,
                    (p3 + n3) % CounterModulus, q2)
<1> DEFINE M == CounterModulus
<1>0. /\ total \in Counter /\ total = (p1 + p2 + p3 + q) % M
      /\ p1 \in Counter /\ p2 \in Counter /\ p3 \in Counter
      /\ q \in Nat /\ q2 \in Nat /\ n \in Nat
      /\ n1 \in Nat /\ n2 \in Nat /\ n3 \in Nat
      /\ n + q = n1 + n2 + n3 + q2
  BY DEF Balances, Movement
<1>1. /\ M \in Nat \ {0} /\ total \in Nat
      /\ p1 \in Nat /\ p2 \in Nat /\ p3 \in Nat
      /\ \A x \in Counter : x \in Nat /\ x \in 0 .. M - 1
  BY <1>0, SessionAssumption DEF Counter
<1>2. PICK k0 \in Int : p1 + p2 + p3 + q = M * k0 + total
  <2>1. p1 + p2 + p3 + q \in Nat
    BY <1>0, <1>1
  <2> QED BY <1>0, <2>1, Division
<1>3. PICK k1 \in Int, r1 \in Counter : r1 = (p1 + n1) % M /\ p1 + n1 = M * k1 + r1
  <2>1. p1 + n1 \in Nat
    BY <1>0, <1>1
  <2> QED BY <1>0, <2>1, Division
<1>4. PICK k2 \in Int, r2 \in Counter : r2 = (p2 + n2) % M /\ p2 + n2 = M * k2 + r2
  <2>1. p2 + n2 \in Nat
    BY <1>0, <1>1
  <2> QED BY <1>0, <2>1, Division
<1>5. PICK k3 \in Int, r3 \in Counter : r3 = (p3 + n3) % M /\ p3 + n3 = M * k3 + r3
  <2>1. p3 + n3 \in Nat
    BY <1>0, <1>1
  <2> QED BY <1>0, <2>1, Division
<1>6. PICK k4 \in Int, r4 \in Counter : r4 = (total + n) % M /\ total + n = M * k4 + r4
  <2>1. total + n \in Nat
    BY <1>0, <1>1
  <2> QED BY <1>0, <2>1, Division
<1>7. PICK k5 \in Int, r5 \in Counter :
         r5 = (r1 + r2 + r3 + q2) % M /\ r1 + r2 + r3 + q2 = M * k5 + r5
  <2>1. r1 + r2 + r3 + q2 \in Nat
    BY <1>0, <1>1
  <2> QED BY <1>0, <2>1, Division
<1>8. /\ r1 \in Nat /\ r2 \in Nat /\ r3 \in Nat
      /\ r4 \in 0 .. M - 1 /\ r5 \in 0 .. M - 1
  BY <1>0, <1>1
<1> DEFINE m0 == M * k0
           m1 == M * k1
           m2 == M * k2
           m3 == M * k3
           m4 == M * k4
           m5 == M * k5
           k  == k1 + k2 + k3 + k5 - k0
<1>9. /\ m0 \in Int /\ m1 \in Int /\ m2 \in Int /\ m3 \in Int /\ m4 \in Int
      /\ m5 \in Int /\ k \in Int
      /\ M * k = m1 + m2 + m3 + m5 - m0
  BY <1>0, <1>1
<1>10. m4 + r4 = (m1 + m2 + m3 + m5 - m0) + r5
  <2>1. /\ p1 + p2 + p3 + q = m0 + total /\ p1 + n1 = m1 + r1
        /\ p2 + n2 = m2 + r2 /\ p3 + n3 = m3 + r3 /\ total + n = m4 + r4
        /\ r1 + r2 + r3 + q2 = m5 + r5
    BY <1>2, <1>3, <1>4, <1>5, <1>6, <1>7
  <2>2. r4 \in Int /\ r5 \in Int
    BY <1>0, <1>1, <1>8
  <2> HIDE DEF m0, m1, m2, m3, m4, m5
  <2> QED BY <1>0, <1>1, <1>8, <1>9, <2>1, <2>2
<1>11. M * k4 + r4 = M * k + r5
  BY <1>0, <1>9, <1>10
<1>12. r4 = r5
  <2> HIDE DEF k
  <2> QED BY <1>0, <1>1, <1>8, <1>9, <1>11, OneRemainder
<1>13. /\ r1 = (p1 + n1) % M /\ r2 = (p2 + n2) % M /\ r3 = (p3 + n3) % M
       /\ r4 = (total + n) % M /\ r4 = (r1 + r2 + r3 + q2) % M
  BY <1>3, <1>4, <1>5, <1>6, <1>7, <1>12
<1>14. Balances(r4, r1, r2, r3, q2)
  BY <1>0, <1>13 DEF Balances
<1> QED BY <1>13, <1>14

\* An entry that does not move.
LEMMA EntryKept ==
    ASSUME NEW x \in Counter
    PROVE  x \in Nat /\ (x + 0) % CounterModulus = x
<1>1. CounterModulus \in Nat \ {0} /\ x \in 0 .. CounterModulus - 1
  BY SessionAssumption DEF Counter
<1>2. \A y \in 0 .. CounterModulus - 1 : (y + 0) % CounterModulus = y
  BY <1>1
<1> QED BY <1>1, <1>2

\* How the frames completed, taken, dropped, cleared and queued move in a
\* step, and how the frames begun, completed, expired, given up and in flight.
QueueMoves(s, c, h, s2, c2, h2, n, n1, n2, n3) ==
    /\ c2["completed_frames"] = (c["completed_frames"] + n) % CounterModulus
    /\ h2["popped"] = (h["popped"] + n1) % CounterModulus
    /\ c2["dropped_frames"] = (c["dropped_frames"] + n2) % CounterModulus
    /\ h2["cleared"] = (h["cleared"] + n3) % CounterModulus
    /\ Movement(n, n1, n2, n3, s.queue_size, s2.queue_size)

WindowMoves(s, c, h, s2, c2, h2, n, n1, n2, n3) ==
    /\ h2["opened"] = (h["opened"] + n) % CounterModulus
    /\ c2["completed_frames"] = (c["completed_frames"] + n1) % CounterModulus
    /\ c2["expired_frames"] = (c["expired_frames"] + n2) % CounterModulus
    /\ h2["abandoned"] = (h["abandoned"] + n3) % CounterModulus
    /\ Movement(n, n1, n2, n3, Cardinality(InFlight(s.reassembler)),
                Cardinality(InFlight(s2.reassembler)))

\* The entries of the ledgers are counters.
LEMMA EntriesTyped ==
    ASSUME NEW c, CountersTyped(c), NEW h, HistoryTyped(h)
    PROVE  /\ \A name \in CounterNames :
                c[name] \in Counter /\ c[name] = (c[name] + 0) % CounterModulus
           /\ \A name \in {"popped", "cleared", "opened", "abandoned"} :
                h[name] \in Counter /\ h[name] = (h[name] + 0) % CounterModulus
<1>1. /\ \A name \in CounterNames : c[name] \in Counter
      /\ \A name \in {"popped", "cleared", "opened", "abandoned"} :
           h[name] \in Counter
  BY DEF CountersTyped, HistoryTyped
<1>2. \A x \in Counter : x = (x + 0) % CounterModulus
  BY EntryKept
<1> QED BY <1>1, <1>2, Zenon

\* The account of the queue is kept by movements that balance.
LEMMA QueueBalanceKept ==
    ASSUME NEW s, NEW c, NEW h, NEW s2, NEW c2, NEW h2, Balanced(s, c, h),
           NEW n, NEW n1, NEW n2, NEW n3,
           QueueMoves(s, c, h, s2, c2, h2, n, n1, n2, n3)
    PROVE  QueueBalance(s2, c2, h2)
<1> DEFINE total == c["completed_frames"]
           p1 == h["popped"]
           p2 == c["dropped_frames"]
           p3 == h["cleared"]
           q  == s.queue_size
           q2 == s2.queue_size
<1>1. total \in Counter /\ p1 \in Counter /\ p2 \in Counter /\ p3 \in Counter
  BY DEF Balanced, CountersTyped, HistoryTyped, CounterNames
<1>2. /\ Movement(n, n1, n2, n3, q, q2) /\ q \in Nat
      /\ total = (p1 + p2 + p3 + q) % CounterModulus
  BY DEF Balanced, QueueBalance, QueueMoves, Movement
<1>3. Balances(total, p1, p2, p3, q)
  <2> HIDE DEF total, p1, p2, p3, q, q2
  <2> QED BY <1>1, <1>2 DEF Balances
<1>4. Balances((total + n) % CounterModulus, (p1 + n1) % CounterModulus,
               (p2 + n2) % CounterModulus, (p3 + n3) % CounterModulus, q2)
  <2> HIDE DEF total, p1, p2, p3, q, q2
  <2> QED BY <1>2, <1>3, LedgerKept
<1>5. Balances(c2["completed_frames"], h2["popped"], c2["dropped_frames"],
               h2["cleared"], s2.queue_size)
  BY <1>4 DEF QueueMoves
<1> QED BY <1>5 DEF QueueBalance, Balances

\* So is the account of the window.
LEMMA WindowBalanceKept ==
    ASSUME NEW s, NEW c, NEW h, NEW s2, NEW c2, NEW h2, Balanced(s, c, h),
           NEW n, NEW n1, NEW n2, NEW n3,
           WindowMoves(s, c, h, s2, c2, h2, n, n1, n2, n3)
    PROVE  WindowBalance(s2, c2, h2)
<1> DEFINE total == h["opened"]
           p1 == c["completed_frames"]
           p2 == c["expired_frames"]
           p3 == h["abandoned"]
           q  == Cardinality(InFlight(s.reassembler))
           q2 == Cardinality(InFlight(s2.reassembler))
<1>1. total \in Counter /\ p1 \in Counter /\ p2 \in Counter /\ p3 \in Counter
  BY DEF Balanced, CountersTyped, HistoryTyped, CounterNames
<1>2. /\ Movement(n, n1, n2, n3, q, q2) /\ q \in Nat
      /\ total = (p1 + p2 + p3 + q) % CounterModulus
  BY DEF Balanced, WindowBalance, WindowMoves, Movement
<1>3. Balances(total, p1, p2, p3, q)
  <2> HIDE DEF total, p1, p2, p3, q, q2
  <2> QED BY <1>1, <1>2 DEF Balances
<1>4. Balances((total + n) % CounterModulus, (p1 + n1) % CounterModulus,
               (p2 + n2) % CounterModulus, (p3 + n3) % CounterModulus, q2)
  <2> HIDE DEF total, p1, p2, p3, q, q2
  <2> QED BY <1>2, <1>3, LedgerKept
<1>5. Balances(h2["opened"], c2["completed_frames"], c2["expired_frames"],
               h2["abandoned"], Cardinality(InFlight(s2.reassembler)))
  BY <1>4 DEF WindowMoves
<1> QED BY <1>5 DEF WindowBalance, Balances

\* An event counted under other names leaves the accounts alone.
LEMMA CountOther ==
    ASSUME NEW s, NEW c, NEW h, Balanced(s, c, h), NEW names,
           "completed_frames" \notin names, "dropped_frames" \notin names,
           "expired_frames" \notin names
    PROVE  Balanced(s, Count(c, names), h)
<1>1. CountersTyped(Count(c, names))
  BY CountTyped DEF Balanced
<1>2. \A name \in {"completed_frames", "dropped_frames", "expired_frames"} :
        Count(c, names)[name] = c[name]
  BY DEF Count, CounterNames
<1> QED BY <1>1, <1>2 DEF Balanced, QueueBalance, WindowBalance

\* Another session with as many frames queued and in flight.
LEMMA BalanceSame ==
    ASSUME NEW s, NEW c, NEW h, Balanced(s, c, h), NEW s2,
           s2.queue_size = s.queue_size,
           InFlight(s2.reassembler) = InFlight(s.reassembler)
    PROVE  Balanced(s2, c, h)
BY DEF Balanced, QueueBalance, WindowBalance

\* Ageing the window: frames in flight become expired frames.
LEMMA AgedBalance ==
    ASSUME NEW s, s \in Session, SoundWindow(s.reassembler), NEW c, NEW h,
           Balanced(s, c, h), NEW now \in Nat, NEW s2,
           s2.queue_size = s.queue_size,
           s2.reassembler = Advanced(s.reassembler, now)
    PROVE  Balanced(s2, CountExpired(c, s.reassembler, now), h)
<1> DEFINE r  == s.reassembler
           n  == Cardinality(Expired(r, now))
           c2 == CountExpired(c, r, now)
<1>1. /\ CountersTyped(c2) /\ CountersTyped(c) /\ HistoryTyped(h)
      /\ n \in Nat /\ s.queue_size \in Nat
  BY CountExpiredTyped, FiniteIndices, SessionAssumption DEF Balanced, Session
<1>2. /\ c2["expired_frames"] = (c["expired_frames"] + n) % CounterModulus
      /\ c2["completed_frames"] = c["completed_frames"]
      /\ c2["dropped_frames"] = c["dropped_frames"]
  BY <1>1 DEF CountExpired, Add, CountersTyped, CounterNames
<1>3. /\ c["completed_frames"] = (c["completed_frames"] + 0) % CounterModulus
      /\ c["dropped_frames"] = (c["dropped_frames"] + 0) % CounterModulus
      /\ \A name \in {"popped", "cleared", "opened", "abandoned"} :
           h[name] = (h[name] + 0) % CounterModulus
  BY <1>1, EntriesTyped DEF CounterNames
<1>4. Cardinality(InFlight(r)) = n + Cardinality(InFlight(s2.reassembler))
  <2>1. InFlight(s2.reassembler) = InFlight(r) \ Expired(r, now)
    BY AdvancedSound
  <2>2. InFlight(r) \cap Expired(r, now) = Expired(r, now)
    BY DEF Expired
  <2>3. Cardinality(InFlight(r) \ Expired(r, now))
          = Cardinality(InFlight(r)) - Cardinality(InFlight(r) \cap Expired(r, now))
    BY FiniteIndices, FS_Difference
  <2>4. Cardinality(InFlight(r)) \in Nat
    BY FiniteIndices
  <2> QED BY <1>1, <2>1, <2>2, <2>3, <2>4
<1>5. QueueMoves(s, c, h, s2, c2, h, 0, 0, 0, 0)
  BY <1>1, <1>2, <1>3 DEF QueueMoves, Movement
<1>6. WindowMoves(s, c, h, s2, c2, h, 0, 0, n, 0)
  <2>1. /\ Cardinality(InFlight(r)) \in Nat
        /\ Cardinality(InFlight(s2.reassembler)) \in Nat
    BY FiniteIndices
  <2>2. Movement(0, 0, n, 0, Cardinality(InFlight(r)),
                 Cardinality(InFlight(s2.reassembler)))
    BY <1>1, <1>4, <2>1 DEF Movement
  <2> QED BY <1>2, <1>3, <2>2 DEF WindowMoves
<1> QED BY <1>1, <1>5, <1>6, QueueBalanceKept, WindowBalanceKept DEF Balanced

\* Clearing the stream: its frames, queued and in flight, are given up.
LEMMA ClearedBalance ==
    ASSUME NEW s, s.queue_size \in Nat, NEW c, NEW h, Balanced(s, c, h),
           NEW s2, s2.queue_size = 0, InFlight(s2.reassembler) = {},
           NEW s3, s3.queue_size = s.queue_size, s3.reassembler = s.reassembler
    PROVE  Balanced(s2, c, Forgotten(h, s3))
<1> DEFINE n == Cardinality(InFlight(s.reassembler))
           q == s.queue_size
           h2 == Forgotten(h, s3)
<1>1. /\ CountersTyped(c) /\ HistoryTyped(h) /\ HistoryTyped(h2)
      /\ n \in Nat /\ Cardinality(InFlight(s2.reassembler)) = 0
  BY ForgottenTyped, FiniteIndices, FS_EmptySet DEF Balanced
<1>2. /\ h2["cleared"] = (h["cleared"] + q) % CounterModulus
      /\ h2["abandoned"] = (h["abandoned"] + n) % CounterModulus
      /\ h2["popped"] = h["popped"] /\ h2["opened"] = h["opened"]
  BY <1>1 DEF Forgotten, Note, HistoryTyped
<1>3. /\ c["completed_frames"] = (c["completed_frames"] + 0) % CounterModulus
      /\ c["dropped_frames"] = (c["dropped_frames"] + 0) % CounterModulus
      /\ c["expired_frames"] = (c["expired_frames"] + 0) % CounterModulus
      /\ \A name \in {"popped", "cleared", "opened", "abandoned"} :
           h[name] = (h[name] + 0) % CounterModulus
  BY <1>1, EntriesTyped DEF CounterNames
<1> HIDE DEF h2
<1>4. QueueMoves(s, c, h, s2, c, h2, 0, 0, 0, q)
  BY <1>2, <1>3 DEF QueueMoves, Movement
<1>5. WindowMoves(s, c, h, s2, c, h2, 0, 0, 0, n)
  <2>1. Movement(0, 0, 0, n, Cardinality(InFlight(s.reassembler)),
                 Cardinality(InFlight(s2.reassembler)))
    BY <1>1 DEF Movement
  <2> QED BY <1>2, <1>3, <2>1 DEF WindowMoves
<1>6. Balanced(s2, c, h2)
  BY <1>1, <1>4, <1>5, QueueBalanceKept, WindowBalanceKept DEF Balanced
<1> QED BY <1>6 DEF h2

\* Observing the time keeps the accounts, and clearing the stream as well.
LEMMA ObservedBalance ==
    ASSUME IInv, Balanced(session, counters, history), NEW now \in Nat,
           TimeAdvances(now)
    PROVE  Balanced(Observed(session, now), ObservedCounters(now),
                    ObservedHistory(now))
<1> DEFINE aged == [session EXCEPT !.last_observed_time = now,
                                   !.reassembler = Advanced(@, now)]
           old  == [session EXCEPT !.reassembler = Advanced(@, now)]
           c    == CountExpired(counters, session.reassembler, now)
<1>1. /\ session \in Session /\ SoundWindow(session.reassembler)
      /\ session.queue_size \in Nat
  BY SessionAssumption DEF IInv, Inv, Session
<1>2. /\ aged.queue_size = session.queue_size
      /\ aged.reassembler = Advanced(session.reassembler, now)
      /\ old.queue_size = session.queue_size
      /\ old.reassembler = Advanced(session.reassembler, now)
  BY <1>1 DEF Session
<1>3. Balanced(aged, c, history)
  BY <1>1, <1>2, AgedBalance
<1>4. CASE TimesOut(session, now)
  <2>1. Balanced(aged, Count(c, {"session_timeouts"}), history)
    BY <1>3, CountOther
  <2>2. /\ Cleared(aged).queue_size = 0
        /\ InFlight(Cleared(aged).reassembler) = {}
    BY <1>1, ResetSound DEF Cleared, QueueCleared, Session
  <2>3. /\ Observed(session, now) = Cleared(aged)
        /\ ObservedCounters(now) = Count(c, {"session_timeouts"})
        /\ ObservedHistory(now) = Forgotten(history, old)
    BY <1>4 DEF Observed, ObservedCounters, ObservedHistory
  <2> HIDE DEF aged, old, c
  <2> QED BY <1>1, <1>2, <2>1, <2>2, <2>3, ClearedBalance
<1>5. CASE ~ TimesOut(session, now)
  BY <1>3, <1>5 DEF Observed, ObservedCounters, ObservedHistory
<1> QED BY <1>4, <1>5

\* So do a datagram that only counts, and the second look at the clock.
LEMMA TallyBalance ==
    ASSUME IInv, Balanced(session, counters, history), NEW now \in Nat,
           TimeAdvances(now), NEW names,
           "completed_frames" \notin names, "dropped_frames" \notin names,
           "expired_frames" \notin names
    PROVE  /\ Balanced(Observed(session, now), Tally(now, names),
                       ObservedHistory(now))
           /\ Balanced(AtFragment(now), FragmentCounters(now, names),
                       ObservedHistory(now))
<1> DEFINE s == Observed(session, now)
<1>1. Balanced(s, Tally(now, names), ObservedHistory(now))
  BY ObservedBalance, CountOther DEF Tally
<1>2. s \in Session /\ SoundWindow(s.reassembler)
  BY ObservedSession DEF Inv
<1>3. /\ AtFragment(now).queue_size = s.queue_size
      /\ AtFragment(now).reassembler = Advanced(s.reassembler, now)
  BY <1>2 DEF AtFragment, Session
<1> HIDE DEF s
<1>4. Balanced(AtFragment(now), CountExpired(Tally(now, names), s.reassembler, now),
               ObservedHistory(now))
  BY <1>1, <1>2, <1>3, AgedBalance
<1> QED BY <1>1, <1>4 DEF FragmentCounters, s

\* A fragment that is kept: whether its frame was in flight, and whether it
\* is after.
LEMMA AcceptedInFlight ==
    ASSUME NEW r, SoundWindow(r), NEW d, Audio(d), Refusal(r, d) = "none",
           NEW now \in Nat
    PROVE  /\ TargetSlot(r, d) \in InFlight(r) <=> MatchingSlots(r, d) # {}
           /\ InFlight(Accepted(r, d, now)) =
                IF Completes(r, d, now) THEN InFlight(r) \ {TargetSlot(r, d)}
                                        ELSE InFlight(r) \cup {TargetSlot(r, d)}
<1> DEFINE t    == TargetSlot(r, d)
           next == IF Completes(r, d, now) THEN EmptySlot ELSE SlotWith(r, d, now)
           a    == Accepted(r, d, now)
<1>1. /\ t \in SlotIds
      /\ \/ MatchingSlots(r, d) # {} /\ r.slots[t].active
         \/ MatchingSlots(r, d) = {} /\ ~ r.slots[t].active
  BY TargetIsFit
<1>2. a.slots = [r.slots EXCEPT ![t] = next]
  BY DEF Accepted, Released, SoundWindow, Reassembler
<1>3. \A i \in SlotIds : a.slots[i] = IF i = t THEN next ELSE r.slots[i]
  BY <1>1, <1>2 DEF SoundWindow, Reassembler
<1>4. next.active <=> ~ Completes(r, d, now)
  BY SlotWithFragment, EmptySlotSound
<1> HIDE DEF next, a
<1>5. InFlight(a) = IF Completes(r, d, now) THEN InFlight(r) \ {t}
                                            ELSE InFlight(r) \cup {t}
  BY <1>1, <1>3, <1>4 DEF InFlight
<1> QED BY <1>1, <1>5 DEF InFlight, a

\* A frame that is begun, continued or completed by a fragment.
LEMMA FramesBegun ==
    ASSUME NEW r, SoundWindow(r), NEW d, Audio(d), Refusal(r, d) = "none",
           NEW now \in Nat
    PROVE  (IF MatchingSlots(r, d) = {} THEN 1 ELSE 0) + Cardinality(InFlight(r))
             = (IF Completes(r, d, now) THEN 1 ELSE 0)
                 + Cardinality(InFlight(Accepted(r, d, now)))
<1> DEFINE t == TargetSlot(r, d)
           n == Cardinality(InFlight(r))
<1>1. IsFiniteSet(InFlight(r)) /\ n \in Nat
  BY FiniteIndices
<1>2. /\ t \in InFlight(r) <=> MatchingSlots(r, d) # {}
      /\ InFlight(Accepted(r, d, now)) =
           IF Completes(r, d, now) THEN InFlight(r) \ {t} ELSE InFlight(r) \cup {t}
  BY AcceptedInFlight
<1>3. /\ Cardinality(InFlight(r) \cup {t})
           = IF t \in InFlight(r) THEN n ELSE n + 1
      /\ Cardinality(InFlight(r) \ {t})
           = IF t \in InFlight(r) THEN n - 1 ELSE n
  BY <1>1, FS_AddElement, FS_RemoveElement
<1> HIDE DEF t, n
<1>4. CASE Completes(r, d, now)
  BY <1>1, <1>2, <1>3, <1>4 DEF n
<1>5. CASE ~ Completes(r, d, now)
  BY <1>1, <1>2, <1>3, <1>5 DEF n
<1> QED BY <1>4, <1>5

\* What a call that hands a fragment to the reassembler counts.
LEMMA FragmentEntries ==
    ASSUME CountersTyped(counters), NEW now, NEW names,
           "expired_frames" \notin names
    PROVE  LET c == FragmentCounters(now, {})
           IN  /\ CountersTyped(FragmentCounters(now, names)) /\ CountersTyped(c)
               /\ FragmentCounters(now, names)["expired_frames"]
                    = c["expired_frames"]
               /\ \A name \in {"completed_frames", "dropped_frames"} :
                    FragmentCounters(now, names)[name] =
                      IF name \in names THEN (c[name] + 1) % CounterModulus
                                        ELSE c[name]
<1> DEFINE o == ObservedCounters(now)
           e == Cardinality(Expired(Observed(session, now).reassembler, now))
<1>1. ASSUME NEW set
      PROVE  /\ CountersTyped(Tally(now, set))
             /\ CountersTyped(FragmentCounters(now, set))
  BY TallyTyped
<1>2. ASSUME NEW set, "expired_frames" \notin set
      PROVE  /\ FragmentCounters(now, set)["expired_frames"]
                  = (o["expired_frames"] + e) % CounterModulus
             /\ \A name \in {"completed_frames", "dropped_frames"} :
                  FragmentCounters(now, set)[name]
                    = IF name \in set THEN (o[name] + 1) % CounterModulus
                                      ELSE o[name]
  <2>1. Tally(now, set)["expired_frames"] = o["expired_frames"]
    BY <1>2 DEF Tally, Count, CounterNames
  <2>2. \A name \in {"completed_frames", "dropped_frames"} :
          Tally(now, set)[name] = IF name \in set
                THEN (o[name] + 1) % CounterModulus ELSE o[name]
    BY DEF Tally, Count, CounterNames
  <2>3. CountersTyped(Tally(now, set))
    BY <1>1
  <2> DEFINE y == Tally(now, set)
  <2> HIDE DEF o, e, y
  <2>4. FragmentCounters(now, set) =
          [y EXCEPT !["expired_frames"] = (@ + e) % CounterModulus]
    BY DEF FragmentCounters, CountExpired, Add, e, y
  <2> QED BY <2>1, <2>2, <2>3, <2>4 DEF y, CountersTyped, CounterNames
<1>3. "expired_frames" \notin {}
  OBVIOUS
<1> HIDE DEF o, e
<1>4. /\ FragmentCounters(now, {})["expired_frames"]
            = (o["expired_frames"] + e) % CounterModulus
      /\ \A name \in {"completed_frames", "dropped_frames"} :
            FragmentCounters(now, {})[name] = o[name]
  BY <1>2, <1>3
<1> QED BY <1>1, <1>2, <1>4

\* A frame joins the queue, which may have to be cleared for it or to give up
\* its oldest.
LEMMA WithFrameMoves ==
    ASSUME NEW s, Inv(s), NEW frame
    PROVE  /\ WithFrame(s, frame).reassembler = s.reassembler
           /\ WithFrame(s, frame).queue_size \in Nat
           /\ 1 + s.queue_size =
                (IF ~ StartsAnew(frame) /\ QueueFull(s) THEN 1 ELSE 0)
                  + (IF StartsAnew(frame) THEN s.queue_size ELSE 0)
                  + WithFrame(s, frame).queue_size
<1>1. /\ s \in Session /\ s.queue_size \in Nat /\ QueueCapacity \in Nat \ {0}
  BY SessionAssumption DEF Inv, Session
<1> DEFINE q == IF StartsAnew(frame) THEN QueueCleared(s) ELSE s
           o == IF QueueFull(q) THEN OldestGone(q) ELSE q
           w == AtTail(o, frame)
<1>2. /\ Inv(q) /\ q \in Session /\ q.reassembler = s.reassembler
      /\ q.queue_size = IF StartsAnew(frame) THEN 0 ELSE s.queue_size
  BY <1>1, QueueClearedInv DEF QueueCleared, Session, Inv
<1> HIDE DEF q
<1>3. /\ o \in Session /\ o.reassembler = q.reassembler
      /\ o.queue_size = IF QueueFull(q) THEN q.queue_size - 1 ELSE q.queue_size
  <2>1. CASE QueueFull(q)
    <3>1. q.queue_size # 0
      BY <1>1, <2>1 DEF QueueFull
    <3> QED BY <1>2, <2>1, <3>1, OldestGoneInv DEF OldestGone, Session, Inv
  <2>2. CASE ~ QueueFull(q)
    BY <1>2, <2>2
  <2> QED BY <2>1, <2>2
<1> HIDE DEF o
<1>4. w.reassembler = o.reassembler /\ w.queue_size = o.queue_size + 1
  BY <1>3 DEF AtTail, Session
<1>5. w = WithFrame(s, frame)
  BY DEF WithFrame, Enqueued, o, q
<1> HIDE DEF w
<1>6. q.queue_size \in Nat /\ (QueueFull(q) <=> q.queue_size = QueueCapacity)
  BY <1>1, <1>2 DEF QueueFull
<1>7. QueueFull(s) <=> s.queue_size = QueueCapacity
  BY DEF QueueFull
<1>8. CASE StartsAnew(frame)
  BY <1>1, <1>2, <1>3, <1>4, <1>5, <1>6, <1>8
<1>9. CASE ~ StartsAnew(frame)
  BY <1>1, <1>2, <1>3, <1>4, <1>5, <1>6, <1>7, <1>9
<1> QED BY <1>8, <1>9

Ledger == Balanced(session, counters, history)

\* A fragment that is kept, whether or not it completes its frame.
LEMMA KeptBalance ==
    ASSUME IInv, Ledger, NEW d \in Datagrams, NEW now \in Nat,
           StoreFragment(d, now) \/ CompleteFrame(d, now)
    PROVE  Ledger'
<1> DEFINE s == AtFragment(now)
           r == s.reassembler
           c == FragmentCounters(now, {})
           h == ObservedHistory(now)
           b == IF MatchingSlots(r, d) = {} THEN 1 ELSE 0
           w == WithFragment(s, d, now)
           frame == CompletedFrame(r, d, now)
<1>1. /\ AudioArrives(d, now) /\ TimeAdvances(now)
      /\ Refusal(r, d) = "none"
  BY DEF StoreFragment, CompleteFrame, AudioArrives, Arrives
<1>2. Balanced(s, c, h)
  BY <1>1, TallyBalance DEF Ledger
<1>3. /\ Inv(s) /\ s \in Session /\ SoundWindow(r) /\ Audio(d)
      /\ Streaming(s) /\ s.last_observed_time = now
      /\ s.active_stream_id = d.stream_id
      /\ s.queue_size \in Nat
  BY <1>1, AudioMeets, SessionAssumption DEF Inv, Session
<1>4. /\ CountersTyped(c) /\ HistoryTyped(h) /\ CountersTyped(counters')
      /\ HistoryTyped(history')
  <2>1. IInv'
    BY AudioStep
  <2> QED BY <1>2, <2>1 DEF Balanced, IInv
<1>5. /\ c["completed_frames"] = (c["completed_frames"] + 0) % CounterModulus
      /\ c["dropped_frames"] = (c["dropped_frames"] + 0) % CounterModulus
      /\ c["expired_frames"] = (c["expired_frames"] + 0) % CounterModulus
      /\ \A name \in {"popped", "cleared", "opened", "abandoned"} :
           h[name] = (h[name] + 0) % CounterModulus
  BY <1>4, EntriesTyped DEF CounterNames
<1>6. /\ OpenedHistory(d, now)["opened"] = (h["opened"] + b) % CounterModulus
      /\ \A name \in {"popped", "cleared", "abandoned"} :
           OpenedHistory(d, now)[name] = h[name]
      /\ HistoryTyped(OpenedHistory(d, now))
  BY <1>4, HistoryStep DEF OpenedHistory, OpensFrame, Note, HistoryTyped
<1>7. /\ b \in Nat
      /\ b + Cardinality(InFlight(r))
           = (IF Completes(r, d, now) THEN 1 ELSE 0)
               + Cardinality(InFlight(Accepted(r, d, now)))
      /\ Cardinality(InFlight(r)) \in Nat
      /\ Cardinality(InFlight(Accepted(r, d, now))) \in Nat
  BY <1>1, <1>3, FramesBegun, FiniteIndices
<1>8. w.reassembler = Accepted(r, d, now) /\ w.queue_size = s.queue_size
  BY <1>3 DEF WithFragment, Session
<1> HIDE DEF s, b, w, frame
<1>9. CASE StoreFragment(d, now)
  <2>1. /\ session' = w /\ counters' = c
        /\ history' = OpenedHistory(d, now) /\ ~ Completes(r, d, now)
    BY <1>9 DEF StoreFragment, w, s
  <2> HIDE DEF c, h, r
  <2>2. QueueMoves(s, c, h, session', counters', history', 0, 0, 0, 0)
    BY <1>3, <1>5, <1>6, <1>8, <2>1 DEF QueueMoves, Movement
  <2>3. WindowMoves(s, c, h, session', counters', history', b, 0, 0, 0)
    <3>1. Movement(b, 0, 0, 0, Cardinality(InFlight(s.reassembler)),
                   Cardinality(InFlight(session'.reassembler)))
      BY <1>7, <1>8, <2>1 DEF Movement, r
    <3> QED BY <1>5, <1>6, <2>1, <3>1 DEF WindowMoves
  <2> QED BY <1>2, <1>4, <2>2, <2>3, QueueBalanceKept, WindowBalanceKept
          DEF Balanced, Ledger
<1>10. CASE CompleteFrame(d, now)
  <2> DEFINE n2 == IF ~ StartsAnew(frame) /\ QueueFull(s) THEN 1 ELSE 0
             n3 == IF StartsAnew(frame) THEN s.queue_size ELSE 0
  <2>1. /\ session' = WithFrame(w, frame) /\ Completes(r, d, now)
        /\ counters' = FragmentCounters(now, CompletionCounters(s, frame))
        /\ history' = Note(OpenedHistory(d, now), "cleared", n3)
    BY <1>10 DEF CompleteFrame, w, s, frame
  <2>2. Inv(w)
    BY <1>1, <1>3, WithFragmentInv DEF w
  <2>3. /\ session'.reassembler = w.reassembler
        /\ session'.queue_size \in Nat
        /\ 1 + s.queue_size = n2 + n3 + session'.queue_size
    <3>1. QueueFull(w) <=> QueueFull(s)
      BY <1>8 DEF QueueFull
    <3> QED BY <1>8, <2>1, <2>2, <3>1, WithFrameMoves
  <2>4. /\ counters'["expired_frames"] = c["expired_frames"]
        /\ counters'["completed_frames"]
             = (c["completed_frames"] + 1) % CounterModulus
        /\ counters'["dropped_frames"]
             = (c["dropped_frames"] + n2) % CounterModulus
    <3> DEFINE names == CompletionCounters(s, frame)
    <3>1. /\ "expired_frames" \notin names /\ "completed_frames" \in names
          /\ "dropped_frames" \in names <=> ~ StartsAnew(frame) /\ QueueFull(s)
      BY DEF CompletionCounters
    <3>2. CountersTyped(counters)
      BY DEF IInv
    <3> HIDE DEF names
    <3>3. /\ FragmentCounters(now, names)["expired_frames"]
               = c["expired_frames"]
          /\ \A name \in {"completed_frames", "dropped_frames"} :
               FragmentCounters(now, names)[name] =
                 IF name \in names THEN (c[name] + 1) % CounterModulus
                                   ELSE c[name]
      BY <3>1, <3>2, FragmentEntries
    <3>4. counters' = FragmentCounters(now, names)
      BY <2>1 DEF names
    <3> HIDE DEF c
    <3> QED BY <1>5, <3>1, <3>3, <3>4
  <2>5. /\ history'["cleared"] = (h["cleared"] + n3) % CounterModulus
        /\ history'["opened"] = (h["opened"] + b) % CounterModulus
        /\ history'["popped"] = h["popped"]
        /\ history'["abandoned"] = h["abandoned"]
    <3> HIDE DEF h, n3
    <3> QED BY <1>6, <2>1 DEF Note, HistoryTyped
  <2>6. n2 \in Nat /\ n3 \in Nat
    BY <1>3
  <2> HIDE DEF c, h, r, n2, n3
  <2>7. QueueMoves(s, c, h, session', counters', history', 1, 0, n2, n3)
    <3>1. Movement(1, 0, n2, n3, s.queue_size, session'.queue_size)
      BY <1>3, <2>3, <2>6 DEF Movement
    <3> QED BY <1>5, <2>4, <2>5, <3>1 DEF QueueMoves
  <2>8. WindowMoves(s, c, h, session', counters', history', b, 1, 0, 0)
    <3>1. Movement(b, 1, 0, 0, Cardinality(InFlight(s.reassembler)),
                   Cardinality(InFlight(session'.reassembler)))
      BY <1>7, <1>8, <2>1, <2>3 DEF Movement, r
    <3> QED BY <1>5, <2>4, <2>5, <3>1 DEF WindowMoves
  <2> QED BY <1>2, <1>4, <2>7, <2>8, QueueBalanceKept, WindowBalanceKept
          DEF Balanced, Ledger
<1> QED BY <1>9, <1>10

\* The caller takes a frame.
LEMMA PopBalance ==
    ASSUME IInv, Ledger, PopFrame
    PROVE  Ledger'
<1> DEFINE s == session
           c == counters
           h == history
<1>1. /\ CountersTyped(c) /\ HistoryTyped(h) /\ s \in Session
      /\ s.queue_size \in Nat /\ s.queue_size # 0
  BY SessionAssumption DEF IInv, Inv, Session, PopFrame
<1>2. /\ session'.queue_size = s.queue_size - 1
      /\ session'.reassembler = s.reassembler /\ counters' = c
  BY <1>1 DEF PopFrame, OldestGone, Session
<1>3. /\ history'["popped"] = (h["popped"] + 1) % CounterModulus
      /\ \A name \in {"cleared", "opened", "abandoned"} :
           history'[name] = h[name]
      /\ HistoryTyped(history')
  BY <1>1, NoteTyped DEF PopFrame, Note, HistoryTyped
<1>4. /\ c["completed_frames"] = (c["completed_frames"] + 0) % CounterModulus
      /\ c["dropped_frames"] = (c["dropped_frames"] + 0) % CounterModulus
      /\ h["cleared"] = (h["cleared"] + 0) % CounterModulus
  BY <1>1, EntriesTyped DEF CounterNames
<1>5. Movement(0, 1, 0, 0, s.queue_size, session'.queue_size)
  <2>1. s.queue_size - 1 \in Nat /\ 0 + s.queue_size = 1 + 0 + 0 + (s.queue_size - 1)
    BY <1>1
  <2> QED BY <1>1, <1>2, <2>1 DEF Movement
<1>6. QueueMoves(s, c, h, session', counters', history', 0, 1, 0, 0)
  BY <1>2, <1>3, <1>4, <1>5 DEF QueueMoves
<1>7. QueueBalance(session', counters', history')
  BY <1>6, QueueBalanceKept DEF Ledger
<1>8. WindowBalance(session', counters', history')
  BY <1>2, <1>3 DEF Ledger, Balanced, WindowBalance
<1> QED BY <1>1, <1>2, <1>3, <1>7, <1>8 DEF Ledger, Balanced

\* The accounts balance for a new session.
LEMMA FreshBalance ==
    ASSUME NEW s, s.queue_size = 0, InFlight(s.reassembler) = {}
    PROVE  Balanced(s, ZeroCounters, NoHistory)
<1>1. 0 \in Counter /\ 0 % CounterModulus = 0
  <2>1. 0 \in Counter
    BY SessionAssumption DEF Counter
  <2>2. (0 + 0) % CounterModulus = 0
    BY <2>1, EntryKept
  <2> QED BY <2>1, <2>2
<1>2. CountersTyped(ZeroCounters) /\ HistoryTyped(NoHistory)
  BY <1>1 DEF ZeroCounters, NoHistory, CountersTyped, HistoryTyped
<1>3. Cardinality(InFlight(s.reassembler)) = 0
  BY FS_EmptySet
<1>4. /\ \A name \in CounterNames : ZeroCounters[name] = 0
      /\ \A name \in {"popped", "cleared", "opened", "abandoned"} :
           NoHistory[name] = 0
  BY DEF ZeroCounters, NoHistory
<1>5. QueueBalance(s, ZeroCounters, NoHistory)
  BY <1>1, <1>4 DEF QueueBalance, CounterNames
<1>6. WindowBalance(s, ZeroCounters, NoHistory)
  BY <1>1, <1>3, <1>4 DEF WindowBalance, CounterNames
<1> QED BY <1>2, <1>5, <1>6 DEF Balanced

\* Every call keeps the accounts.
LEMMA LedgerStep == IInv /\ Ledger /\ [Next]_vars => Ledger'
<1> SUFFICES ASSUME IInv, Ledger, [Next]_vars PROVE Ledger'
  OBVIOUS
<1>1. \A now \in 0 .. MaxTime : now \in Nat
  BY SessionAssumption
<1>2. Balanced(session, counters, history)
  BY DEF Ledger
<1>3. ASSUME NEW d \in Datagrams, NEW now \in 0 .. MaxTime, Accept(d, now)
      PROVE  Ledger'
  <2> DEFINE s == Observed(session, now)
  <2>1. now \in Nat
    BY <1>1
  <2>2. ASSUME NEW names, TimeAdvances(now), OnlyCounts(now, names),
               "completed_frames" \notin names, "dropped_frames" \notin names,
               "expired_frames" \notin names
        PROVE  Ledger'
    BY <1>2, <2>1, <2>2, TallyBalance DEF OnlyCounts, Ledger
  <2>3. CASE \/ MalformedDatagram(d, now) \/ InvalidControlPayload(d, now)
             \/ RejectBeforeStart(d, now) \/ RejectWrongStream(d, now)
             \/ RejectReport(d, now)
    <3>1. TimeAdvances(now)
      BY <2>3 DEF MalformedDatagram, InvalidControlPayload, RejectBeforeStart,
                  RejectWrongStream, RejectReport, Arrives
    <3>2. \E names : /\ OnlyCounts(now, names)
                     /\ "completed_frames" \notin names
                     /\ "dropped_frames" \notin names
                     /\ "expired_frames" \notin names
      BY <2>3 DEF MalformedDatagram, InvalidControlPayload, RejectBeforeStart,
                  RejectWrongStream, RejectReport
    <3> QED BY <2>2, <3>1, <3>2
  <2>4. CASE AcceptStreamStart(d, now) \/ AcceptStreamStop(d, now)
    <3>1. TimeAdvances(now) /\ d \in Datagram
      BY <2>4, SessionAssumption DEF AcceptStreamStart, AcceptStreamStop, Arrives
    <3>2. Inv(s) /\ s \in Session /\ s.queue_size \in Nat
      BY <2>1, <3>1, ObservedSession, SessionAssumption DEF Session
    <3>3. \E names : /\ counters' = Tally(now, names)
                     /\ "completed_frames" \notin names
                     /\ "dropped_frames" \notin names
                     /\ "expired_frames" \notin names
      BY <2>4 DEF AcceptStreamStart, AcceptStreamStop
    <3>4. Balanced(s, counters', ObservedHistory(now))
      BY <1>2, <2>1, <3>1, <3>3, TallyBalance
    <3>5. history' = Forgotten(ObservedHistory(now), s)
      BY <2>4 DEF AcceptStreamStart, AcceptStreamStop
    <3>6. session'.queue_size = 0 /\ InFlight(session'.reassembler) = {}
      <4>1. \/ session' = StreamStarted(s, d, now)
            \/ session' = Cleared(s)
        BY <2>4 DEF AcceptStreamStart, AcceptStreamStop
      <4>2. /\ Cleared(s).queue_size = 0
            /\ Cleared(s).reassembler = ResetReassembler
        BY <3>2 DEF Cleared, QueueCleared, Session
      <4>3. /\ StreamStarted(s, d, now).queue_size = Cleared(s).queue_size
            /\ StreamStarted(s, d, now).reassembler = Cleared(s).reassembler
        BY DEF StreamStarted
      <4> QED BY <4>1, <4>2, <4>3, ResetSound
    <3> HIDE DEF s
    <3>7. Balanced(session', counters', Forgotten(ObservedHistory(now), s))
      BY <3>2, <3>4, <3>6, ClearedBalance
    <3> QED BY <3>5, <3>7 DEF Ledger
  <2>5. CASE AcceptHeartbeat(d, now) \/ AcceptRemoteError(d, now)
    <3>1. TimeAdvances(now)
      BY <2>5 DEF AcceptHeartbeat, AcceptRemoteError, Arrives
    <3>2. s \in Session
      BY <2>1, <3>1, ObservedSession
    <3>3. \E names : /\ counters' = Tally(now, names)
                     /\ "completed_frames" \notin names
                     /\ "dropped_frames" \notin names
                     /\ "expired_frames" \notin names
      BY <2>5 DEF AcceptHeartbeat, AcceptRemoteError
    <3>4. Balanced(s, counters', history')
      BY <1>2, <2>1, <2>5, <3>1, <3>3, TallyBalance
         DEF AcceptHeartbeat, AcceptRemoteError
    <3>5. /\ session'.queue_size = s.queue_size
          /\ session'.reassembler = s.reassembler
      BY <2>5, <3>2 DEF AcceptHeartbeat, AcceptRemoteError, Session
    <3> QED BY <3>4, <3>5, BalanceSame DEF Ledger
  <2>6. CASE RefuseFragment(d, now)
    <3> DEFINE names == RefusalCounters(Refusal(AtFragment(now).reassembler, d))
    <3>1. /\ TimeAdvances(now) /\ session' = AtFragment(now)
          /\ counters' = FragmentCounters(now, names)
          /\ history' = ObservedHistory(now)
      BY <2>6 DEF RefuseFragment, Refused, AudioArrives, Arrives
    <3>2. /\ "completed_frames" \notin names /\ "dropped_frames" \notin names
          /\ "expired_frames" \notin names
      BY DEF RefusalCounters
    <3> HIDE DEF names
    <3> QED BY <1>2, <2>1, <3>1, <3>2, TallyBalance DEF Ledger
  <2>7. CASE StoreFragment(d, now) \/ CompleteFrame(d, now)
    BY <2>1, <2>7, KeptBalance
  <2> QED BY <1>3, <2>3, <2>4, <2>5, <2>6, <2>7 DEF Accept
<1>4. ASSUME NEW now \in 0 .. MaxTime, AdvanceTime(now) PROVE Ledger'
  BY <1>1, <1>2, <1>4, ObservedBalance DEF AdvanceTime, Ledger
<1>5. CASE PopFrame
  BY <1>5, PopBalance
<1>6. CASE Reset
  <2>1. session'.queue_size = 0 /\ session'.reassembler = ResetReassembler
    BY <1>6 DEF Reset, Cleared, QueueCleared, IInv, Inv, Session
  <2> QED BY <1>6, <2>1, ResetSound, FreshBalance DEF Reset, Ledger
<1>7. CASE UNCHANGED vars
  BY <1>7 DEF vars, Ledger
<1> QED BY <1>3, <1>4, <1>5, <1>6, <1>7 DEF Next

\* The accounts balance throughout.
THEOREM LedgersBalance == Spec => []Ledger
<1>1. Init => Ledger
  BY ResetSound, FreshBalance DEF Init, Ledger, NewSession
<1>2. IInv /\ Ledger /\ [Next]_vars => Ledger'
  BY LedgerStep
<1> QED BY <1>1, <1>2, Invariance, PTL DEF Spec

\* Every completed frame is accounted for once: taken by the caller, dropped
\* from a full queue, cleared, or still queued (session.cpp:14-18, 70-81, 174-207, 236-244).
THEOREM CompletedFramesAccounted == Spec => []CompletedFramesAddUp
<1>1. Ledger => CompletedFramesAddUp
  BY DEF Ledger, Balanced, QueueBalance, CompletedFramesAddUp
<1> QED BY <1>1, LedgersBalance, PTL

\* Every frame begun is accounted for once: completed, expired, given up with
\* its stream, or in flight.
THEOREM OpenedFramesAccounted == Spec => []OpenedFramesAddUp
<1>1. Ledger => OpenedFramesAddUp
  BY DEF Ledger, Balanced, WindowBalance, OpenedFramesAddUp
<1> QED BY <1>1, LedgersBalance, PTL

\* Two indices within the ring's length name two slots.
LEMMA RingIsInjective ==
    ASSUME NEW s, s \in Session, NEW i \in Nat, NEW j \in Nat, i < j,
           j < QueueCapacity
    PROVE  QueueSlot(s, i) # QueueSlot(s, j)
<1> DEFINE C == QueueCapacity
           a == s.queue_head + i
           b == s.queue_head + j
<1>1. C \in Nat \ {0} /\ s.queue_head \in Nat
  BY SessionAssumption DEF Session, QueueSlots
<1>2. a \in Nat /\ b \in Nat /\ a < b /\ b - a < C
  BY <1>1
<1> HIDE DEF a, b
<1>3. /\ a \div C \in Int /\ a = C * (a \div C) + (a % C)
      /\ b \div C \in Int /\ b = C * (b \div C) + (b % C)
  BY <1>1, <1>2
<1>4. SUFFICES ASSUME a % C = b % C PROVE FALSE
  BY DEF QueueSlot, a, b
<1> DEFINE k == (b \div C) - (a \div C)
<1>5. k \in Int /\ C * k = b - a
  BY <1>1, <1>2, <1>3, <1>4
<1> HIDE DEF k
<1>6. CASE k >= 1
  <2>1. C * k >= C
    BY <1>1, <1>5, <1>6
  <2> QED BY <1>1, <1>2, <1>5, <2>1
<1>7. CASE k <= 0
  <2>1. C * k <= 0
    BY <1>1, <1>5, <1>7
  <2> QED BY <1>1, <1>2, <1>5, <2>1
<1> QED BY <1>5, <1>6, <1>7

---------------------------------------------------------------------------
(* The queue as a sequence.                                                *)

\* The frames queued, oldest first, are a sequence of frames.
LEMMA QueuedIsSeq ==
    ASSUME NEW s, s \in Session
    PROVE  /\ Queued(s) \in Seq(Frame) /\ Len(Queued(s)) = s.queue_size
           /\ s.queue_size \in Nat
           /\ \A i \in 1 .. s.queue_size :
                Queued(s)[i] = s.frame_queue[QueueSlot(s, i - 1)]
<1>1. s.queue_size \in Nat
  BY SessionAssumption DEF Session
<1>2. ASSUME NEW i \in 1 .. s.queue_size
      PROVE  s.frame_queue[QueueSlot(s, i - 1)] \in Frame
  <2>1. i - 1 \in Nat
    BY <1>1
  <2>2. QueueSlot(s, i - 1) \in QueueSlots
    BY <2>1, QueueSlotInRing
  <2> QED BY <2>2 DEF Session
<1> QED BY <1>1, <1>2 DEF Queued

\* Dropping the oldest frame drops the head of the sequence.
LEMMA QueuedTail ==
    ASSUME NEW s, Inv(s), s.queue_size # 0
    PROVE  Queued(OldestGone(s)) = Tail(Queued(s))
<1> DEFINE t == OldestGone(s)
           C == QueueCapacity
           n == s.queue_size - 1
<1>1. /\ s \in Session /\ C \in Nat \ {0} /\ s.queue_size \in Nat \ {0}
      /\ s.queue_head \in Nat /\ n \in Nat
  BY SessionAssumption DEF Inv, Session, QueueSlots
<1>2. /\ t \in Session /\ t.queue_head = QueueSlot(s, 1) /\ t.queue_size = n
      /\ t.frame_queue = s.frame_queue
  BY <1>1, OldestGoneInv DEF OldestGone, Session, Inv
<1>3. /\ Queued(t) \in Seq(Frame) /\ Len(Queued(t)) = n
      /\ \A i \in 1 .. n : Queued(t)[i] = t.frame_queue[QueueSlot(t, i - 1)]
      /\ Queued(s) \in Seq(Frame) /\ Len(Queued(s)) = s.queue_size
      /\ \A i \in 1 .. s.queue_size :
           Queued(s)[i] = s.frame_queue[QueueSlot(s, i - 1)]
  BY <1>1, <1>2, QueuedIsSeq
<1> HIDE DEF t
<1>4. ASSUME NEW i \in 1 .. n PROVE Queued(t)[i] = Queued(s)[i + 1]
  <2>1. i - 1 \in Nat /\ i + 1 \in 1 .. s.queue_size
    BY <1>1
  <2>2. QueueSlot(t, i - 1) = (((s.queue_head + 1) % C) + (i - 1)) % C
    BY <1>2 DEF QueueSlot
  <2>3. (((s.queue_head + 1) % C) + (i - 1)) % C = ((s.queue_head + 1) + (i - 1)) % C
    <3>1. s.queue_head + 1 \in Nat
      BY <1>1
    <3> HIDE DEF C
    <3> QED BY <1>1, <2>1, <3>1, RingShift
  <2>4. (s.queue_head + 1) + (i - 1) = s.queue_head + ((i + 1) - 1)
    BY <1>1, <2>1
  <2>5. QueueSlot(t, i - 1) = QueueSlot(s, (i + 1) - 1)
    BY <2>2, <2>3, <2>4 DEF QueueSlot
  <2> QED BY <1>2, <1>3, <2>1, <2>5
<1>5. Tail(Queued(s)) \in Seq(Frame) /\ Len(Tail(Queued(s))) = n
      /\ \A i \in 1 .. n : Tail(Queued(s))[i] = Queued(s)[i + 1]
  <2> DEFINE q == Queued(s)
  <2>1. q \in Seq(Frame) /\ q # <<>> /\ Len(q) = n + 1
    BY <1>1, <1>3
  <2> HIDE DEF q, n
  <2> QED BY <1>1, <2>1 DEF q
<1> DEFINE q1 == Queued(t)
           q2 == Tail(Queued(s))
<1>6. /\ q1 \in Seq(Frame) /\ q2 \in Seq(Frame) /\ Len(q1) = Len(q2)
      /\ \A i \in 1 .. Len(q1) : q1[i] = q2[i]
  BY <1>3, <1>4, <1>5
<1>7. q1 = q2
  <2> HIDE DEF q1, q2
  <2> QED BY <1>6
<1> QED BY <1>7 DEF t

\* A frame written at the tail is the last of the sequence.
LEMMA QueuedAppend ==
    ASSUME NEW s, Inv(s), s.queue_size < QueueCapacity, NEW frame \in Frame
    PROVE  Queued(AtTail(s, frame)) = Append(Queued(s), frame)
<1> DEFINE t == AtTail(s, frame)
           C == QueueCapacity
           n == s.queue_size
           tail == QueueSlot(s, n)
<1>1. /\ s \in Session /\ C \in Nat \ {0} /\ n \in 0 .. C - 1 /\ n \in Nat
      /\ s.queue_head \in Nat /\ s.queue_head \in 0 .. C - 1
      /\ s.frame_queue \in [QueueSlots -> Frame]
  BY SessionAssumption DEF Inv, Session, QueueSlots
<1>2. tail \in QueueSlots
  BY <1>1, QueueSlotInRing
<1>3. /\ t.frame_queue = [s.frame_queue EXCEPT ![tail] = frame]
      /\ t.queue_head = s.queue_head /\ t.queue_size = n + 1
  BY <1>1 DEF AtTail, Session
<1>4. t \in Session
  <2>1. /\ n + 1 \in 0 .. C
        /\ [s.frame_queue EXCEPT ![tail] = frame] \in [QueueSlots -> Frame]
    BY <1>1, <1>2
  <2> QED BY <1>1, <2>1 DEF AtTail, Session
<1> HIDE DEF t
<1>5. /\ Queued(t) \in Seq(Frame) /\ Len(Queued(t)) = n + 1
      /\ \A i \in 1 .. n + 1 : Queued(t)[i] = t.frame_queue[QueueSlot(t, i - 1)]
      /\ Queued(s) \in Seq(Frame) /\ Len(Queued(s)) = n
      /\ \A i \in 1 .. n : Queued(s)[i] = s.frame_queue[QueueSlot(s, i - 1)]
  BY <1>1, <1>3, <1>4, QueuedIsSeq
<1>6. Queued(t)[n + 1] = frame
  <2>1. n + 1 \in 1 .. n + 1 /\ (n + 1) - 1 = n
    BY <1>1
  <2>2. QueueSlot(t, n) = tail
    BY <1>3 DEF QueueSlot
  <2> QED BY <1>1, <1>2, <1>3, <1>5, <2>1, <2>2
<1>7. ASSUME NEW i \in 1 .. n PROVE Queued(t)[i] = Queued(s)[i]
  <2>1. i \in 1 .. n + 1 /\ i - 1 \in 0 .. n - 1
    BY <1>1
  <2>2. QueueSlot(t, i - 1) = QueueSlot(s, i - 1)
    BY <1>3 DEF QueueSlot
  <2>3. QueueSlot(s, i - 1) # tail /\ QueueSlot(s, i - 1) \in QueueSlots
    <3>1. i - 1 \in Nat
      BY <2>1
    <3>2. QueueSlot(s, i - 1) # tail
      BY <1>1, <2>1, RingIsInjective
    <3> QED BY <1>1, <3>1, <3>2, QueueSlotInRing
  <2> QED BY <1>1, <1>3, <1>5, <2>1, <2>2, <2>3
<1> DEFINE q1 == Queued(t)
           q  == Queued(s)
<1>8. /\ q1 \in Seq(Frame) /\ q \in Seq(Frame) /\ Len(q) = n
      /\ Len(q1) = n + 1 /\ q1[n + 1] = frame
      /\ \A i \in 1 .. n : q1[i] = q[i]
  BY <1>5, <1>6, <1>7
<1>9. q1 = Append(q, frame)
  <2> HIDE DEF q1, q, n
  <2>1. /\ Append(q, frame) \in Seq(Frame) /\ Len(Append(q, frame)) = n + 1
        /\ Append(q, frame)[n + 1] = frame
        /\ \A i \in 1 .. n : Append(q, frame)[i] = q[i]
    BY <1>1, <1>8
  <2> DEFINE q2 == Append(q, frame)
  <2>2. \A i \in 1 .. n + 1 : i \in 1 .. n \/ i = n + 1
    BY <1>1
  <2>3. /\ q2 \in Seq(Frame) /\ Len(q1) = Len(q2)
        /\ \A i \in 1 .. Len(q1) : q1[i] = q2[i]
    BY <1>8, <2>1, <2>2
  <2> HIDE DEF q2
  <2>4. q1 = q2
    BY <1>8, <2>3
  <2> QED BY <2>4 DEF q2
<1> QED BY <1>9 DEF t

\* A completed frame joins the queue: alone after a discontinuity, in the
\* place of the oldest when the queue is full, else after the others.
LEMMA QueuedWithFrame ==
    ASSUME NEW s, Inv(s), NEW frame \in Frame
    PROVE  Queued(WithFrame(s, frame)) =
             IF StartsAnew(frame) THEN <<frame>>
             ELSE IF QueueFull(s) THEN Append(Tail(Queued(s)), frame)
             ELSE Append(Queued(s), frame)
<1> DEFINE q == IF StartsAnew(frame) THEN QueueCleared(s) ELSE s
           o == IF QueueFull(q) THEN OldestGone(q) ELSE q
<1>1. /\ s \in Session /\ s.queue_size \in 0 .. QueueCapacity
      /\ QueueCapacity \in Nat \ {0}
  BY SessionAssumption DEF Inv, Session
<1>2. Inv(q) /\ q \in Session /\ q.queue_size \in 0 .. QueueCapacity
  BY <1>1, QueueClearedInv DEF Inv
<1>3. StartsAnew(frame) => q.queue_size = 0 /\ ~ QueueFull(q)
  BY <1>1, QueueClearedInv DEF QueueFull
<1>4. StartsAnew(frame) => Queued(q) = <<>>
  <2>1. StartsAnew(frame) => Queued(q) \in Seq(Frame) /\ Len(Queued(q)) = 0
    BY <1>2, <1>3, QueuedIsSeq
  <2> DEFINE z == Queued(q)
  <2>2. ASSUME z \in Seq(Frame), Len(z) = 0 PROVE z = <<>>
    <3> HIDE DEF z
    <3> QED BY <2>2
  <2> QED BY <2>1, <2>2
<1>5. ~ StartsAnew(frame) => q = s
  OBVIOUS
<1> HIDE DEF q
<1>6. /\ Inv(o) /\ o.queue_size < QueueCapacity
      /\ Queued(o) = IF QueueFull(q) THEN Tail(Queued(q)) ELSE Queued(q)
  <2>1. CASE QueueFull(q)
    <3>1. q.queue_size # 0
      BY <1>1, <2>1 DEF QueueFull
    <3> QED BY <1>1, <1>2, <2>1, <3>1, OldestGoneInv, QueuedTail DEF QueueFull
  <2>2. CASE ~ QueueFull(q)
    BY <1>1, <1>2, <2>2 DEF QueueFull
  <2> QED BY <2>1, <2>2
<1> HIDE DEF o
<1>7. Queued(AtTail(o, frame)) = Append(Queued(o), frame)
  BY <1>6, QueuedAppend
<1>8. WithFrame(s, frame) = AtTail(o, frame)
  BY DEF WithFrame, Enqueued, o, q
<1>9. Append(<<>>, frame) = <<frame>>
  OBVIOUS
<1> QED BY <1>3, <1>4, <1>5, <1>6, <1>7, <1>8, <1>9

---------------------------------------------------------------------------
(* Whose bytes are in the slots and in the queue.                          *)

\* Datagram d accounts for fragment f of a slot: its header is that of the
\* slot's frame, and its bytes stand at its place.
Explains(d, slot, f) ==
    /\ FragmentOf(d, slot) /\ d.fragment_index = f
    /\ d.fragment_count = slot.fragment_count
    /\ slot.fragment_sizes[f] = Len(d.payload)
    /\ \A b \in 1 .. Len(d.payload) :
         slot.storage[PayloadOffset(d) + b] = d.payload[b]

\* Every mark of the slot is accounted for by a datagram that was seen.
SlotHolds(slot, seen) ==
    \A f \in Marks(slot) : \E d \in seen : Explains(d, slot, f)

WindowHolds(r, seen) == \A i \in SlotIds : SlotHolds(r.slots[i], seen)

\* Every byte of the frame came in a datagram of that frame.
FrameHeld(frame, seen) ==
    \A o \in 1 .. Len(frame.payload) :
      \E f \in seen :
        /\ FragmentOf(f, frame)
        /\ o - PayloadOffset(f) \in 1 .. Len(f.payload)
        /\ frame.payload[o] = f.payload[o - PayloadOffset(f)]

QueueHolds(s, seen) ==
    \A i \in 1 .. s.queue_size : FrameHeld(Queued(s)[i], seen)

\* What was seen are fragments of a shape the reassembler takes.
Fits(seen) == \A d \in seen : Audio(d) /\ CanonicalShape(d)

\* A fragment that others follow is full.
LEMMA FullFragment ==
    ASSUME NEW d, Audio(d), CanonicalShape(d),
           d.fragment_index + 1 < d.fragment_count
    PROVE  Len(d.payload) = MaximumPayloadSize
<1>1. d.fragment_index \in Nat /\ d.fragment_count \in Nat
  BY DEF Audio, Datagram
<1>2. ~ HasFlag(d.flags, FlagSilence)
  BY <1>1 DEF CanonicalShape
<1> QED BY <1>1, <1>2 DEF CanonicalShape

\* The places of two fragments are a whole fragment apart.
LEMMA PlacesApart ==
    ASSUME NEW P \in Nat, NEW g \in Nat, NEW f \in Nat, g < f
    PROVE  g * P \in Nat /\ f * P \in Nat /\ g * P + P <= f * P
<1> DEFINE k == f - g - 1
<1>1. k \in Nat /\ f = g + 1 + k
  OBVIOUS
<1>2. k * P \in Nat /\ (g + 1 + k) * P = g * P + P + k * P
  BY <1>1
<1>3. g * P \in Nat /\ f * P \in Nat
  OBVIOUS
<1> HIDE DEF k
<1> QED BY <1>1, <1>2, <1>3

\* The slot a fragment goes to has the header of the fragment's frame, and
\* what it holds is accounted for.
LEMMA OpenForFragment ==
    ASSUME NEW r, SoundWindow(r), NEW d, Audio(d), Refusal(r, d) = "none",
           NEW now \in Nat, NEW seen, WindowHolds(r, seen)
    PROVE  \E open :
             /\ SlotWith(r, d, now) = Stored(open, d, now)
             /\ Consistent(open) /\ SlotHolds(open, seen)
             /\ FragmentOf(d, open) /\ open.fragment_count = d.fragment_count
             /\ d.fragment_index \notin Marks(open)
<1> DEFINE slot == r.slots[TargetSlot(r, d)]
           open == IF slot.active THEN slot ELSE Opened(slot, d, now)
<1>1. /\ CanonicalShape(d) /\ TargetSlot(r, d) \in SlotIds
      /\ Sound(slot) /\ slot \in Slot /\ SlotHolds(slot, seen)
  BY TargetIsFit DEF SoundWindow, Sound, Consistent, WindowHolds
<1>2. SlotWith(r, d, now) = Stored(open, d, now)
  BY DEF SlotWith
<1>3. CASE slot.active
  <2>1. /\ MatchingSlots(r, d) # {}
        /\ slot.stream_id = d.stream_id /\ slot.frame_id = d.frame_id
        /\ slot.fragment_count = d.fragment_count
        /\ ~ slot.received[d.fragment_index]
    BY <1>3, TargetIsFit
  <2>2. SameMetadata(slot, d)
    BY <2>1 DEF Refusal
  <2>3. FragmentOf(d, slot) /\ d.fragment_index \notin Marks(slot)
    BY <2>1, <2>2 DEF FragmentOf, SameMetadata, Marks
  <2> QED BY <1>1, <1>2, <1>3, <2>1, <2>3 DEF Sound
<1>4. CASE ~ slot.active
  <2>1. /\ Consistent(Opened(slot, d, now))
        /\ Marks(Opened(slot, d, now)) = {}
        /\ Opened(slot, d, now).fragment_count = d.fragment_count
    BY <1>1, <1>4, OpenedIsConsistent
  <2>2. FragmentOf(d, Opened(slot, d, now))
    BY <1>1 DEF FragmentOf, Opened, Slot
  <2>3. SlotHolds(Opened(slot, d, now), seen)
    BY <2>1 DEF SlotHolds
  <2> QED BY <1>2, <1>4, <2>1, <2>2, <2>3
<1> QED BY <1>3, <1>4

\* Storing a fragment accounts for it, and does not touch the bytes of the
\* others.
LEMMA StoredHolds ==
    ASSUME NEW slot, Consistent(slot), NEW seen, SlotHolds(slot, seen),
           Fits(seen), NEW d, Audio(d), CanonicalShape(d),
           FragmentOf(d, slot), slot.fragment_count = d.fragment_count,
           d.fragment_index \notin Marks(slot), NEW now \in Nat
    PROVE  SlotHolds(Stored(slot, d, now), seen \cup {d})
<1> DEFINE n == Stored(slot, d, now)
           f == d.fragment_index
           P == MaximumPayloadSize
<1>1. slot \in Slot /\ d \in Datagram
  BY DEF Consistent, Audio
<1>2. /\ f \in FragmentIds /\ f < d.fragment_count
      /\ d.fragment_count \in Nat /\ Len(d.payload) \in Nat
      /\ f * P + Len(d.payload) <= MaximumFramePayload
      /\ f \in Nat /\ f * P \in Nat /\ P \in Nat
  BY CanonicalFragment, FragmentLimit, PacketAssumption
<1>3. /\ n.received = [slot.received EXCEPT ![f] = TRUE]
      /\ n.fragment_sizes = [slot.fragment_sizes EXCEPT ![f] = Len(d.payload)]
      /\ n.stream_id = slot.stream_id /\ n.frame_id = slot.frame_id
      /\ n.first_sequence_number = slot.first_sequence_number
      /\ n.timestamp_samples = slot.timestamp_samples /\ n.flags = slot.flags
      /\ n.fragment_count = slot.fragment_count
      /\ n.storage = [o \in Offsets |->
           IF o - PayloadOffset(d) \in 1 .. Len(d.payload)
           THEN d.payload[o - PayloadOffset(d)] ELSE slot.storage[o]]
  BY <1>1 DEF Stored, Slot
<1>4. \A e : FragmentOf(e, n) <=> FragmentOf(e, slot)
  BY <1>3 DEF FragmentOf
<1>5. Marks(n) = Marks(slot) \cup {f}
  BY <1>1, <1>2, <1>3 DEF Marks, Slot
<1> HIDE DEF n
<1>6. Explains(d, n, f)
  <2>1. n.fragment_sizes[f] = Len(d.payload)
    BY <1>1, <1>2, <1>3 DEF Slot
  <2>2. ASSUME NEW b \in 1 .. Len(d.payload)
        PROVE  n.storage[PayloadOffset(d) + b] = d.payload[b]
    <3>1. PayloadOffset(d) = f * P
      BY DEF PayloadOffset
    <3>2. /\ PayloadOffset(d) + b \in Offsets
          /\ (PayloadOffset(d) + b) - PayloadOffset(d) = b
      <4> DEFINE m == f * P
      <4>1. m \in Nat /\ m + Len(d.payload) <= MaximumFramePayload
        BY <1>2
      <4> HIDE DEF m
      <4>2. m + b \in Offsets /\ (m + b) - m = b
        BY <1>2, <4>1, ReassemblerAssumption DEF Offsets
      <4> QED BY <3>1, <4>2 DEF m
    <3> QED BY <1>3, <3>2
  <2> QED BY <1>3, <1>4, <2>1, <2>2 DEF Explains
<1>7. ASSUME NEW g \in Marks(slot)
      PROVE  \E e \in seen : Explains(e, n, g)
  <2>1. PICK e \in seen : Explains(e, slot, g)
    BY DEF SlotHolds
  <2>2. Audio(e) /\ CanonicalShape(e)
    BY DEF Fits
  <2>3. /\ g \in FragmentIds /\ g # f /\ g < e.fragment_count
        /\ e.fragment_index = g /\ e.fragment_count = d.fragment_count
        /\ Len(e.payload) \in Nat
        /\ g * P + Len(e.payload) <= MaximumFramePayload
        /\ g \in Nat /\ g * P \in Nat
    BY <2>1, <2>2, CanonicalFragment, FragmentLimit DEF Explains, Marks
  <2>4. n.fragment_sizes[g] = Len(e.payload)
    BY <1>1, <1>3, <2>1, <2>3 DEF Explains, Slot
  <2>5. ASSUME NEW b \in 1 .. Len(e.payload)
        PROVE  n.storage[PayloadOffset(e) + b] = e.payload[b]
    <3>1. PayloadOffset(e) = g * P /\ PayloadOffset(d) = f * P
      BY <2>3 DEF PayloadOffset
    <3> DEFINE m == g * P
               k == f * P
    <3>2. m \in Nat /\ k \in Nat /\ m + Len(e.payload) <= MaximumFramePayload
      BY <1>2, <2>3
    <3>3. m + b \in Offsets
      <4> HIDE DEF m
      <4> QED BY <2>3, <3>2, ReassemblerAssumption DEF Offsets
    <3>4. ~ (m + b) - k \in 1 .. Len(d.payload)
      <4>1. CASE g < f
        <5>1. Len(e.payload) = P
          <6>1. e.fragment_index + 1 < e.fragment_count
            BY <1>2, <2>3, <4>1
          <6> QED BY <2>2, <6>1, FullFragment
        <5>2. m + P <= k
          BY <1>2, <2>3, <4>1, PlacesApart
        <5> HIDE DEF m, k
        <5> QED BY <1>2, <2>3, <3>2, <5>1, <5>2
      <4>2. CASE f < g
        <5>1. Len(d.payload) = P
          <6>1. d.fragment_index + 1 < d.fragment_count
            BY <1>2, <2>3, <4>2
          <6> QED BY <6>1, FullFragment
        <5>2. k + P <= m
          BY <1>2, <2>3, <4>2, PlacesApart
        <5> HIDE DEF m, k
        <5> QED BY <1>2, <2>3, <3>2, <5>1, <5>2
      <4> QED BY <1>2, <2>3, <4>1, <4>2
    <3>5. slot.storage[m + b] = e.payload[b]
      BY <2>1, <3>1 DEF Explains
    <3>6. /\ PayloadOffset(e) + b \in Offsets
          /\ ~ (PayloadOffset(e) + b) - PayloadOffset(d) \in 1 .. Len(d.payload)
          /\ slot.storage[PayloadOffset(e) + b] = e.payload[b]
      BY <3>1, <3>3, <3>4, <3>5
    <3> DEFINE o == PayloadOffset(e) + b
    <3>7. n.storage[o] = slot.storage[o]
      <4> HIDE DEF o
      <4>1. o \in Offsets /\ ~ o - PayloadOffset(d) \in 1 .. Len(d.payload)
        BY <3>6 DEF o
      <4> QED BY <1>3, <4>1
    <3> QED BY <3>6, <3>7
  <2>6. Explains(e, n, g)
    BY <1>3, <1>4, <2>1, <2>4, <2>5 DEF Explains
  <2> QED BY <2>6
<1>8. SlotHolds(n, seen \cup {d})
  BY <1>5, <1>6, <1>7 DEF SlotHolds
<1> QED BY <1>8 DEF n

\* A complete slot has every fragment of its frame.
LEMMA CompleteMarks ==
    ASSUME NEW slot, Consistent(slot), Complete(slot),
           slot.fragment_count \in Nat \ {0}
    PROVE  Marks(slot) = 0 .. slot.fragment_count - 1
<1> DEFINE count == slot.fragment_count
           last  == count - 1
<1>1. Cardinality(Marks(slot)) = count
  BY DEF Consistent, Complete
<1>2. Marks(slot) \subseteq 0 .. last
  BY DEF Marks, FragmentIds, Consistent
<1>3. IsFiniteSet(0 .. last) /\ Cardinality(0 .. last) = count
  <2>1. 0 \in Int /\ last \in Int /\ ~ 0 > last /\ last - 0 + 1 = count
    OBVIOUS
  <2> QED BY <2>1, FS_Interval
<1> QED BY <1>1, <1>2, <1>3, FS_Subset

\* The bytes of a complete slot all came in datagrams of its frame.
LEMMA CompleteHolds ==
    ASSUME NEW slot, Consistent(slot), Complete(slot), NEW seen, Fits(seen),
           SlotHolds(slot, seen),
           slot.fragment_count \in 1 .. MaximumFragmentCount
    PROVE  FrameHeld(FrameOf(slot), seen)
<1> DEFINE frame == FrameOf(slot)
           count == slot.fragment_count
           last  == count - 1
           size  == FramePayloadSize(slot)
           P     == MaximumPayloadSize
<1>1. /\ slot \in Slot /\ count \in Nat \ {0} /\ count <= MaximumFragmentCount
      /\ MaximumFragmentCount \in Nat /\ P \in Nat \ {0}
      /\ Cardinality(Marks(slot)) = count
  BY FragmentLimit, PacketAssumption DEF Consistent, Complete
<1>2. Marks(slot) = 0 .. last
  BY <1>1, CompleteMarks
<1>3. /\ last \in Nat /\ last \in Marks(slot) /\ last \in FragmentIds
      /\ last * P \in Nat
  <2>1. last \in Nat /\ last \in Marks(slot)
    BY <1>1, <1>2
  <2> QED BY <2>1, FragmentLimit DEF Marks
<1>4. /\ slot.fragment_sizes[last] \in Nat
      /\ size = last * P + slot.fragment_sizes[last]
  BY <1>1, <1>3 DEF FramePayloadSize, Slot
<1>5. /\ size \in Nat /\ Len(frame.payload) = size
      /\ \A o \in 1 .. size : frame.payload[o] = slot.storage[o]
  <2>1. size \in Nat
    BY <1>3, <1>4
  <2>2. frame.payload = [o \in 1 .. size |-> slot.storage[o]]
    BY DEF FrameOf
  <2> HIDE DEF size, frame
  <2> QED BY <2>1, <2>2
<1>6. \A f : FragmentOf(f, slot) <=> FragmentOf(f, frame)
  BY DEF FragmentOf, FrameOf
<1>7. ASSUME NEW o \in 1 .. size, NEW i \in Marks(slot),
             NEW f \in seen, Explains(f, slot, i),
             o - i * P \in 1 .. Len(f.payload)
      PROVE  /\ FragmentOf(f, frame)
             /\ o - PayloadOffset(f) \in 1 .. Len(f.payload)
             /\ frame.payload[o] = f.payload[o - PayloadOffset(f)]
  <2>1. PayloadOffset(f) = i * P
    BY <1>7 DEF Explains, PayloadOffset
  <2> DEFINE m == i * P
             b == o - m
  <2>2. m \in Nat /\ b \in 1 .. Len(f.payload) /\ m + b = o
    <3>1. m \in Nat
      BY FragmentLimit DEF Marks
    <3> HIDE DEF m
    <3>2. o \in Nat
      BY <1>5
    <3>3. m + (o - m) = o
      BY <3>1, <3>2
    <3> QED BY <1>7, <3>1, <3>3 DEF m
  <2>3. slot.storage[m + b] = f.payload[b]
    BY <1>7, <2>1, <2>2 DEF Explains
  <2> QED BY <1>5, <1>6, <1>7, <2>1, <2>2, <2>3 DEF Explains
<1> HIDE DEF frame
<1>8. ASSUME NEW o \in 1 .. size
      PROVE  \E f \in seen :
               /\ FragmentOf(f, frame)
               /\ o - PayloadOffset(f) \in 1 .. Len(f.payload)
               /\ frame.payload[o] = f.payload[o - PayloadOffset(f)]
  <2>1. CASE o > last * P
    <3>1. PICK f \in seen : Explains(f, slot, last)
      BY <1>3 DEF SlotHolds
    <3>2. o - last * P \in 1 .. Len(f.payload)
      <4>1. slot.fragment_sizes[last] = Len(f.payload)
        BY <3>1 DEF Explains
      <4> DEFINE m == last * P
                 z == slot.fragment_sizes[last]
      <4>2. m \in Nat /\ z \in Nat /\ size = m + z /\ o > m /\ o \in 1 .. size
        BY <1>3, <1>4, <2>1
      <4> HIDE DEF m, size, z
      <4>3. o - m \in 1 .. z
        BY <4>2
      <4> QED BY <4>1, <4>3 DEF m, z
    <3> QED BY <1>3, <1>7, <3>1, <3>2
  <2>2. CASE o <= last * P
    <3> DEFINE i == (o - 1) \div P
               m == i * P
    <3>1. o \in Nat /\ o >= 1
      BY <1>5
    <3>2. i \in Nat /\ m \in Nat /\ m <= o - 1 /\ o - 1 < m + P
      <4> DEFINE x == o - 1
      <4>1. x \in Nat
        BY <3>1
      <4> HIDE DEF x
      <4>2. /\ x \div P \in Int /\ x = P * (x \div P) + (x % P)
            /\ x % P \in 0 .. P - 1
        BY <1>1, <4>1
      <4> DEFINE k == x \div P
      <4>3. k \in Int /\ x = P * k + (x % P)
        BY <4>2
      <4> HIDE DEF k
      <4>4. k >= 0
        <5>1. CASE k <= -1
          <6>1. P * k <= -P
            BY <1>1, <4>3, <5>1
          <6> QED BY <1>1, <4>1, <4>2, <4>3, <6>1
        <5> QED BY <4>3, <5>1
      <4>5. k * P = P * k /\ k * P \in Nat
        BY <1>1, <4>3, <4>4
      <4>6. k * P <= x /\ x < k * P + P
        BY <1>1, <4>1, <4>2, <4>3, <4>5
      <4> QED BY <4>3, <4>4, <4>5, <4>6 DEF k, x
    <3> HIDE DEF i
    <3>3. i < last
      <4>1. SUFFICES ASSUME last <= i PROVE FALSE
        BY <1>3, <3>2
      <4>2. last * P <= m
        <5>1. CASE last = i
          BY <1>3, <3>2, <5>1
        <5>2. CASE last < i
          <6>1. last * P + P <= m
            BY <1>1, <1>3, <3>2, <5>2, PlacesApart
          <6> HIDE DEF m
          <6> QED BY <1>1, <1>3, <3>2, <6>1
        <5> QED BY <1>3, <3>2, <4>1, <5>1, <5>2
      <4> HIDE DEF m
      <4> QED BY <1>3, <2>2, <3>1, <3>2, <4>2
    <3>4. i \in Marks(slot)
      BY <1>2, <1>3, <3>2, <3>3
    <3>5. PICK f \in seen : Explains(f, slot, i)
      BY <3>4 DEF SlotHolds
    <3>6. Len(f.payload) = P
      <4>1. f.fragment_index = i /\ f.fragment_count = count
        BY <3>5 DEF Explains
      <4>2. f.fragment_index + 1 < f.fragment_count
        BY <1>1, <3>2, <3>3, <4>1
      <4> QED BY <4>2, FullFragment DEF Fits
    <3>7. o - i * P \in 1 .. Len(f.payload)
      <4> HIDE DEF m
      <4>1. o - m \in 1 .. P
        BY <1>1, <3>1, <3>2
      <4> QED BY <3>6, <4>1 DEF m
    <3> QED BY <1>7, <3>4, <3>5, <3>7
  <2>3. o \in Nat
    BY <1>5
  <2> QED BY <1>3, <2>1, <2>2, <2>3
<1>9. FrameHeld(frame, seen)
  BY <1>5, <1>8 DEF FrameHeld
<1> QED BY <1>9 DEF frame

\* What the session holds is accounted for by what it has seen.
Hoard(s, seen) ==
    /\ Fits(seen) /\ WindowHolds(s.reassembler, seen) /\ QueueHolds(s, seen)

\* Seeing more does no harm.
LEMMA HoldsMore ==
    ASSUME NEW seen, NEW more, seen \subseteq more
    PROVE  /\ \A slot : SlotHolds(slot, seen) => SlotHolds(slot, more)
           /\ \A frame : FrameHeld(frame, seen) => FrameHeld(frame, more)
<1>1. ASSUME NEW slot, SlotHolds(slot, seen) PROVE SlotHolds(slot, more)
  BY <1>1 DEF SlotHolds
<1>2. ASSUME NEW frame, FrameHeld(frame, seen) PROVE FrameHeld(frame, more)
  <2>1. SUFFICES ASSUME NEW o \in 1 .. Len(frame.payload)
                 PROVE  \E f \in more :
                          /\ FragmentOf(f, frame)
                          /\ o - PayloadOffset(f) \in 1 .. Len(f.payload)
                          /\ frame.payload[o] = f.payload[o - PayloadOffset(f)]
    BY DEF FrameHeld
  <2>2. PICK f \in seen :
          /\ FragmentOf(f, frame)
          /\ o - PayloadOffset(f) \in 1 .. Len(f.payload)
          /\ frame.payload[o] = f.payload[o - PayloadOffset(f)]
    BY <1>2 DEF FrameHeld
  <2> QED BY <2>2
<1> QED BY <1>1, <1>2

\* Blank slots hold nothing, so ageing and clearing leave nothing to explain.
LEMMA BlankHolds ==
    ASSUME NEW seen
    PROVE  /\ SlotHolds(EmptySlot, seen)
           /\ WindowHolds(ResetReassembler, seen)
           /\ \A r, now : WindowHolds(r, seen) => WindowHolds(Advanced(r, now), seen)
<1>1. SlotHolds(EmptySlot, seen)
  BY EmptySlotSound DEF Sound, SlotHolds
<1>2. WindowHolds(ResetReassembler, seen)
  BY <1>1 DEF WindowHolds, ResetReassembler
<1>3. ASSUME NEW r, NEW now, WindowHolds(r, seen)
      PROVE  WindowHolds(Advanced(r, now), seen)
  <2>1. \A i \in SlotIds : Advanced(r, now).slots[i] =
          IF i \in Expired(r, now) THEN EmptySlot ELSE r.slots[i]
    BY DEF Advanced, Released
  <2> QED BY <1>1, <1>3, <2>1 DEF WindowHolds
<1> QED BY <1>1, <1>2, <1>3

\* A session without queue and slots needs to have seen nothing.
LEMMA EmptyHoard ==
    ASSUME NEW s, s.queue_size = 0, s.reassembler = ResetReassembler
    PROVE  Hoard(s, {})
<1>1. \A i \in 1 .. s.queue_size : FALSE
  OBVIOUS
<1> QED BY <1>1, BlankHolds DEF Hoard, Fits, QueueHolds

\* A session with the same queue.
LEMMA SameQueue ==
    ASSUME NEW s, NEW t, t.frame_queue = s.frame_queue,
           t.queue_head = s.queue_head, t.queue_size = s.queue_size,
           NEW seen, QueueHolds(s, seen)
    PROVE  QueueHolds(t, seen)
<1>1. Queued(t) = Queued(s)
  BY DEF Queued, QueueSlot
<1> QED BY <1>1 DEF QueueHolds

\* Observing the time.
LEMMA ObservedHoard ==
    ASSUME IInv, Hoard(session, arrived), NEW now \in Nat
    PROVE  /\ Hoard(Observed(session, now), ObservedArrivals(now))
           /\ Hoard(AtFragment(now), ObservedArrivals(now))
<1> DEFINE aged == [session EXCEPT !.last_observed_time = now,
                                   !.reassembler = Advanced(@, now)]
           s    == Observed(session, now)
           seen == ObservedArrivals(now)
<1>1. session \in Session /\ SoundWindow(session.reassembler)
  BY DEF IInv, Inv
<1>2. /\ aged.reassembler = Advanced(session.reassembler, now)
      /\ aged.frame_queue = session.frame_queue
      /\ aged.queue_head = session.queue_head
      /\ aged.queue_size = session.queue_size
      /\ aged \in Session
  BY <1>1, AdvancedSound DEF Session, SoundWindow
<1> HIDE DEF aged
<1>3. Hoard(aged, arrived)
  <2>1. QueueHolds(aged, arrived)
    BY <1>2, SameQueue DEF Hoard
  <2>2. WindowHolds(aged.reassembler, arrived)
    BY <1>2, BlankHolds DEF Hoard
  <2> QED BY <2>1, <2>2 DEF Hoard
<1>4. s = IF TimesOut(session, now) THEN Cleared(aged) ELSE aged
  BY DEF Observed, aged
<1>5. Cleared(aged).queue_size = 0 /\ Cleared(aged).reassembler = ResetReassembler
      /\ Cleared(aged) \in Session
  <2>1. Cleared(aged).queue_size = 0 /\ Cleared(aged).reassembler = ResetReassembler
    BY <1>2 DEF Cleared, QueueCleared, Session
  <2>2. aged.last_liveness_time <= aged.last_observed_time => Cleared(aged) \in Session
    BY <1>2, ClearedInv DEF Inv
  <2>3. Cleared(aged) \in Session
    <3> DEFINE b == [aged EXCEPT !.last_liveness_time = 0]
    <3>1. b \in Session
      BY <1>2 DEF Session
    <3>2. b.last_liveness_time <= b.last_observed_time
      BY <1>2 DEF Session
    <3>3. Cleared(b) \in Session
      BY <3>1, <3>2, ClearedInv DEF Inv
    <3> DEFINE cb == Cleared(b)
    <3>4. Cleared(aged) = [cb EXCEPT !.last_liveness_time = aged.last_liveness_time]
      BY <1>2 DEF Cleared, QueueCleared, Session
    <3> HIDE DEF cb
    <3> QED BY <1>2, <3>3, <3>4 DEF cb, Session
  <2> QED BY <2>1, <2>3
<1>6. Hoard(s, seen) /\ s \in Session
  <2>1. CASE TimesOut(session, now)
    <3>1. s = Cleared(aged) /\ seen = {}
      BY <1>4, <2>1 DEF ObservedArrivals
    <3> HIDE DEF s, seen
    <3> QED BY <1>5, <3>1, EmptyHoard
  <2>2. CASE ~ TimesOut(session, now)
    BY <1>2, <1>3, <1>4, <2>2 DEF ObservedArrivals
  <2> QED BY <2>1, <2>2
<1> HIDE DEF s
<1>7. AtFragment(now) = [s EXCEPT !.reassembler = Advanced(@, now)]
  BY DEF AtFragment, s
<1>8. /\ AtFragment(now).reassembler = Advanced(s.reassembler, now)
      /\ AtFragment(now).frame_queue = s.frame_queue
      /\ AtFragment(now).queue_head = s.queue_head
      /\ AtFragment(now).queue_size = s.queue_size
  BY <1>6, <1>7 DEF Session
<1> DEFINE a == AtFragment(now)
<1> HIDE DEF a, seen
<1>9. Hoard(a, seen)
  <2>1. QueueHolds(a, seen)
    BY <1>6, <1>8, SameQueue DEF Hoard, a
  <2>2. WindowHolds(a.reassembler, seen)
    BY <1>6, <1>8, BlankHolds DEF Hoard, a
  <2> QED BY <1>6, <2>1, <2>2 DEF Hoard
<1> QED BY <1>6, <1>9 DEF a, seen, s

\* A fragment that is kept, in the window and in the frame it may complete.
LEMMA KeptFragment ==
    ASSUME NEW r, SoundWindow(r), NEW d, Audio(d), Refusal(r, d) = "none",
           NEW now \in Nat, NEW seen, WindowHolds(r, seen), Fits(seen)
    PROVE  /\ Fits(seen \cup {d})
           /\ WindowHolds(Accepted(r, d, now), seen \cup {d})
           /\ Completes(r, d, now) =>
                FrameHeld(CompletedFrame(r, d, now), seen \cup {d})
<1> DEFINE t    == TargetSlot(r, d)
           slot == SlotWith(r, d, now)
           next == IF Completes(r, d, now) THEN EmptySlot ELSE slot
           a    == Accepted(r, d, now)
           more == seen \cup {d}
<1>1. CanonicalShape(d) /\ t \in SlotIds
  BY TargetIsFit
<1>2. Fits(more)
  BY <1>1 DEF Fits
<1>3. SlotHolds(slot, more)
  <2>1. PICK open :
             /\ slot = Stored(open, d, now)
             /\ Consistent(open) /\ SlotHolds(open, seen)
             /\ FragmentOf(d, open) /\ open.fragment_count = d.fragment_count
             /\ d.fragment_index \notin Marks(open)
    BY OpenForFragment
  <2> HIDE DEF slot
  <2> QED BY <1>1, <2>1, StoredHolds
<1>4. a.slots = [r.slots EXCEPT ![t] = next]
  BY DEF Accepted, Released, SoundWindow, Reassembler
<1>5. \A i \in SlotIds : a.slots[i] = IF i = t THEN next ELSE r.slots[i]
  BY <1>1, <1>4 DEF SoundWindow, Reassembler
<1>6. SlotHolds(next, more)
  BY <1>3, BlankHolds
<1> HIDE DEF next, a, more
<1>7. \A i \in SlotIds : SlotHolds(r.slots[i], more)
  BY HoldsMore DEF WindowHolds, more
<1>8. WindowHolds(a, more)
  BY <1>5, <1>6, <1>7 DEF WindowHolds
<1>9. ASSUME Completes(r, d, now) PROVE FrameHeld(FrameOf(slot), more)
  <2>1. Consistent(slot) /\ slot.fragment_count \in 1 .. MaximumFragmentCount
    BY SlotWithFragment
  <2>2. Complete(slot)
    BY <1>9 DEF Completes
  <2> HIDE DEF slot
  <2> QED BY <1>2, <1>3, <2>1, <2>2, CompleteHolds
<1> QED BY <1>2, <1>8, <1>9 DEF CompletedFrame, a, more

\* A frame that is held joins a queue that is.
LEMMA FrameJoins ==
    ASSUME NEW s, Inv(s), NEW frame \in Frame, NEW seen, QueueHolds(s, seen),
           FrameHeld(frame, seen)
    PROVE  QueueHolds(WithFrame(s, frame), seen)
<1> DEFINE w == WithFrame(s, frame)
           q == Queued(s)
           p == Queued(w)
<1>1. /\ s \in Session /\ q \in Seq(Frame) /\ Len(q) = s.queue_size
      /\ QueueCapacity \in Nat \ {0}
  BY QueuedIsSeq, SessionAssumption DEF Inv
<1>2. p = IF StartsAnew(frame) THEN <<frame>>
          ELSE IF QueueFull(s) THEN Append(Tail(q), frame)
          ELSE Append(q, frame)
  BY QueuedWithFrame
<1>3. QueueFull(s) => q # <<>>
  BY <1>1 DEF QueueFull
<1>4. \A i \in 1 .. Len(q) : FrameHeld(q[i], seen)
  BY <1>1 DEF QueueHolds
<1>5. w.queue_size \in Nat /\ Len(p) = w.queue_size
  <2>1. w.queue_size \in Nat
    BY WithFrameMoves
  <2>2. p = [i \in 1 .. w.queue_size |-> w.frame_queue[QueueSlot(w, i - 1)]]
    BY DEF Queued
  <2> HIDE DEF w, p
  <2> QED BY <2>1, <2>2
<1>6. ASSUME NEW i \in 1 .. Len(p) PROVE FrameHeld(p[i], seen)
  <2> HIDE DEF w, p, q
  <2>1. CASE StartsAnew(frame)
    <3>1. p = <<frame>>
      BY <1>2, <2>1
    <3>2. p[i] = frame
      BY <3>1, <1>6
    <3> QED BY <3>2
  <2>2. CASE ~ StartsAnew(frame) /\ QueueFull(s)
    <3>1. p = Append(Tail(q), frame) /\ q # <<>>
      BY <1>2, <1>3, <2>2
    <3>2. p[i] = frame \/ \E j \in 1 .. Len(q) : p[i] = q[j]
      <4>1. /\ Tail(q) \in Seq(Frame) /\ Len(Tail(q)) = Len(q) - 1
            /\ \A j \in 1 .. Len(q) - 1 : Tail(q)[j] = q[j + 1]
        BY <1>1, <3>1
      <4>2. /\ Len(p) = Len(Tail(q)) + 1
            /\ \A j \in 1 .. Len(Tail(q)) : p[j] = Tail(q)[j]
            /\ p[Len(Tail(q)) + 1] = frame
        BY <3>1, <4>1
      <4>3. Len(q) \in Nat
        BY <1>1
      <4>4. CASE i = Len(Tail(q)) + 1
        BY <4>2, <4>4
      <4>5. CASE i # Len(Tail(q)) + 1
        <5>1. i \in 1 .. Len(Tail(q)) /\ i + 1 \in 1 .. Len(q)
          <6> DEFINE m == Len(Tail(q))
                     k == Len(q)
          <6>1. /\ m = k - 1 /\ k \in Nat /\ k >= 1 /\ i \in 1 .. m + 1
                /\ i # m + 1
            BY <1>1, <1>6, <3>1, <4>1, <4>2, <4>3, <4>5
          <6> HIDE DEF m, k
          <6>2. i \in 1 .. m /\ i + 1 \in 1 .. k
            BY <6>1
          <6> QED BY <6>2 DEF m, k
        <5>2. p[i] = q[i + 1]
          BY <4>1, <4>2, <5>1
        <5> QED BY <5>1, <5>2
      <4> QED BY <4>4, <4>5
    <3> QED BY <1>4, <3>2
  <2>3. CASE ~ StartsAnew(frame) /\ ~ QueueFull(s)
    <3>1. p = Append(q, frame)
      BY <1>2, <2>3
    <3>2. /\ Len(p) = Len(q) + 1 /\ Len(q) \in Nat
          /\ \A j \in 1 .. Len(q) : p[j] = q[j]
          /\ p[Len(q) + 1] = frame
      BY <1>1, <3>1
    <3>3. i = Len(q) + 1 \/ i \in 1 .. Len(q)
      BY <1>6, <3>2
    <3> QED BY <1>4, <3>2, <3>3
  <2> QED BY <2>1, <2>2, <2>3
<1> QED BY <1>5, <1>6 DEF QueueHolds

\* Every call keeps the account of the bytes.
LEMMA HoardStep ==
    IInv /\ Hoard(session, arrived) /\ [Next]_vars => Hoard(session, arrived)'
<1> SUFFICES ASSUME IInv, Hoard(session, arrived), [Next]_vars
             PROVE  Hoard(session', arrived')
  BY DEF Hoard, Fits, WindowHolds, QueueHolds
<1>1. \A now \in 0 .. MaxTime : now \in Nat
  BY SessionAssumption
<1>2. ASSUME NEW d \in Datagrams, NEW now \in 0 .. MaxTime, Accept(d, now)
      PROVE  Hoard(session', arrived')
  <2> DEFINE o    == Observed(session, now)
             seen == ObservedArrivals(now)
             s    == AtFragment(now)
             r    == s.reassembler
             w    == WithFragment(s, d, now)
  <2>1. now \in Nat
    BY <1>1
  <2>2. Hoard(o, seen) /\ Hoard(s, seen)
    BY <2>1, ObservedHoard
  <2>3. CASE \/ MalformedDatagram(d, now) \/ InvalidControlPayload(d, now)
             \/ RejectBeforeStart(d, now) \/ RejectWrongStream(d, now)
             \/ RejectReport(d, now)
    <3>1. session' = o /\ arrived' = seen
      BY <2>3 DEF MalformedDatagram, InvalidControlPayload, RejectBeforeStart,
                  RejectWrongStream, RejectReport, OnlyCounts
    <3> QED BY <2>2, <3>1
  <2>4. CASE AcceptStreamStart(d, now) \/ AcceptStreamStop(d, now)
    <3>1. TimeAdvances(now)
      BY <2>4 DEF AcceptStreamStart, AcceptStreamStop, Arrives
    <3>2. o \in Session /\ arrived' = {}
      BY <2>1, <2>4, <3>1, ObservedSession DEF AcceptStreamStart, AcceptStreamStop
    <3>3. \/ session' = StreamStarted(o, d, now)
          \/ session' = Cleared(o)
      BY <2>4 DEF AcceptStreamStart, AcceptStreamStop
    <3>4. /\ Cleared(o).queue_size = 0
          /\ Cleared(o).reassembler = ResetReassembler
      BY <3>2 DEF Cleared, QueueCleared, Session
    <3>5. /\ StreamStarted(o, d, now).queue_size = Cleared(o).queue_size
          /\ StreamStarted(o, d, now).reassembler = Cleared(o).reassembler
      BY DEF StreamStarted
    <3>6. session'.queue_size = 0 /\ session'.reassembler = ResetReassembler
      <4> HIDE DEF o
      <4> QED BY <3>3, <3>4, <3>5
    <3> QED BY <3>2, <3>6, EmptyHoard
  <2>5. CASE AcceptHeartbeat(d, now) \/ AcceptRemoteError(d, now)
    <3>1. TimeAdvances(now) /\ arrived' = seen
      BY <2>5 DEF AcceptHeartbeat, AcceptRemoteError, Arrives
    <3>2. o \in Session
      BY <2>1, <3>1, ObservedSession
    <3>3. /\ session'.queue_size = o.queue_size
          /\ session'.queue_head = o.queue_head
          /\ session'.frame_queue = o.frame_queue
          /\ session'.reassembler = o.reassembler
      BY <2>5, <3>2 DEF AcceptHeartbeat, AcceptRemoteError, Session
    <3> HIDE DEF o, seen
    <3>4. QueueHolds(session', seen)
      BY <2>2, <3>3, SameQueue DEF Hoard
    <3> QED BY <2>2, <3>1, <3>3, <3>4 DEF Hoard
  <2>6. CASE RefuseFragment(d, now)
    <3>1. session' = s /\ arrived' = seen
      BY <2>6 DEF RefuseFragment, Refused
    <3> QED BY <2>2, <3>1
  <2>7. CASE StoreFragment(d, now) \/ CompleteFrame(d, now)
    <3>1. AudioArrives(d, now) /\ Refusal(r, d) = "none" /\ arrived' = seen \cup {d}
      BY <2>7 DEF StoreFragment, CompleteFrame
    <3>2. /\ Inv(s) /\ s \in Session /\ SoundWindow(r) /\ Audio(d)
          /\ Streaming(s) /\ s.last_observed_time = now
          /\ s.active_stream_id = d.stream_id
      BY <2>1, <3>1, AudioMeets DEF Inv
    <3>3. /\ w.reassembler = Accepted(r, d, now)
          /\ w.queue_size = s.queue_size /\ w.queue_head = s.queue_head
          /\ w.frame_queue = s.frame_queue
      BY <3>2 DEF WithFragment, Session
    <3> HIDE DEF seen, s, w
    <3>4. /\ Fits(seen \cup {d})
          /\ WindowHolds(w.reassembler, seen \cup {d})
          /\ Completes(r, d, now) =>
                FrameHeld(CompletedFrame(r, d, now), seen \cup {d})
      BY <2>1, <2>2, <3>1, <3>2, <3>3, KeptFragment DEF Hoard
    <3>5. QueueHolds(w, seen \cup {d})
      <4>1. QueueHolds(w, seen)
        BY <2>2, <3>3, SameQueue DEF Hoard
      <4>2. \A frame : FrameHeld(frame, seen) => FrameHeld(frame, seen \cup {d})
        BY HoldsMore
      <4> QED BY <4>1, <4>2 DEF QueueHolds
    <3>6. CASE StoreFragment(d, now)
      <4>1. session' = w
        BY <3>6 DEF StoreFragment, w, s
      <4> QED BY <3>1, <3>4, <3>5, <4>1 DEF Hoard
    <3>7. CASE CompleteFrame(d, now)
      <4> DEFINE frame == CompletedFrame(r, d, now)
      <4>1. session' = WithFrame(w, frame) /\ Completes(r, d, now)
        BY <3>7 DEF CompleteFrame, w, s
      <4>2. Inv(w) /\ frame \in Frame
        BY <2>1, <3>1, <3>2, WithFragmentInv, CompletedFrameTyped DEF Frame, w
      <4>3. WithFrame(w, frame).reassembler = w.reassembler
        BY <4>2, WithFrameMoves
      <4>4. FrameHeld(frame, seen \cup {d})
        BY <3>4, <4>1
      <4> HIDE DEF frame
      <4>5. QueueHolds(WithFrame(w, frame), seen \cup {d})
        BY <3>5, <4>2, <4>4, FrameJoins
      <4> QED BY <3>1, <3>4, <4>1, <4>3, <4>5 DEF Hoard
    <3> QED BY <2>7, <3>6, <3>7
  <2> QED BY <1>2, <2>3, <2>4, <2>5, <2>6, <2>7 DEF Accept
<1>3. ASSUME NEW now \in 0 .. MaxTime, AdvanceTime(now)
      PROVE  Hoard(session', arrived')
  BY <1>1, <1>3, ObservedHoard DEF AdvanceTime
<1>4. CASE PopFrame
  <2> DEFINE t == OldestGone(session)
             q == Queued(session)
  <2>1. /\ session' = t /\ arrived' = arrived /\ session.queue_size # 0
        /\ Inv(session) /\ session \in Session
    BY <1>4 DEF PopFrame, IInv, Inv
  <2>2. Queued(t) = Tail(q) /\ t.queue_size = session.queue_size - 1
    BY <2>1, QueuedTail, OldestGoneInv
  <2>3. t.reassembler = session.reassembler
    BY DEF OldestGone
  <2>4. q \in Seq(Frame) /\ Len(q) = session.queue_size /\ session.queue_size \in Nat
    BY <2>1, QueuedIsSeq
  <2>5. ASSUME NEW i \in 1 .. t.queue_size PROVE FrameHeld(Queued(t)[i], arrived)
    <3>1. i + 1 \in 1 .. session.queue_size
      BY <2>2, <2>4
    <3>2. Tail(q)[i] = q[i + 1]
      <4> HIDE DEF q, t
      <4> QED BY <2>1, <2>2, <2>4
    <3> QED BY <2>2, <3>1, <3>2 DEF Hoard, QueueHolds
  <2> HIDE DEF t
  <2>6. QueueHolds(t, arrived)
    BY <2>5 DEF QueueHolds
  <2> QED BY <2>1, <2>3, <2>6 DEF Hoard, t
<1>5. CASE Reset
  <2>1. session'.queue_size = 0 /\ session'.reassembler = ResetReassembler
    BY <1>5 DEF Reset, Cleared, QueueCleared, IInv, Inv, Session
  <2> QED BY <1>5, <2>1, EmptyHoard DEF Reset
<1>6. CASE UNCHANGED vars
  BY <1>6 DEF vars
<1> QED BY <1>2, <1>3, <1>4, <1>5, <1>6 DEF Next

\* What the session holds is always accounted for.
THEOREM HoardAccounted == Spec => []Hoard(session, arrived)
<1>1. Init => Hoard(session, arrived)
  BY EmptyHoard DEF Init, NewSession
<1>2. IInv /\ Hoard(session, arrived) /\ [Next]_vars => Hoard(session, arrived)'
  BY HoardStep
<1> QED BY <1>1, <1>2, Invariance, PTL DEF Spec

\* A fragment that a slot claims to have arrived since the stream started,
\* and its bytes stand in their place (audio_frame.cpp:237-290).
THEOREM SlotsAreHonest == Spec => []SlotsHoldWhatArrived
<1>1. Hoard(session, arrived) => SlotsHoldWhatArrived
  BY DEF Hoard, WindowHolds, SlotHolds, Explains, Marks, SlotsHoldWhatArrived,
         ActiveSlots, InFlight
<1> QED BY <1>1, HoardAccounted, PTL

\* Each byte of a queued frame came in a fragment of that very frame, in the
\* stream that is active.
THEOREM QueueIsHonest == Spec => []QueueHoldsWhatArrived
<1>1. IInv /\ Hoard(session, arrived) => QueueHoldsWhatArrived
  <2> SUFFICES ASSUME IInv, Hoard(session, arrived),
                      NEW i \in 1 .. session.queue_size
               PROVE  /\ Streaming(session)
                      /\ Queued(session)[i].stream_id = session.active_stream_id
                      /\ FrameHeld(Queued(session)[i], arrived)
    BY DEF QueueHoldsWhatArrived, QueuedFrames, FrameHeld
  <2>1. session.queue_size \in Nat /\ i - 1 \in 0 .. session.queue_size - 1
    BY QueuedIsSeq DEF IInv, Inv
  <2>2. Streaming(session)
    BY <2>1 DEF IInv, Inv, Clean
  <2>3. Queued(session)[i].stream_id = session.active_stream_id
    BY <2>1 DEF Queued, IInv, Inv, OneStream
  <2> QED BY <2>2, <2>3 DEF Hoard, QueueHolds
<1> QED BY <1>1, HoardAccounted, Invariance, PTL

---------------------------------------------------------------------------
(* What keeps a session alive.                                             *)

\* No fragment arrived after the latest sign of life.
Timely(s) ==
    \A i \in SlotIds :
      s.reassembler.slots[i].last_arrival_time <= s.last_liveness_time

\* Blank slots were never touched.
LEMMA BlankTimely ==
    ASSUME NEW s, s.reassembler = ResetReassembler, s.last_liveness_time \in Nat
    PROVE  Timely(s)
BY DEF Timely, ResetReassembler, EmptySlot

\* Observing the time is no sign of life.
LEMMA ObservedAlive ==
    ASSUME IInv, NEW now \in Nat, TimeAdvances(now)
    PROVE  /\ Observed(session, now).last_liveness_time
                = session.last_liveness_time
           /\ AtFragment(now).last_liveness_time = session.last_liveness_time
           /\ AtFragment(now) \in Session
           /\ session.last_liveness_time \in Nat
           /\ session.last_liveness_time <= now
           /\ Timely(session) => /\ Timely(Observed(session, now))
                                 /\ Timely(AtFragment(now))
<1> DEFINE aged == [session EXCEPT !.last_observed_time = now,
                                   !.reassembler = Advanced(@, now)]
           s    == Observed(session, now)
           a    == AtFragment(now)
<1>1. session \in Session /\ SoundWindow(session.reassembler)
  BY DEF IInv, Inv
<1>2. /\ aged.reassembler = Advanced(session.reassembler, now)
      /\ aged.last_liveness_time = session.last_liveness_time
      /\ aged \in Session
  BY <1>1, AdvancedSound DEF Session, SoundWindow
<1> HIDE DEF aged
<1>3. s = IF TimesOut(session, now) THEN Cleared(aged) ELSE aged
  BY DEF Observed, aged
<1>4. /\ Cleared(aged).reassembler = ResetReassembler
      /\ Cleared(aged).last_liveness_time = session.last_liveness_time
  BY <1>2 DEF Cleared, QueueCleared, Session
<1>5. s \in Session /\ Inv(s)
  BY ObservedSession
<1>6. s.last_liveness_time = session.last_liveness_time
  BY <1>2, <1>3, <1>4
<1>7. session.last_liveness_time \in Nat /\ session.last_liveness_time <= now
  <2>1. /\ session.last_liveness_time \in Nat /\ session.last_observed_time \in Nat
        /\ session.last_liveness_time <= session.last_observed_time
        /\ session.last_observed_time <= now
    BY <1>1 DEF Session, IInv, Inv, Punctual, TimeAdvances
  <2> QED BY <2>1
<1>8. ASSUME NEW r, NEW l \in Nat,
             \A i \in SlotIds : r.slots[i].last_arrival_time <= l
      PROVE  \A i \in SlotIds : Advanced(r, now).slots[i].last_arrival_time <= l
  <2>1. \A i \in SlotIds : Advanced(r, now).slots[i] =
          IF i \in Expired(r, now) THEN EmptySlot ELSE r.slots[i]
    BY DEF Advanced, Released
  <2>2. EmptySlot.last_arrival_time <= l
    BY DEF EmptySlot
  <2> QED BY <1>8, <2>1, <2>2
<1>9. ASSUME Timely(session) PROVE Timely(s)
  <2>1. Timely(aged)
    BY <1>2, <1>7, <1>8, <1>9 DEF Timely
  <2>2. Timely(Cleared(aged))
    BY <1>4, <1>7, BlankTimely
  <2> HIDE DEF s
  <2> QED BY <1>3, <2>1, <2>2
<1> HIDE DEF s
<1>10. a = [s EXCEPT !.reassembler = Advanced(@, now)]
  BY DEF AtFragment, s
<1>11. /\ a.reassembler = Advanced(s.reassembler, now)
       /\ a.last_liveness_time = s.last_liveness_time
       /\ a \in Session
  BY <1>5, <1>10, AdvancedSound DEF Session, SoundWindow, Inv
<1> HIDE DEF a
<1>12. ASSUME Timely(s) PROVE Timely(a)
  BY <1>6, <1>7, <1>8, <1>11, <1>12 DEF Timely
<1> QED BY <1>6, <1>7, <1>9, <1>11, <1>12 DEF a, s

\* A fragment that is kept is a sign of life.
LEMMA KeptTimely ==
    ASSUME NEW s, Inv(s), Timely(s), NEW d, Audio(d), NEW now \in Nat,
           s.last_observed_time = now, Refusal(s.reassembler, d) = "none"
    PROVE  Timely(WithFragment(s, d, now))
<1> DEFINE r    == s.reassembler
           t    == TargetSlot(r, d)
           next == IF Completes(r, d, now) THEN EmptySlot ELSE SlotWith(r, d, now)
           a    == Accepted(r, d, now)
           w    == WithFragment(s, d, now)
<1>1. s \in Session /\ SoundWindow(r) /\ s.last_liveness_time <= now
  BY DEF Inv, Punctual
<1>2. t \in SlotIds
  BY <1>1, TargetIsFit
<1>3. a.slots = [r.slots EXCEPT ![t] = next]
  BY <1>1 DEF Accepted, Released, SoundWindow, Reassembler
<1>4. \A i \in SlotIds : a.slots[i] = IF i = t THEN next ELSE r.slots[i]
  BY <1>1, <1>2, <1>3 DEF SoundWindow, Reassembler
<1>5. next.last_arrival_time <= now
  <2>1. SlotWith(r, d, now).last_arrival_time = now
    BY <1>1, SlotWithFragment
  <2>2. EmptySlot.last_arrival_time = 0
    BY DEF EmptySlot
  <2> QED BY <2>1, <2>2
<1> HIDE DEF next, a
<1>6. \A i \in SlotIds : r.slots[i].last_arrival_time <= now
  <2>1. ASSUME NEW i \in SlotIds PROVE r.slots[i].last_arrival_time <= now
    <3>1. r.slots[i].last_arrival_time <= s.last_liveness_time
      BY DEF Timely
    <3>2. r.slots[i].last_arrival_time \in Nat /\ s.last_liveness_time \in Nat
      BY <1>1 DEF SoundWindow, Reassembler, Slot, Session
    <3> QED BY <1>1, <3>1, <3>2
  <2> QED BY <2>1
<1>7. w.reassembler = a /\ w.last_liveness_time = now
  BY <1>1 DEF WithFragment, Session, a
<1> QED BY <1>4, <1>5, <1>6, <1>7 DEF Timely

\* Queueing a frame does not touch the slots or the liveness time.
LEMMA WithFrameTimes ==
    ASSUME NEW s, Inv(s), NEW frame
    PROVE  /\ WithFrame(s, frame).reassembler = s.reassembler
           /\ WithFrame(s, frame).last_liveness_time = s.last_liveness_time
BY DEF WithFrame, Enqueued, AtTail, OldestGone, QueueCleared

\* Every call keeps the times in order.
LEMMA TimelyStep == IInv /\ Timely(session) /\ [Next]_vars => Timely(session)'
<1> SUFFICES ASSUME IInv, Timely(session), [Next]_vars PROVE Timely(session')
  BY DEF Timely
<1>1. \A now \in 0 .. MaxTime : now \in Nat
  BY SessionAssumption
<1>2. ASSUME NEW d \in Datagrams, NEW now \in 0 .. MaxTime, Accept(d, now)
      PROVE  Timely(session')
  <2> DEFINE o == Observed(session, now)
             s == AtFragment(now)
             r == s.reassembler
             w == WithFragment(s, d, now)
  <2>1. now \in Nat /\ TimeAdvances(now)
    BY <1>1, <1>2 DEF Accept, MalformedDatagram, AcceptStreamStart,
          InvalidControlPayload, RejectBeforeStart, RejectWrongStream,
          AcceptStreamStop, AcceptHeartbeat, AcceptRemoteError, RejectReport,
          RefuseFragment, StoreFragment, CompleteFrame, AudioArrives, Arrives
  <2>2. /\ Timely(o) /\ Timely(s) /\ Inv(o) /\ o \in Session
        /\ o.last_liveness_time \in Nat /\ o.last_liveness_time <= now
    BY <2>1, ObservedAlive, ObservedSession
  <2>3. CASE \/ MalformedDatagram(d, now) \/ InvalidControlPayload(d, now)
             \/ RejectBeforeStart(d, now) \/ RejectWrongStream(d, now)
             \/ RejectReport(d, now)
    <3>1. session' = o
      BY <2>3 DEF MalformedDatagram, InvalidControlPayload, RejectBeforeStart,
                  RejectWrongStream, RejectReport, OnlyCounts
    <3> QED BY <2>2, <3>1
  <2>4. CASE AcceptStreamStart(d, now) \/ AcceptStreamStop(d, now)
    <3>1. \/ session' = StreamStarted(o, d, now)
          \/ session' = Cleared(o)
      BY <2>4 DEF AcceptStreamStart, AcceptStreamStop
    <3>2. /\ Cleared(o).reassembler = ResetReassembler /\ Cleared(o) \in Session
          /\ Cleared(o).last_liveness_time = o.last_liveness_time
      BY <2>2, ClearedInv DEF Cleared, QueueCleared, Session, Inv, Punctual
    <3>3. /\ StreamStarted(o, d, now).reassembler = Cleared(o).reassembler
          /\ StreamStarted(o, d, now).last_liveness_time = now
      <4> DEFINE c == Cleared(o)
      <4> HIDE DEF c
      <4>1. StreamStarted(o, d, now) =
              [c EXCEPT !.state = "streaming", !.active_stream_id = d.stream_id,
                        !.active_format = d.content, !.last_liveness_time = now]
        BY DEF StreamStarted, c
      <4>2. c \in Session
        BY <3>2 DEF c
      <4> QED BY <4>1, <4>2 DEF Session, c
    <3>4. /\ session'.reassembler = ResetReassembler
          /\ session'.last_liveness_time \in Nat
      <4> HIDE DEF o
      <4> QED BY <2>1, <2>2, <3>1, <3>2, <3>3
    <3> QED BY <3>4, BlankTimely
  <2>5. CASE AcceptHeartbeat(d, now) \/ AcceptRemoteError(d, now)
    <3>1. session'.reassembler = o.reassembler /\ session'.last_liveness_time = now
      BY <2>2, <2>5 DEF AcceptHeartbeat, AcceptRemoteError, Session
    <3>2. ASSUME NEW i \in SlotIds
          PROVE  o.reassembler.slots[i].last_arrival_time <= now
      <4>1. o.reassembler.slots[i].last_arrival_time <= o.last_liveness_time
        BY <2>2 DEF Timely
      <4>2. o.reassembler.slots[i].last_arrival_time \in Nat
        BY <2>2 DEF Session, Reassembler, Slot
      <4> HIDE DEF o
      <4> QED BY <2>1, <2>2, <4>1, <4>2
    <3> QED BY <3>1, <3>2 DEF Timely
  <2>6. CASE RefuseFragment(d, now)
    <3>1. session' = s
      BY <2>6 DEF RefuseFragment, Refused
    <3> QED BY <2>2, <3>1
  <2>7. CASE StoreFragment(d, now) \/ CompleteFrame(d, now)
    <3>1. AudioArrives(d, now) /\ Refusal(r, d) = "none"
      BY <2>7 DEF StoreFragment, CompleteFrame
    <3>2. /\ Inv(s) /\ Audio(d) /\ Streaming(s) /\ s.last_observed_time = now
          /\ s.active_stream_id = d.stream_id
      BY <2>1, <3>1, AudioMeets
    <3> HIDE DEF s
    <3>3. Timely(w) /\ Inv(w)
      BY <2>1, <2>2, <3>1, <3>2, KeptTimely, WithFragmentInv
    <3>4. session' = w \/ \E frame : session' = WithFrame(w, frame)
      BY <2>7 DEF StoreFragment, CompleteFrame, s
    <3> HIDE DEF w
    <3> QED BY <3>3, <3>4, WithFrameTimes DEF Timely
  <2> QED BY <1>2, <2>3, <2>4, <2>5, <2>6, <2>7 DEF Accept
<1>3. ASSUME NEW now \in 0 .. MaxTime, AdvanceTime(now) PROVE Timely(session')
  BY <1>1, <1>3, ObservedAlive DEF AdvanceTime
<1>4. CASE PopFrame
  BY <1>4 DEF PopFrame, OldestGone, Timely
<1>5. CASE Reset
  <2>1. /\ session'.last_liveness_time = 0
        /\ session'.reassembler = ResetReassembler
    BY <1>5 DEF Reset, Cleared, QueueCleared, IInv, Inv, Session
  <2> QED BY <2>1, BlankTimely
<1>6. CASE UNCHANGED vars
  BY <1>6 DEF vars
<1> QED BY <1>2, <1>3, <1>4, <1>5, <1>6 DEF Next

\* The times are always in order.
THEOREM TimesInOrder == Spec => []Timely(session)
<1>1. Init => Timely(session)
  BY BlankTimely DEF Init, NewSession
<1>2. IInv /\ Timely(session) /\ [Next]_vars => Timely(session)'
  BY TimelyStep
<1> QED BY <1>1, <1>2, Invariance, PTL DEF Spec

KeptAlive ==
    session'.last_liveness_time > session.last_liveness_time =>
      \/ \E name \in {"stream_starts", "heartbeats", "remote_errors",
                      "completed_frames"} : counters'[name] # counters[name]
      \/ \E i \in SlotIds :
           LET old == session.reassembler.slots[i]
               new == session'.reassembler.slots[i]
           IN  new.active /\ new.last_arrival_time > old.last_arrival_time

\* A counter that can hold two values moves when it counts.
LEMMA CounterMoves ==
    ASSUME CounterModulus > 1, NEW x \in Counter
    PROVE  (x + 1) % CounterModulus # x
<1>1. CounterModulus \in Nat /\ x \in 0 .. CounterModulus - 1
  BY SessionAssumption DEF Counter
<1>2. CASE x + 1 < CounterModulus
  <2>1. (x + 1) % CounterModulus = x + 1
    BY <1>1, <1>2
  <2> QED BY <1>1, <2>1
<1>3. CASE x + 1 = CounterModulus
  <2>1. (x + 1) % CounterModulus = 0
    <3>1. CounterModulus % CounterModulus = 0
      <4>1. CounterModulus \in Nat \ {0}
        BY SessionAssumption
      <4>2. CounterModulus = CounterModulus * 1 + 0
        BY <1>1
      <4> QED BY <4>1, <4>2
    <3> QED BY <1>3, <3>1
  <2> QED BY <1>1, <1>3, <2>1
<1> QED BY <1>1, <1>2, <1>3

\* A datagram counted under a name of its own moves that counter.
LEMMA TallyMoves ==
    ASSUME IInv, CounterModulus > 1, NEW now, NEW names,
           NEW name \in {"stream_starts", "heartbeats", "remote_errors",
                         "completed_frames"},
           name \in names
    PROVE  /\ Tally(now, names)[name] # counters[name]
           /\ FragmentCounters(now, names)[name] # counters[name]
<1>1. CountersTyped(counters) /\ counters[name] \in Counter
  BY DEF IInv, CountersTyped, CounterNames
<1> DEFINE o == ObservedCounters(now)
           t == Tally(now, names)
<1>2. o[name] = counters[name]
  BY DEF ObservedCounters, CountExpired, Add, Count, CounterNames
<1>3. t[name] = (o[name] + 1) % CounterModulus
  BY DEF Tally, Count, CounterNames
<1>4. FragmentCounters(now, names)[name] = t[name]
  <2> HIDE DEF t
  <2> QED BY DEF FragmentCounters, CountExpired, Add, t
<1> HIDE DEF o, t
<1> QED BY <1>1, <1>2, <1>3, <1>4, CounterMoves DEF t

\* A step that moves the liveness time took accepted traffic.
LEMMA KeptAliveStep ==
    ASSUME CounterModulus > 1
    PROVE  IInv /\ Timely(session) /\ [Next]_vars => KeptAlive
<1> SUFFICES ASSUME IInv, Timely(session), [Next]_vars,
                    session'.last_liveness_time > session.last_liveness_time,
                    \A name \in {"stream_starts", "heartbeats", "remote_errors",
                                 "completed_frames"} :
                      counters'[name] = counters[name]
             PROVE  \E i \in SlotIds :
                      /\ session'.reassembler.slots[i].active
                      /\ session'.reassembler.slots[i].last_arrival_time
                           > session.reassembler.slots[i].last_arrival_time
  BY DEF KeptAlive
<1> DEFINE before == session.last_liveness_time
<1>1. before \in Nat /\ session \in Session
  BY DEF IInv, Inv, Session
<1>2. \A now \in 0 .. MaxTime : now \in Nat
  BY SessionAssumption
<1>3. session'.last_liveness_time # before
  BY <1>1
<1>4. PICK d \in Datagrams, now \in 0 .. MaxTime : Accept(d, now)
  <2>1. ASSUME NEW now \in 0 .. MaxTime, AdvanceTime(now) PROVE FALSE
    BY <1>2, <1>3, <2>1, ObservedAlive DEF AdvanceTime
  <2>2. CASE PopFrame
    BY <1>3, <2>2 DEF PopFrame, OldestGone
  <2>3. CASE Reset
    <3>1. session'.last_liveness_time = 0
      BY <2>3 DEF Reset, Cleared, QueueCleared, IInv, Inv, Session
    <3> QED BY <1>1, <3>1
  <2>4. CASE UNCHANGED vars
    BY <1>3, <2>4 DEF vars
  <2> QED BY <2>1, <2>2, <2>3, <2>4 DEF Next
<1> DEFINE o == Observed(session, now)
           s == AtFragment(now)
           r == s.reassembler
           w == WithFragment(s, d, now)
<1>5. now \in Nat /\ TimeAdvances(now)
  BY <1>2, <1>4 DEF Accept, MalformedDatagram, AcceptStreamStart,
        InvalidControlPayload, RejectBeforeStart, RejectWrongStream,
        AcceptStreamStop, AcceptHeartbeat, AcceptRemoteError, RejectReport,
        RefuseFragment, StoreFragment, CompleteFrame, AudioArrives, Arrives
<1>6. /\ o.last_liveness_time = before /\ s.last_liveness_time = before
      /\ o \in Session
  BY <1>5, ObservedAlive, ObservedSession
<1>7. StoreFragment(d, now)
  <2>1. CASE \/ MalformedDatagram(d, now) \/ InvalidControlPayload(d, now)
             \/ RejectBeforeStart(d, now) \/ RejectWrongStream(d, now)
             \/ RejectReport(d, now)
    <3>1. session' = o
      BY <2>1 DEF MalformedDatagram, InvalidControlPayload, RejectBeforeStart,
                  RejectWrongStream, RejectReport, OnlyCounts
    <3> QED BY <1>3, <1>6, <3>1
  <2>2. CASE AcceptStreamStart(d, now)
    <3>1. \E names : "stream_starts" \in names /\ counters' = Tally(now, names)
      BY <2>2 DEF AcceptStreamStart
    <3> QED BY <3>1, TallyMoves
  <2>3. CASE AcceptStreamStop(d, now)
    <3>1. session' = Cleared(o)
      BY <2>3 DEF AcceptStreamStop
    <3>2. Cleared(o).last_liveness_time = o.last_liveness_time
      BY <1>6 DEF Cleared, QueueCleared, Session
    <3> QED BY <1>3, <1>6, <3>1, <3>2
  <2>4. CASE AcceptHeartbeat(d, now)
    <3>1. counters' = Tally(now, {"heartbeats"})
      BY <2>4 DEF AcceptHeartbeat
    <3> QED BY <3>1, TallyMoves
  <2>5. CASE AcceptRemoteError(d, now)
    <3>1. counters' = Tally(now, {"remote_errors"})
      BY <2>5 DEF AcceptRemoteError
    <3> QED BY <3>1, TallyMoves
  <2>6. CASE RefuseFragment(d, now)
    <3>1. session' = s
      BY <2>6 DEF RefuseFragment, Refused
    <3> QED BY <1>3, <1>6, <3>1
  <2>7. CASE CompleteFrame(d, now)
    <3>1. \E names : /\ "completed_frames" \in names
                     /\ counters' = FragmentCounters(now, names)
      BY <2>7 DEF CompleteFrame, CompletionCounters
    <3> QED BY <3>1, TallyMoves
  <2> QED BY <1>4, <2>1, <2>2, <2>3, <2>4, <2>5, <2>6, <2>7 DEF Accept
<1>8. /\ session' = w /\ Refusal(r, d) = "none" /\ ~ Completes(r, d, now)
      /\ AudioArrives(d, now)
  BY <1>7 DEF StoreFragment
<1>9. Inv(s) /\ s \in Session /\ SoundWindow(r) /\ Audio(d)
  BY <1>5, <1>8, AudioMeets DEF Inv
<1> DEFINE t == TargetSlot(r, d)
           slot == SlotWith(r, d, now)
<1>10. t \in SlotIds /\ slot.active /\ slot.last_arrival_time = now
  BY <1>5, <1>8, <1>9, TargetIsFit, SlotWithFragment
<1>11. session'.reassembler.slots[t] = slot /\ session'.last_liveness_time = now
  <2>1. w.reassembler = Accepted(r, d, now) /\ w.last_liveness_time = now
    BY <1>9 DEF WithFragment, Session
  <2>2. Accepted(r, d, now).slots = [r.slots EXCEPT ![t] = slot]
    BY <1>8, <1>9 DEF Accepted, SoundWindow, Reassembler
  <2>3. Accepted(r, d, now).slots[t] = slot
    <3>1. r.slots \in [SlotIds -> Slot]
      BY <1>9 DEF SoundWindow, Reassembler
    <3> HIDE DEF slot, t
    <3> QED BY <1>10, <2>2, <3>1
  <2> QED BY <1>8, <2>1, <2>3
<1>12. session.reassembler.slots[t].last_arrival_time < now
  <2>1. session.reassembler.slots[t].last_arrival_time <= before
    BY <1>10 DEF Timely
  <2>2. session.reassembler.slots[t].last_arrival_time \in Nat
    BY <1>1, <1>10 DEF Session, Reassembler, Slot
  <2>3. before < now
    BY <1>11
  <2> HIDE DEF before, t
  <2> QED BY <1>1, <1>5, <2>1, <2>2, <2>3
<1>13. slot.last_arrival_time > session.reassembler.slots[t].last_arrival_time
  BY <1>10, <1>12
<1> QED BY <1>10, <1>11, <1>13

\* Only accepted traffic of the active stream moves the liveness time
\* (session.cpp:57-61, 115, 158-223), whenever a counter can hold two values.
THEOREM AcceptedTrafficKeepsAlive ==
    ASSUME CounterModulus > 1
    PROVE  Spec => OnlyAcceptedTrafficKeepsAlive
<1>1. IInv /\ Timely(session) /\ [Next]_vars => [KeptAlive]_vars
  BY KeptAliveStep
<1> QED BY <1>1, Invariance, TimesInOrder, PTL
        DEF Spec, OnlyAcceptedTrafficKeepsAlive, KeptAlive

---------------------------------------------------------------------------
(* What was sent.                                                          *)

\* Taking the index off the number of a fragment gives the number of the
\* first, though both wrap.
LEMMA NumbersUnwrap ==
    ASSUME NEW S \in Nat \ {0}, NEW a \in 0 .. S - 1, NEW i \in Nat
    PROVE  (((a + i) % S) + S - (i % S)) % S = a
<1> DEFINE x == a + i
<1>1. x \in Nat /\ a \in Int
  OBVIOUS
<1>2. PICK k \in Int, y \in 0 .. S - 1 : y = x % S /\ x = S * k + y
  <2> HIDE DEF x
  <2>1. /\ x \div S \in Int /\ x % S \in 0 .. S - 1
        /\ x = S * (x \div S) + (x % S)
    BY <1>1
  <2> QED BY <2>1
<1>3. PICK l \in Int, j \in 0 .. S - 1 : j = i % S /\ i = S * l + j
  <2>1. /\ i \div S \in Int /\ i % S \in 0 .. S - 1
        /\ i = S * (i \div S) + (i % S)
    OBVIOUS
  <2> QED BY <2>1
<1> DEFINE z == y + S - j
<1>4. z \in Nat
  OBVIOUS
<1>5. PICK m \in Int, r \in 0 .. S - 1 : r = z % S /\ z = S * m + r
  <2> HIDE DEF z
  <2>1. /\ z \div S \in Int /\ z % S \in 0 .. S - 1
        /\ z = S * (z \div S) + (z % S)
    BY <1>4
  <2> QED BY <2>1
<1> DEFINE n == m + k - 1 - l
<1>6. n \in Int /\ S * n = S * m + S * k - S - S * l
  OBVIOUS
<1> DEFINE sm == S * m
           sk == S * k
           sl == S * l
<1>7. sm \in Int /\ sk \in Int /\ sl \in Int
  OBVIOUS
<1>8. a = (sm + sk - S - sl) + r
  <2>1. a + i = sk + y /\ i = sl + j /\ y + S - j = sm + r
    BY <1>2, <1>3, <1>5
  <2>2. y \in Int /\ j \in Int /\ r \in Int
    OBVIOUS
  <2> HIDE DEF sm, sk, sl
  <2> QED BY <1>1, <1>7, <2>1, <2>2
<1>9. S * 0 + a = S * n + r
  BY <1>6, <1>8
<1>10. a = r
  <2> HIDE DEF n
  <2> QED BY <1>6, <1>9, OneRemainder
<1> QED BY <1>2, <1>3, <1>5, <1>10

\* The parts of a frame: each of the size that the reassembler asks for, the
\* last up to the end of the payload, and no more of them than it can mark.
LEMMA FragmentSizes ==
    ASSUME NEW frame \in Frame, Sender!ValidFrame(frame),
           NEW i \in 0 .. Sender!FragmentCount(frame) - 1
    PROVE  LET count == Sender!FragmentCount(frame)
               size  == Len(Sender!FragmentPayload(frame, i))
               n     == Len(frame.payload)
           IN  /\ Sender!FragmentPayload(frame, i) \in Seq(Nat)
               /\ n \in Nat /\ size \in 0 .. MaximumPayloadSize
               /\ count \in 1 .. MaximumFragmentCount
               /\ i * MaximumPayloadSize + size <= n
               /\ i + 1 = count => i * MaximumPayloadSize + size = n
               /\ Sender!Silent(frame) => count = 1 /\ size = 0
               /\ ~ Sender!Silent(frame) =>
                    size # 0 /\ (i + 1 # count => size = MaximumPayloadSize)
<1> DEFINE P == MaximumPayloadSize
           p == frame.payload
           n == Len(p)
           count == Sender!FragmentCount(frame)
           part == Sender!FragmentPayload(frame, i)
           size == Len(part)
           M == MaximumFramePayload
           most == MaximumFragmentCount
<1>1. P \in Nat \ {0} /\ p \in Seq(Nat) /\ n \in Nat /\ M \in Nat \ {0}
  BY PacketAssumption, ReassemblerAssumption DEF Frame
<1>2. n <= M /\ (Sender!Silent(frame) <=> p = <<>>)
  BY DEF Sender!ValidFrame
<1>3. /\ most \in Int /\ P * most <= M + P - 1 /\ M + P - 1 < P * most + P
      /\ most > 0
  <2>1. most = (M + P - 1) \div P
    BY DEF MaximumFragmentCount
  <2> HIDE DEF most, M, P
  <2>2. M + P - 1 \in Nat
    BY <1>1
  <2>3. most \in Int /\ P * most <= M + P - 1 /\ M + P - 1 < P * most + P
    BY <1>1, <2>1, <2>2
  <2>4. SUFFICES ASSUME most <= 0 PROVE FALSE
    BY <2>3
  <2>5. P * most <= 0
    BY <1>1, <2>3, <2>4
  <2> QED BY <1>1, <2>3, <2>5
<1>4. part = SubSeq(p, i * P + 1, IF (i + 1) * P < n THEN (i + 1) * P ELSE n)
  BY DEF Sender!FragmentPayload
<1>5. CASE Sender!Silent(frame)
  <2>1. p = <<>> /\ n = 0 /\ count = 1
    BY <1>2, <1>5 DEF Sender!FragmentCount
  <2>2. i = 0
    BY <2>1
  <2>3. i * P = 0 /\ (i + 1) * P = P
    BY <1>1, <2>2
  <2>4. part = SubSeq(p, 1, 0)
    BY <1>1, <1>4, <2>1, <2>3
  <2>5. part \in Seq(Nat) /\ size = 0
    BY <1>1, <2>4
  <2> HIDE DEF part, n, count, most, p, P
  <2> QED BY <1>1, <1>3, <1>5, <2>1, <2>2, <2>3, <2>5 DEF size, part, n, count, most, p, P
<1>6. CASE ~ Sender!Silent(frame)
  <2>1. count = (n + P - 1) \div P /\ n # 0
    <3>1. n # 0
      BY <1>1, <1>2, <1>6
    <3> QED BY <1>6, <3>1 DEF Sender!FragmentCount
  <2>2. count \in Int /\ P * count <= n + P - 1 /\ n + P - 1 < P * count + P
    <3> HIDE DEF n, P, count
    <3>1. n + P - 1 \in Nat
      BY <1>1
    <3> QED BY <1>1, <2>1, <3>1
  <2> HIDE DEF n, P, count, M, most
  <2>3. i \in Nat /\ i + 1 <= count
    BY <2>2 DEF count
  <2>4. count > 0 /\ count <= most
    <3>1. SUFFICES ASSUME most < count PROVE FALSE
      BY <1>3, <2>2, <2>3
    <3>2. P * most + P <= P * count
      <4> DEFINE k == count - most - 1
      <4>1. k \in Nat /\ count = most + 1 + k
        BY <1>3, <2>2, <3>1
      <4>2. P * (most + 1 + k) = P * most + P + P * k /\ P * k \in Nat
        BY <1>1, <1>3, <4>1
      <4> DEFINE pk == P * k
                 pm == P * most
                 pc == P * (most + 1 + k)
      <4>3. pk \in Nat /\ pm \in Int /\ pc = pm + P + pk /\ P * count = pc
        BY <1>1, <1>3, <4>1, <4>2
      <4> HIDE DEF k, pk, pm, pc
      <4>4. pm + P <= pc
        BY <1>1, <4>3
      <4> QED BY <4>3, <4>4 DEF pm
    <3> DEFINE pm == P * most
               pc == P * count
    <3>3. pm \in Int /\ pc \in Int
      BY <1>1, <1>3, <2>2
    <3> HIDE DEF pm, pc
    <3>4. pm + P <= pc /\ M + P - 1 < pm + P /\ pc <= n + P - 1
      BY <1>3, <2>2, <3>2 DEF pm, pc
    <3> QED BY <1>1, <1>2, <3>3, <3>4 DEF M, n
  <2> DEFINE m == i * P
             m1 == (i + 1) * P
             pc == P * count
             hi == IF m1 < n THEN m1 ELSE n
  <2>5. m \in Nat /\ m1 = m + P /\ pc \in Nat
    BY <1>1, <2>2, <2>3, <2>4
  <2>6. /\ m + P <= pc
        /\ i + 1 # count => m1 + P <= pc
        /\ i + 1 = count => m1 = pc
    <3> DEFINE k == count - i - 1
    <3>1. k \in Nat /\ count = i + 1 + k
      BY <2>2, <2>3
    <3>2. P * (i + 1 + k) = i * P + P + P * k /\ P * k \in Nat
      BY <1>1, <2>3, <3>1
    <3> DEFINE pk == P * k
    <3>3. pk \in Nat /\ pc = m + P + pk
      BY <3>1, <3>2
    <3>4. i + 1 # count => P <= pk
      <4>1. ASSUME i + 1 # count PROVE k >= 1
        BY <2>2, <2>3, <4>1
      <4>2. k \in Nat /\ (k >= 1 => P <= P * k)
        <5> HIDE DEF k
        <5>1. ASSUME k >= 1 PROVE P <= P * k
          <6>1. k - 1 \in Nat /\ P * (k - 1) \in Nat /\ P * k = P * (k - 1) + P
            BY <1>1, <3>1, <5>1
          <6> DEFINE q == P * (k - 1)
                     r == P * k
          <6>2. q \in Nat /\ r = q + P
            BY <6>1
          <6> HIDE DEF q, r
          <6>3. P <= r
            BY <1>1, <6>2
          <6> QED BY <6>3 DEF r
        <5> QED BY <3>1, <5>1
      <4> QED BY <4>1, <4>2
    <3>5. i + 1 = count => pk = 0
      <4>1. ASSUME i + 1 = count PROVE k = 0
        BY <2>2, <2>3, <4>1
      <4> QED BY <1>1, <4>1
    <3> HIDE DEF pk, pc, m, m1, k
    <3> QED BY <1>1, <2>5, <3>3, <3>4, <3>5
  <2>7. part = SubSeq(p, m + 1, hi) /\ n = Len(p)
    BY <1>4 DEF n, P
  <2>8. pc <= n + P - 1 /\ n <= pc
    BY <1>1, <2>2, <2>5
  <2> HIDE DEF m, m1, pc, p, part
  <2>9. /\ hi \in Nat /\ m < n /\ m < hi /\ hi <= n /\ hi <= m + P
        /\ i + 1 = count => hi = n
        /\ i + 1 # count => hi = m + P
    <3>1. m < n
      BY <1>1, <2>5, <2>6, <2>8
    <3>2. CASE i + 1 = count
      <4>1. m1 = pc /\ ~ m1 < n
        BY <1>1, <2>5, <2>6, <2>8, <3>2
      <4> QED BY <1>1, <2>5, <2>8, <3>1, <3>2, <4>1
    <3>3. CASE i + 1 # count
      <4>1. m1 < n
        BY <1>1, <2>5, <2>6, <2>8, <3>3
      <4> QED BY <1>1, <2>5, <2>8, <3>1, <3>3, <4>1
    <3> QED BY <3>2, <3>3
  <2> HIDE DEF hi
  <2>10. part \in Seq(Nat) /\ size = hi - m
    <3>1. m + 1 \in 1 .. hi /\ hi \in 1 .. Len(p)
      BY <1>1, <2>5, <2>7, <2>9
    <3>2. Len(SubSeq(p, m + 1, hi)) = hi - m
      BY <1>1, <2>5, <2>7, <2>9, <3>1
    <3>3. SubSeq(p, m + 1, hi) \in Seq(Nat)
      BY <1>1, <2>5, <2>9, <3>1
    <3> QED BY <2>7, <3>2, <3>3
  <2>11. /\ size \in 0 .. P /\ m + size <= n /\ size # 0
         /\ i + 1 = count => m + size = n
         /\ i + 1 # count => size = P
         /\ count \in 1 .. most
    BY <1>1, <1>3, <2>2, <2>4, <2>5, <2>9, <2>10
  <2> QED BY <1>1, <1>6, <2>10, <2>11 DEF size, part, n, count, most, p, P, m
<1> QED BY <1>5, <1>6

\* A byte of a fragment is the byte of the frame at its place.
LEMMA FragmentBytes ==
    ASSUME NEW frame \in Frame, NEW i \in Nat,
           NEW b \in 1 .. Len(Sender!FragmentPayload(frame, i))
    PROVE  /\ i * MaximumPayloadSize + b \in 1 .. Len(frame.payload)
           /\ Sender!FragmentPayload(frame, i)[b]
                = frame.payload[i * MaximumPayloadSize + b]
<1> DEFINE P  == MaximumPayloadSize
           p  == frame.payload
           n  == Len(p)
           m  == i * P
           hi == IF (i + 1) * P < n THEN (i + 1) * P ELSE n
<1>1. P \in Nat \ {0} /\ p \in Seq(Nat) /\ n \in Nat
  BY PacketAssumption, SentAssumption DEF Frame
<1>2. m \in Nat /\ (i + 1) * P \in Nat
  BY <1>1
<1>3. hi \in Nat /\ hi <= n
  <2> DEFINE h == (i + 1) * P
  <2> HIDE DEF h, n
  <2>1. (IF h < n THEN h ELSE n) \in Nat /\ (IF h < n THEN h ELSE n) <= n
    BY <1>1, <1>2 DEF h
  <2> QED BY <2>1 DEF h
<1>4. Sender!FragmentPayload(frame, i) = SubSeq(p, m + 1, hi)
  BY DEF Sender!FragmentPayload
<1> HIDE DEF p, m, hi, n
<1>5. n = Len(p)
  BY DEF n
<1>6. CASE m + 1 > hi
  <2>1. Len(SubSeq(p, m + 1, hi)) = 0
    BY <1>1, <1>2, <1>3, <1>5, <1>6
  <2>2. b \in 1 .. 0
    BY <1>4, <2>1
  <2> QED BY <2>2
<1>7. CASE m + 1 <= hi
  <2>1. /\ Len(SubSeq(p, m + 1, hi)) = hi - m
        /\ \A c \in 1 .. hi - m : SubSeq(p, m + 1, hi)[c] = p[m + c]
    <3>1. m + 1 \in 1 .. hi /\ hi \in 1 .. Len(p)
      BY <1>1, <1>2, <1>3, <1>5, <1>7
    <3>2. Len(SubSeq(p, m + 1, hi)) = hi - m
      BY <1>1, <1>2, <1>3, <1>5, <1>7, <3>1
    <3>3. ASSUME NEW c \in 1 .. hi - m PROVE SubSeq(p, m + 1, hi)[c] = p[m + c]
      <4>1. (m + 1) + c - 1 = m + c
        BY <1>2
      <4>2. SubSeq(p, m + 1, hi)[c] = p[(m + 1) + c - 1]
        BY <1>1, <1>2, <1>3, <1>5, <1>7, <3>1, <3>2
      <4> QED BY <4>1, <4>2
    <3> QED BY <3>2, <3>3
  <2>2. b \in 1 .. hi - m
    BY <1>4, <2>1
  <2>3. m + b \in 1 .. n
    BY <1>1, <1>2, <1>3, <2>2
  <2> QED BY <1>4, <2>1, <2>2, <2>3 DEF m, n, p
<1> QED BY <1>2, <1>3, <1>6, <1>7

\* What fragment_audio_frame makes of a frame it takes, parse_datagram and
\* validate_fragment_shape take: encode_header never fails
\* (audio_frame.cpp:121-128), no fragment is malformed, and all of them count
\* from the same first sequence number, also where it wraps.
THEOREM FragmentsAreTaken ==
    ASSUME NEW frame \in Frame, frame.first_sequence_number < SequenceModulus,
           NEW d \in Sender!FragmentAudioFrame(frame)
    PROVE  /\ d \in Datagram /\ d.type = "audio"
           /\ ParsesOk(d) /\ CanonicalShape(d)
           /\ FirstSequence(d) = frame.first_sequence_number
<1> DEFINE P == MaximumPayloadSize
           count == Sender!FragmentCount(frame)
<1>1. Sender!ValidFrame(frame) /\ \E i \in 0 .. count - 1 : d = Sender!FragmentDatagram(frame, i)
  BY DEF Sender!FragmentAudioFrame
<1>2. PICK i \in 0 .. count - 1 : d = Sender!FragmentDatagram(frame, i)
  BY <1>1
<1> DEFINE part == Sender!FragmentPayload(frame, i)
           size == Len(part)
           n == Len(frame.payload)
<1>3. /\ part \in Seq(Nat) /\ n \in Nat /\ size \in 0 .. P
      /\ count \in 1 .. MaximumFragmentCount
      /\ i * P + size <= n
      /\ Sender!Silent(frame) => count = 1 /\ size = 0
      /\ ~ Sender!Silent(frame) => size # 0 /\ (i + 1 # count => size = P)
  BY <1>1, FragmentSizes
<1>4. /\ P \in Nat \ {0} /\ PacketHeaderSize \in Nat /\ SequenceModulus \in Nat \ {0}
      /\ MaximumFramePayload \in Nat \ {0} /\ MaximumFragmentCount \in Nat /\ i \in Nat
  BY PacketAssumption, ReassemblerAssumption, FragmentLimit
<1>5. /\ d.size = PacketHeaderSize + size /\ d.magic = TRUE
      /\ d.version = ProtocolVersion /\ d.type = "audio"
      /\ d.flags = frame.flags /\ d.stream_id = frame.stream_id
      /\ d.sequence_number = (frame.first_sequence_number + i) % SequenceModulus
      /\ d.timestamp_samples = frame.timestamp_samples
      /\ d.payload_size = size /\ d.fragment_index = i
      /\ d.fragment_count = count /\ d.frame_id = frame.frame_id
      /\ d.payload = part /\ d.content = InvalidContent
  BY <1>2 DEF Sender!FragmentDatagram, Sender!ProtocolVersion, ProtocolVersion,
              Sender!InvalidContent, InvalidContent
<1>6. /\ frame.stream_id \in Nat /\ frame.first_sequence_number \in Nat
      /\ frame.timestamp_samples \in Nat /\ frame.frame_id \in Nat
      /\ frame.flags \in Nat
  BY DEF Frame
<1>7. /\ frame.stream_id # 0 /\ frame.frame_id # 0 /\ ~ UnknownFlags(frame.flags)
      /\ n <= MaximumFramePayload
      /\ Sender!Silent(frame) <=> HasFlag(frame.flags, FlagSilence)
  <2>1. /\ Sender!UnknownFlags(frame.flags) <=> UnknownFlags(frame.flags)
        /\ Sender!Silent(frame) <=> HasFlag(frame.flags, FlagSilence)
    BY DEF Sender!UnknownFlags, UnknownFlags, Sender!KnownFlagMask, KnownFlagMask,
           Sender!FlagDiscontinuity, FlagDiscontinuity, Sender!FlagSilence,
           FlagSilence, Sender!Silent, Sender!HasFlag, HasFlag
  <2> QED BY <1>1, <2>1 DEF Sender!ValidFrame
<1>8. d \in Datagram
  <2>1. (frame.first_sequence_number + i) % SequenceModulus \in Nat
    BY <1>4, <1>6
  <2>2. PacketHeaderSize + size \in Nat /\ size \in Nat /\ count \in Nat
    <3> HIDE DEF size, count, P
    <3> QED BY <1>3, <1>4
  <2> QED BY <1>2, <1>3, <1>4, <1>6, <2>1, <2>2
          DEF Sender!FragmentDatagram, Datagram, PacketTypes,
              Sender!ProtocolVersion, Sender!InvalidContent
<1> HIDE DEF size, count, P, part, n
<1>9. ParsesOk(d)
  <2>1. d.fragment_count # 0 /\ d.fragment_index < d.fragment_count
    BY <1>3, <1>4, <1>5
  <2>2. ValidAudioHeader(d)
    BY <1>3, <1>5, <1>7 DEF ValidAudioHeader
  <2>3. ValidPayloadSize(d.type, d.payload_size)
    BY <1>3, <1>5 DEF ValidPayloadSize, P
  <2>4. ValidHeader(d)
    BY <1>5, <1>7, <2>1, <2>2, <2>3 DEF ValidHeader, PacketTypes
  <2>5. /\ d.size >= PacketHeaderSize /\ d.size <= PacketHeaderSize + P
        /\ d.size - PacketHeaderSize = d.payload_size
    BY <1>3, <1>4, <1>5
  <2> QED BY <1>5, <2>4, <2>5 DEF ParsesOk, P
<1>10. CanonicalShape(d)
  <2>1. d.fragment_count <= MaximumFragmentCount
    BY <1>3, <1>4, <1>5
  <2>2. Len(d.payload) = size
    BY <1>5 DEF size
  <2>3. i * P + size <= MaximumFramePayload
    <3> DEFINE m == i * P
    <3>1. m \in Nat /\ m + size <= n
      BY <1>3, <1>4
    <3> HIDE DEF m
    <3>2. m + size <= MaximumFramePayload
      BY <1>3, <1>4, <1>7, <3>1
    <3> QED BY <3>2 DEF m
  <2>4. size = 0 <=> part = <<>>
    BY <1>3 DEF size
  <2>5. CASE Sender!Silent(frame)
    BY <1>3, <1>4, <1>5, <1>7, <2>1, <2>4, <2>5 DEF CanonicalShape
  <2>6. CASE ~ Sender!Silent(frame)
    BY <1>3, <1>4, <1>5, <1>7, <2>1, <2>2, <2>3, <2>4, <2>6 DEF CanonicalShape, P
  <2> QED BY <2>5, <2>6
<1>11. FirstSequence(d) = frame.first_sequence_number
  <2> DEFINE a == frame.first_sequence_number
             S == SequenceModulus
  <2>1. S \in Nat \ {0} /\ a \in 0 .. S - 1 /\ i \in Nat
    BY <1>4, <1>6
  <2>2. (((a + i) % S) + S - (i % S)) % S = a
    <3> HIDE DEF a, S
    <3> QED BY <2>1, NumbersUnwrap
  <2> QED BY <1>5, <2>2 DEF FirstSequence
<1> QED BY <1>5, <1>8, <1>9, <1>10, <1>11

\* A fragment that is taken is one of a sent frame, whose header it repeats.
LEMMA FragmentWasSent ==
    ASSUME NEW d \in Datagrams, Audio(d), CanonicalShape(d)
    PROVE  \E frame \in SentFrames :
             /\ FragmentOf(d, frame) /\ Sender!ValidFrame(frame)
             /\ d.fragment_count = Sender!FragmentCount(frame)
             /\ d.fragment_index \in 0 .. Sender!FragmentCount(frame) - 1
             /\ d.payload = Sender!FragmentPayload(frame, d.fragment_index)
<1>1. d \in Parsed /\ d.type = "audio"
  BY DEF Audio, Parsed
<1>2. PICK frame \in SentFrames : d \in Sender!FragmentAudioFrame(frame)
  BY <1>1, SentAssumption
<1>3. /\ Sender!ValidFrame(frame)
      /\ \E i \in 0 .. Sender!FragmentCount(frame) - 1 :
           d = Sender!FragmentDatagram(frame, i)
  BY <1>2 DEF Sender!FragmentAudioFrame
<1>4. PICK i \in 0 .. Sender!FragmentCount(frame) - 1 :
           d = Sender!FragmentDatagram(frame, i)
  BY <1>3
<1>5. /\ d.fragment_index = i /\ d.fragment_count = Sender!FragmentCount(frame)
      /\ d.payload = Sender!FragmentPayload(frame, i)
      /\ d.stream_id = frame.stream_id /\ d.frame_id = frame.frame_id
      /\ d.timestamp_samples = frame.timestamp_samples
      /\ d.flags = frame.flags
      /\ d.sequence_number = (frame.first_sequence_number + i) % SequenceModulus
  BY <1>4 DEF Sender!FragmentDatagram
<1>6. FirstSequence(d) = frame.first_sequence_number
  BY <1>2, SentAssumption, FragmentsAreTaken
<1> QED BY <1>3, <1>5, <1>6 DEF FragmentOf

\* A complete slot is a frame that was sent: its fragments are of one sent
\* frame, of which each brought its part.
LEMMA FrameOfIsSent ==
    ASSUME NEW slot, Consistent(slot), Complete(slot),
           slot.fragment_count \in 1 .. MaximumFragmentCount,
           NEW seen, seen \subseteq Datagrams, Fits(seen), SlotHolds(slot, seen)
    PROVE  FrameOf(slot) \in SentFrames
<1> DEFINE P     == MaximumPayloadSize
           held  == FrameOf(slot)
           last  == slot.fragment_count - 1
           size  == FramePayloadSize(slot)
<1>1. /\ slot \in Slot /\ slot.fragment_count \in Nat \ {0}
      /\ last \in Nat /\ Marks(slot) = 0 .. last /\ last \in Marks(slot)
  <2>1. slot.fragment_count \in Nat \ {0}
    BY FragmentLimit
  <2> QED BY <2>1, CompleteMarks DEF Consistent
<1>2. ASSUME NEW e \in seen
      PROVE  \E frame \in SentFrames :
               /\ FragmentOf(e, frame) /\ Sender!ValidFrame(frame)
               /\ e.fragment_count = Sender!FragmentCount(frame)
               /\ e.fragment_index \in 0 .. Sender!FragmentCount(frame) - 1
               /\ e.payload = Sender!FragmentPayload(frame, e.fragment_index)
  BY <1>2, FragmentWasSent DEF Fits
<1>3. PICK e \in seen : Explains(e, slot, last)
  BY <1>1 DEF SlotHolds
<1>4. PICK frame \in SentFrames :
         /\ FragmentOf(e, frame) /\ Sender!ValidFrame(frame)
         /\ e.fragment_count = Sender!FragmentCount(frame)
         /\ e.fragment_index \in 0 .. Sender!FragmentCount(frame) - 1
         /\ e.payload = Sender!FragmentPayload(frame, e.fragment_index)
  BY <1>2
<1>5. /\ frame \in Frame /\ frame.payload \in Seq(Nat)
      /\ frame.stream_id = slot.stream_id /\ frame.frame_id = slot.frame_id
      /\ frame.timestamp_samples = slot.timestamp_samples
      /\ frame.flags = slot.flags
      /\ frame.first_sequence_number = slot.first_sequence_number
  BY <1>3, <1>4, SentAssumption DEF Explains, FragmentOf, Frame
<1>6. ASSUME NEW g \in seen, FragmentOf(g, held)
      PROVE  /\ FragmentOf(g, frame)
             /\ g.payload = Sender!FragmentPayload(frame, g.fragment_index)
  <2>1. PICK other \in SentFrames :
           /\ FragmentOf(g, other)
           /\ g.payload = Sender!FragmentPayload(other, g.fragment_index)
    BY <1>2
  <2>2. FragmentOf(g, slot)
    BY <1>6 DEF FragmentOf, FrameOf
  <2>3. SameHeader(other, frame)
    BY <1>5, <2>1, <2>2 DEF SameHeader, FragmentOf
  <2>4. other = frame
    BY <2>3, SentAssumption
  <2> QED BY <2>1, <2>4
<1>7. size = Len(frame.payload) /\ size \in Nat
  <2>1. /\ e.fragment_index = last
        /\ last = Sender!FragmentCount(frame) - 1
        /\ slot.fragment_sizes[last] = Len(e.payload)
    BY <1>3, <1>4 DEF Explains
  <2>2. last * P + Len(e.payload) = Len(frame.payload)
        /\ Len(frame.payload) \in Nat /\ Len(e.payload) \in Nat
    <3>1. last \in 0 .. Sender!FragmentCount(frame) - 1
          /\ last + 1 = Sender!FragmentCount(frame)
      <4>1. Sender!FragmentCount(frame) \in Nat
        BY <1>4 DEF Fits, Audio, Datagram
      <4> QED BY <1>1, <1>4, <2>1, <4>1
    <3>2. e.payload = Sender!FragmentPayload(frame, last)
      BY <1>4, <2>1
    <3> HIDE DEF last
    <3> QED BY <1>4, <1>5, <3>1, <3>2, FragmentSizes
  <2>3. size = last * P + Len(e.payload)
    BY <2>1 DEF FramePayloadSize
  <2> DEFINE m == last * P
             n == Len(frame.payload)
             l == Len(e.payload)
  <2>4. n \in Nat /\ m + l = n /\ size = m + l
    BY <2>2, <2>3
  <2> HIDE DEF m, n, l, size
  <2>5. size = n /\ size \in Nat
    BY <2>4
  <2> QED BY <2>5 DEF n
<1>8. /\ held.payload = [o \in 1 .. size |-> slot.storage[o]]
      /\ Len(held.payload) = size
  <2>1. held.payload = [o \in 1 .. size |-> slot.storage[o]]
    BY DEF FrameOf
  <2> HIDE DEF size, held
  <2> QED BY <1>7, <2>1
<1>9. FrameHeld(held, seen)
  BY CompleteHolds
<1>10. ASSUME NEW o \in 1 .. size PROVE slot.storage[o] = frame.payload[o]
  <2>1. PICK g \in seen :
           /\ FragmentOf(g, held)
           /\ o - PayloadOffset(g) \in 1 .. Len(g.payload)
           /\ held.payload[o] = g.payload[o - PayloadOffset(g)]
    BY <1>8, <1>9 DEF FrameHeld
  <2> DEFINE i == g.fragment_index
             b == o - i * P
  <2>2. i \in Nat /\ i * P \in Nat
    <3>1. i \in Nat
      BY DEF Fits, Audio, Datagram
    <3> QED BY <3>1, PacketAssumption
  <2>3. /\ g.payload = Sender!FragmentPayload(frame, i)
        /\ b \in 1 .. Len(g.payload) /\ held.payload[o] = g.payload[b]
    BY <1>6, <2>1 DEF PayloadOffset
  <2>4. Sender!FragmentPayload(frame, i)[b] = frame.payload[i * P + b]
    <3> HIDE DEF i, b
    <3> QED BY <1>5, <2>2, <2>3, FragmentBytes
  <2>5. i * P + b = o
    <3> DEFINE m == i * P
    <3>1. m + (o - m) = o
      <4> HIDE DEF m
      <4> QED BY <1>7, <2>2 DEF m
    <3> QED BY <3>1
  <2> HIDE DEF i, b, held, size
  <2> QED BY <1>8, <2>3, <2>4, <2>5
<1>11. held.payload = frame.payload
  <2> DEFINE p == frame.payload
             h == held.payload
  <2>1. /\ p \in Seq(Nat) /\ size = Len(p)
        /\ h = [o \in 1 .. size |-> slot.storage[o]]
        /\ \A o \in 1 .. size : slot.storage[o] = p[o]
    BY <1>5, <1>7, <1>8, <1>10
  <2> HIDE DEF p, h, size
  <2>2. p = [o \in 1 .. Len(p) |-> p[o]]
    BY <2>1
  <2>3. h = p
    BY <2>1, <2>2
  <2> QED BY <2>3 DEF h, p
<1>12. held = frame
  BY <1>5, <1>11 DEF FrameOf, Frame
<1> QED BY <1>12

\* A frame completed in the window is a frame that was sent.
LEMMA CompletedIsSent ==
    ASSUME NEW r, SoundWindow(r), NEW d \in Datagrams, Audio(d),
           Refusal(r, d) = "none", NEW now \in Nat, Completes(r, d, now),
           NEW seen, seen \subseteq Datagrams, Fits(seen), WindowHolds(r, seen)
    PROVE  CompletedFrame(r, d, now) \in SentFrames
<1> DEFINE slot == SlotWith(r, d, now)
           more == seen \cup {d}
<1>1. CanonicalShape(d)
  BY TargetIsFit
<1>2. PICK open :
         /\ slot = Stored(open, d, now)
         /\ Consistent(open) /\ SlotHolds(open, seen)
         /\ FragmentOf(d, open) /\ open.fragment_count = d.fragment_count
         /\ d.fragment_index \notin Marks(open)
  BY OpenForFragment
<1>3. /\ Consistent(slot) /\ Complete(slot)
      /\ slot.fragment_count \in 1 .. MaximumFragmentCount
  BY SlotWithFragment DEF Completes
<1>4. Fits(more) /\ more \subseteq Datagrams
  BY <1>1 DEF Fits
<1> HIDE DEF slot
<1>5. SlotHolds(slot, more)
  BY <1>1, <1>2, StoredHolds
<1> HIDE DEF more
<1>6. FrameOf(slot) \in SentFrames
  BY <1>3, <1>4, <1>5, FrameOfIsSent
<1> QED BY <1>6 DEF CompletedFrame, slot

---------------------------------------------------------------------------
(* The session implements its contract.  What the contract shows of it is  *)
(* the identifier of the stream and the queue, so each call is a step of   *)
(* the contract or changes neither.                                        *)

\* A session with a stream names it.
Named(s) == Streaming(s) => s.active_stream_id # 0

\* What the contract does not see changes.
SameView(s, t) ==
    /\ t.active_stream_id = s.active_stream_id
    /\ t.frame_queue = s.frame_queue
    /\ t.queue_head = s.queue_head /\ t.queue_size = s.queue_size

Emptied(t) == t \in Session /\ t.active_stream_id = 0 /\ t.queue_size = 0

LEMMA EmptyQueue ==
    ASSUME NEW s, s \in Session, s.queue_size = 0
    PROVE  Queued(s) = <<>>
<1> DEFINE q == Queued(s)
<1>1. q \in Seq(Frame) /\ Len(q) = 0
  BY QueuedIsSeq
<1> HIDE DEF q
<1>2. q = <<>>
  BY <1>1
<1> QED BY <1>2 DEF q

\* A session that looks the same takes no step of the contract.
LEMMA NothingSeen ==
    ASSUME SameView(session, session')
    PROVE  [Contract!Next]_(Contract!contract)
<1>1. Queued(session') = Queued(session)
  BY DEF SameView, Queued, QueueSlot
<1> QED BY <1>1 DEF SameView, Contract!contract

\* One that is emptied ends its stream, if it has one.
LEMMA EndSeen ==
    ASSUME Inv(session), Named(session), Emptied(session')
    PROVE  [Contract!Next]_(Contract!contract)
<1>1. Queued(session') = <<>> /\ session'.active_stream_id = 0
  BY EmptyQueue DEF Emptied
<1>2. CASE Streaming(session)
  <2>1. session.active_stream_id # 0
    BY <1>2 DEF Named
  <2>2. Contract!End
    BY <1>1, <2>1 DEF Contract!End, Contract!NoStream
  <2> QED BY <2>2 DEF Contract!Next
<1>3. CASE ~ Streaming(session)
  <2>1. session.active_stream_id = 0 /\ session.queue_size = 0
    BY <1>3 DEF Inv, Clean, NoStream
  <2>2. Queued(session) = <<>>
    BY <2>1, EmptyQueue DEF Inv
  <2> QED BY <1>1, <2>1, <2>2 DEF Contract!contract
<1> QED BY <1>2, <1>3

\* What observing the time does: it empties a session that had a stream,
\* or shows nothing.
LEMMA ObservedView ==
    ASSUME IInv, NEW now \in Nat, TimeAdvances(now)
    PROVE  LET o == Observed(session, now)
           IN  /\ Emptied(o) \/ SameView(session, o)
               /\ Streaming(o) => Streaming(session) /\ SameView(session, o)
<1> DEFINE aged == [session EXCEPT !.last_observed_time = now,
                                   !.reassembler = Advanced(@, now)]
           o    == Observed(session, now)
<1>1. session \in Session /\ o \in Session
  BY ObservedSession DEF IInv, Inv
<1>2. SameView(session, aged) /\ aged.state = session.state
  BY <1>1 DEF SameView, Session
<1>3. CASE TimesOut(session, now)
  <2>1. o = Cleared(aged)
    BY <1>3 DEF Observed
  <2>2. /\ Cleared(aged).state = "idle" /\ Cleared(aged).queue_size = 0
        /\ Cleared(aged).active_stream_id = 0
    BY <1>1 DEF Cleared, QueueCleared, NoStream, Session
  <2> HIDE DEF o
  <2> QED BY <1>1, <2>1, <2>2 DEF Emptied, Streaming, o
<1>4. CASE ~ TimesOut(session, now)
  <2>1. o = aged
    BY <1>4 DEF Observed
  <2> HIDE DEF o, aged
  <2> QED BY <1>2, <2>1 DEF Streaming, o
<1> QED BY <1>3, <1>4

\* Looking the same is transitive, and being emptied shows.
LEMMA ViewsCompose ==
    ASSUME NEW a, NEW b, NEW c, SameView(b, c)
    PROVE  /\ SameView(a, b) => SameView(a, c)
           /\ Emptied(b) /\ c \in Session => Emptied(c)
BY DEF SameView, Emptied

\* A call that leaves what observing the time left.
LEMMA ObservedSeen ==
    ASSUME IInv, Named(session), NEW now \in Nat, TimeAdvances(now),
           session' \in Session, SameView(Observed(session, now), session')
    PROVE  [Contract!Next]_(Contract!contract)
<1> DEFINE o == Observed(session, now)
<1>1. Emptied(o) \/ SameView(session, o)
  BY ObservedView
<1> HIDE DEF o
<1>2. Emptied(session') \/ SameView(session, session')
  BY <1>1, ViewsCompose DEF o
<1> QED BY <1>2, NothingSeen, EndSeen DEF IInv

\* The newest frames of a queue that one frame more may overfill.
LEMMA NewestAppend ==
    ASSUME NEW q \in Seq(Frame), Len(q) <= QueueCapacity, NEW frame \in Frame
    PROVE  Contract!Newest(Append(q, frame)) =
             IF Len(q) = QueueCapacity THEN Append(Tail(q), frame)
             ELSE Append(q, frame)
<1> DEFINE a == Append(q, frame)
           n == Len(q)
           C == QueueCapacity
<1>1. /\ n \in Nat /\ C \in Nat \ {0} /\ a \in Seq(Frame) /\ Len(a) = n + 1
      /\ a[n + 1] = frame /\ \A i \in 1 .. n : a[i] = q[i]
  BY SessionAssumption
<1>2. Contract!Newest(a) =
        SubSeq(a, IF Len(a) > C THEN Len(a) - C + 1 ELSE 1, Len(a))
  BY DEF Contract!Newest
<1>3. CASE n = C
  <2> DEFINE t == Append(Tail(q), frame)
             s == SubSeq(a, 2, n + 1)
  <2>1. Contract!Newest(a) = s
    <3>1. Len(a) > C /\ Len(a) - C + 1 = 2
      BY <1>1, <1>3
    <3> HIDE DEF a
    <3> QED BY <1>1, <1>2, <3>1
  <2>2. /\ Tail(q) \in Seq(Frame) /\ Len(Tail(q)) = n - 1
        /\ \A i \in 1 .. n - 1 : Tail(q)[i] = q[i + 1]
    <3>1. q # <<>>
      BY <1>1, <1>3
    <3> QED BY <3>1
  <2>3. /\ t \in Seq(Frame) /\ Len(t) = n /\ t[n] = frame
        /\ \A i \in 1 .. n - 1 : t[i] = q[i + 1]
    <3> DEFINE u == Tail(q)
               m == n - 1
    <3>1. m \in Nat /\ m + 1 = n
      BY <1>1, <1>3
    <3>2. /\ u \in Seq(Frame) /\ Len(u) = m
          /\ \A i \in 1 .. m : u[i] = q[i + 1]
      BY <2>2
    <3> HIDE DEF u, m
    <3>3. /\ Append(u, frame) \in Seq(Frame) /\ Len(Append(u, frame)) = m + 1
          /\ Append(u, frame)[m + 1] = frame
          /\ \A i \in 1 .. m : Append(u, frame)[i] = u[i]
      BY <3>1, <3>2
    <3> QED BY <3>1, <3>2, <3>3 DEF u, m
  <2>4. /\ s \in Seq(Frame) /\ Len(s) = n
        /\ \A i \in 1 .. n : s[i] = a[i + 1]
    <3> HIDE DEF a
    <3> QED BY <1>1, <1>3
  <2>5. \A i \in 1 .. n : s[i] = t[i]
    <3>1. ASSUME NEW i \in 1 .. n PROVE s[i] = t[i]
      <4>1. CASE i = n
        BY <1>1, <2>3, <2>4, <4>1
      <4>2. CASE i # n
        <5>1. i \in 1 .. n - 1 /\ i + 1 \in 1 .. n
          BY <1>1, <4>2
        <5> HIDE DEF s, t, a
        <5> QED BY <1>1, <2>3, <2>4, <5>1
      <4> QED BY <4>1, <4>2
    <3> QED BY <3>1
  <2> HIDE DEF s, t
  <2>6. s = t
    BY <2>3, <2>4, <2>5
  <2> QED BY <1>3, <2>1, <2>6 DEF t
<1>4. CASE n # C
  <2> HIDE DEF a
  <2>1. ~ Len(a) > C
    BY <1>1, <1>4
  <2>2. Contract!Newest(a) = SubSeq(a, 1, Len(a))
    BY <1>2, <2>1
  <2>3. SubSeq(a, 1, Len(a)) = a
    BY <1>1
  <2> QED BY <1>4, <2>2, <2>3 DEF a
<1> QED BY <1>3, <1>4

\* A frame that is complete: it was sent, and the queue takes it as the
\* contract says.
LEMMA CompleteSeen ==
    ASSUME IInv, Hoard(session, arrived), Named(session),
           NEW d \in Datagrams, NEW now \in Nat, CompleteFrame(d, now)
    PROVE  Contract!Next /\ Named(session')
<1> DEFINE o     == Observed(session, now)
           s     == AtFragment(now)
           r     == s.reassembler
           w     == WithFragment(s, d, now)
           frame == CompletedFrame(r, d, now)
           next  == WithFrame(w, frame)
           q     == Queued(session)
<1>1. /\ AudioArrives(d, now) /\ Refusal(r, d) = "none" /\ Completes(r, d, now)
      /\ session' = next
  BY DEF CompleteFrame
<1>2. TimeAdvances(now) /\ Streaming(o)
  BY <1>1 DEF AudioArrives, Arrives, ForActiveStream
<1>3. /\ Inv(s) /\ Streaming(s) /\ s.last_observed_time = now
      /\ s.active_stream_id = d.stream_id /\ Audio(d)
      /\ SoundWindow(r) /\ s \in Session
  BY <1>1, AudioMeets DEF Inv
<1>4. Inv(w) /\ w.active_stream_id = d.stream_id /\ Streaming(w)
  BY <1>1, <1>3, WithFragmentInv
<1>5. SameView(session, w) /\ Streaming(session)
  <2>1. SameView(session, o) /\ Streaming(session)
    BY <1>2, ObservedView
  <2>2. SameView(o, s)
    <3>1. o \in Session
      BY <1>2, ObservedSession
    <3> HIDE DEF o
    <3> QED BY <3>1 DEF SameView, AtFragment, Session, o
  <2>3. SameView(s, w)
    BY <1>3 DEF SameView, WithFragment, Session
  <2> HIDE DEF o, s, w
  <2> QED BY <2>1, <2>2, <2>3 DEF SameView
<1>6. frame \in SentFrames /\ frame \in Frame
  <2> DEFINE seen == ObservedArrivals(now)
  <2>1. Hoard(s, seen)
    BY ObservedHoard
  <2>2. seen \subseteq Datagrams
    BY DEF ObservedArrivals, IInv
  <2> HIDE DEF s, seen
  <2> QED BY <1>1, <1>3, <2>1, <2>2, CompletedIsSent, SentAssumption DEF Hoard
<1>7. frame.stream_id = d.stream_id
  BY <1>1, <1>3, CompletedFrameTyped
<1> HIDE DEF s, w, frame
<1>8. next.active_stream_id = w.active_stream_id
  BY DEF WithFrame, Enqueued, AtTail, OldestGone, QueueCleared
<1>9. Queued(w) = q
  BY <1>5 DEF SameView, Queued, QueueSlot
<1>10. Queued(next) = IF StartsAnew(frame) THEN <<frame>>
                      ELSE Contract!Newest(Append(q, frame))
  <2>1. /\ q \in Seq(Frame) /\ Len(q) = w.queue_size
        /\ w.queue_size \in 0 .. QueueCapacity
    BY <1>4, <1>9, QueuedIsSeq DEF Inv, Session
  <2>2. Queued(next) = IF StartsAnew(frame) THEN <<frame>>
                       ELSE IF QueueFull(w) THEN Append(Tail(q), frame)
                       ELSE Append(q, frame)
    BY <1>4, <1>6, <1>9, QueuedWithFrame
  <2> HIDE DEF q, next
  <2>3. Len(q) <= QueueCapacity
    BY <2>1, SessionAssumption
  <2>4. Contract!Newest(Append(q, frame)) =
             IF Len(q) = QueueCapacity THEN Append(Tail(q), frame)
             ELSE Append(q, frame)
    BY <1>6, <2>1, <2>3, NewestAppend
  <2> QED BY <2>1, <2>2, <2>4 DEF QueueFull
<1>11. /\ frame.stream_id = session.active_stream_id
       /\ session'.active_stream_id = session.active_stream_id
  BY <1>1, <1>4, <1>5, <1>7, <1>8 DEF SameView
<1>12. Contract!Complete
  BY <1>1, <1>6, <1>10, <1>11 DEF Contract!Complete
<1>13. Named(session')
  BY <1>5, <1>11 DEF Named
<1> QED BY <1>12, <1>13 DEF Contract!Next

\* Every call is a step of the contract, or one that it does not see.
LEMMA ContractStep ==
    IInv /\ Hoard(session, arrived) /\ Named(session) /\ [Next]_vars
      => [Contract!Next]_(Contract!contract) /\ Named(session')
<1> SUFFICES ASSUME IInv, Hoard(session, arrived), Named(session), [Next]_vars
             PROVE  [Contract!Next]_(Contract!contract) /\ Named(session')
  OBVIOUS
<1> DEFINE Step == [Contract!Next]_(Contract!contract)
<1> HIDE DEF Step
<1>0. Inv(session') /\ session' \in Session /\ session \in Session
  BY NextIInv DEF IInv, Inv
<1>1. \A now \in 0 .. MaxTime : now \in Nat
  BY SessionAssumption
<1>2. ASSUME NEW now \in Nat, TimeAdvances(now),
             SameView(Observed(session, now), session'),
             Streaming(session') => Streaming(Observed(session, now))
      PROVE  Step /\ Named(session')
  <2>1. Step
    BY <1>0, <1>2, ObservedSeen DEF Step
  <2>2. Named(session')
    BY <1>2, ObservedView DEF Named, SameView
  <2> QED BY <2>1, <2>2
<1>3. ASSUME Emptied(session'), ~ Streaming(session')
      PROVE  Step /\ Named(session')
  BY <1>3, EndSeen DEF IInv, Named, Step
<1>4. ASSUME NEW d \in Datagrams, NEW now \in 0 .. MaxTime, Accept(d, now)
      PROVE  Step /\ Named(session')
  <2> DEFINE o == Observed(session, now)
             s == AtFragment(now)
             w == WithFragment(s, d, now)
  <2>1. now \in Nat
    BY <1>1
  <2>2. TimeAdvances(now)
    BY <1>4 DEF Accept, MalformedDatagram, AcceptStreamStart,
       InvalidControlPayload, RejectBeforeStart, RejectWrongStream,
       AcceptStreamStop, AcceptHeartbeat, AcceptRemoteError, RejectReport,
       RefuseFragment, StoreFragment, CompleteFrame, AudioArrives, Arrives
  <2>3. o \in Session /\ Inv(o)
    BY <2>1, <2>2, ObservedSession
  <2>4. CASE \/ MalformedDatagram(d, now) \/ InvalidControlPayload(d, now)
             \/ RejectBeforeStart(d, now) \/ RejectWrongStream(d, now)
             \/ RejectReport(d, now)
    <3>1. session' = o
      BY <2>4 DEF MalformedDatagram, InvalidControlPayload, RejectBeforeStart,
                  RejectWrongStream, RejectReport, OnlyCounts
    <3>2. SameView(o, session')
      BY <3>1 DEF SameView
    <3> QED BY <1>2, <2>1, <2>2, <3>1, <3>2
  <2>5. CASE AcceptStreamStart(d, now)
    <3>1. /\ session' = StreamStarted(o, d, now)
          /\ d \in Parsed
      BY <2>5 DEF AcceptStreamStart
    <3>2. d.stream_id # 0 /\ d.stream_id \in {e.stream_id : e \in Datagrams}
      BY <3>1 DEF Parsed, ParsesOk, ValidHeader
    <3> HIDE DEF o
    <3>3. /\ session'.active_stream_id = d.stream_id /\ session'.queue_size = 0
      BY <2>3, <3>1 DEF StreamStarted, Cleared, QueueCleared, Session
    <3>4. Queued(session') = <<>>
      BY <1>0, <3>3, EmptyQueue
    <3>5. Contract!Start
      BY <3>2, <3>3, <3>4 DEF Contract!Start
    <3> QED BY <3>2, <3>3, <3>5 DEF Contract!Next, Named, Step
  <2>6. CASE AcceptStreamStop(d, now)
    <3>1. session' = Cleared(o)
      BY <2>6 DEF AcceptStreamStop
    <3> HIDE DEF o
    <3>2. Emptied(session') /\ ~ Streaming(session')
      BY <1>0, <2>3, <3>1
         DEF Cleared, QueueCleared, Session, Emptied, Streaming, NoStream
    <3> QED BY <1>3, <3>2
  <2>7. CASE AcceptHeartbeat(d, now) \/ AcceptRemoteError(d, now)
    <3>1. SameView(o, session') /\ session'.state = o.state
      <4> DEFINE time == d.content
      <4>1. \/ session' = [o EXCEPT !.last_liveness_time = now,
                                    !.last_sender_time = time]
            \/ session' = [o EXCEPT !.last_liveness_time = now]
        BY <2>7 DEF AcceptHeartbeat, AcceptRemoteError
      <4> HIDE DEF o, time
      <4> QED BY <2>3, <4>1 DEF SameView, Session
    <3> QED BY <1>2, <2>1, <2>2, <3>1 DEF Streaming
  <2>8. SameView(o, s) /\ s.state = o.state /\ s \in Session
    <3>1. s = [o EXCEPT !.reassembler = Advanced(@, now)]
      BY DEF AtFragment
    <3>2. Advanced(o.reassembler, now) \in Reassembler
      BY <2>1, <2>3, AdvancedSound DEF Inv, SoundWindow
    <3> HIDE DEF o, s
    <3> QED BY <2>3, <3>1, <3>2 DEF SameView, Session
  <2>9. CASE RefuseFragment(d, now)
    <3>1. session' = s
      BY <2>9 DEF RefuseFragment, Refused
    <3> QED BY <1>2, <2>1, <2>2, <2>8, <3>1 DEF Streaming
  <2>10. CASE StoreFragment(d, now)
    <3>1. session' = w
      BY <2>10 DEF StoreFragment
    <3> HIDE DEF o, s
    <3>2. SameView(s, w) /\ w.state = s.state
      BY <2>8 DEF SameView, WithFragment, Session
    <3> HIDE DEF w
    <3>3. SameView(o, session') /\ session'.state = o.state
      BY <2>8, <3>1, <3>2 DEF SameView
    <3> QED BY <1>2, <2>1, <2>2, <3>3 DEF Streaming, o
  <2>11. CASE CompleteFrame(d, now)
    BY <2>1, <2>11, CompleteSeen DEF Step
  <2> QED BY <1>4, <2>4, <2>5, <2>6, <2>7, <2>9, <2>10, <2>11 DEF Accept
<1>5. ASSUME NEW now \in 0 .. MaxTime, AdvanceTime(now)
      PROVE  Step /\ Named(session')
  <2>1. session' = Observed(session, now) /\ TimeAdvances(now) /\ now \in Nat
    BY <1>1, <1>5 DEF AdvanceTime
  <2>2. SameView(Observed(session, now), session')
    BY <2>1 DEF SameView
  <2> QED BY <1>2, <2>1, <2>2
<1>6. CASE PopFrame
  <2> DEFINE t == OldestGone(session)
  <2>1. /\ session' = t /\ session.queue_size # 0 /\ Inv(session)
    BY <1>6 DEF PopFrame, IInv
  <2>2. Queued(t) = Tail(Queued(session))
    BY <2>1, QueuedTail
  <2>3. /\ t.active_stream_id = session.active_stream_id
        /\ t.state = session.state
    BY DEF OldestGone
  <2>4. Queued(session) # <<>>
    <3>1. Len(Queued(session)) # 0
      BY <1>0, <2>1, QueuedIsSeq
    <3> QED BY <3>1
  <2> HIDE DEF t
  <2>5. Contract!Pop
    BY <2>1, <2>2, <2>3, <2>4 DEF Contract!Pop
  <2> QED BY <2>1, <2>3, <2>5 DEF Contract!Next, Named, Streaming, Step
<1>7. CASE Reset
  <2>1. /\ session'.queue_size = 0 /\ session'.active_stream_id = 0
        /\ session'.state = "idle"
    BY <1>0, <1>7 DEF Reset, Cleared, QueueCleared, NoStream, Session
  <2>2. Emptied(session') /\ ~ Streaming(session')
    BY <1>0, <2>1 DEF Emptied, Streaming
  <2> QED BY <1>3, <2>2 DEF Step
<1>8. CASE UNCHANGED vars
  <2>1. session' = session
    BY <1>8 DEF vars
  <2>2. SameView(session, session')
    BY <2>1 DEF SameView
  <2> QED BY <2>1, <2>2, NothingSeen DEF Named, Step
<1> QED BY <1>4, <1>5, <1>6, <1>7, <1>8 DEF Next, Step

\* The session implements its contract: whatever the network does with the
\* datagrams of the frames sent, what the caller can take is the newest of
\* those frames, byte for byte, in the order of their completion, and none
\* outlives its stream (session.cpp:14-26, 70-244).
THEOREM SessionImplementsContract == Spec => ImplementsContract
<1>1. Init => Contract!Init /\ Named(session)
  <2> SUFFICES ASSUME Init PROVE Contract!Init /\ Named(session)
    OBVIOUS
  <2>1. /\ session \in Session /\ session.queue_size = 0
        /\ session.active_stream_id = 0 /\ ~ Streaming(session)
    BY NewSessionInv DEF Init, NewSession, NoStream, Streaming, Inv
  <2>2. Queued(session) = <<>>
    BY <2>1, EmptyQueue
  <2> QED BY <2>1, <2>2 DEF Contract!Init, Contract!NoStream, Named
<1>2. IInv /\ Hoard(session, arrived) /\ Named(session) /\ [Next]_vars
        => [Contract!Next]_(Contract!contract) /\ Named(session)'
  BY ContractStep DEF Named, Streaming
<1> QED BY <1>1, <1>2, Invariance, HoardAccounted, PTL
        DEF Spec, ImplementsContract, Contract!Spec
=============================================================================
