----------------------- MODULE PcmFrameAssembler_proofs -----------------------
(***************************************************************************)
(* Lemmas about the frame assembler, for every frame length and packet.    *)
(*                                                                         *)
(* The loop of accept_packet is a recursive function of the turn.  That it *)
(* exists, and what holds after every turn, are inductions over the turns; *)
(* they are made on sets of turns, IntervalInduction.                      *)
(***************************************************************************)
EXTENDS PcmFrameAssembler, Integers, FiniteSetTheorems, WellFoundedInduction,
        SequenceTheorems, TLAPS

---------------------------------------------------------------------------
(* Induction over the numbers from 0 to n.                                 *)

\* A set of numbers up to n that is not empty has a least one.
LEMMA LeastOfInterval ==
    ASSUME NEW n \in Nat, NEW S, S \subseteq 0 .. n, S # {}
    PROVE  \E i \in S : \A j \in S : i <= j
<1> DEFINE Below(i) == {j \in S : j <= i}
           T == {Below(i) : i \in S}
<1>1. S \subseteq Nat /\ IsFiniteSet(S)
  <2>1. S \subseteq Nat
    OBVIOUS
  <2>2. IsFiniteSet(0 .. n)
    BY 0 \in Int, n \in Int, FS_Interval
  <2> QED BY <2>1, <2>2, FS_Subset
<1>2. T # {} /\ T \subseteq FiniteSubsetsOf(S)
  <2>1. \A i \in S : Below(i) \subseteq S /\ IsFiniteSet(Below(i))
    BY <1>1, FS_Subset
  <2> QED BY <2>1 DEF FiniteSubsetsOf
<1>3. PICK X \in T : \A Y \in T : ~ (<<Y, X>> \in StrictSubsetOrdering(S))
  BY <1>1, <1>2, FS_StrictSubsetOrderingWellFounded, WFMin
<1>4. PICK i \in S : X = Below(i)
  BY <1>3
<1>5. ASSUME NEW j \in S, ~ i <= j PROVE FALSE
  <2>1. i \in Nat /\ j \in Nat /\ j < i
    BY <1>1, <1>5
  <2>2. \A k \in S : k <= j => k <= i
    BY <1>1, <2>1
  <2>3. Below(j) \subseteq Below(i) /\ i \in Below(i) /\ i \notin Below(j)
    <3>1. i <= i /\ ~ i <= j
      BY <2>1
    <3> QED BY <2>2, <3>1
  <2>4. <<Below(j), Below(i)>> \in StrictSubsetOrdering(S)
    BY <2>3 DEF StrictSubsetOrdering
  <2> QED BY <1>3, <1>4, <2>4
<1> QED BY <1>5

\* A set with 0, and with the successor of each of its numbers below n, has
\* all numbers up to n.
LEMMA IntervalInduction ==
    ASSUME NEW n \in Nat, NEW S, 0 \in S,
           \A k \in 0 .. n : k # n /\ k \in S => k + 1 \in S
    PROVE  0 .. n \subseteq S
<1> DEFINE Bad == {k \in 0 .. n : k \notin S}
<1>1. SUFFICES ASSUME Bad # {} PROVE FALSE
  OBVIOUS
<1>2. PICK i \in Bad : \A j \in Bad : i <= j
  BY <1>1, LeastOfInterval
<1>3. i \in 1 .. n /\ i - 1 \in 0 .. n /\ i - 1 # n /\ (i - 1) + 1 = i
  BY <1>2
<1>4. i - 1 \in S
  BY <1>2, <1>3
<1> QED BY <1>2, <1>3, <1>4

---------------------------------------------------------------------------
(* The loop.                                                               *)

\* The recursive definition of AfterTurns is met.
LEMMA AfterTurnsEquation ==
    ASSUME NEW a, NEW packet, packet.frame_count \in Nat
    PROVE  AfterTurns(a, packet) =
             [turn \in 0 .. packet.frame_count |->
                IF turn = 0 THEN OpenPacket(a, packet)
                ELSE Turn(AfterTurns(a, packet)[turn - 1], packet)]
<1> DEFINE n == packet.frame_count
           Body(g, k) == IF k = 0 THEN OpenPacket(a, packet) ELSE Turn(g[k - 1], packet)
           S == {m \in 0 .. n : \E g : g = [k \in 0 .. m |-> Body(g, k)]}
<1>1. 0 \in S
  <2> DEFINE g == [k \in 0 .. 0 |-> OpenPacket(a, packet)]
  <2>1. g = [k \in 0 .. 0 |-> Body(g, k)]
    OBVIOUS
  <2>2. 0 \in 0 .. n
    OBVIOUS
  <2> HIDE DEF g
  <2> QED BY <2>1, <2>2
<1>2. ASSUME NEW m \in 0 .. n, m # n, m \in S PROVE m + 1 \in S
  <2>1. PICK g : g = [k \in 0 .. m |-> Body(g, k)]
    BY <1>2
  <2> DEFINE h == [k \in 0 .. m + 1 |-> IF k = m + 1 THEN Turn(g[m], packet) ELSE g[k]]
  <2>2. ASSUME NEW k \in 0 .. m + 1 PROVE h[k] = Body(h, k)
    <3>1. CASE k = m + 1
      <4>1. k # 0 /\ k - 1 = m /\ m \in 0 .. m + 1 /\ m # m + 1
        BY <3>1
      <4>2. h[m] = g[m]
        BY <4>1
      <4> QED BY <3>1, <4>1, <4>2
    <3>2. CASE k \in 0 .. m /\ k # 0
      <4>1. k - 1 \in 0 .. m /\ k # m + 1 /\ k - 1 # m + 1 /\ k - 1 \in 0 .. m + 1
        BY <3>2
      <4>2. h[k] = g[k] /\ h[k - 1] = g[k - 1]
        BY <4>1
      <4>3. g[k] = Turn(g[k - 1], packet)
        BY <2>1, <3>2
      <4> HIDE DEF h
      <4> QED BY <3>2, <4>2, <4>3
    <3>3. CASE k = 0
      <4>1. 0 \in 0 .. m /\ 0 # m + 1 /\ 0 \in 0 .. m + 1
        OBVIOUS
      <4>2. h[0] = g[0]
        BY <4>1
      <4>3. g[0] = OpenPacket(a, packet)
        BY <2>1, <4>1
      <4> HIDE DEF h
      <4> QED BY <3>3, <4>2, <4>3
    <3> QED BY <3>1, <3>2, <3>3
  <2>3. h = [k \in 0 .. m + 1 |-> Body(h, k)]
    <3>1. h = [k \in 0 .. m + 1 |-> h[k]]
      OBVIOUS
    <3> HIDE DEF h, Body
    <3> QED BY <2>2, <3>1
  <2>4. m + 1 \in 0 .. n
    BY <1>2
  <2> HIDE DEF h
  <2> QED BY <2>3, <2>4
<1>3. n \in S
  <2> HIDE DEF S
  <2> QED BY <1>1, <1>2, IntervalInduction
<1>4. PICK g : g = [k \in 0 .. n |-> Body(g, k)]
  BY <1>3
<1> QED BY <1>4 DEF AfterTurns

\* What holds of the opened packet and is kept by every turn holds of the
\* accepted packet.  Each turn consumes a sample, so it is used up.
LEMMA AcceptInduction ==
    ASSUME NEW a, NEW packet, packet.frame_count \in Nat,
           NEW Good,
           OpenPacket(a, packet) \in Good,
           \A w \in Good :
             /\ w.consumed \in 0 .. packet.frame_count
             /\ w.consumed # packet.frame_count =>
                  /\ CopyChunk(w, packet) \in Good
                  /\ CopyChunk(w, packet).consumed > w.consumed
    PROVE  /\ AcceptPacket(a, packet) \in Good
           /\ AcceptPacket(a, packet).consumed = packet.frame_count
<1> DEFINE n == packet.frame_count
           f == AfterTurns(a, packet)
           S == {k \in 0 .. n : f[k] \in Good /\ f[k].consumed >= k}
<1>1. /\ f[0] = OpenPacket(a, packet)
      /\ \A k \in 1 .. n : f[k] = Turn(f[k - 1], packet)
  BY AfterTurnsEquation
<1> HIDE DEF f
<1>2. 0 \in S
  BY <1>1
<1>3. ASSUME NEW k \in 0 .. n, k # n, k \in S PROVE k + 1 \in S
  <2>1. k + 1 \in 1 .. n /\ k + 1 \in 0 .. n /\ (k + 1) - 1 = k
    BY <1>3
  <2>2. f[k + 1] = Turn(f[k], packet)
    BY <1>1, <2>1
  <2>3. f[k] \in Good /\ f[k].consumed >= k /\ f[k].consumed \in 0 .. n
    BY <1>3
  <2>4. CASE f[k].consumed = n
    BY <2>1, <2>2, <2>3, <2>4 DEF Turn
  <2>5. CASE f[k].consumed # n
    <3>1. f[k + 1] = CopyChunk(f[k], packet)
      BY <2>2, <2>5 DEF Turn
    <3>2. f[k + 1] \in Good /\ f[k + 1].consumed > f[k].consumed
      BY <2>3, <2>5, <3>1
    <3>3. f[k + 1].consumed \in 0 .. n
      BY <3>2
    <3> QED BY <2>1, <2>3, <3>2, <3>3
  <2> QED BY <2>4, <2>5
<1>4. n \in S
  <2>1. 0 .. n \subseteq S
    <3> HIDE DEF S
    <3> QED BY <1>2, <1>3, IntervalInduction
  <2> QED BY <2>1
<1>5. f[n].consumed \in 0 .. n /\ f[n].consumed >= n
  BY <1>4
<1> QED BY <1>4, <1>5 DEF AcceptPacket, f

---------------------------------------------------------------------------
(* What holds of the work on a packet.                                     *)

\* A packet as accept_packet takes it.
Acceptable(packet) ==
    /\ packet.frame_count \in Nat \ {0}
    /\ packet.flags \subseteq KnownFlags
    /\ packet.device_position \in Nat
    /\ packet.samples \in Seq(Sample)
    /\ Len(packet.samples) = packet.frame_count

SoundAssembler(a) == a \in Assembler /\ Len(a.pending) < FrameSamples

WorkShape(packet) ==
    [assembler : Assembler, consumed : 0 .. packet.frame_count,
     discontinuity : BOOLEAN, frames : Seq(Frame)]

\* The discontinuity is owed only before the first sample is copied.
SoundWork(w, packet) ==
    /\ w \in WorkShape(packet)
    /\ Len(w.assembler.pending) < FrameSamples
    /\ w.discontinuity => w.consumed = 0 /\ ~HasPartial(w.assembler)

\* Until a frame is completed, the discontinuity is owed, or the partial
\* frame carries it.
Flagged(a) == HasPartial(a) /\ "discontinuity" \in a.flags

Marked(w) == w.frames = <<>> => w.discontinuity \/ Flagged(w.assembler)

\* Samples held, less those taken from the packet.
Balance(w) ==
    FrameSamples * Len(w.frames) + Len(w.assembler.pending) - w.consumed

---------------------------------------------------------------------------
(* One turn of the loop, operator by operator.                             *)

\* An assembler without a partial frame is an assembler.
LEMMA CleanPartial ==
    ASSUME NEW a \in Assembler
    PROVE  /\ ClearPartial(a) \in Assembler /\ NextFrame(a) \in Assembler
           /\ Reset(a) \in Assembler
           /\ ClearPartial(a).pending = <<>> /\ NextFrame(a).pending = <<>>
           /\ Reset(a).pending = <<>>
<1>1. <<>> \in Seq(Sample)
  OBVIOUS
<1> DEFINE c == ClearPartial(a)
<1>2. c \in Assembler /\ c.pending = <<>>
  BY <1>1 DEF ClearPartial, Assembler
<1> HIDE DEF c
<1>3. ASSUME NEW n \in Nat \ {0}
      PROVE  /\ [c EXCEPT !.next_sequence_number = n] \in Assembler
             /\ [c EXCEPT !.next_sequence_number = n].pending = <<>>
  <2> DEFINE e == [c EXCEPT !.next_sequence_number = n]
  <2>1. e \in Assembler
    BY <1>2 DEF Assembler
  <2>2. e.pending = c.pending
    BY <1>2 DEF Assembler
  <2> HIDE DEF e
  <2> QED BY <1>2, <2>1, <2>2 DEF e
<1>4. c.next_sequence_number + 1 \in Nat \ {0} /\ 1 \in Nat \ {0}
  BY <1>2 DEF Assembler
<1> QED BY <1>2, <1>3, <1>4 DEF NextFrame, Reset, c

\* Where a frame begins, the discontinuity owed goes to it (lines 66-76).
LEMMA BeginFrameKeeps ==
    ASSUME NEW packet, Acceptable(packet), NEW w, SoundWork(w, packet)
    PROVE  LET v == BeginFrame(w, packet)
           IN  /\ v \in WorkShape(packet)
               /\ v.assembler.pending = w.assembler.pending
               /\ v.consumed = w.consumed /\ v.frames = w.frames
               /\ ~v.discontinuity
               /\ Marked(w) /\ w.frames = <<>> => "discontinuity" \in v.assembler.flags
<1> DEFINE v == BeginFrame(w, packet)
<1>1. w \in WorkShape(packet) /\ w.assembler \in Assembler
  BY DEF SoundWork, WorkShape
<1>2. CASE HasPartial(w.assembler)
  <2>1. v = w /\ ~w.discontinuity
    BY <1>1, <1>2 DEF BeginFrame, SoundWork, WorkShape
  <2> QED BY <1>1, <2>1 DEF Marked, Flagged
<1>3. CASE ~HasPartial(w.assembler)
  <2> DEFINE a == [pending |-> w.assembler.pending,
                   flags |-> IF w.discontinuity THEN {"discontinuity"} ELSE {},
                   all_silent |-> TRUE,
                   device_position |-> packet.device_position + w.consumed,
                   next_sequence_number |-> w.assembler.next_sequence_number]
  <2>1. v = [assembler |-> a, consumed |-> w.consumed, discontinuity |-> FALSE,
             frames |-> w.frames]
    BY <1>1, <1>3 DEF BeginFrame, WorkShape, Assembler
  <2>2. a \in Assembler
    <3>1. packet.device_position + w.consumed \in Nat
      BY <1>1 DEF WorkShape, Acceptable
    <3> QED BY <1>1, <3>1 DEF Assembler, KnownFlags
  <2>3. Marked(w) /\ w.frames = <<>> => "discontinuity" \in a.flags
    BY <1>3 DEF Marked, Flagged
  <2>4. a.pending = w.assembler.pending
    OBVIOUS
  <2> HIDE DEF a
  <2>5. v \in WorkShape(packet)
    BY <1>1, <2>1, <2>2 DEF WorkShape
  <2> QED BY <2>1, <2>3, <2>4, <2>5
<1> QED BY <1>2, <1>3

\* The marks of the packet are added to the partial frame (lines 78-81).
LEMMA MarkFrameKeeps ==
    ASSUME NEW packet, Acceptable(packet), NEW w \in WorkShape(packet)
    PROVE  LET v == MarkFrame(w, packet)
           IN  /\ v \in WorkShape(packet)
               /\ v.assembler.pending = w.assembler.pending
               /\ w.assembler.flags \subseteq v.assembler.flags
               /\ v.consumed = w.consumed /\ v.frames = w.frames
               /\ v.discontinuity = w.discontinuity
BY DEF MarkFrame, WorkShape, Assembler, Acceptable

\* At least one sample is copied, and none beyond the end of the packet or
\* of the frame (lines 83-97).
LEMMA CopySamplesKeeps ==
    ASSUME NEW packet, Acceptable(packet), NEW w \in WorkShape(packet),
           Len(w.assembler.pending) < FrameSamples,
           w.consumed # packet.frame_count
    PROVE  LET v == CopySamples(w, packet)
           IN  /\ v \in WorkShape(packet)
               /\ v.assembler.flags = w.assembler.flags
               /\ v.assembler.pending # <<>>
               /\ Len(v.assembler.pending) <= FrameSamples
               /\ v.consumed > w.consumed
               /\ Len(v.assembler.pending) - v.consumed
                    = Len(w.assembler.pending) - w.consumed
               /\ v.frames = w.frames /\ v.discontinuity = w.discontinuity
<1> DEFINE v == CopySamples(w, packet)
           pending == w.assembler.pending
           n == packet.frame_count
           in_frame == FrameSamples - Len(pending)
           in_packet == n - w.consumed
           count == IF in_frame < in_packet THEN in_frame ELSE in_packet
           copied == SubSeq(packet.samples, w.consumed + 1, w.consumed + count)
<1>1. w.assembler \in Assembler
  BY DEF WorkShape
<1>2. pending \in Seq(Sample) /\ Len(pending) \in Nat
  BY <1>1, LenProperties DEF Assembler
<1>3. n \in Nat /\ w.consumed \in 0 .. n /\ FrameSamples \in Nat
  BY FrameSamplesAssumption DEF Acceptable, WorkShape
<1>4. /\ count \in Nat \ {0}
      /\ Len(pending) + count <= FrameSamples
      /\ w.consumed + count \in 0 .. n
  <2> HIDE DEF pending, n
  <2> QED BY <1>2, <1>3 DEF pending, n
<1> HIDE DEF count
<1>5. copied \in Seq(Sample) /\ Len(copied) = count
  <2>1. \A i \in (w.consumed + 1) .. (w.consumed + count) : packet.samples[i] \in Sample
    <3> SUFFICES ASSUME NEW i \in (w.consumed + 1) .. (w.consumed + count)
                 PROVE  packet.samples[i] \in Sample
      OBVIOUS
    <3>1. i \in 1 .. Len(packet.samples)
      BY <1>3, <1>4 DEF Acceptable
    <3> QED BY <3>1, ElementOfSeq DEF Acceptable
  <2>2. w.consumed + 1 \in Int /\ w.consumed + count \in Int
    BY <1>3, <1>4
  <2>3. /\ copied \in Seq(Sample)
        /\ Len(copied) = IF w.consumed + 1 <= w.consumed + count
                           THEN (w.consumed + count) - (w.consumed + 1) + 1 ELSE 0
    BY <2>1, <2>2, SubSeqProperties
  <2> HIDE DEF copied
  <2> QED BY <2>3, <1>3, <1>4
<1> HIDE DEF copied
<1>6. pending \o copied \in Seq(Sample) /\ Len(pending \o copied) = Len(pending) + count
  BY <1>2, <1>5, ConcatProperties
<1>7. v = [w EXCEPT !.assembler.pending = pending \o copied,
                    !.consumed = w.consumed + count]
  BY DEF CopySamples, count, copied
<1> HIDE DEF v
<1>8. v \in WorkShape(packet)
  BY <1>4, <1>6, <1>7 DEF WorkShape, Assembler
<1>9. /\ v.assembler.pending = pending \o copied
      /\ v.assembler.flags = w.assembler.flags
      /\ v.consumed = w.consumed + count
      /\ v.frames = w.frames /\ v.discontinuity = w.discontinuity
  BY <1>7 DEF WorkShape, Assembler
<1>10. v.assembler.pending # <<>>
  <2>1. Len(<<>>) = 0
    OBVIOUS
  <2> QED BY <1>2, <1>4, <1>6, <1>9, <2>1
<1>11. v.consumed > w.consumed /\ Len(v.assembler.pending) <= FrameSamples
  BY <1>2, <1>3, <1>4, <1>6, <1>9
<1>12. Len(v.assembler.pending) - v.consumed = Len(w.assembler.pending) - w.consumed
  BY <1>2, <1>3, <1>4, <1>6, <1>9
<1> QED BY <1>8, <1>9, <1>10, <1>11, <1>12 DEF v

\* What the sink gets is a frame.
LEMMA CompletedFrameIsFrame ==
    ASSUME NEW a \in Assembler
    PROVE  CompletedFrame(a) \in Frame
<1>1. a.flags \cup (IF a.all_silent THEN {"silence"} ELSE {}) \in SUBSET KnownFlags
  BY DEF Assembler, KnownFlags
<1> QED BY <1>1 DEF CompletedFrame, Frame, Assembler

\* A full frame goes to the sink and leaves no partial frame (lines 99-121).
LEMMA EndFrameKeeps ==
    ASSUME NEW packet, Acceptable(packet), NEW w \in WorkShape(packet),
           Len(w.assembler.pending) <= FrameSamples, w.assembler.pending # <<>>,
           ~w.discontinuity
    PROVE  LET v == EndFrame(w)
           IN  /\ SoundWork(v, packet)
               /\ v.consumed = w.consumed /\ ~v.discontinuity
               /\ Balance(v) = Balance(w)
               /\ v.frames = <<>> => v = w
<1> DEFINE v == EndFrame(w)
<1>1. w.assembler \in Assembler /\ w.frames \in Seq(Frame)
  BY DEF WorkShape
<1>2. /\ Len(w.assembler.pending) \in Nat /\ Len(w.frames) \in Nat
      /\ w.consumed \in Nat /\ FrameSamples \in Nat
  <2>1. w.assembler.pending \in Seq(Sample)
    BY <1>1 DEF Assembler
  <2> QED BY <1>1, <2>1, LenProperties, FrameSamplesAssumption DEF WorkShape, Acceptable
<1>3. CASE Len(w.assembler.pending) # FrameSamples
  <2>1. v = w
    BY <1>3 DEF EndFrame
  <2>2. Len(w.assembler.pending) < FrameSamples
    BY <1>2, <1>3
  <2> QED BY <2>1, <2>2 DEF SoundWork
<1>4. CASE Len(w.assembler.pending) = FrameSamples
  <2> DEFINE a == NextFrame(w.assembler)
             frames == Append(w.frames, CompletedFrame(w.assembler))
  <2>1. a \in Assembler /\ a.pending = <<>> /\ Len(a.pending) = 0
    BY <1>1, CleanPartial
  <2>2. frames \in Seq(Frame) /\ Len(frames) = Len(w.frames) + 1
    BY <1>1, CompletedFrameIsFrame
  <2>3. v = [w EXCEPT !.frames = frames, !.assembler = a]
    BY <1>4 DEF EndFrame
  <2> HIDE DEF v, a, frames
  <2>4. frames # <<>>
    <3>1. Len(<<>>) = 0
      OBVIOUS
    <3> QED BY <1>2, <2>2, <3>1
  <2>5. v \in WorkShape(packet)
    BY <2>1, <2>2, <2>3 DEF WorkShape
  <2>6. /\ v.assembler = a /\ v.frames = frames /\ v.consumed = w.consumed
        /\ v.discontinuity = w.discontinuity
    BY <2>3 DEF WorkShape
  <2>7. FrameSamples * Len(frames) = FrameSamples * Len(w.frames) + FrameSamples
    BY <1>2, <2>2
  <2>8. Balance(v) = Balance(w)
    <3> DEFINE t == FrameSamples * Len(w.frames)
               u == FrameSamples * Len(frames)
    <3>1. t \in Nat
      BY <1>2
    <3>2. u = t + FrameSamples
      BY <2>7
    <3>3. Balance(v) = u + 0 - w.consumed
      BY <2>1, <2>6 DEF Balance
    <3>4. Balance(w) = t + FrameSamples - w.consumed
      BY <1>4 DEF Balance
    <3> HIDE DEF t, u
    <3> QED BY <1>2, <3>1, <3>2, <3>3, <3>4
  <2>9. 0 < FrameSamples
    BY FrameSamplesAssumption
  <2> QED BY <2>1, <2>4, <2>5, <2>6, <2>8, <2>9 DEF SoundWork, v
<1> QED BY <1>3, <1>4

\* A turn of the loop consumes samples, loses none, and keeps the mark.
LEMMA CopyChunkKeeps ==
    ASSUME NEW packet, Acceptable(packet), NEW w, SoundWork(w, packet),
           w.consumed # packet.frame_count
    PROVE  LET v == CopyChunk(w, packet)
           IN  /\ SoundWork(v, packet) /\ v.consumed > w.consumed
               /\ Balance(v) = Balance(w)
               /\ Marked(w) => Marked(v)
<1> DEFINE b == BeginFrame(w, packet)
           m == MarkFrame(b, packet)
           c == CopySamples(m, packet)
           v == EndFrame(c)
<1>1. v = CopyChunk(w, packet)
  BY DEF CopyChunk
<1>2. w.frames \in Seq(Frame) /\ Len(w.assembler.pending) < FrameSamples
  BY DEF SoundWork, WorkShape
<1>3. /\ b \in WorkShape(packet)
      /\ b.assembler.pending = w.assembler.pending
      /\ b.consumed = w.consumed /\ b.frames = w.frames /\ ~b.discontinuity
      /\ Marked(w) /\ w.frames = <<>> => "discontinuity" \in b.assembler.flags
  BY BeginFrameKeeps
<1> HIDE DEF b
<1>4. /\ m \in WorkShape(packet)
      /\ m.assembler.pending = b.assembler.pending
      /\ b.assembler.flags \subseteq m.assembler.flags
      /\ m.consumed = b.consumed /\ m.frames = b.frames
      /\ m.discontinuity = b.discontinuity
  BY <1>3, MarkFrameKeeps
<1> HIDE DEF m
<1>5. /\ c \in WorkShape(packet)
      /\ c.assembler.flags = m.assembler.flags
      /\ c.assembler.pending # <<>>
      /\ Len(c.assembler.pending) <= FrameSamples
      /\ c.consumed > m.consumed
      /\ Len(c.assembler.pending) - c.consumed = Len(m.assembler.pending) - m.consumed
      /\ c.frames = m.frames /\ c.discontinuity = m.discontinuity
  <2>1. Len(m.assembler.pending) < FrameSamples /\ m.consumed # packet.frame_count
    BY <1>2, <1>3, <1>4
  <2> QED BY <1>4, <2>1, CopySamplesKeeps
<1> HIDE DEF c
<1>6. /\ SoundWork(v, packet)
      /\ v.consumed = c.consumed /\ ~v.discontinuity
      /\ Balance(v) = Balance(c)
      /\ v.frames = <<>> => v = c
  BY <1>3, <1>4, <1>5, EndFrameKeeps
<1> HIDE DEF v
<1>7. Balance(c) = Balance(w)
  <2>1. /\ c.frames = w.frames
        /\ Len(c.assembler.pending) - c.consumed = Len(w.assembler.pending) - w.consumed
    BY <1>3, <1>4, <1>5
  <2>2. /\ Len(c.assembler.pending) \in Nat /\ Len(w.assembler.pending) \in Nat
        /\ c.consumed \in Nat /\ w.consumed \in Nat
    <3>1. c.assembler.pending \in Seq(Sample) /\ w.assembler.pending \in Seq(Sample)
      BY <1>5 DEF SoundWork, WorkShape, Assembler
    <3> QED BY <1>5, <3>1, LenProperties DEF SoundWork, WorkShape, Acceptable
  <2>3. FrameSamples * Len(w.frames) \in Nat
    BY <1>2, LenProperties, FrameSamplesAssumption
  <2> QED BY <2>1, <2>2, <2>3 DEF Balance
<1>8. ASSUME Marked(w) PROVE Marked(v)
  <2>1. SUFFICES ASSUME v.frames = <<>> PROVE Flagged(v.assembler)
    BY DEF Marked
  <2>2. v = c /\ c.frames = w.frames
    BY <1>3, <1>4, <1>5, <1>6, <2>1
  <2>3. "discontinuity" \in c.assembler.flags
    BY <1>3, <1>4, <1>5, <1>8, <2>1, <2>2
  <2> QED BY <1>5, <2>2, <2>3 DEF Flagged, HasPartial
<1>9. v.consumed > w.consumed
  BY <1>3, <1>4, <1>5, <1>6
<1> QED BY <1>1, <1>6, <1>7, <1>8, <1>9

---------------------------------------------------------------------------
(* The whole packet.                                                       *)

\* The discontinuity of a packet drops the partial frame and is owed to the
\* next one (lines 53-64).
LEMMA OpenPacketIsSound ==
    ASSUME NEW packet, Acceptable(packet), NEW a, SoundAssembler(a)
    PROVE  LET w == OpenPacket(a, packet)
           IN  /\ SoundWork(w, packet)
               /\ w.consumed = 0 /\ w.frames = <<>>
               /\ Len(w.assembler.pending) =
                    (IF DropsPartial(a, packet) THEN 0 ELSE Len(a.pending))
               /\ "discontinuity" \in packet.flags \/ Flagged(a) => Marked(w)
<1> DEFINE b == IF DropsPartial(a, packet) THEN ClearPartial(a) ELSE a
           owed == "discontinuity" \in packet.flags
           w == OpenPacket(a, packet)
<1>1. b \in Assembler /\ Len(b.pending) < FrameSamples
  <2>1. Len(<<>>) = 0 /\ 0 < FrameSamples
    BY FrameSamplesAssumption
  <2> QED BY <2>1, CleanPartial DEF SoundAssembler
<1>2. owed => ~HasPartial(b)
  BY CleanPartial DEF DropsPartial, HasPartial, SoundAssembler
<1>3. Len(b.pending) = IF DropsPartial(a, packet) THEN 0 ELSE Len(a.pending)
  <2>1. Len(<<>>) = 0
    OBVIOUS
  <2> QED BY <2>1, CleanPartial DEF SoundAssembler
<1>4. ~owed => b = a
  BY DEF DropsPartial
<1>5. w = [assembler |-> b, consumed |-> 0, discontinuity |-> owed, frames |-> <<>>]
  BY DEF OpenPacket
<1>6. owed \in BOOLEAN /\ <<>> \in Seq(Frame) /\ 0 \in 0 .. packet.frame_count
  BY DEF Acceptable
<1> HIDE DEF b, owed
<1>7. w \in WorkShape(packet)
  BY <1>1, <1>5, <1>6 DEF WorkShape
<1>8. owed \/ Flagged(a) => Marked(w)
  BY <1>4, <1>5 DEF Marked
<1>9. w.assembler = b /\ w.discontinuity = owed /\ w.consumed = 0 /\ w.frames = <<>>
  BY <1>5
<1>10. SoundWork(w, packet)
  BY <1>1, <1>2, <1>7, <1>9 DEF SoundWork
<1> QED BY <1>3, <1>8, <1>9, <1>10 DEF owed

\* accept_packet: no sample of the packet or of a kept partial frame is lost,
\* and a discontinuity that the packet or the partial frame carries stays on
\* the partial frame until a frame is completed.
LEMMA AcceptPacketKeeps ==
    ASSUME NEW packet, Acceptable(packet), NEW a, SoundAssembler(a)
    PROVE  LET done == AcceptPacket(a, packet)
           IN  /\ SoundAssembler(done.assembler)
               /\ done.frames \in Seq(Frame)
               /\ FrameSamples * Len(done.frames) + Len(done.assembler.pending)
                    = (IF DropsPartial(a, packet) THEN 0 ELSE Len(a.pending))
                        + packet.frame_count
               /\ /\ "discontinuity" \in packet.flags \/ Flagged(a)
                  /\ done.frames = <<>>
                  => Flagged(done.assembler)
<1> DEFINE open == OpenPacket(a, packet)
           done == AcceptPacket(a, packet)
           carried == "discontinuity" \in packet.flags \/ Flagged(a)
           base == IF DropsPartial(a, packet) THEN 0 ELSE Len(a.pending)
           Good == {w \in WorkShape(packet) :
                      /\ SoundWork(w, packet)
                      /\ Balance(w) = Balance(open)
                      /\ carried => Marked(w)}
<1>1. /\ SoundWork(open, packet)
      /\ open.consumed = 0 /\ open.frames = <<>>
      /\ Len(open.assembler.pending) = base
      /\ carried => Marked(open)
  BY OpenPacketIsSound
<1>2. packet.frame_count \in Nat \ {0}
  BY DEF Acceptable
<1> HIDE DEF open, carried, base
<1>3. open \in Good
  BY <1>1 DEF SoundWork
<1>4. ASSUME NEW w \in Good
      PROVE  /\ w.consumed \in 0 .. packet.frame_count
             /\ w.consumed # packet.frame_count =>
                  /\ CopyChunk(w, packet) \in Good
                  /\ CopyChunk(w, packet).consumed > w.consumed
  <2>1. w.consumed \in 0 .. packet.frame_count
    BY DEF WorkShape
  <2>2. ASSUME w.consumed # packet.frame_count
        PROVE  /\ CopyChunk(w, packet) \in Good
               /\ CopyChunk(w, packet).consumed > w.consumed
    <3> DEFINE v == CopyChunk(w, packet)
    <3>1. /\ SoundWork(v, packet) /\ v.consumed > w.consumed
          /\ Balance(v) = Balance(w)
          /\ Marked(w) => Marked(v)
      BY <2>2, CopyChunkKeeps
    <3> HIDE DEF v
    <3>2. v \in WorkShape(packet)
      BY <3>1 DEF SoundWork
    <3>3. v \in Good
      BY <3>1, <3>2
    <3> QED BY <3>1, <3>3 DEF v
  <2> QED BY <2>1, <2>2
<1>5. done \in Good /\ done.consumed = packet.frame_count
  <2> HIDE DEF Good
  <2> QED BY <1>2, <1>3, <1>4, AcceptInduction DEF open
<1> HIDE DEF done
<1>6. /\ done.assembler \in Assembler /\ Len(done.assembler.pending) < FrameSamples
      /\ done.frames \in Seq(Frame)
      /\ Balance(done) = Balance(open)
      /\ ~done.discontinuity
      /\ carried => Marked(done)
  BY <1>2, <1>5 DEF SoundWork, WorkShape
<1>7. FrameSamples * Len(done.frames) + Len(done.assembler.pending)
        = base + packet.frame_count
  <2>1. FrameSamples * Len(open.frames) = 0
    <3>1. Len(<<>>) = 0
      OBVIOUS
    <3> QED BY <1>1, <3>1, FrameSamplesAssumption
  <2>2. /\ Len(done.frames) \in Nat /\ Len(done.assembler.pending) \in Nat
        /\ base \in Nat
    <3>1. done.assembler.pending \in Seq(Sample) /\ open.assembler.pending \in Seq(Sample)
      BY <1>1, <1>6 DEF SoundWork, WorkShape, Assembler
    <3> QED BY <1>1, <1>6, <3>1, LenProperties
  <2>3. FrameSamples * Len(done.frames) \in Nat
    BY <2>2, FrameSamplesAssumption
  <2> QED BY <1>1, <1>2, <1>5, <1>6, <2>1, <2>2, <2>3 DEF Balance
<1>8. carried /\ done.frames = <<>> => Flagged(done.assembler)
  BY <1>6 DEF Marked
<1> QED BY <1>6, <1>7, <1>8 DEF SoundAssembler, carried, base, done
=============================================================================
