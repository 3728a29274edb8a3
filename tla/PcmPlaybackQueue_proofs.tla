---------------------- MODULE PcmPlaybackQueue_proofs ----------------------
(***************************************************************************)
(* Proofs about the playback ring, for every capacity, frame length,       *)
(* counter width and set of inputs.                                        *)
(*                                                                         *)
(* NoSlotRace and RingHoldsPublished are not inductive by themselves: that *)
(* the slot being written is free rests on what each thread knows of the   *)
(* other's position.  The producer's copy of the read position may be old, *)
(* but the read position only grows, so a slot found free stays free; the  *)
(* consumer's copy of its own position is exact.  IInv says so.            *)
(*                                                                         *)
(* HInv adds what the history says: how the shared offset lags behind the  *)
(* playing cursor, what a snapshot knows between its loads, the counters   *)
(* in the middle of a call, and the last PCM frame played.  From the two,  *)
(* the ring implements the bounded FIFO (RingImplementsFifo).              *)
(***************************************************************************)
EXTENDS PcmPlaybackQueue, Integers, SequenceTheorems, TLAPS

\* The positions bound each other, and the published log is as long as the
\* write position.
RingBounds ==
    /\ readPosition <= writePosition
    /\ writePosition <= readPosition + Capacity
    /\ Len(published) = writePosition

\* While the producer fills a slot that slot is free, and holds what was
\* copied into it so far; a snapshot's copy of the write position is exact.
ProducerInv ==
    /\ pPc \in {"samples", "metadata", "publish"} =>
           pWrite = writePosition /\ writePosition < readPosition + Capacity
    /\ pPc \in {"metadata", "publish"} =>
           slots[SlotOf(pWrite)].samples = pFrame.samples
    /\ pPc = "publish" => slots[SlotOf(pWrite)] = pFrame

\* What the consumer knows of the ring at each place of render and discard.
ConsumerInv ==
    /\ cPc \in {"check", "copy", "complete", "finish"} => cRead = readPosition
    /\ cPc = "release" => cRead = readPosition + 1 /\ cOffset = 0
    /\ cPc \in {"copy", "complete", "release"} => readPosition < writePosition
    /\ cPc \in {"check", "copy", "finish"} => cOffset < FrameLength
    /\ cCopied <= cRequested
    /\ cPc \in {"discardOffset", "discardPosition"} =>
           /\ cRead = readPosition
           /\ readPosition <= cWrite /\ cWrite <= writePosition

IInv == TypeOK /\ RingBounds /\ ProducerInv /\ ConsumerInv /\ RingHoldsPublished

-----------------------------------------------------------------------------

\* Two positions less than a ring apart lie in different slots.
LEMMA DistinctSlots ==
    ASSUME NEW a \in Nat, NEW b \in Nat, a < b, b < a + Capacity
    PROVE  SlotOf(a) # SlotOf(b)
<1> DEFINE C  == Capacity
           qa == a \div C
           qb == b \div C
<1>1. C \in Nat \ {0}
  BY CapacityAssumption
<1>2. /\ qa \in Int /\ a = C * qa + (a % C)
      /\ qb \in Int /\ b = C * qb + (b % C)
  BY <1>1
<1>3. ASSUME a % C = b % C PROVE FALSE
  <2>1. b - a = C * (qb - qa)
    BY <1>1, <1>2, <1>3
  <2>2. CASE qb - qa <= 0
    BY <1>1, <1>2, <2>1, <2>2
  <2>3. CASE qb - qa >= 1
    BY <1>1, <1>2, <2>1, <2>3
  <2>4. QED
    BY <1>2, <2>2, <2>3
<1>4. QED
  BY <1>3 DEF SlotOf

\* A position's slot is an index of the ring.
LEMMA SlotInRing ==
    ASSUME NEW a \in Nat
    PROVE  SlotOf(a) \in 0 .. Capacity - 1
  BY CapacityAssumption DEF SlotOf

\* Counters stay inside their width.
LEMMA PlusInCounter ==
    ASSUME NEW a \in Nat, NEW n \in Nat
    PROVE  Plus(a, n) \in Counter
  BY CounterAssumption DEF Plus, Counter

\* The capped distance of two positions is a natural number.
LEMMA QueuedInNat ==
    ASSUME NEW w \in Nat, NEW r \in Nat
    PROVE  QueuedFrames(w, r) \in Nat
  BY CapacityAssumption DEF QueuedFrames

\* A function on 1 .. n is a sequence.
LEMMA FunctionIsSeq ==
    ASSUME NEW S, NEW n \in Nat, NEW f \in [1 .. n -> S]
    PROVE  f \in Seq(S)
<1>1. [1 .. n -> S] \in {[1 .. m -> S] : m \in Nat}
  OBVIOUS
<1>2. QED
  BY <1>1, SeqDef

-----------------------------------------------------------------------------
(* Counter arithmetic. *)

\* Numbers equal modulo the width of a counter stay so when both grow.
LEMMA PlusCongruent ==
    ASSUME NEW a \in Nat, NEW b \in Nat, NEW n \in Nat, Plus(0, a) = Plus(0, b)
    PROVE  Plus(0, a + n) = Plus(0, b + n)
<1> DEFINE M == CounterModulus
           t == (a \div M) - (b \div M) - ((a + n) \div M) + ((b + n) \div M)
<1>1. M \in Nat \ {0}
  BY CounterAssumption
<1>2. /\ a \div M \in Int /\ a = M * (a \div M) + (a % M)
      /\ b \div M \in Int /\ b = M * (b \div M) + (b % M)
      /\ (a + n) \div M \in Int /\ a + n = M * ((a + n) \div M) + ((a + n) % M)
      /\ (b + n) \div M \in Int /\ b + n = M * ((b + n) \div M) + ((b + n) % M)
  BY <1>1
<1>3. /\ a % M = b % M
      /\ (a + n) % M \in 0 .. M - 1
      /\ (b + n) % M \in 0 .. M - 1
  BY <1>1 DEF Plus
<1>4. t \in Int /\ ((a + n) % M) - ((b + n) % M) = M * t
  BY <1>1, <1>2, <1>3
<1> HIDE DEF t
<1>5. CASE t >= 1
  <2>1. M * t >= M
    BY <1>1, <1>4, <1>5
  <2>2. QED
    BY <1>1, <1>3, <1>4, <2>1
<1>6. CASE t <= -1
  <2>1. M * t <= -M
    BY <1>1, <1>4, <1>6
  <2>2. QED
    BY <1>1, <1>3, <1>4, <2>1
<1>7. CASE t = 0
  <2>1. (a + n) % M = (b + n) % M
    BY <1>1, <1>3, <1>4, <1>7
  <2>2. QED
    BY <2>1 DEF Plus
<1>8. QED
  BY <1>4, <1>5, <1>6, <1>7

\* A wrapped counter counts on as if it had not wrapped.
LEMMA PlusPlus ==
    ASSUME NEW a \in Nat, NEW m \in Nat, NEW n \in Nat
    PROVE  /\ Plus(Plus(a, m), n) = Plus(0, a + m + n)
           /\ Plus(n, Plus(a, m)) = Plus(0, a + m + n)
<1>1. (a + m) % CounterModulus \in Nat /\ (a + m) % CounterModulus < CounterModulus
  BY CounterAssumption
<1> DEFINE r == (a + m) % CounterModulus
<1>2. r % CounterModulus = r
  BY <1>1, CounterAssumption
<1>3. Plus(0, r) = Plus(0, a + m)
  BY <1>1, <1>2 DEF Plus
<1>4. Plus(0, r + n) = Plus(0, a + m + n)
  <2> HIDE DEF r
  <2>1. r \in Nat
    BY <1>1 DEF r
  <2>2. QED
    BY <1>3, <2>1, PlusCongruent
<1>5. QED
  BY <1>1, <1>4 DEF Plus

\* Two counters that together stand for a number still do when either of them
\* and the number grow by the same amount.
LEMMA PlusOnSum ==
    ASSUME NEW a \in Nat, NEW b \in Nat, NEW total \in Nat, NEW n \in Nat,
           Plus(a, b) = Plus(0, total)
    PROVE  /\ Plus(Plus(a, n), b) = Plus(0, total + n)
           /\ Plus(a, Plus(b, n)) = Plus(0, total + n)
<1>1. Plus(0, a + b) = Plus(0, total)
  BY DEF Plus
<1>2. Plus(0, a + b + n) = Plus(0, total + n)
  <2>1. a + b \in Nat
    OBVIOUS
  <2>2. QED
    BY <1>1, <2>1, PlusCongruent, Zenon
<1>3. Plus(Plus(a, n), b) = Plus(0, a + n + b)
  BY PlusPlus, Zenon
<1>4. Plus(a, Plus(b, n)) = Plus(0, b + n + a)
  BY PlusPlus, Zenon
<1>5. a + n + b = a + b + n /\ b + n + a = a + b + n
  OBVIOUS
<1>6. QED
  BY <1>2, <1>3, <1>4, <1>5

\* Taking more away leaves less.
LEMMA MinusMore ==
    ASSUME NEW all \in Int, NEW p \in Int, NEW q \in Int, p <= q
    PROVE  all - q <= all - p /\ all - p \in Int /\ all - q \in Int
  OBVIOUS

\* A sum grows with its second part.
LEMMA SumMore ==
    ASSUME NEW all \in Int, NEW p \in Int, NEW q \in Int, NEW n \in Int, all = p + q
    PROVE  all + n = p + (q + n)
  OBVIOUS

\* A position further on is at least a whole frame further on.
LEMMA WholeFrames ==
    ASSUME NEW a \in Int, NEW b \in Int, a < b
    PROVE  a * FrameLength + FrameLength <= b * FrameLength
<1>1. b - a \in Nat /\ b - a >= 1
  OBVIOUS
<1>2. (b - a) * FrameLength >= FrameLength
  BY <1>1, FrameLengthAssumption
<1>3. QED
  BY <1>2, FrameLengthAssumption

-----------------------------------------------------------------------------
(* The type invariant, one action at a time. *)

USE CapacityAssumption, FrameLengthAssumption, CounterAssumption, InputAssumption

\* A new queue satisfies the invariant.
LEMMA InitIInv == Init => IInv
<1> SUFFICES ASSUME Init PROVE IInv
  OBVIOUS
<1> USE DEF Init
<1>1. TypeRing /\ TypeHistory
  BY DEF TypeRing, TypeHistory, NoFrame, Frame
<1>2. stats \in Stats
  BY DEF ZeroStats, Stats, Counter
<1>3. TypeProducer /\ TypeConsumer
  BY DEF TypeProducer, TypeConsumer, NoFrame, Frame, NoSnapshot, Snapshot, Errors,
         Locations
<1>4. RingBounds /\ ProducerInv /\ ConsumerInv /\ RingHoldsPublished
  BY DEF RingBounds, ProducerInv, ConsumerInv, RingHoldsPublished
<1>5. QED
  BY <1>1, <1>2, <1>3, <1>4 DEF IInv, TypeOK

\* The counters may be bumped by any natural number.
LEMMA PlusOnCounter ==
    ASSUME NEW a \in Counter, NEW n \in Nat
    PROVE  Plus(a, n) \in Counter
  BY PlusInCounter DEF Counter

\* The parts of the type invariant that a step does not touch.
LEMMA TypeUnchanged ==
    /\ TypeRing /\ UNCHANGED <<slots, writePosition, readPosition, readOffset>>
           => TypeRing'
    /\ stats \in Stats /\ UNCHANGED stats => stats' \in Stats
    /\ TypeProducer /\ UNCHANGED pLocals => TypeProducer'
    /\ TypeConsumer /\ UNCHANGED cLocals => TypeConsumer'
    /\ TypeHistory /\ UNCHANGED history => TypeHistory'
  BY DEF TypeRing, TypeProducer, TypeConsumer, TypeHistory, pLocals, cLocals, history

\* A step of enqueue keeps the types.
LEMMA TypeEnqueue ==
    ASSUME TypeOK, Enqueue
    PROVE  TypeOK'
<1> USE TypeUnchanged DEF TypeOK, shared
<1>1. ASSUME NEW size, NEW sequence, NEW flags, EnqueueInvalid(size, sequence, flags)
      PROVE  TypeOK'
  <2>1. TypeProducer'
    BY <1>1 DEF EnqueueInvalid, ValidationError, Errors, TypeProducer, Locations
  <2>2. QED
    BY <1>1, <2>1 DEF EnqueueInvalid
<1>2. ASSUME NEW size, NEW flags \in Nat, EnqueueLoad(size, flags)
      PROVE  TypeOK'
  <2>1. stats' \in Stats
    <3>1. Plus(stats.dropped, 1) \in Counter
      BY PlusOnCounter DEF Stats
    <3>2. [stats EXCEPT !.dropped = Plus(@, 1)] \in Stats
      BY <3>1 DEF Stats
    <3>3. QED
      BY <1>2, <3>2 DEF EnqueueLoad
  <2>2. TypeProducer'
    <3>1. /\ pPc' \in {"rejected", "samples"}
          /\ pFrame' \in {pFrame, [samples |-> offers + 1, sequence_number |-> offers + 1,
                                  flags |-> flags]}
          /\ pWrite' \in {pWrite, writePosition}
          /\ enqueueError' \in {enqueueError, "queue_full"}
          /\ offers' = offers + 1
          /\ UNCHANGED <<pRead, snap>>
      BY <1>2 DEF EnqueueLoad
    <3>2. pFrame' \in Frame
      BY <3>1 DEF TypeProducer, Frame
    <3>3. QED
      BY <3>1, <3>2 DEF TypeProducer, TypeRing, Errors, Locations
  <2>3. QED
    BY <1>2, <2>1, <2>2 DEF EnqueueLoad
<1>3. CASE EnqueueSamples
  <2>1. TypeRing'
    <3>1. slots' \in [0 .. Capacity - 1 -> Frame]
      BY <1>3, SlotInRing DEF EnqueueSamples, TypeRing, TypeProducer, Frame
    <3>2. QED
      BY <1>3, <3>1 DEF EnqueueSamples, TypeRing
  <2>2. TypeProducer'
    BY <1>3 DEF EnqueueSamples, TypeProducer, Locations
  <2>3. QED
    BY <1>3, <2>1, <2>2 DEF EnqueueSamples
<1>4. CASE EnqueueMetadata
  <2>1. TypeRing'
    <3>1. WithMetadata(slots[SlotOf(pWrite)]) \in Frame
      BY SlotInRing DEF WithMetadata, TypeRing, TypeProducer, Frame
    <3>2. slots' \in [0 .. Capacity - 1 -> Frame]
      BY <1>4, <3>1 DEF EnqueueMetadata, TypeRing
    <3>3. QED
      BY <1>4, <3>2 DEF EnqueueMetadata, TypeRing
  <2>2. stats' \in Stats
    <3>1. stats.enqueued \in Counter /\ pFrame.sequence_number \in Nat
      BY DEF Stats, Frame, TypeProducer
    <3>2. Plus(stats.enqueued, 1) \in Counter
      BY <3>1, PlusOnCounter
    <3>3. QED
      BY <1>4, <3>1, <3>2 DEF EnqueueMetadata, Stats
  <2>3. TypeProducer'
    BY <1>4 DEF EnqueueMetadata, TypeProducer, Locations
  <2>4. QED
    BY <1>4, <2>1, <2>2, <2>3 DEF EnqueueMetadata
<1>5. CASE EnqueuePublish
  <2>1. TypeRing'
    BY <1>5 DEF EnqueuePublish, TypeRing, TypeProducer
  <2>2. TypeProducer'
    BY <1>5 DEF EnqueuePublish, TypeProducer, NoFrame, Frame, Locations
  <2>3. TypeHistory'
    BY <1>5 DEF EnqueuePublish, TypeHistory, TypeProducer
  <2>4. QED
    BY <1>5, <2>1, <2>2, <2>3 DEF EnqueuePublish
<1>6. QED
  BY <1>1, <1>2, <1>3, <1>4, <1>5 DEF Enqueue

\* A step of snapshot keeps the types: a ring that is not empty holds at least
\* the PCM frames its shared offset takes away.
LEMMA TypeSnapshot ==
    ASSUME TypeOK, TakeSnapshot
    PROVE  TypeOK'
<1> USE TypeUnchanged DEF TypeOK, shared
<1>1. TypeProducer'
  <2> USE DEF TypeProducer, Locations
  <2>1. CASE SnapshotWrite
    BY <2>1 DEF SnapshotWrite, TypeRing
  <2>2. CASE SnapshotRead
    BY <2>2 DEF SnapshotRead, TypeRing
  <2>3. CASE SnapshotOffset
    <3> DEFINE queued == QueuedFrames(pWrite, pRead)
    <3>1. queued \in Nat
      BY QueuedInNat
    <3>2. queued # 0 => queued * FrameLength - readOffset \in Nat
      <4> SUFFICES ASSUME queued # 0 PROVE queued * FrameLength - readOffset \in Nat
        OBVIOUS
      <4> HIDE DEF queued
      <4>1. queued * FrameLength >= FrameLength
        BY <3>1
      <4>2. queued * FrameLength \in Nat /\ readOffset \in Nat /\ readOffset < FrameLength
        BY <3>1 DEF TypeRing
      <4>3. QED
        BY <4>1, <4>2
    <3>3. snap' \in Snapshot
      BY <2>3, <3>1, <3>2 DEF SnapshotOffset, Snapshot
    <3>4. QED
      BY <2>3, <3>3 DEF SnapshotOffset
  <2>4. CASE Return
    BY <2>4 DEF Return, NoSnapshot, Snapshot, Errors
  <2>5. QED
    BY <2>1, <2>2, <2>3, <2>4 DEF TakeSnapshot
<1>2. UNCHANGED <<slots, writePosition, readPosition, readOffset, stats, cLocals, history>>
  BY DEF TakeSnapshot, SnapshotWrite, SnapshotRead, SnapshotOffset, Return
<1>3. QED
  BY <1>1, <1>2

\* A step of render keeps the types.
LEMMA TypeRender ==
    ASSUME TypeOK, ConsumerInv, Render
    PROVE  TypeOK'
<1> USE TypeUnchanged DEF TypeOK, shared, history
<1>1. ASSUME NEW count \in RenderSizes, RenderBegin(count)
      PROVE  TypeOK'
  <2>1. TypeConsumer'
    BY <1>1 DEF RenderBegin, ResumeOffset, TypeConsumer, TypeRing, Rendering
  <2>2. QED
    BY <1>1, <2>1 DEF RenderBegin
<1>2. CASE RenderCheck
  <2>1. TypeConsumer'
    BY <1>2 DEF RenderCheck, TypeConsumer, Rendering
  <2>2. QED
    BY <1>2, <2>1 DEF RenderCheck
<1>3. CASE RenderCopy
  <2> DEFINE n == AtMost(FrameLength - cOffset, cRequested - cCopied)
             chunk == [k \in 1 .. n |-> [samples |-> slots[SlotOf(cRead)].samples,
                                         offset |-> cOffset + k - 1]]
  <2>1. n \in Nat /\ n <= FrameLength - cOffset
    BY <1>3 DEF ConsumerInv, RenderCopy, AtMost, TypeConsumer
  <2>2. slots[SlotOf(cRead)].samples \in Nat
    BY SlotInRing DEF Frame, TypeRing, TypeConsumer
  <2>3. chunk \in Seq([samples : Nat, offset : Nat])
    <3> HIDE DEF n
    <3>1. ASSUME NEW k \in 1 .. n PROVE cOffset + k - 1 \in Nat
      BY <2>1 DEF TypeConsumer
    <3>2. \A k \in 1 .. n : chunk[k] \in [samples : Nat, offset : Nat]
      BY <2>2, <3>1
    <3>3. chunk \in [1 .. n -> [samples : Nat, offset : Nat]]
      BY <3>2
    <3> HIDE DEF chunk
    <3>4. QED
      BY <2>1, <3>3, FunctionIsSeq
  <2>4. TypeHistory'
    <3>1. rendered' = rendered \o chunk /\ UNCHANGED <<published, discarded>>
      BY <1>3 DEF RenderCopy
    <3> HIDE DEF chunk
    <3>2. QED
      BY <2>3, <3>1 DEF TypeHistory
  <2>5. TypeConsumer'
    <3>1. /\ cCopied' = cCopied + n /\ cOffset' = cOffset + n
          /\ cPc' \in {"complete", "finish"}
          /\ UNCHANGED <<cRead, cWrite, cRequested>>
      BY <1>3 DEF RenderCopy
    <3> HIDE DEF n
    <3>2. QED
      BY <2>1, <3>1 DEF TypeConsumer, Rendering
  <2>6. UNCHANGED <<shared, pLocals>>
    BY <1>3 DEF RenderCopy
  <2>7. QED
    BY <2>4, <2>5, <2>6
<1>4. CASE RenderComplete
  <2>1. CompletedSlot.sequence_number \in Nat /\ CompletedSlot.flags \in Nat
    BY SlotInRing DEF CompletedSlot, Frame, TypeRing, TypeConsumer
  <2>2. /\ Plus(stats.consumed, 1) \in Counter
        /\ Plus(stats.discontinuities, 1) \in Counter
    BY PlusOnCounter DEF Stats
  <2>3. stats' \in Stats
    BY <1>4, <2>1, <2>2 DEF RenderComplete, Stats
  <2>4. TypeRing' /\ TypeConsumer'
    BY <1>4 DEF RenderComplete, OffsetOfNextSlot, TypeRing, TypeConsumer, Rendering
  <2>5. UNCHANGED <<pLocals, history>>
    BY <1>4 DEF RenderComplete
  <2>6. QED
    BY <2>3, <2>4, <2>5
<1>5. CASE RenderRelease
  <2>1. TypeRing' /\ TypeConsumer'
    BY <1>5 DEF RenderRelease, ReleasedPosition, TypeRing, TypeConsumer, Rendering
  <2>2. QED
    BY <1>5, <2>1 DEF RenderRelease
<1>6. CASE RenderFinish
  <2>1. cRequested - cCopied \in Nat
    BY DEF ConsumerInv, TypeConsumer
  <2>2. /\ Plus(stats.queueOutput, cCopied) \in Counter
        /\ Plus(stats.silenceOutput, cRequested - cCopied) \in Counter
        /\ Plus(stats.underruns, 1) \in Counter
    BY <2>1, PlusOnCounter DEF Stats, TypeConsumer
  <2>3. stats' \in Stats
    BY <1>6, <2>2 DEF RenderFinish, Stats
  <2>4. cOffset \in 0 .. FrameLength - 1
    BY <1>6 DEF RenderFinish, ConsumerInv, TypeConsumer
  <2>5. TypeRing' /\ TypeConsumer'
    BY <1>6, <2>4 DEF RenderFinish, TypeRing, TypeConsumer
  <2>6. UNCHANGED <<pLocals, history>>
    BY <1>6 DEF RenderFinish
  <2>7. QED
    BY <2>3, <2>5, <2>6
<1>7. QED
  BY <1>1, <1>2, <1>3, <1>4, <1>5, <1>6 DEF Render, RenderStep

\* A step of discard_pending or reset keeps the types.
LEMMA TypeDiscardReset ==
    ASSUME TypeOK, Discard \/ Reset
    PROVE  TypeOK'
<1> USE TypeUnchanged DEF TypeOK, shared
<1>1. CASE DiscardLoad
  <2>1. TypeConsumer'
    BY <1>1 DEF DiscardLoad, TypeConsumer, TypeRing
  <2>2. QED
    BY <1>1, <2>1 DEF DiscardLoad
<1>2. CASE DiscardOffset
  <2>1. TypeConsumer' /\ TypeRing'
    BY <1>2 DEF DiscardOffset, TypeConsumer, TypeRing
  <2>2. QED
    BY <1>2, <2>1 DEF DiscardOffset
<1>3. CASE DiscardPosition
  <2>1. DiscardedFrames \in Nat
    BY QueuedInNat DEF DiscardedFrames, TypeConsumer
  <2>2. /\ Plus(stats.discarded, DiscardedFrames) \in Counter
        /\ Plus(stats.discardedPartial, 1) \in Counter
    BY <2>1, PlusOnCounter DEF Stats
  <2>3. stats' \in Stats
    BY <1>3, <2>2 DEF DiscardPosition, Stats
  <2>4. TypeConsumer' /\ TypeRing'
    BY <1>3 DEF DiscardPosition, TypeConsumer, TypeRing
  <2>5. TypeHistory'
    BY <1>3 DEF DiscardPosition, TypeHistory, TypeConsumer
  <2>6. UNCHANGED pLocals
    BY <1>3 DEF DiscardPosition
  <2>7. QED
    BY <2>3, <2>4, <2>5, <2>6
<1>4. CASE Reset
  <2>1. stats' \in Stats
    BY <1>4 DEF Reset, ZeroStats, Stats, Counter
  <2>2. TypeRing' /\ TypeHistory'
    BY <1>4 DEF Reset, TypeRing, TypeHistory
  <2>3. QED
    BY <1>4, <2>1, <2>2 DEF Reset
<1>5. QED
  BY <1>1, <1>2, <1>3, <1>4 DEF Discard
-----------------------------------------------------------------------------
(* The positions, the producer's slot and the consumer's copies. *)

\* A step of the producer thread keeps the positions and what both threads
\* know of them.
LEMMA ProducerStep ==
    ASSUME IInv, Enqueue \/ TakeSnapshot
    PROVE  RingBounds' /\ ProducerInv' /\ ConsumerInv' /\ RingHoldsPublished'
<1> USE DEF IInv, TypeOK, TypeRing, TypeProducer, TypeConsumer, TypeHistory, shared,
            cLocals, history
<1>1. CASE \/ TakeSnapshot
           \/ \E size \in OfferedSizes, sequence \in {0, offers + 1}, flags \in OfferedFlags :
                  EnqueueInvalid(size, sequence, flags)
  <2>1. /\ UNCHANGED <<shared, pFrame, cLocals, history>>
        /\ pPc' \notin {"samples", "metadata", "publish"}
    BY <1>1 DEF TakeSnapshot, SnapshotWrite, SnapshotRead, SnapshotOffset, Return,
                EnqueueInvalid
  <2>2. QED
    BY <2>1 DEF RingBounds, ProducerInv, ConsumerInv, RingHoldsPublished
<1>2. ASSUME NEW size, NEW flags, EnqueueLoad(size, flags)
      PROVE  RingBounds' /\ ProducerInv' /\ ConsumerInv' /\ RingHoldsPublished'
  <2>1. /\ UNCHANGED <<slots, writePosition, readPosition, readOffset, cLocals, history>>
        /\ \/ pPc' = "rejected"
           \/ /\ pPc' = "samples" /\ pWrite' = writePosition
              /\ ~Full(writePosition, readPosition)
    BY <1>2 DEF EnqueueLoad
  <2>2. RingBounds' /\ ConsumerInv' /\ RingHoldsPublished'
    BY <2>1 DEF RingBounds, ConsumerInv, RingHoldsPublished
  <2>3. ~Full(writePosition, readPosition) => writePosition < readPosition + Capacity
    BY DEF Full, QueuedFrames, RingBounds
  <2>4. QED
    BY <2>1, <2>2, <2>3 DEF ProducerInv
<1>3. CASE EnqueueSamples \/ EnqueueMetadata
  <2>1. /\ UNCHANGED <<writePosition, readPosition, readOffset, pFrame, pWrite,
                       cLocals, history>>
        /\ pWrite = writePosition /\ writePosition < readPosition + Capacity
        /\ SlotOf(pWrite) \in 0 .. Capacity - 1
    BY <1>3, SlotInRing DEF EnqueueSamples, EnqueueMetadata, ProducerInv
  <2>2. RingBounds' /\ ConsumerInv'
    BY <2>1 DEF RingBounds, ConsumerInv
  <2>3. ASSUME NEW i \in readPosition .. writePosition - 1
        PROVE  slots'[SlotOf(i)] = slots[SlotOf(i)]
    <3>1. i \in Nat /\ SlotOf(i) # SlotOf(pWrite)
      BY <2>1, DistinctSlots
    <3>2. SlotOf(i) \in 0 .. Capacity - 1
      BY <3>1, SlotInRing
    <3>3. QED
      BY <1>3, <2>1, <3>1, <3>2 DEF EnqueueSamples, EnqueueMetadata
  <2>4. RingHoldsPublished'
    BY <2>1, <2>3 DEF RingHoldsPublished
  <2>5. ProducerInv'
    <3>1. CASE EnqueueSamples
      <4>1. slots'[SlotOf(pWrite)].samples = pFrame.samples
        BY <2>1, <3>1 DEF EnqueueSamples, Frame
      <4>2. QED
        BY <2>1, <3>1, <4>1 DEF EnqueueSamples, ProducerInv
    <3>2. CASE EnqueueMetadata
      <4>1. slots[SlotOf(pWrite)].samples = pFrame.samples
        BY <3>2 DEF EnqueueMetadata, ProducerInv
      <4>2. slots'[SlotOf(pWrite)] = WithMetadata(slots[SlotOf(pWrite)])
        BY <2>1, <3>2 DEF EnqueueMetadata
      <4>3. slots'[SlotOf(pWrite)] = pFrame
        BY <2>1, <4>1, <4>2 DEF WithMetadata, Frame
      <4>4. QED
        BY <2>1, <3>2, <4>3 DEF EnqueueMetadata, ProducerInv
    <3>3. QED
      BY <1>3, <3>1, <3>2
  <2>6. QED
    BY <2>2, <2>4, <2>5
<1>4. CASE EnqueuePublish
  <2>1. /\ UNCHANGED <<slots, readPosition, readOffset, cLocals>>
        /\ writePosition' = writePosition + 1
        /\ writePosition < readPosition + Capacity
        /\ slots[SlotOf(writePosition)] = pFrame
        /\ published' = Append(published, pFrame)
        /\ pPc' = "idle"
    BY <1>4 DEF EnqueuePublish, ProducerInv
  <2>2. /\ Len(published') = writePosition'
        /\ published'[writePosition + 1] = pFrame
        /\ \A i \in 1 .. writePosition : published'[i] = published[i]
    BY <2>1 DEF RingBounds
  <2>3. RingBounds' /\ ConsumerInv' /\ ProducerInv'
    BY <2>1, <2>2 DEF RingBounds, ConsumerInv, ProducerInv
  <2>4. RingHoldsPublished'
    <3>0. readPosition' .. writePosition' - 1 = readPosition .. writePosition
      BY <2>1
    <3> SUFFICES ASSUME NEW i \in readPosition .. writePosition
                 PROVE  slots'[SlotOf(i)] = published'[i + 1]
      BY <3>0 DEF RingHoldsPublished
    <3>1. CASE i = writePosition
      BY <2>1, <2>2, <3>1
    <3>2. CASE i \in readPosition .. writePosition - 1
      BY <2>1, <2>2, <3>2 DEF RingHoldsPublished
    <3>3. QED
      BY <3>1, <3>2
  <2>5. QED
    BY <2>3, <2>4
<1>5. QED
  BY <1>1, <1>2, <1>3, <1>4 DEF Enqueue

\* A step of the consumer thread, or a reset, does the same.
LEMMA ConsumerStep ==
    ASSUME IInv, Render \/ Discard \/ Reset
    PROVE  RingBounds' /\ ProducerInv' /\ ConsumerInv' /\ RingHoldsPublished'
<1> USE DEF IInv, TypeOK, TypeRing, TypeProducer, TypeConsumer, TypeHistory, shared,
            pLocals, history
<1>1. CASE Reset
  BY <1>1 DEF Reset, RingBounds, ProducerInv, ConsumerInv, RingHoldsPublished, cLocals
<1>2. CASE Render \/ Discard
  <2>1. /\ UNCHANGED <<slots, writePosition, pLocals, published>>
        /\ readPosition <= readPosition' /\ readPosition' <= writePosition
        /\ readPosition' \in Nat
    <3> USE DEF RingBounds, ConsumerInv
    <3>1. CASE RenderRelease
      BY <3>1 DEF RenderRelease, ReleasedPosition
    <3>2. CASE DiscardPosition
      BY <3>2 DEF DiscardPosition
    <3>3. ASSUME ~RenderRelease, ~DiscardPosition
          PROVE  UNCHANGED <<slots, writePosition, pLocals, published, readPosition>>
      BY <1>2, <3>3 DEF Render, RenderStep, RenderBegin, RenderCheck, RenderCopy,
            RenderComplete, RenderFinish, Discard, DiscardLoad, DiscardOffset
    <3>4. QED
      BY <3>1, <3>2, <3>3
  <2>2. RingBounds' /\ ProducerInv' /\ RingHoldsPublished'
    BY <2>1 DEF RingBounds, ProducerInv, RingHoldsPublished
  <2>3. ConsumerInv'
    <3> USE DEF ConsumerInv, RingBounds
    <3>1. ASSUME NEW count \in RenderSizes, RenderBegin(count) PROVE ConsumerInv'
      BY <3>1 DEF RenderBegin, ResumeOffset
    <3>2. CASE RenderCheck
      BY <3>2 DEF RenderCheck, Empty
    <3>3. CASE RenderCopy
      <4>1. AtMost(FrameLength - cOffset, cRequested - cCopied) <= cRequested - cCopied
        BY DEF AtMost
      <4>2. QED
        BY <3>3, <4>1 DEF RenderCopy, AtMost
    <3>4. CASE RenderComplete
      BY <3>4 DEF RenderComplete
    <3>5. CASE RenderRelease
      BY <3>5 DEF RenderRelease, ReleasedPosition
    <3>6. CASE RenderFinish
      BY <3>6 DEF RenderFinish
    <3>7. CASE DiscardLoad
      BY <3>7 DEF DiscardLoad
    <3>8. CASE DiscardOffset
      BY <3>8 DEF DiscardOffset
    <3>9. CASE DiscardPosition
      BY <3>9 DEF DiscardPosition
    <3>10. QED
      BY <1>2, <3>1, <3>2, <3>3, <3>4, <3>5, <3>6, <3>7, <3>8, <3>9
      DEF Render, RenderStep, Discard
  <2>4. QED
    BY <2>2, <2>3
<1>3. QED
  BY <1>1, <1>2

-----------------------------------------------------------------------------

\* The strengthened invariant holds in every reachable state.
THEOREM Invariance == Spec => []IInv
<1>1. IInv /\ [Next]_vars => IInv'
  <2> SUFFICES ASSUME IInv, [Next]_vars PROVE IInv'
    OBVIOUS
  <2>1. CASE Enqueue \/ TakeSnapshot
    BY <2>1, ProducerStep, TypeEnqueue, TypeSnapshot DEF IInv
  <2>2. CASE Render \/ Discard \/ Reset
    BY <2>2, ConsumerStep, TypeRender, TypeDiscardReset DEF IInv
  <2>3. CASE UNCHANGED vars
    <3>1. TypeOK'
      BY <2>3, TypeUnchanged DEF IInv, TypeOK, vars, shared
    <3>2. QED
      BY <2>3, <3>1 DEF IInv, RingBounds, ProducerInv, ConsumerInv,
         RingHoldsPublished, vars, shared, pLocals, cLocals, history
  <2>4. QED
    BY <2>1, <2>2, <2>3 DEF Next
<1>2. QED
  BY InitIInv, <1>1, PTL DEF Spec

\* Every variable keeps its type.
THEOREM TypeCorrect == Spec => []TypeOK
<1>1. IInv => TypeOK
  BY DEF IInv
<1>2. QED
  BY Invariance, <1>1, PTL

\* The ring never overwrites a published frame that is still to be played.
THEOREM RingIsFaithful == Spec => []RingHoldsPublished
<1>1. IInv => RingHoldsPublished
  BY DEF IInv
<1>2. QED
  BY Invariance, <1>1, PTL

\* Producer and callback never access the same slot at the same time.
THEOREM NoDataRace == Spec => []NoSlotRace
<1>1. IInv => NoSlotRace
  <2> SUFFICES ASSUME IInv, pPc \in {"samples", "metadata"}, cPc \in {"copy", "complete"}
               PROVE  SlotOf(pWrite) # SlotOf(cRead)
    BY DEF NoSlotRace
  <2>1. /\ cRead \in Nat /\ pWrite \in Nat
        /\ cRead < pWrite /\ pWrite < cRead + Capacity
    BY DEF IInv, TypeOK, TypeRing, TypeProducer, TypeConsumer, ProducerInv, ConsumerInv
  <2>2. QED
    BY <2>1, DistinctSlots
<1>2. QED
  BY Invariance, <1>1, PTL

\* The read position goes back only in a reset: nothing is played twice.
THEOREM NoReplay == Spec => NeverReplays
<1>1. IInv /\ [Next]_vars => [readPosition' < readPosition => writePosition' = 0]_vars
  <2> SUFFICES ASSUME IInv, Next, readPosition' < readPosition
               PROVE  writePosition' = 0
    OBVIOUS
  <2> USE DEF IInv, TypeOK, TypeRing, TypeConsumer, ConsumerInv, shared
  <2>1. CASE Enqueue \/ TakeSnapshot
    BY <2>1 DEF Enqueue, EnqueueInvalid, EnqueueLoad, EnqueueSamples, EnqueueMetadata,
                EnqueuePublish, TakeSnapshot, SnapshotWrite, SnapshotRead,
                SnapshotOffset, Return
  <2>2. CASE Render \/ Discard
    BY <2>2 DEF Render, RenderStep, RenderBegin, RenderCheck, RenderCopy,
                RenderComplete, RenderRelease, ReleasedPosition, RenderFinish,
                Discard, DiscardLoad, DiscardOffset, DiscardPosition
  <2>3. CASE Reset
    BY <2>3 DEF Reset
  <2>4. QED
    BY <2>1, <2>2, <2>3 DEF Next
<1>2. QED
  BY Invariance, <1>1, PTL DEF Spec, NeverReplays
-----------------------------------------------------------------------------
(* What was played, counted and shown.  The remaining invariants relate the *)
(* history of the call sequence to the positions; HInv strengthens them.   *)

\* How far into a slot the consumer is at each place, and how the shared offset
\* lags behind it.  A head that was started is a frame still in the ring.
OffsetInv ==
    /\ cPc \in {"check", "copy", "complete", "finish"} => readOffset <= cOffset
    /\ cPc = "complete" => cOffset = FrameLength
    /\ cPc \in {"release", "discardPosition"} => readOffset = 0
    /\ cPc = "discardOffset" => cOffset = readOffset
    /\ cPc \in {"discardOffset", "discardPosition"} =>
           cOffset < FrameLength /\ (cOffset > 0 => cRead < cWrite)
    /\ PlayedOfHead > 0 => readPosition < writePosition
    /\ cPc \in {"check", "copy"} => cCopied < cRequested
    /\ cPc \notin Rendering => cCopied = 0

\* What a snapshot knows between its loads: the write position is exact, the
\* read position may be old but is of this ring.
SnapshotInv ==
    /\ pPc \in {"snapRead", "snapOffset"} => pWrite = writePosition
    /\ pPc = "snapOffset" =>
           pRead <= readPosition /\ writePosition <= pRead + Capacity

\* The counters at every place of the calls: a frame is counted one step before
\* its position is published, and consumed one step before it is released.
CountInv ==
    /\ stats.enqueued = Plus(0, writePosition + IF pPc = "publish" THEN 1 ELSE 0)
    /\ Plus(stats.consumed, stats.discarded)
           = Plus(0, readPosition + IF cPc = "release" THEN 1 ELSE 0)
    /\ cCopied <= Len(rendered)
    /\ stats.queueOutput = Plus(0, Len(rendered) - cCopied)
    /\ discarded = {} => Len(rendered) = FrameLength * readPosition + PlayedOfHead

\* The last PCM frame played: the one before the cursor in the head, or, when
\* the head is untouched, the end of an earlier frame or the place where the
\* frames since then were discarded.
LastPlayed == rendered[Len(rendered)]
LastInv ==
    /\ PlayedOfHead > 0 =>
           /\ rendered # <<>>
           /\ LastPlayed = [samples |-> published[readPosition + 1].samples,
                            offset |-> PlayedOfHead - 1]
    /\ PlayedOfHead = 0 /\ rendered # <<>> =>
           \E i \in 1 .. readPosition :
               /\ LastPlayed.samples = published[i].samples
               /\ LastPlayed.offset = FrameLength - 1 \/ i \in discarded
               /\ (i + 1) .. readPosition \subseteq discarded

\* A published frame carries the samples of its sequence number, and that is
\* the number reported when it is used up.
ReportInv ==
    /\ pFrame.samples = pFrame.sequence_number
    /\ \A i \in 1 .. writePosition : published[i].samples = published[i].sequence_number
    /\ cPc = "release" => stats.lastConsumed = published[readPosition + 1].samples

-----------------------------------------------------------------------------
(* What the steps of each thread leave alone. *)

\* A step of the producer thread leaves the consumer's state alone; only the
\* publishing store moves the write position and extends the log.
LEMMA ProducerLeaves ==
    ASSUME IInv, Enqueue \/ TakeSnapshot
    PROVE  /\ UNCHANGED <<readPosition, readOffset, cLocals, discarded, rendered>>
           /\ PlayedOfHead' = PlayedOfHead
           /\ \/ EnqueuePublish
              \/ UNCHANGED <<writePosition, published>>
           /\ \A k \in {"consumed", "discarded", "queueOutput", "lastConsumed"} :
                  stats'[k] = stats[k]
<1> USE DEF IInv, TypeOK, Stats
<1>1. UNCHANGED <<readPosition, readOffset, cLocals, discarded, rendered>>
  BY DEF Enqueue, EnqueueInvalid, EnqueueLoad, EnqueueSamples, EnqueueMetadata,
         EnqueuePublish, TakeSnapshot, SnapshotWrite, SnapshotRead, SnapshotOffset,
         Return, shared, history
<1>2. EnqueuePublish \/ UNCHANGED <<writePosition, published>>
  BY DEF Enqueue, EnqueueInvalid, EnqueueLoad, EnqueueSamples, EnqueueMetadata,
         TakeSnapshot, SnapshotWrite, SnapshotRead, SnapshotOffset,
         Return, shared, history
<1>3. \A k \in {"consumed", "discarded", "queueOutput", "lastConsumed"} :
          stats'[k] = stats[k]
  BY DEF Enqueue, EnqueueInvalid, EnqueueLoad, EnqueueSamples, EnqueueMetadata,
         EnqueuePublish, TakeSnapshot, SnapshotWrite, SnapshotRead, SnapshotOffset,
         Return, shared
<1>4. QED
  BY <1>1, <1>2, <1>3 DEF PlayedOfHead, cLocals

\* A step of the consumer thread leaves the producer's state alone.
LEMMA ConsumerLeaves ==
    ASSUME Render \/ Discard
    PROVE  UNCHANGED <<slots, writePosition, pLocals, published>>
  BY DEF Render, RenderStep, RenderBegin, RenderCheck, RenderCopy, RenderComplete,
         RenderRelease, RenderFinish, Discard, DiscardLoad, DiscardOffset,
         DiscardPosition, shared, history

\* One memcpy of render copies at least one PCM frame, all of the published
\* frame at the read position, to the end of what was rendered.
LEMMA CopyAppends ==
    ASSUME IInv, OffsetInv, RenderCopy
    PROVE  \E n \in 1 .. FrameLength - cOffset :
               LET chunk == [k \in 1 .. n |->
                                [samples |-> published[readPosition + 1].samples,
                                 offset |-> cOffset + k - 1]]
               IN  /\ chunk \in Seq([samples : Nat, offset : Nat])
                   /\ rendered' = rendered \o chunk
                   /\ cCopied' = cCopied + n
                   /\ cOffset' = cOffset + n
                   /\ cPc' = IF cOffset + n = FrameLength THEN "complete" ELSE "finish"
                   /\ n <= cRequested - cCopied
<1> USE DEF IInv, TypeOK, TypeRing, TypeProducer, TypeConsumer, TypeHistory
<1> DEFINE n == AtMost(FrameLength - cOffset, cRequested - cCopied)
           tag == published[readPosition + 1].samples
           chunk == [k \in 1 .. n |-> [samples |-> tag, offset |-> cOffset + k - 1]]
<1>1. n \in 1 .. FrameLength - cOffset /\ n <= cRequested - cCopied
  BY DEF ConsumerInv, OffsetInv, RenderCopy, AtMost
<1>2. cRead = readPosition /\ readPosition \in readPosition .. writePosition - 1
  BY DEF RenderCopy, ConsumerInv
<1>3. slots[SlotOf(cRead)].samples = tag
  BY <1>2 DEF RingHoldsPublished
<1>4. tag \in Nat
  BY <1>2, <1>3, SlotInRing DEF Frame
<1>5. /\ rendered' = rendered \o chunk
      /\ cCopied' = cCopied + n
      /\ cOffset' = cOffset + n
      /\ cPc' = IF cOffset + n = FrameLength THEN "complete" ELSE "finish"
  BY <1>3 DEF RenderCopy
<1>6. chunk \in Seq([samples : Nat, offset : Nat])
  <2> HIDE DEF n, tag
  <2>1. ASSUME NEW k \in 1 .. n PROVE cOffset + k - 1 \in Nat
    BY <1>1
  <2>2. chunk \in [1 .. n -> [samples : Nat, offset : Nat]]
    BY <1>4, <2>1
  <2> HIDE DEF chunk
  <2>3. n \in Nat
    BY <1>1
  <2>4. QED
    BY <2>2, <2>3, FunctionIsSeq
<1> HIDE DEF n
<1>7. QED
  BY <1>1, <1>5, <1>6

\* The last PCM frame of such a copy is the one before the new cursor.
LEMMA CopyIsLast ==
    ASSUME IInv, OffsetInv, RenderCopy
    PROVE  /\ Len(rendered') - Len(rendered) = cCopied' - cCopied
           /\ Len(rendered') - Len(rendered) = cOffset' - cOffset
           /\ cCopied' > cCopied
           /\ rendered' # <<>>
           /\ LastPlayed' = [samples |-> published[readPosition + 1].samples,
                             offset |-> cOffset' - 1]
<1> USE DEF IInv, TypeOK, TypeConsumer, TypeHistory
<1>1. PICK n \in 1 .. FrameLength - cOffset :
          LET chunk == [k \in 1 .. n |->
                           [samples |-> published[readPosition + 1].samples,
                            offset |-> cOffset + k - 1]]
          IN  /\ chunk \in Seq([samples : Nat, offset : Nat])
              /\ rendered' = rendered \o chunk
              /\ cCopied' = cCopied + n
              /\ cOffset' = cOffset + n
  BY CopyAppends
<1> DEFINE chunk == [k \in 1 .. n |->
                        [samples |-> published[readPosition + 1].samples,
                         offset |-> cOffset + k - 1]]
<1>2. n \in Nat /\ n >= 1
  BY <1>1
<1>3. Len(chunk) = n
  BY <1>2
<1>4. chunk[n] = [samples |-> published[readPosition + 1].samples,
                  offset |-> cOffset + n - 1]
  BY <1>2
<1>5. chunk \in Seq([samples : Nat, offset : Nat]) /\ rendered' = rendered \o chunk
  BY <1>1
<1> HIDE DEF chunk
<1>6. /\ Len(rendered') = Len(rendered) + n
      /\ rendered'[Len(rendered) + n] = chunk[n]
      /\ Len(rendered) \in Nat
  BY <1>2, <1>3, <1>5, ConcatProperties
<1>7. LastPlayed' = chunk[n]
  BY <1>6 DEF LastPlayed
<1>8. rendered' # <<>>
  <2>1. Len(rendered') # 0
    BY <1>2, <1>6
  <2>2. QED
    BY <2>1
<1>9. cCopied' = cCopied + n /\ cOffset' = cOffset + n
  BY <1>1
<1>10. QED
  BY <1>2, <1>4, <1>6, <1>7, <1>8, <1>9

-----------------------------------------------------------------------------
(* Each part is kept by each step. *)

\* The consumer's offsets.
LEMMA OffsetStep ==
    ASSUME IInv, OffsetInv, Next
    PROVE  OffsetInv'
<1> USE DEF IInv, TypeOK, TypeRing, TypeProducer, TypeConsumer
<1>1. CASE Enqueue \/ TakeSnapshot
  <2>1. /\ UNCHANGED <<readPosition, readOffset, cLocals>>
        /\ PlayedOfHead' = PlayedOfHead
        /\ writePosition' >= writePosition /\ writePosition' \in Nat
    BY <1>1, ProducerLeaves DEF EnqueuePublish, ProducerInv
  <2>2. QED
    BY <2>1 DEF OffsetInv, cLocals
<1>2. CASE Render \/ Discard
  <2>1. UNCHANGED writePosition /\ writePosition \in Nat /\ readPosition <= writePosition
    BY <1>2, ConsumerLeaves DEF RingBounds
  <2>2. ASSUME NEW count \in RenderSizes, RenderBegin(count) PROVE OffsetInv'
    BY <2>1, <2>2 DEF RenderBegin, ResumeOffset, OffsetInv, PlayedOfHead, shared, Rendering
  <2>3. CASE RenderCheck
    BY <2>1, <2>3 DEF RenderCheck, OffsetInv, PlayedOfHead, shared, Rendering
  <2>4. CASE RenderCopy
    <3>1. PICK n \in 1 .. FrameLength - cOffset :
              /\ cOffset' = cOffset + n
              /\ cPc' = IF cOffset + n = FrameLength THEN "complete" ELSE "finish"
      BY <2>4, CopyAppends
    <3>2. UNCHANGED <<readPosition, readOffset, cRead, cWrite, cRequested>>
      BY <2>4 DEF RenderCopy, shared
    <3>3. readPosition < writePosition /\ readOffset <= cOffset
      BY <2>4 DEF RenderCopy, OffsetInv, ConsumerInv
    <3>4. QED
      BY <2>1, <3>1, <3>2, <3>3 DEF OffsetInv, PlayedOfHead, Rendering
  <2>5. CASE RenderComplete
    BY <2>1, <2>5 DEF RenderComplete, OffsetOfNextSlot, OffsetInv, PlayedOfHead,
       ConsumerInv, Rendering
  <2>6. CASE RenderRelease
    BY <2>1, <2>6 DEF RenderRelease, ReleasedPosition, OffsetInv, PlayedOfHead,
       ConsumerInv, Rendering
  <2>7. CASE RenderFinish
    BY <2>1, <2>7 DEF RenderFinish, OffsetInv, PlayedOfHead, ConsumerInv, Rendering
  <2>8. CASE DiscardLoad
    BY <2>1, <2>8 DEF DiscardLoad, OffsetInv, PlayedOfHead, shared, Rendering
  <2>9. CASE DiscardOffset
    BY <2>1, <2>9 DEF DiscardOffset, OffsetInv, PlayedOfHead, Rendering
  <2>10. CASE DiscardPosition
    BY <2>1, <2>10 DEF DiscardPosition, OffsetInv, PlayedOfHead, Rendering
  <2>11. QED
    BY <1>2, <2>2, <2>3, <2>4, <2>5, <2>6, <2>7, <2>8, <2>9, <2>10
    DEF Render, RenderStep, Discard
<1>3. CASE Reset
  BY <1>3 DEF Reset, OffsetInv, PlayedOfHead, cLocals
<1>4. QED
  BY <1>1, <1>2, <1>3 DEF Next

\* The consumer only takes PCM away: what remains never grows by its steps.
LEMMA RemainingShrinks ==
    ASSUME IInv, OffsetInv, Render \/ Discard
    PROVE  Remaining' <= Remaining /\ Remaining \in Int /\ Remaining' \in Int
<1> USE DEF IInv, TypeOK, TypeRing, TypeProducer, TypeConsumer
<1>1. UNCHANGED writePosition /\ writePosition \in Nat /\ readPosition \in Nat
  BY ConsumerLeaves
<1>2. PlayedOfHead \in 0 .. FrameLength
  BY DEF PlayedOfHead
<1>3. (writePosition - readPosition) * FrameLength \in Int
  BY <1>1
<1>4. ASSUME UNCHANGED readPosition,
             PlayedOfHead' \in 0 .. FrameLength, PlayedOfHead' >= PlayedOfHead
      PROVE  Remaining' <= Remaining /\ Remaining \in Int /\ Remaining' \in Int
  <2> DEFINE left == (writePosition - readPosition) * FrameLength
  <2>1. Remaining = left - PlayedOfHead /\ Remaining' = left - PlayedOfHead'
    BY <1>1, <1>4 DEF Remaining
  <2>2. left \in Int
    BY <1>3
  <2> HIDE DEF left
  <2>3. PlayedOfHead \in Int /\ PlayedOfHead' \in Int /\ PlayedOfHead <= PlayedOfHead'
    BY <1>2, <1>4
  <2>4. /\ left - PlayedOfHead' <= left - PlayedOfHead
        /\ left - PlayedOfHead \in Int /\ left - PlayedOfHead' \in Int
    BY <2>2, <2>3, MinusMore, Zenon
  <2>5. QED
    BY <2>1, <2>4
<1>5. ASSUME NEW count \in RenderSizes, RenderBegin(count)
      PROVE  UNCHANGED <<readPosition, PlayedOfHead>>
  BY <1>5 DEF RenderBegin, ResumeOffset, shared, PlayedOfHead
<1>6. CASE RenderCheck \/ RenderFinish \/ DiscardLoad \/ DiscardOffset
  <2>1. UNCHANGED <<readPosition, PlayedOfHead>>
    BY <1>6 DEF RenderCheck, RenderFinish, DiscardLoad, DiscardOffset, shared,
                PlayedOfHead, OffsetInv
  <2>2. QED
    BY <1>2, <1>4, <2>1
<1>7. CASE RenderCopy
  <2>1. PICK n \in 1 .. FrameLength - cOffset :
            /\ cOffset' = cOffset + n
            /\ cPc' = IF cOffset + n = FrameLength THEN "complete" ELSE "finish"
    BY <1>7, CopyAppends
  <2>2. UNCHANGED readPosition /\ cPc = "copy"
    BY <1>7 DEF RenderCopy, shared
  <2>3. PlayedOfHead' = PlayedOfHead + n /\ PlayedOfHead = cOffset
    BY <2>1, <2>2 DEF PlayedOfHead
  <2>4. QED
    BY <1>4, <2>1, <2>2, <2>3
<1>8. CASE RenderComplete
  <2>1. UNCHANGED readPosition /\ PlayedOfHead' = FrameLength
    BY <1>8 DEF RenderComplete, PlayedOfHead
  <2>2. QED
    BY <1>2, <1>4, <2>1
<1>9. CASE RenderRelease
  <2>1. readPosition' = readPosition + 1 /\ PlayedOfHead = FrameLength
        /\ PlayedOfHead' = 0
    BY <1>9 DEF RenderRelease, ReleasedPosition, PlayedOfHead, ConsumerInv, OffsetInv
  <2>2. (writePosition - (readPosition + 1)) * FrameLength + FrameLength
            = (writePosition - readPosition) * FrameLength
    BY <1>1
  <2>3. (writePosition - (readPosition + 1)) * FrameLength \in Int
    BY <1>1
  <2>4. QED
    BY <1>1, <1>3, <2>1, <2>2, <2>3 DEF Remaining
<1>10. CASE DiscardPosition
  <2>1. /\ readPosition' = cWrite /\ PlayedOfHead = cOffset /\ PlayedOfHead' = 0
        /\ cOffset < FrameLength
        /\ readPosition <= cWrite
        /\ cOffset > 0 => readPosition < cWrite
    BY <1>10 DEF DiscardPosition, PlayedOfHead, ConsumerInv, OffsetInv
  <2> DEFINE left == (writePosition - cWrite) * FrameLength
             all  == (writePosition - readPosition) * FrameLength
  <2>2. left \in Int /\ all \in Int
    BY <1>1
  <2>3. readPosition < cWrite => left + FrameLength <= all
    BY <1>1, WholeFrames
  <2>4. readPosition = cWrite => left = all
    OBVIOUS
  <2>5. Remaining = all - cOffset /\ Remaining' = left
    BY <1>1, <2>1, <2>2 DEF Remaining
  <2> HIDE DEF left, all
  <2>6. QED
    BY <2>1, <2>2, <2>3, <2>4, <2>5
<1>11. QED
  BY <1>2, <1>4, <1>5, <1>6, <1>7, <1>8, <1>9, <1>10 DEF Render, RenderStep, Discard

\* The three loads of a snapshot: the distance is taken between an exact write
\* position and a read position that may be old, so it is at least the real
\* one; an offset loaded late belongs to a later position or lags behind it.
LEMMA SnapshotStep ==
    ASSUME IInv, OffsetInv, SnapshotInv, SnapshotNeverUnderstates, Next
    PROVE  SnapshotInv' /\ SnapshotNeverUnderstates'
<1> USE DEF IInv, TypeOK, TypeRing, TypeProducer, TypeConsumer
<1>1. CASE Enqueue \/ Reset
  <2>1. pPc' \notin {"snapRead", "snapOffset", "snapDone"}
    BY <1>1 DEF Enqueue, EnqueueInvalid, EnqueueLoad, EnqueueSamples,
                EnqueueMetadata, EnqueuePublish, Reset, pLocals
  <2>2. QED
    BY <2>1 DEF SnapshotInv, SnapshotNeverUnderstates
<1>2. CASE SnapshotWrite \/ SnapshotRead \/ Return
  <2>1. UNCHANGED shared /\ pPc' # "snapDone"
    BY <1>2 DEF SnapshotWrite, SnapshotRead, Return
  <2>2. QED
    BY <1>2, <2>1 DEF SnapshotWrite, SnapshotRead, Return, SnapshotInv, shared,
       SnapshotNeverUnderstates, RingBounds
<1>3. CASE SnapshotOffset
  <2>1. /\ pWrite = writePosition /\ pRead <= readPosition
        /\ readPosition <= writePosition /\ writePosition <= pRead + Capacity
        /\ UNCHANGED <<shared, cLocals>>
    BY <1>3 DEF SnapshotOffset, SnapshotInv, RingBounds
  <2>2. QueuedFrames(pWrite, pRead) = writePosition - pRead
    BY <2>1 DEF QueuedFrames
  <2>3. /\ pPc' = "snapDone"
        /\ snap'.pcm = IF writePosition - pRead # 0
                       THEN (writePosition - pRead) * FrameLength - readOffset
                       ELSE 0
    BY <1>3, <2>2 DEF SnapshotOffset
  <2>4. PlayedOfHead \in 0 .. FrameLength /\ readOffset <= PlayedOfHead
    BY DEF PlayedOfHead, OffsetInv, Rendering
  <2>5. UNCHANGED Remaining
    BY <2>1 DEF Remaining, PlayedOfHead, shared, cLocals
  <2> DEFINE shown == (writePosition - pRead) * FrameLength
             left  == (writePosition - readPosition) * FrameLength
  <2>6. shown \in Int /\ left \in Int
    OBVIOUS
  <2>7. pRead < readPosition => left + FrameLength <= shown
    BY <2>1, WholeFrames
  <2>8. pRead = readPosition => left = shown
    OBVIOUS
  <2>9. writePosition - pRead = 0 => left = 0
    <3> SUFFICES ASSUME writePosition - pRead = 0 PROVE left = 0
      OBVIOUS
    <3>1. writePosition - readPosition = 0
      BY <2>1
    <3>2. QED
      BY <3>1
  <2>10. Remaining = left - PlayedOfHead
    BY DEF Remaining
  <2> HIDE DEF shown, left
  <2>11. (writePosition - pRead # 0 => shown - readOffset >= Remaining)
         /\ (writePosition - pRead = 0 => 0 >= Remaining)
    BY <2>1, <2>4, <2>6, <2>7, <2>8, <2>9, <2>10
  <2>12. snap'.pcm >= Remaining'
    BY <2>3, <2>5, <2>11 DEF shown
  <2>13. QED
    BY <2>3, <2>12 DEF SnapshotInv, SnapshotNeverUnderstates
<1>4. CASE Render \/ Discard
  <2>1. UNCHANGED <<writePosition, pLocals>>
    BY <1>4, ConsumerLeaves
  <2>2. readPosition <= readPosition'
    BY <1>4 DEF Render, RenderStep, RenderBegin, RenderCheck, RenderCopy, RenderComplete,
                RenderRelease, ReleasedPosition, RenderFinish, Discard, DiscardLoad,
                DiscardOffset, DiscardPosition, shared, ConsumerInv
  <2>3. readPosition' \in Nat
    BY <1>4 DEF Render, RenderStep, RenderBegin, RenderCheck, RenderCopy, RenderComplete,
                RenderRelease, ReleasedPosition, RenderFinish, Discard, DiscardLoad,
                DiscardOffset, DiscardPosition, shared
  <2>4. SnapshotInv'
    BY <2>1, <2>2, <2>3 DEF SnapshotInv, pLocals
  <2>5. Remaining' <= Remaining /\ Remaining \in Int /\ Remaining' \in Int
    BY <1>4, RemainingShrinks
  <2>6. snap.pcm \in Nat
    BY DEF Snapshot
  <2>7. SnapshotNeverUnderstates'
    BY <2>1, <2>5, <2>6 DEF SnapshotNeverUnderstates, pLocals
  <2>8. QED
    BY <2>4, <2>7
<1>5. QED
  BY <1>1, <1>2, <1>3, <1>4 DEF Next, TakeSnapshot

\* The counters: every step that moves a frame counts it once.
LEMMA CountStep ==
    ASSUME IInv, OffsetInv, CountInv, Next
    PROVE  CountInv'
<1> USE DEF IInv, TypeOK, TypeRing, TypeProducer, TypeConsumer, TypeHistory
<1>0. /\ stats.enqueued \in Nat /\ stats.consumed \in Nat /\ stats.discarded \in Nat
      /\ stats.queueOutput \in Nat
      /\ Len(rendered) \in Nat /\ readPosition \in Nat
  BY DEF Stats, Counter
<1>1. CASE Enqueue \/ TakeSnapshot
  <2>1. /\ UNCHANGED <<readPosition, readOffset, cLocals, discarded, rendered>>
        /\ PlayedOfHead' = PlayedOfHead
        /\ stats'.consumed = stats.consumed /\ stats'.discarded = stats.discarded
        /\ stats'.queueOutput = stats.queueOutput
    BY <1>1, ProducerLeaves
  <2>2. stats'.enqueued = Plus(0, writePosition' + IF pPc' = "publish" THEN 1 ELSE 0)
    <3>1. CASE EnqueueMetadata
      <4>1. stats'.enqueued = Plus(stats.enqueued, 1)
        BY <3>1 DEF EnqueueMetadata, Stats
      <4>2. stats.enqueued = Plus(0, writePosition) /\ UNCHANGED writePosition
            /\ pPc' = "publish"
        BY <3>1 DEF CountInv, EnqueueMetadata
      <4>3. Plus(Plus(0, writePosition), 1) = Plus(0, 0 + writePosition + 1)
        BY PlusPlus
      <4>4. QED
        BY <4>1, <4>2, <4>3
    <3>2. CASE EnqueuePublish
      <4>1. pPc = "publish" /\ pPc' = "idle" /\ writePosition' = writePosition + 1
            /\ stats' = stats
        BY <3>2 DEF EnqueuePublish, ProducerInv
      <4>2. writePosition' + 0 = writePosition + 1
        BY <4>1
      <4>3. QED
        BY <4>1, <4>2 DEF CountInv
    <3>3. ASSUME ~EnqueueMetadata, ~EnqueuePublish
          PROVE  /\ UNCHANGED writePosition /\ pPc # "publish" /\ pPc' # "publish"
                 /\ stats'.enqueued = stats.enqueued
      BY <1>1, <3>3 DEF Enqueue, EnqueueInvalid, EnqueueLoad, EnqueueSamples,
            TakeSnapshot, SnapshotWrite, SnapshotRead, SnapshotOffset, Return,
            shared, Stats
    <3>4. QED
      BY <3>1, <3>2, <3>3 DEF CountInv
  <2>3. QED
    BY <2>1, <2>2 DEF CountInv, cLocals
<1>2. CASE Render \/ Discard
  <2>1. UNCHANGED <<writePosition, pPc>>
    BY <1>2, ConsumerLeaves DEF pLocals
  <2>2. ASSUME UNCHANGED <<readPosition, stats, rendered, cCopied, discarded>>,
               UNCHANGED PlayedOfHead, cPc # "release", cPc' # "release"
        PROVE  CountInv'
    BY <2>1, <2>2 DEF CountInv
  <2>3. ASSUME NEW count \in RenderSizes, RenderBegin(count) PROVE CountInv'
    <3>1. /\ cCopied = 0 /\ cCopied' = 0
          /\ UNCHANGED <<readPosition, stats, rendered, discarded>>
          /\ cPc = "idle" /\ cPc' = "check" /\ UNCHANGED PlayedOfHead
      BY <2>3 DEF RenderBegin, ResumeOffset, OffsetInv, shared, history, PlayedOfHead,
         Rendering
    <3>2. QED
      BY <2>2, <3>1
  <2>4. CASE RenderCheck \/ DiscardLoad \/ DiscardOffset
    <3>1. /\ UNCHANGED <<readPosition, stats, rendered, cCopied, discarded>>
          /\ cPc # "release" /\ cPc' # "release" /\ UNCHANGED PlayedOfHead
      BY <2>4 DEF RenderCheck, DiscardLoad, DiscardOffset, shared, history, PlayedOfHead,
         Rendering
    <3>2. QED
      BY <2>2, <3>1
  <2>5. CASE RenderCopy
    <3>1. /\ UNCHANGED <<readPosition, stats, discarded>>
          /\ cPc = "copy" /\ cPc' \in {"complete", "finish"}
      BY <2>5 DEF RenderCopy, shared
    <3>2. /\ Len(rendered') - Len(rendered) = cCopied' - cCopied
          /\ Len(rendered') - Len(rendered) = cOffset' - cOffset
      BY <2>5, CopyIsLast
    <3>3. PlayedOfHead = cOffset /\ PlayedOfHead' = cOffset'
      BY <3>1 DEF PlayedOfHead
    <3>4. PICK n \in Nat : /\ Len(rendered') = Len(rendered) + n
                           /\ cCopied' = cCopied + n /\ cOffset' = cOffset + n
      <4>1. PICK n \in 1 .. FrameLength - cOffset :
                cCopied' = cCopied + n /\ cOffset' = cOffset + n
        BY <2>5, CopyAppends
      <4>2. Len(rendered') \in Nat
        <5>1. TypeOK'
          BY <1>2, TypeRender, <2>5 DEF Render, RenderStep
        <5>2. QED
          BY <5>1
      <4>3. QED
        BY <1>0, <3>2, <4>1, <4>2
    <3>5. Len(rendered') - cCopied' = Len(rendered) - cCopied /\ cCopied' <= Len(rendered')
      BY <1>0, <3>4 DEF CountInv
    <3>6. discarded' = {} =>
              Len(rendered') = FrameLength * readPosition' + PlayedOfHead'
      <4> DEFINE before == FrameLength * readPosition
      <4>1. before \in Int
        OBVIOUS
      <4>2. discarded = {} => Len(rendered) = before + PlayedOfHead
        BY DEF CountInv
      <4> HIDE DEF before
      <4>3. cOffset \in Nat /\ PlayedOfHead' = PlayedOfHead + n
        BY <3>3, <3>4
      <4>4. PlayedOfHead \in Nat
        BY <3>3, <4>3
      <4>5. discarded = {} => Len(rendered) + n = before + (PlayedOfHead + n)
        <5>1. Len(rendered) \in Int /\ PlayedOfHead \in Int /\ n \in Int
          BY <1>0, <4>4
        <5>2. \A p \in Int, q \in Int : Len(rendered) = p + q => Len(rendered) + n = p + (q + n)
          BY <5>1, SumMore
        <5>3. QED
          BY <4>1, <4>2, <5>1, <5>2, Zenon
      <4>6. QED
        BY <3>1, <3>4, <4>3, <4>5 DEF before
    <3>7. QED
      BY <2>1, <3>1, <3>5, <3>6 DEF CountInv
  <2>6. CASE RenderComplete
    <3>1. /\ UNCHANGED <<readPosition, rendered, discarded, cCopied>>
          /\ cPc = "complete" /\ cPc' = "release" /\ UNCHANGED PlayedOfHead
      BY <2>6 DEF RenderComplete, history, PlayedOfHead, OffsetInv
    <3>2. /\ stats'.consumed = Plus(stats.consumed, 1)
          /\ stats'.discarded = stats.discarded
          /\ stats'.enqueued = stats.enqueued
          /\ stats'.queueOutput = stats.queueOutput
      BY <2>6 DEF RenderComplete, Stats
    <3>3. Plus(stats.consumed, stats.discarded) = Plus(0, readPosition)
      BY <3>1 DEF CountInv
    <3>4. Plus(Plus(stats.consumed, 1), stats.discarded) = Plus(0, readPosition + 1)
      <4> DEFINE consumed == stats.consumed
                 gone == stats.discarded
      <4>1. consumed \in Nat /\ gone \in Nat /\ readPosition \in Nat /\ 1 \in Nat
        BY <1>0
      <4>2. Plus(consumed, gone) = Plus(0, readPosition)
        BY <3>3
      <4> HIDE DEF consumed, gone, IInv
      <4> HIDE CapacityAssumption, FrameLengthAssumption, CounterAssumption, InputAssumption
      <4>3. \A total \in Nat, n \in Nat : Plus(consumed, gone) = Plus(0, total)
                => Plus(Plus(consumed, n), gone) = Plus(0, total + n)
        BY <4>1, PlusOnSum
      <4>4. Plus(Plus(consumed, 1), gone) = Plus(0, readPosition + 1)
        BY <4>1, <4>2, <4>3, Zenon
      <4>5. QED
        BY <4>4 DEF consumed, gone
    <3>5. QED
      BY <2>1, <3>1, <3>2, <3>4 DEF CountInv
  <2>7. CASE RenderRelease
    <3>1. /\ readPosition' = readPosition + 1
          /\ UNCHANGED <<stats, rendered, discarded, cCopied>>
          /\ cPc = "release" /\ cPc' # "release"
          /\ PlayedOfHead = FrameLength /\ PlayedOfHead' = 0
      BY <2>7 DEF RenderRelease, ReleasedPosition, ConsumerInv, history, PlayedOfHead,
         OffsetInv
    <3>2. FrameLength * readPosition' + PlayedOfHead'
              = FrameLength * readPosition + PlayedOfHead
      BY <3>1
    <3>3. readPosition' + 0 = readPosition + 1
      BY <3>1
    <3>4. QED
      BY <2>1, <3>1, <3>2, <3>3 DEF CountInv
  <2>8. CASE RenderFinish
    <3>1. /\ UNCHANGED <<readPosition, rendered, discarded>> /\ cCopied' = 0
          /\ cPc = "finish" /\ cPc' = "idle" /\ UNCHANGED PlayedOfHead
      BY <2>8 DEF RenderFinish, history, PlayedOfHead
    <3>2. /\ stats'.queueOutput = Plus(stats.queueOutput, cCopied)
          /\ stats'.consumed = stats.consumed
          /\ stats'.discarded = stats.discarded
          /\ stats'.enqueued = stats.enqueued
      BY <2>8 DEF RenderFinish, Stats
    <3>3. Len(rendered) - cCopied \in Nat
      BY <1>0 DEF CountInv
    <3>4. Plus(Plus(0, Len(rendered) - cCopied), cCopied)
              = Plus(0, 0 + (Len(rendered) - cCopied) + cCopied)
      BY <3>3, PlusPlus
    <3>5. 0 + (Len(rendered) - cCopied) + cCopied = Len(rendered) - 0
      BY <1>0
    <3>6. stats'.queueOutput = Plus(0, Len(rendered) - 0)
      BY <3>2, <3>4, <3>5 DEF CountInv
    <3>7. QED
      BY <1>0, <2>1, <3>1, <3>2, <3>6 DEF CountInv
  <2>9. CASE DiscardPosition
    <3>1. /\ readPosition' = cWrite /\ cRead = readPosition
          /\ readPosition <= cWrite /\ cWrite <= writePosition
          /\ UNCHANGED <<rendered, cCopied>>
          /\ cPc = "discardPosition" /\ cPc' = "idle"
          /\ PlayedOfHead = cOffset /\ PlayedOfHead' = 0
          /\ discarded' = discarded \cup (readPosition + 1) .. cWrite
          /\ cOffset > 0 => readPosition < cWrite
      BY <2>9 DEF DiscardPosition, ConsumerInv, PlayedOfHead, OffsetInv
    <3>2. DiscardedFrames = cWrite - readPosition
      BY <3>1 DEF DiscardedFrames, QueuedFrames, RingBounds
    <3>3. /\ stats'.discarded = Plus(stats.discarded, cWrite - readPosition)
          /\ stats'.consumed = stats.consumed
          /\ stats'.enqueued = stats.enqueued
          /\ stats'.queueOutput = stats.queueOutput
      BY <2>9, <3>2 DEF DiscardPosition, Stats
    <3>4. cWrite - readPosition \in Nat
      BY <3>1
    <3>5. Plus(stats.consumed, stats.discarded) = Plus(0, readPosition)
      BY <3>1 DEF CountInv
    <3>6. Plus(stats.consumed, Plus(stats.discarded, cWrite - readPosition))
              = Plus(0, readPosition + (cWrite - readPosition))
      <4> DEFINE n == cWrite - readPosition
                 consumed == stats.consumed
                 gone == stats.discarded
      <4>1. n \in Nat /\ consumed \in Nat /\ gone \in Nat /\ readPosition \in Nat
        BY <1>0, <3>4
      <4>2. Plus(consumed, gone) = Plus(0, readPosition)
        BY <3>5
      <4> HIDE DEF n, consumed, gone, IInv
      <4> HIDE CapacityAssumption, FrameLengthAssumption, CounterAssumption, InputAssumption
      <4>3. \A total \in Nat, k \in Nat : Plus(consumed, gone) = Plus(0, total)
                => Plus(consumed, Plus(gone, k)) = Plus(0, total + k)
        BY <4>1, PlusOnSum
      <4>4. Plus(consumed, Plus(gone, n)) = Plus(0, readPosition + n)
        BY <4>1, <4>2, <4>3, Zenon
      <4>5. QED
        BY <4>4 DEF n, consumed, gone
    <3>7. readPosition + (cWrite - readPosition) = cWrite + 0
      BY <3>4
    <3>8. Plus(stats'.consumed, stats'.discarded) = Plus(0, readPosition' + 0)
      BY <3>1, <3>3, <3>6, <3>7
    <3>9. discarded' = {} => /\ discarded = {}
                              /\ readPosition' = readPosition /\ cOffset = 0
      <4> SUFFICES ASSUME discarded' = {}
                   PROVE  discarded = {} /\ readPosition' = readPosition /\ cOffset = 0
        OBVIOUS
      <4>1. readPosition + 1 \notin (readPosition + 1) .. cWrite
        BY <3>1
      <4>2. ~(readPosition < cWrite)
        BY <4>1
      <4>3. QED
        BY <3>1, <4>2
    <3>10. QED
      BY <2>1, <3>1, <3>3, <3>8, <3>9 DEF CountInv
  <2>10. QED
    BY <1>2, <2>3, <2>4, <2>5, <2>6, <2>7, <2>8, <2>9 DEF Render, RenderStep, Discard
<1>3. CASE Reset
  <2>1. /\ writePosition' = 0 /\ readPosition' = 0 /\ rendered' = <<>>
        /\ pPc' = "idle" /\ cPc' = "idle" /\ cCopied' = 0 /\ PlayedOfHead' = 0
        /\ stats' = ZeroStats
    BY <1>3 DEF Reset, pLocals, cLocals, OffsetInv, PlayedOfHead, Rendering
  <2>2. Plus(0, 0 + 0) = 0 /\ Plus(0, 0) = 0 /\ Plus(0, 0 - 0) = 0
    BY DEF Plus
  <2>3. QED
    BY <2>1, <2>2 DEF CountInv, ZeroStats
<1>4. QED
  BY <1>1, <1>2, <1>3 DEF Next

\* The log of published frames only grows, except in a reset.
LEMMA LogGrows ==
    ASSUME IInv, Enqueue \/ TakeSnapshot \/ Render \/ Discard
    PROVE  /\ writePosition <= writePosition' /\ writePosition' \in Nat
           /\ DOMAIN published = 1 .. writePosition
           /\ DOMAIN published' = 1 .. writePosition'
           /\ \A i \in 1 .. writePosition : published'[i] = published[i]
<1> USE DEF IInv, TypeOK, TypeRing, TypeProducer, TypeHistory
<1>1. Len(published) = writePosition /\ DOMAIN published = 1 .. writePosition
  BY LenProperties DEF RingBounds
<1>2. CASE EnqueuePublish
  <2>1. /\ writePosition' = writePosition + 1
        /\ published' = Append(published, pFrame) /\ pFrame \in Frame
    BY <1>2 DEF EnqueuePublish, ProducerInv
  <2>2. /\ published' \in Seq(Frame) /\ Len(published') = Len(published) + 1
        /\ \A i \in 1 .. Len(published) : published'[i] = published[i]
    BY <2>1, AppendProperties
  <2>3. DOMAIN published' = 1 .. writePosition'
    BY <1>1, <2>1, <2>2, LenProperties
  <2>4. QED
    BY <1>1, <2>1, <2>2, <2>3
<1>3. CASE UNCHANGED <<writePosition, published>>
  BY <1>1, <1>3
<1>4. QED
  BY <1>2, <1>3, ProducerLeaves, ConsumerLeaves

\* The last PCM frame played.
LEMMA LastStep ==
    ASSUME IInv, OffsetInv, LastInv, Next
    PROVE  LastInv'
<1> USE DEF IInv, TypeOK, TypeRing, TypeProducer, TypeConsumer, TypeHistory
<1>0. PlayedOfHead \in 0 .. FrameLength
  BY DEF PlayedOfHead
<1>1. ASSUME UNCHANGED <<readPosition, rendered, discarded>>, UNCHANGED PlayedOfHead,
             \A i \in 1 .. writePosition : published'[i] = published[i]
      PROVE  LastInv'
  <2>1. \A i \in 1 .. readPosition : published'[i] = published[i]
    BY <1>1 DEF RingBounds
  <2>2. PlayedOfHead > 0 => published'[readPosition + 1] = published[readPosition + 1]
    BY <1>1 DEF OffsetInv
  <2>3. UNCHANGED LastPlayed
    BY <1>1 DEF LastPlayed
  <2>4. PlayedOfHead > 0 =>
            /\ rendered' # <<>>
            /\ LastPlayed' = [samples |-> published'[readPosition + 1].samples,
                              offset |-> PlayedOfHead - 1]
    BY <1>1, <2>2, <2>3 DEF LastInv
  <2>5. ASSUME PlayedOfHead = 0, rendered # <<>>
        PROVE  \E i \in 1 .. readPosition :
                   /\ LastPlayed'.samples = published'[i].samples
                   /\ LastPlayed'.offset = FrameLength - 1 \/ i \in discarded
                   /\ (i + 1) .. readPosition \subseteq discarded
    <3>1. PICK i \in 1 .. readPosition :
              /\ LastPlayed.samples = published[i].samples
              /\ LastPlayed.offset = FrameLength - 1 \/ i \in discarded
              /\ (i + 1) .. readPosition \subseteq discarded
      BY <2>5 DEF LastInv
    <3>2. QED
      BY <2>1, <2>3, <3>1
  <2>6. QED
    BY <1>1, <2>4, <2>5 DEF LastInv
<1>2. CASE Enqueue \/ TakeSnapshot
  BY <1>1, <1>2, ProducerLeaves, LogGrows
<1>3. CASE Render \/ Discard
  <2>1. UNCHANGED <<writePosition, published>>
    BY <1>3, ConsumerLeaves
  <2>2. ASSUME NEW count \in RenderSizes, RenderBegin(count) PROVE LastInv'
    <3>1. UNCHANGED <<readPosition, rendered, discarded>> /\ UNCHANGED PlayedOfHead
      BY <2>2 DEF RenderBegin, ResumeOffset, shared, history, PlayedOfHead
    <3>2. QED
      BY <1>1, <2>1, <3>1
  <2>3. CASE RenderCheck \/ RenderComplete \/ RenderFinish \/ DiscardLoad \/ DiscardOffset
    <3>1. UNCHANGED <<readPosition, rendered, discarded>> /\ UNCHANGED PlayedOfHead
      BY <2>3 DEF RenderCheck, RenderComplete, RenderFinish, DiscardLoad, DiscardOffset,
         shared, history, PlayedOfHead, OffsetInv
    <3>2. QED
      BY <1>1, <2>1, <3>1
  <2>4. CASE RenderCopy
    <3>1. PICK n \in 1 .. FrameLength - cOffset :
              /\ cOffset' = cOffset + n
              /\ cPc' = IF cOffset + n = FrameLength THEN "complete" ELSE "finish"
      BY <2>4, CopyAppends
    <3>2. PlayedOfHead' = cOffset' /\ cOffset' > 0 /\ UNCHANGED readPosition
      BY <2>4, <3>1 DEF RenderCopy, shared, PlayedOfHead
    <3>3. /\ rendered' # <<>>
          /\ LastPlayed' = [samples |-> published[readPosition + 1].samples,
                            offset |-> cOffset' - 1]
      BY <2>4, CopyIsLast
    <3>4. PlayedOfHead' # 0
      BY <3>1, <3>2
    <3>5. QED
      BY <2>1, <3>2, <3>3, <3>4 DEF LastInv
  <2>5. CASE RenderRelease
    <3>1. /\ readPosition' = readPosition + 1
          /\ PlayedOfHead = FrameLength /\ PlayedOfHead' = 0
          /\ UNCHANGED <<rendered, discarded>>
      BY <2>5 DEF RenderRelease, ReleasedPosition, ConsumerInv, OffsetInv, history,
         PlayedOfHead
    <3>2. /\ rendered # <<>>
          /\ LastPlayed = [samples |-> published[readPosition + 1].samples,
                           offset |-> FrameLength - 1]
      BY <3>1 DEF LastInv
    <3>3. readPosition + 1 \in 1 .. readPosition' /\ (readPosition + 2) .. readPosition' = {}
      BY <3>1
    <3>4. LastPlayed' = LastPlayed
      BY <3>1 DEF LastPlayed
    <3>5. \E i \in 1 .. readPosition' :
              /\ LastPlayed'.samples = published'[i].samples
              /\ LastPlayed'.offset = FrameLength - 1
              /\ (i + 1) .. readPosition' \subseteq discarded'
      <4>1. /\ LastPlayed'.samples = published'[readPosition + 1].samples
            /\ LastPlayed'.offset = FrameLength - 1
        BY <2>1, <3>2, <3>4
      <4>2. (readPosition + 1 + 1) .. readPosition' \subseteq discarded'
        BY <3>3
      <4>3. QED
        BY <3>3, <4>1, <4>2
    <3>6. QED
      BY <3>1, <3>5 DEF LastInv
  <2>6. CASE DiscardPosition
    <3>1. /\ readPosition' = cWrite /\ UNCHANGED rendered
          /\ readPosition <= cWrite /\ cWrite <= writePosition
          /\ PlayedOfHead = cOffset /\ PlayedOfHead' = 0
          /\ discarded' = discarded \cup (readPosition + 1) .. cWrite
          /\ cOffset > 0 => readPosition < cWrite
      BY <2>6 DEF DiscardPosition, ConsumerInv, PlayedOfHead, OffsetInv
    <3>2. LastPlayed' = LastPlayed
      BY <3>1 DEF LastPlayed
    <3>3. ASSUME rendered # <<>>
          PROVE  \E i \in 1 .. cWrite :
                     /\ LastPlayed.samples = published[i].samples
                     /\ LastPlayed.offset = FrameLength - 1 \/ i \in discarded'
                     /\ (i + 1) .. cWrite \subseteq discarded'
      <4>1. CASE PlayedOfHead > 0
        <5>1. readPosition + 1 \in 1 .. cWrite
          BY <3>1, <4>1
        <5>2. LastPlayed.samples = published[readPosition + 1].samples
          BY <4>1 DEF LastInv
        <5>3. /\ readPosition + 1 \in discarded'
              /\ (readPosition + 1 + 1) .. cWrite \subseteq discarded'
          BY <3>1, <5>1
        <5>4. QED
          BY <5>1, <5>2, <5>3
      <4>2. CASE PlayedOfHead = 0
        <5>1. PICK i \in 1 .. readPosition :
                  /\ LastPlayed.samples = published[i].samples
                  /\ LastPlayed.offset = FrameLength - 1 \/ i \in discarded
                  /\ (i + 1) .. readPosition \subseteq discarded
          BY <3>3, <4>2 DEF LastInv
        <5>2. i \in 1 .. cWrite
          BY <3>1
        <5>3. (i + 1) .. cWrite \subseteq discarded'
          <6> SUFFICES ASSUME NEW k \in (i + 1) .. cWrite PROVE k \in discarded'
            OBVIOUS
          <6>1. k \in (i + 1) .. readPosition \/ k \in (readPosition + 1) .. cWrite
            BY <3>1
          <6>2. QED
            BY <3>1, <5>1, <6>1
        <5>4. QED
          BY <3>1, <5>1, <5>2, <5>3
      <4>3. QED
        BY <1>0, <4>1, <4>2
    <3>4. QED
      BY <2>1, <3>1, <3>2, <3>3 DEF LastInv
  <2>7. QED
    BY <1>3, <2>2, <2>3, <2>4, <2>5, <2>6 DEF Render, RenderStep, Discard
<1>4. CASE Reset
  <2>1. rendered' = <<>> /\ PlayedOfHead' = 0
    BY <1>4 DEF Reset, PlayedOfHead, cLocals
  <2>2. QED
    BY <2>1 DEF LastInv
<1>5. QED
  BY <1>2, <1>3, <1>4 DEF Next

\* What is reported is what was played.
LEMMA ReportStep ==
    ASSUME IInv, OffsetInv, ReportInv, Next
    PROVE  ReportInv'
<1> USE DEF IInv, TypeOK, TypeRing, TypeProducer, TypeConsumer, TypeHistory
<1>1. CASE Enqueue \/ TakeSnapshot
  <2>1. pFrame'.samples = pFrame'.sequence_number
    <3>1. ASSUME UNCHANGED pFrame
          PROVE  pFrame'.samples = pFrame'.sequence_number
      BY <3>1 DEF ReportInv
    <3>2. ASSUME NEW size \in OfferedSizes, NEW flags \in OfferedFlags,
                 EnqueueLoad(size, flags), pFrame' # pFrame
          PROVE  pFrame'.samples = pFrame'.sequence_number
      <4>1. pFrame' = [samples |-> offers + 1, sequence_number |-> offers + 1,
                       flags |-> flags]
        BY <3>2 DEF EnqueueLoad
      <4>2. QED
        BY <4>1
    <3>3. ASSUME pFrame' = NoFrame
          PROVE  pFrame'.samples = pFrame'.sequence_number
      BY <3>3 DEF NoFrame
    <3>4. CASE TakeSnapshot
      <4>1. UNCHANGED pFrame \/ pFrame' = NoFrame
        BY <3>4 DEF TakeSnapshot, SnapshotWrite, SnapshotRead, SnapshotOffset, Return
      <4>2. QED
        BY <3>1, <3>3, <4>1
    <3>5. CASE EnqueueSamples \/ EnqueueMetadata \/ EnqueuePublish
      <4>1. UNCHANGED pFrame \/ pFrame' = NoFrame
        BY <3>5 DEF EnqueueSamples, EnqueueMetadata, EnqueuePublish
      <4>2. QED
        BY <3>1, <3>3, <4>1
    <3>6. ASSUME NEW size, NEW sequence, NEW flags, EnqueueInvalid(size, sequence, flags)
          PROVE  UNCHANGED pFrame
      BY <3>6 DEF EnqueueInvalid
    <3>7. QED
      BY <1>1, <3>1, <3>2, <3>4, <3>5, <3>6 DEF Enqueue
  <2>2. \A i \in 1 .. writePosition' :
            published'[i].samples = published'[i].sequence_number
    <3>1. CASE EnqueuePublish
      <4>1. /\ writePosition' = writePosition + 1 /\ Len(published) = writePosition
            /\ published' = Append(published, pFrame)
        BY <3>1 DEF EnqueuePublish, ProducerInv, RingBounds
      <4>2. /\ published'[writePosition + 1] = pFrame
            /\ \A i \in 1 .. writePosition : published'[i] = published[i]
        BY <4>1
      <4>3. \A i \in 1 .. writePosition' : i = writePosition + 1 \/ i \in 1 .. writePosition
        BY <4>1
      <4>4. QED
        BY <4>2, <4>3 DEF ReportInv
    <3>2. CASE UNCHANGED <<writePosition, published>>
      BY <3>2 DEF ReportInv
    <3>3. QED
      BY <1>1, <3>1, <3>2, ProducerLeaves
  <2>3. cPc' = "release" => stats'.lastConsumed = published'[readPosition' + 1].samples
    <3> SUFFICES ASSUME cPc' = "release"
                 PROVE  stats'.lastConsumed = published'[readPosition' + 1].samples
      OBVIOUS
    <3>1. cPc = "release" /\ readPosition' = readPosition
          /\ stats'.lastConsumed = stats.lastConsumed
      BY <1>1, ProducerLeaves DEF cLocals
    <3>2. readPosition + 1 \in 1 .. writePosition
      BY <3>1 DEF ConsumerInv
    <3>3. QED
      BY <1>1, <3>1, <3>2, LogGrows DEF ReportInv
  <2>4. QED
    BY <2>1, <2>2, <2>3 DEF ReportInv
<1>2. CASE Render \/ Discard
  <2>1. UNCHANGED <<slots, writePosition, published, pFrame>>
    BY <1>2, ConsumerLeaves DEF pLocals
  <2>2. ASSUME cPc' = "release"
        PROVE  stats'.lastConsumed = published[readPosition' + 1].samples
    <3>1. RenderComplete
      BY <1>2, <2>2 DEF Render, RenderStep, RenderBegin, RenderCheck, RenderCopy,
         RenderRelease, RenderFinish, Discard, DiscardLoad, DiscardOffset, DiscardPosition
    <3>2. /\ stats'.lastConsumed = slots[SlotOf(cRead)].sequence_number
          /\ UNCHANGED readPosition
      BY <3>1 DEF RenderComplete, CompletedSlot, Stats
    <3>3. cRead = readPosition /\ readPosition \in readPosition .. writePosition - 1
      BY <3>1 DEF RenderComplete, ConsumerInv
    <3>4. slots[SlotOf(cRead)] = published[readPosition + 1]
      BY <3>3 DEF RingHoldsPublished
    <3>5. readPosition + 1 \in 1 .. writePosition
      BY <3>3
    <3>6. QED
      BY <3>2, <3>4, <3>5 DEF ReportInv
  <2>3. QED
    BY <2>1, <2>2 DEF ReportInv
<1>3. CASE Reset
  BY <1>3 DEF Reset, ReportInv, pLocals, cLocals
<1>4. QED
  BY <1>1, <1>2, <1>3 DEF Next

\* One PCM frame may follow another: the next one of the same published frame,
\* or the first one of a later frame after the rest was discarded.
Follows(a, b, log, gone) ==
    \E i, j \in DOMAIN log :
        /\ log[i].samples = a.samples
        /\ log[j].samples = b.samples
        /\ \/ i = j /\ b.offset = a.offset + 1
           \/ /\ i < j /\ b.offset = 0
              /\ a.offset = FrameLength - 1 \/ i \in gone
              /\ (i + 1) .. (j - 1) \subseteq gone

\* What followed still does when the log and the discarded frames grow.
LEMMA FollowsKept ==
    ASSUME NEW a, NEW b, NEW log, NEW log2, NEW gone, NEW gone2,
           Follows(a, b, log, gone),
           DOMAIN log \subseteq DOMAIN log2,
           \A i \in DOMAIN log : log2[i] = log[i],
           gone \subseteq gone2
    PROVE  Follows(a, b, log2, gone2)
<1>1. PICK i \in DOMAIN log, j \in DOMAIN log :
          /\ log[i].samples = a.samples
          /\ log[j].samples = b.samples
          /\ \/ i = j /\ b.offset = a.offset + 1
             \/ /\ i < j /\ b.offset = 0
                /\ a.offset = FrameLength - 1 \/ i \in gone
                /\ (i + 1) .. (j - 1) \subseteq gone
  BY DEF Follows
<1>2. /\ i \in DOMAIN log2 /\ j \in DOMAIN log2
      /\ log2[i].samples = a.samples
      /\ log2[j].samples = b.samples
  BY <1>1
<1>3. \/ i = j /\ b.offset = a.offset + 1
      \/ /\ i < j /\ b.offset = 0
         /\ a.offset = FrameLength - 1 \/ i \in gone2
         /\ (i + 1) .. (j - 1) \subseteq gone2
  BY <1>1
<1>4. QED
  BY <1>2, <1>3 DEF Follows

\* The next PCM frame of the same published frame follows.
LEMMA FollowsInFrame ==
    ASSUME NEW a, NEW b, NEW log, NEW gone, NEW i \in DOMAIN log,
           log[i].samples = a.samples, log[i].samples = b.samples,
           b.offset = a.offset + 1
    PROVE  Follows(a, b, log, gone)
  BY DEF Follows

\* The first PCM frame of a later frame follows, when the rest was discarded.
LEMMA FollowsInLater ==
    ASSUME NEW a, NEW b, NEW log, NEW gone, NEW i \in DOMAIN log, NEW j \in DOMAIN log,
           log[i].samples = a.samples, log[j].samples = b.samples,
           i < j, b.offset = 0,
           a.offset = FrameLength - 1 \/ i \in gone,
           (i + 1) .. (j - 1) \subseteq gone
    PROVE  Follows(a, b, log, gone)
  BY DEF Follows

\* The order of play: only the memcpy adds to what was played, and it goes on
\* where the last one stopped.
LEMMA OrderStep ==
    ASSUME IInv, OffsetInv, LastInv, PlaysInOrder, Next
    PROVE  PlaysInOrder'
<1> USE DEF IInv, TypeOK, TypeRing, TypeProducer, TypeConsumer, TypeHistory
<1>1. PlaysInOrder <=>
          \A k \in 1 .. Len(rendered) - 1 :
              Follows(rendered[k], rendered[k + 1], published, discarded)
  BY DEF PlaysInOrder, Follows
<1>2. PlaysInOrder' <=>
          \A k \in 1 .. Len(rendered') - 1 :
              Follows(rendered'[k], rendered'[k + 1], published', discarded')
  BY DEF PlaysInOrder, Follows
<1>3. ASSUME UNCHANGED rendered, discarded \subseteq discarded',
             Enqueue \/ TakeSnapshot \/ Render \/ Discard
      PROVE  PlaysInOrder'
  <2>0. /\ writePosition <= writePosition' /\ writePosition' \in Nat
        /\ DOMAIN published = 1 .. writePosition
        /\ DOMAIN published' = 1 .. writePosition'
        /\ \A i \in 1 .. writePosition : published'[i] = published[i]
    BY <1>3, LogGrows
  <2>1. /\ DOMAIN published \subseteq DOMAIN published'
        /\ \A i \in DOMAIN published : published'[i] = published[i]
    BY <2>0
  <2>2. ASSUME NEW k \in 1 .. Len(rendered) - 1
        PROVE  Follows(rendered[k], rendered[k + 1], published', discarded')
    <3>1. Follows(rendered[k], rendered[k + 1], published, discarded)
      BY <1>1
    <3>2. QED
      BY <1>3, <2>1, <3>1, FollowsKept
  <2>3. QED
    BY <1>2, <1>3, <2>2
<1>4. CASE Enqueue \/ TakeSnapshot
  BY <1>3, <1>4, ProducerLeaves
<1>5. CASE RenderCopy
  <2> DEFINE L == Len(rendered)
             tag == published[readPosition + 1].samples
  <2>1. PICK n \in 1 .. FrameLength - cOffset :
            LET chunk == [k \in 1 .. n |-> [samples |-> tag, offset |-> cOffset + k - 1]]
            IN  /\ chunk \in Seq([samples : Nat, offset : Nat])
                /\ rendered' = rendered \o chunk
    BY <1>5, CopyAppends
  <2> DEFINE chunk == [k \in 1 .. n |-> [samples |-> tag, offset |-> cOffset + k - 1]]
  <2>2. Len(chunk) = n /\ n \in Nat /\ n >= 1 /\ L \in Nat
    BY <2>1
  <2>3. \A k \in 1 .. n : chunk[k] = [samples |-> tag, offset |-> cOffset + k - 1]
    OBVIOUS
  <2>4. chunk \in Seq([samples : Nat, offset : Nat]) /\ rendered' = rendered \o chunk
    BY <2>1
  <2> HIDE DEF chunk
  <2>5. /\ Len(rendered') = L + n
        /\ \A k \in 1 .. L : rendered'[k] = rendered[k]
        /\ \A k \in 1 .. n : rendered'[L + k] = chunk[k]
    <3>1. Len(rendered') = L + n /\ \A k \in 1 .. L + n :
              rendered'[k] = IF k <= L THEN rendered[k] ELSE chunk[k - L]
      <4>1. /\ Len(rendered \o chunk) = L + Len(chunk)
            /\ \A k \in 1 .. L + Len(chunk) :
                   (rendered \o chunk)[k] = IF k <= L THEN rendered[k] ELSE chunk[k - L]
        BY <2>4, ConcatProperties
      <4>2. QED
        BY <2>2, <2>4, <4>1
    <3>2. ASSUME NEW k \in 1 .. n PROVE rendered'[L + k] = chunk[k]
      <4>1. L + k \in 1 .. L + n /\ ~(L + k <= L) /\ L + k - L = k
        BY <2>2
      <4>2. QED
        BY <3>1, <4>1
    <3>3. ASSUME NEW k \in 1 .. L PROVE rendered'[k] = rendered[k]
      <4>1. k \in 1 .. L + n /\ k <= L
        BY <2>2
      <4>2. QED
        BY <3>1, <4>1
    <3>4. QED
      BY <3>1, <3>2, <3>3
  <2>6. UNCHANGED <<published, discarded>>
    BY <1>5 DEF RenderCopy
  <2>7. /\ readPosition + 1 \in DOMAIN published
        /\ DOMAIN published = 1 .. writePosition
        /\ PlayedOfHead = cOffset
    BY <1>5, LogGrows, LenProperties DEF RenderCopy, ConsumerInv, PlayedOfHead, RingBounds
  <2>8. ASSUME NEW k \in 1 .. L + n - 1
        PROVE  Follows(rendered'[k], rendered'[k + 1], published, discarded)
    <3>1. CASE k < L
      <4>1. k \in 1 .. L - 1 /\ k \in 1 .. L /\ k + 1 \in 1 .. L
        BY <2>2, <3>1
      <4>2. Follows(rendered[k], rendered[k + 1], published, discarded)
        BY <1>1, <4>1
      <4>3. QED
        BY <2>5, <4>1, <4>2
    <3>2. CASE k = L
      <4>1. /\ rendered'[k] = LastPlayed
            /\ rendered'[k + 1] = [samples |-> tag, offset |-> cOffset]
        <5>1. L \in 1 .. L /\ 1 \in 1 .. n /\ cOffset + 1 - 1 = cOffset
          BY <2>2, <3>2
        <5>2. QED
          BY <2>3, <2>5, <3>2, <5>1 DEF LastPlayed
      <4>2. rendered # <<>>
        BY <2>2, <3>2
      <4>3. CASE cOffset > 0
        <5>1. LastPlayed = [samples |-> tag, offset |-> cOffset - 1]
          BY <2>7, <4>3 DEF LastInv
        <5>2. cOffset = (cOffset - 1) + 1
          OBVIOUS
        <5>3. /\ rendered'[k].samples = tag /\ rendered'[k + 1].samples = tag
              /\ rendered'[k + 1].offset = rendered'[k].offset + 1
          BY <4>1, <5>1, <5>2
        <5>4. QED
          BY <2>7, <5>3, FollowsInFrame
      <4>4. CASE cOffset = 0
        <5>1. PICK i \in 1 .. readPosition :
                  /\ LastPlayed.samples = published[i].samples
                  /\ LastPlayed.offset = FrameLength - 1 \/ i \in discarded
                  /\ (i + 1) .. readPosition \subseteq discarded
          BY <2>7, <4>2, <4>4 DEF LastInv
        <5>2. /\ i \in DOMAIN published /\ i < readPosition + 1
              /\ (readPosition + 1) - 1 = readPosition
          BY <2>7
        <5>3. /\ rendered'[k].samples = published[i].samples
              /\ rendered'[k + 1].samples = tag
              /\ rendered'[k + 1].offset = 0
              /\ rendered'[k].offset = FrameLength - 1 \/ i \in discarded
              /\ (i + 1) .. (readPosition + 1) - 1 \subseteq discarded
          BY <4>1, <4>4, <5>1, <5>2
        <5>4. QED
          BY <2>7, <5>2, <5>3, FollowsInLater
      <4>5. QED
        BY <4>3, <4>4
    <3>3. CASE k > L
      <4> DEFINE m == k - L
      <4>1. m \in 1 .. n /\ m + 1 \in 1 .. n /\ k = L + m /\ k + 1 = L + (m + 1)
        BY <2>2, <3>3
      <4>2. /\ rendered'[k] = [samples |-> tag, offset |-> cOffset + m - 1]
            /\ rendered'[k + 1] = [samples |-> tag, offset |-> cOffset + (m + 1) - 1]
        <5> HIDE DEF m
        <5>1. QED
          BY <2>3, <2>5, <4>1
      <4>3. cOffset + (m + 1) - 1 = (cOffset + m - 1) + 1
        BY <4>1
      <4>4. /\ rendered'[k].samples = tag /\ rendered'[k + 1].samples = tag
            /\ rendered'[k + 1].offset = rendered'[k].offset + 1
        BY <4>2, <4>3
      <4>5. QED
        BY <2>7, <4>4, FollowsInFrame
    <3>4. QED
      BY <2>2, <3>1, <3>2, <3>3
  <2>9. QED
    BY <1>2, <2>5, <2>6, <2>8
<1>6. ASSUME Render \/ Discard, ~RenderCopy PROVE PlaysInOrder'
  <2>1. UNCHANGED rendered /\ discarded \subseteq discarded'
    BY <1>6 DEF Render, RenderStep, RenderBegin, RenderCheck, RenderComplete,
       RenderRelease, RenderFinish, Discard, DiscardLoad, DiscardOffset,
       DiscardPosition, history
  <2>2. QED
    BY <1>3, <1>6, <2>1
<1>7. CASE Reset
  <2>1. rendered' = <<>>
    BY <1>7 DEF Reset
  <2>2. Len(rendered') - 1 = -1
    BY <2>1
  <2>3. QED
    BY <1>2, <2>2
<1>8. QED
  BY <1>4, <1>5, <1>6, <1>7 DEF Next

-----------------------------------------------------------------------------

HInv == /\ OffsetInv /\ SnapshotInv /\ CountInv /\ LastInv /\ ReportInv
        /\ PlaysInOrder /\ SnapshotNeverUnderstates

\* The strengthened history invariant holds in every reachable state.
THEOREM HistoryInvariance == Spec => []HInv
<1>1. Init => HInv
  <2> SUFFICES ASSUME Init PROVE HInv
    OBVIOUS
  <2> USE DEF Init
  <2>1. PlayedOfHead = 0
    BY DEF PlayedOfHead
  <2>2. OffsetInv /\ SnapshotInv /\ SnapshotNeverUnderstates
    BY <2>1 DEF OffsetInv, SnapshotInv, SnapshotNeverUnderstates, Rendering
  <2>3. LastInv /\ ReportInv /\ PlaysInOrder
    BY <2>1 DEF LastInv, ReportInv, PlaysInOrder, NoFrame
  <2>4. CountInv
    <3>1. Plus(0, 0 + 0) = 0 /\ Plus(0, 0) = 0 /\ Plus(0, 0 - 0) = 0
      BY DEF Plus
    <3>2. QED
      BY <2>1, <3>1 DEF CountInv, ZeroStats
  <2>5. QED
    BY <2>2, <2>3, <2>4 DEF HInv
<1>2. IInv /\ HInv /\ [Next]_vars => HInv'
  <2> SUFFICES ASSUME IInv, HInv, [Next]_vars PROVE HInv'
    OBVIOUS
  <2>1. CASE Next
    BY <2>1, OffsetStep, SnapshotStep, CountStep, LastStep, ReportStep, OrderStep DEF HInv
  <2>2. CASE UNCHANGED vars
    <3> USE <2>2 DEF vars, shared, pLocals, cLocals, history
    <3>1. UNCHANGED <<PlayedOfHead, Remaining, LastPlayed>>
      BY DEF PlayedOfHead, Remaining, LastPlayed
    <3>2. OffsetInv' /\ SnapshotInv' /\ SnapshotNeverUnderstates'
      BY <3>1 DEF HInv, OffsetInv, SnapshotInv, SnapshotNeverUnderstates
    <3>3. CountInv' /\ LastInv' /\ ReportInv'
      BY <3>1 DEF HInv, CountInv, LastInv, ReportInv
    <3>4. PlaysInOrder'
      BY DEF HInv, PlaysInOrder
    <3>5. QED
      BY <3>2, <3>3, <3>4 DEF HInv
  <2>3. QED
    BY <2>1, <2>2
<1>3. QED
  BY <1>1, <1>2, Invariance, PTL DEF Spec

\* The device hears the published frames in order, without gap or repetition,
\* except where frames were discarded.
THEOREM OrderOfPlay == Spec => []PlaysInOrder
<1>1. HInv => PlaysInOrder
  BY DEF HInv
<1>2. QED
  BY HistoryInvariance, <1>1, PTL

\* The sequence number reported as consumed is that of the frame whose last PCM
\* frame was just played, though it is read from the slot after the copy.
THEOREM HonestReport == Spec => []ReportsWhatItPlayed
<1>1. IInv /\ HInv => ReportsWhatItPlayed
  <2> SUFFICES ASSUME IInv, HInv, cPc = "release"
               PROVE  LastPlayed.offset = FrameLength - 1
                      /\ LastPlayed.samples = stats.lastConsumed
    BY DEF ReportsWhatItPlayed, LastPlayed
  <2>1. PlayedOfHead = FrameLength
    BY DEF PlayedOfHead
  <2>2. QED
    BY <2>1 DEF HInv, LastInv, ReportInv
<1>2. QED
  BY Invariance, HistoryInvariance, <1>1, PTL

\* Between calls the counters account for every frame and every PCM frame.
THEOREM CountersAccount == Spec => []CountersAddUp
<1>1. IInv /\ HInv => CountersAddUp
  <2> SUFFICES ASSUME IInv, HInv, pPc = "idle", cPc = "idle"
               PROVE  /\ stats.enqueued = Plus(stats.consumed + stats.discarded,
                                               writePosition - readPosition)
                      /\ stats.queueOutput = Plus(0, Len(rendered))
                      /\ discarded = {} => Len(rendered) = FrameLength * readPosition
                                                             + readOffset
    BY DEF CountersAddUp
  <2> USE DEF IInv, TypeOK, TypeRing, TypeConsumer, TypeHistory
  <2>1. /\ stats.enqueued = Plus(0, writePosition)
        /\ Plus(stats.consumed, stats.discarded) = Plus(0, readPosition)
        /\ stats.queueOutput = Plus(0, Len(rendered))
        /\ PlayedOfHead = readOffset
        /\ discarded = {} => Len(rendered) = FrameLength * readPosition + readOffset
    BY DEF HInv, CountInv, OffsetInv, PlayedOfHead, Rendering
  <2> DEFINE left == writePosition - readPosition
             consumed == stats.consumed
             gone == stats.discarded
  <2>2. /\ consumed \in Nat /\ gone \in Nat /\ left \in Nat /\ readPosition \in Nat
        /\ readPosition + left = writePosition
    BY DEF Stats, Counter, RingBounds
  <2>3. Plus(consumed, gone) = Plus(0, readPosition)
    BY <2>1
  <2> HIDE DEF left, consumed, gone, IInv
  <2>4. Plus(Plus(consumed, left), gone) = Plus(0, readPosition + left)
    BY <2>2, <2>3, PlusOnSum
  <2>5. Plus(Plus(consumed, left), gone) = Plus(0, consumed + left + gone)
    BY <2>2, PlusPlus
  <2>6. Plus(0, consumed + left + gone) = Plus(consumed + gone, left)
    BY <2>2 DEF Plus
  <2>7. stats.enqueued = Plus(consumed + gone, left)
    BY <2>1, <2>2, <2>4, <2>5, <2>6
  <2>8. QED
    BY <2>1, <2>7 DEF left, consumed, gone
<1>2. QED
  BY Invariance, HistoryInvariance, <1>1, PTL

\* A snapshot taken while the callback runs never shows less PCM than is left.
THEOREM SnapshotIsSafe == Spec => []SnapshotNeverUnderstates
<1>1. HInv => SnapshotNeverUnderstates
  BY DEF HInv
<1>2. QED
  BY HistoryInvariance, <1>1, PTL

-----------------------------------------------------------------------------
(* The ring implements the bounded FIFO.  The refinement reads the ring as *)
(* the part of the log between the positions: that it holds those frames   *)
(* is RingHoldsPublished.                                                  *)

\* The frames a caller can have published.
OfferInv ==
    /\ offers <= MaxOffers
    /\ pPc \in {"samples", "metadata", "publish"} => pFrame \in OfferedFrames

LoggedFrames == [k \in 1 .. writePosition - readPosition |-> published[readPosition + k]]

\* The ring holds, oldest first, what the log says was published and not gone.
LEMMA ContentsAreLog ==
    IInv => /\ RingContents = LoggedFrames
            /\ RingContents \in Seq(Frame)
            /\ Len(RingContents) = writePosition - readPosition
<1> SUFFICES ASSUME IInv
             PROVE  /\ RingContents = LoggedFrames
                    /\ RingContents \in Seq(Frame)
                    /\ Len(RingContents) = writePosition - readPosition
  OBVIOUS
<1> USE DEF IInv, TypeOK, TypeRing, TypeHistory
<1> DEFINE n == writePosition - readPosition
<1>1. n \in Nat
  BY DEF RingBounds
<1>2. ASSUME NEW k \in 1 .. n
      PROVE  /\ slots[SlotOf(readPosition + k - 1)] = published[readPosition + k]
             /\ slots[SlotOf(readPosition + k - 1)] \in Frame
  <2>1. /\ readPosition + k - 1 \in readPosition .. writePosition - 1
        /\ readPosition + k - 1 + 1 = readPosition + k
        /\ readPosition + k - 1 \in Nat
    BY <1>2
  <2>2. SlotOf(readPosition + k - 1) \in 0 .. Capacity - 1
    BY <2>1, SlotInRing
  <2>3. QED
    BY <2>1, <2>2 DEF RingHoldsPublished
<1>3. RingContents = LoggedFrames
  BY <1>2 DEF RingContents, LoggedFrames
<1>4. RingContents \in [1 .. n -> Frame]
  BY <1>2 DEF RingContents
<1>5. RingContents \in Seq(Frame)
  <2> HIDE DEF n
  <2>1. QED
    BY <1>1, <1>4, FunctionIsSeq
<1>6. Len(RingContents) = n
  BY <1>1 DEF RingContents
<1>7. QED
  BY <1>3, <1>5, <1>6

\* The same after a step.
LEMMA ContentsAreLogNext ==
    (IInv => /\ RingContents = LoggedFrames
             /\ RingContents \in Seq(Frame)
             /\ Len(RingContents) = writePosition - readPosition)'
  BY ContentsAreLog, PTL

\* The logged frames one by one.
LEMMA LoggedFrame ==
    ASSUME NEW k \in 1 .. writePosition - readPosition
    PROVE  LoggedFrames[k] = published[readPosition + k]
  BY DEF LoggedFrames

\* Publishing appends a frame.
LEMMA PublishRefines ==
    ASSUME IInv, IInv', OfferInv, EnqueuePublish
    PROVE  Fifo!Publish
<1> USE DEF IInv, TypeOK, TypeRing, TypeHistory, TypeProducer
<1> DEFINE n == writePosition - readPosition
<1>1. /\ writePosition' = writePosition + 1 /\ UNCHANGED readPosition
      /\ published' = Append(published, pFrame)
      /\ n \in Nat /\ n < Capacity
      /\ pFrame \in OfferedFrames /\ pFrame \in Frame
      /\ Len(published) = writePosition
  BY DEF EnqueuePublish, ProducerInv, RingBounds, OfferInv
<1>2. /\ RingContents = LoggedFrames /\ RingContents \in Seq(Frame)
      /\ Len(RingContents) = n
  BY ContentsAreLog
<1>3. /\ RingContents' = LoggedFrames' /\ RingContents' \in Seq(Frame)
      /\ Len(RingContents') = n + 1
  BY <1>1, ContentsAreLogNext
<1>4. /\ \A i \in 1 .. writePosition : published'[i] = published[i]
      /\ published'[writePosition + 1] = pFrame
  <2>1. /\ \A i \in 1 .. Len(published) : Append(published, pFrame)[i] = published[i]
        /\ Append(published, pFrame)[Len(published) + 1] = pFrame
    BY <1>1, AppendProperties
  <2>2. QED
    BY <1>1, <2>1
<1>5. ASSUME NEW k \in 1 .. n + 1
      PROVE  LoggedFrames'[k] = published'[readPosition + k]
  BY <1>1, <1>5 DEF LoggedFrames
<1>6. ASSUME NEW k \in 1 .. n + 1
      PROVE  RingContents'[k] = Append(RingContents, pFrame)[k]
  <2>0. /\ \A i \in 1 .. Len(RingContents) :
               Append(RingContents, pFrame)[i] = RingContents[i]
        /\ Append(RingContents, pFrame)[Len(RingContents) + 1] = pFrame
    <3> HIDE DEF IInv
    <3>1. QED
      BY <1>1, <1>2, AppendProperties
  <2>1. CASE k = n + 1
    <3>1. readPosition + k = writePosition + 1
      BY <2>1
    <3>2. Append(RingContents, pFrame)[k] = pFrame
      BY <1>2, <2>0, <2>1
    <3>3. QED
      BY <1>3, <1>4, <1>5, <3>1, <3>2
  <2>2. CASE k \in 1 .. n
    <3>1. readPosition + k \in 1 .. writePosition
      BY <2>2
    <3>2. Append(RingContents, pFrame)[k] = RingContents[k]
      BY <1>2, <2>0, <2>2
    <3>3. RingContents[k] = published[readPosition + k]
      BY <1>2, <2>2, LoggedFrame
    <3>4. QED
      BY <1>3, <1>4, <1>5, <3>1, <3>2, <3>3
  <2>3. k = n + 1 \/ k \in 1 .. n
    <3> HIDE DEF n, IInv
    <3>1. QED
      BY <1>1, <1>6
  <2>4. QED
    BY <2>1, <2>2, <2>3
<1>7. RingContents' = Append(RingContents, pFrame)
  <2>1. /\ Append(RingContents, pFrame) \in Seq(Frame)
        /\ Len(Append(RingContents, pFrame)) = n + 1
    <3> HIDE DEF IInv
    <3>1. QED
      BY <1>1, <1>2, AppendProperties
  <2> HIDE DEF n
  <2>2. QED
    BY <1>3, <1>6, <2>1, SeqEqual
<1>8. UNCHANGED <<PlayedOfHead, rendered>>
  BY DEF EnqueuePublish, PlayedOfHead, cLocals
<1>9. QED
  BY <1>1, <1>2, <1>7, <1>8 DEF Fifo!Publish

\* The memcpy plays PCM of the head.
LEMMA CopyRefines ==
    ASSUME IInv, IInv', OffsetInv, RenderCopy
    PROVE  Fifo!Play
<1> USE DEF IInv, TypeOK, TypeRing, TypeHistory, TypeConsumer
<1>1. /\ PlayedOfHead = cOffset
      /\ readPosition < writePosition
      /\ UNCHANGED <<writePosition, readPosition, published>>
  BY DEF RenderCopy, ConsumerInv, PlayedOfHead, shared
<1>2. /\ RingContents = LoggedFrames /\ RingContents \in Seq(Frame)
      /\ Len(RingContents) = writePosition - readPosition
      /\ RingContents' = LoggedFrames'
  BY ContentsAreLog, ContentsAreLogNext
<1>3. RingContents' = RingContents
  BY <1>1, <1>2 DEF LoggedFrames
<1>4. RingContents # <<>> /\ Head(RingContents) = published[readPosition + 1]
  <2>1. 1 \in 1 .. writePosition - readPosition
    BY <1>1
  <2>2. RingContents[1] = published[readPosition + 1]
    BY <1>2, <2>1, LoggedFrame
  <2>3. Len(RingContents) # 0
    BY <1>2, <2>1
  <2>4. RingContents # <<>>
    BY <2>3
  <2>5. Head(RingContents) = RingContents[1]
    BY <1>2, <2>4
  <2>6. QED
    BY <2>2, <2>4, <2>5
<1>5. PICK n \in 1 .. FrameLength - cOffset :
          /\ rendered' = rendered \o [k \in 1 .. n |->
                             [samples |-> published[readPosition + 1].samples,
                              offset |-> cOffset + k - 1]]
          /\ cOffset' = cOffset + n
          /\ cPc' = IF cOffset + n = FrameLength THEN "complete" ELSE "finish"
  BY CopyAppends
<1>6. PlayedOfHead' = PlayedOfHead + n
  BY <1>1, <1>5 DEF PlayedOfHead
<1>7. /\ n \in 1 .. FrameLength - PlayedOfHead
      /\ rendered' = rendered \o [k \in 1 .. n |->
                         [samples |-> Head(RingContents).samples,
                          offset |-> PlayedOfHead + k - 1]]
  BY <1>1, <1>4, <1>5
<1>8. QED
  BY <1>3, <1>4, <1>6, <1>7 DEF Fifo!Play

\* The release retires the head.
LEMMA ReleaseRefines ==
    ASSUME IInv, IInv', OffsetInv, RenderRelease
    PROVE  Fifo!Retire
<1> USE DEF IInv, TypeOK, TypeRing, TypeHistory, TypeConsumer
<1> DEFINE n == writePosition - readPosition
<1>1. /\ PlayedOfHead = FrameLength /\ PlayedOfHead' = 0
      /\ readPosition' = readPosition + 1 /\ readPosition < writePosition
      /\ UNCHANGED <<writePosition, published, rendered>>
  BY DEF RenderRelease, ReleasedPosition, ConsumerInv, OffsetInv, PlayedOfHead, history
<1>2. /\ RingContents = LoggedFrames /\ RingContents \in Seq(Frame)
      /\ Len(RingContents) = n
  BY ContentsAreLog
<1>3. /\ RingContents' = LoggedFrames' /\ RingContents' \in Seq(Frame)
      /\ Len(RingContents') = n - 1
  BY <1>1, ContentsAreLogNext
<1>4. RingContents # <<>>
  <2>1. Len(RingContents) # 0
    BY <1>1, <1>2
  <2>2. QED
    BY <2>1
<1>5. /\ Tail(RingContents) \in Seq(Frame) /\ Len(Tail(RingContents)) = n - 1
      /\ \A k \in 1 .. n - 1 : Tail(RingContents)[k] = RingContents[k + 1]
  <2>1. /\ Tail(RingContents) \in Seq(Frame)
        /\ Len(Tail(RingContents)) = Len(RingContents) - 1
        /\ \A k \in 1 .. Len(Tail(RingContents)) :
               Tail(RingContents)[k] = RingContents[k + 1]
    BY <1>2, <1>4, HeadTailProperties
  <2>2. QED
    BY <1>2, <2>1
<1>6. ASSUME NEW k \in 1 .. n - 1
      PROVE  RingContents'[k] = Tail(RingContents)[k]
  <2>1. k + 1 \in 1 .. n /\ readPosition + (k + 1) = readPosition' + k
    BY <1>1
  <2>2. RingContents[k + 1] = published[readPosition + (k + 1)]
    BY <1>2, <2>1, LoggedFrame
  <2>3. LoggedFrames'[k] = published[readPosition' + k]
    BY <1>1, <1>6 DEF LoggedFrames
  <2>4. QED
    BY <1>3, <1>5, <2>1, <2>2, <2>3
<1>7. RingContents' = Tail(RingContents)
  <2> HIDE DEF n
  <2>1. QED
    BY <1>3, <1>5, <1>6, SeqEqual
<1>8. QED
  BY <1>1, <1>4, <1>7 DEF Fifo!Retire

\* What is left of a sequence behind its first m elements.
LEMMA BehindFirst ==
    ASSUME NEW S, NEW s \in Seq(S), NEW m \in 0 .. Len(s)
    PROVE  LET rest == SubSeq(s, m + 1, Len(s))
           IN  /\ rest \in Seq(S) /\ Len(rest) = Len(s) - m
               /\ \A k \in 1 .. Len(s) - m : rest[k] = s[m + k]
<1> DEFINE n     == Len(s)
           first == m + 1
<1>1. n \in Nat /\ m \in Nat /\ m <= n /\ first \in Int /\ n \in Int
  BY LenProperties
<1>2. ASSUME NEW i \in first .. n PROVE s[i] \in S
  <2>1. i \in 1 .. Len(s)
    BY <1>1
  <2>2. QED
    BY <2>1, ElementOfSeq
<1>3. \A k \in 1 .. n - m : k \in 1 .. n - first + 1 /\ first + k - 1 = m + k
  BY <1>1
<1>4. (IF first <= n THEN n - first + 1 ELSE 0) = n - m
  BY <1>1
<1> HIDE DEF first, n
<1>5. /\ SubSeq(s, first, n) \in Seq(S)
      /\ Len(SubSeq(s, first, n)) = IF first <= n THEN n - first + 1 ELSE 0
      /\ \A k \in 1 .. n - first + 1 : SubSeq(s, first, n)[k] = s[first + k - 1]
  BY <1>1, <1>2, SubSeqProperties
<1>6. QED
  BY <1>3, <1>4, <1>5 DEF first, n

\* Moving the read position up to the loaded write position discards the
\* oldest frames, or nothing when the ring was empty at the load.
LEMMA DiscardRefines ==
    ASSUME IInv, IInv', OffsetInv, DiscardPosition
    PROVE  Fifo!DiscardOldest \/ UNCHANGED <<RingContents, PlayedOfHead, rendered>>
<1> USE DEF IInv, TypeOK, TypeRing, TypeHistory, TypeConsumer
<1> DEFINE n == writePosition - readPosition
           m == cWrite - readPosition
<1>1. /\ PlayedOfHead = cOffset /\ PlayedOfHead' = 0
      /\ readPosition' = cWrite /\ readPosition <= cWrite /\ cWrite <= writePosition
      /\ cOffset > 0 => readPosition < cWrite
      /\ UNCHANGED <<writePosition, published, rendered>>
  BY DEF DiscardPosition, ConsumerInv, OffsetInv, PlayedOfHead
<1>2. /\ RingContents = LoggedFrames /\ RingContents \in Seq(Frame)
      /\ Len(RingContents) = n
  BY ContentsAreLog
<1>3. /\ RingContents' = LoggedFrames' /\ RingContents' \in Seq(Frame)
      /\ Len(RingContents') = n - m
  BY <1>1, ContentsAreLogNext
<1>4. CASE cWrite = readPosition
  <2>1. cOffset = 0 /\ readPosition' = readPosition
    BY <1>1, <1>4
  <2>2. LoggedFrames' = LoggedFrames
    BY <1>1, <2>1 DEF LoggedFrames
  <2>3. QED
    BY <1>1, <1>2, <1>3, <2>1, <2>2
<1>5. CASE readPosition < cWrite
  <2>1. m \in 1 .. n /\ n \in Nat
    BY <1>1, <1>5
  <2> DEFINE rest == SubSeq(RingContents, m + 1, Len(RingContents))
  <2>2. /\ rest \in Seq(Frame) /\ Len(rest) = n - m
        /\ \A k \in 1 .. n - m : rest[k] = RingContents[m + k]
    <3> HIDE DEF m
    <3>1. m \in 0 .. Len(RingContents)
      BY <1>2, <2>1
    <3>2. QED
      BY <1>2, <3>1, BehindFirst
  <2>3. ASSUME NEW k \in 1 .. n - m
        PROVE  RingContents'[k] = rest[k]
    <3>1. m + k \in 1 .. n /\ readPosition + (m + k) = readPosition' + k
      BY <1>1, <2>1
    <3>2. RingContents[m + k] = published[readPosition + (m + k)]
      BY <1>2, <3>1, LoggedFrame
    <3>3. k \in 1 .. writePosition' - readPosition'
      BY <1>1, <2>3
    <3>4. LoggedFrames'[k] = published[readPosition' + k]
      BY <1>1, <3>3 DEF LoggedFrames
    <3> HIDE DEF rest
    <3>5. QED
      BY <1>3, <2>2, <3>1, <3>2, <3>4
  <2>4. RingContents' = rest
    <3> HIDE DEF n, m, rest
    <3>1. QED
      BY <1>3, <2>2, <2>3, SeqEqual
  <2>5. m \in 1 .. Len(RingContents)
    BY <1>2, <2>1
  <2> HIDE DEF m
  <2>6. QED
    BY <1>1, <2>4, <2>5 DEF Fifo!DiscardOldest
<1>6. QED
  BY <1>1, <1>4, <1>5

\* Every other step of the calls is invisible to the FIFO.
LEMMA OthersStutter ==
    ASSUME IInv, IInv', OffsetInv,
           Enqueue \/ TakeSnapshot \/ Render \/ Discard,
           ~EnqueuePublish, ~RenderCopy, ~RenderRelease, ~DiscardPosition
    PROVE  UNCHANGED <<RingContents, PlayedOfHead, rendered>>
<1>1. UNCHANGED <<writePosition, readPosition, published, rendered>>
  <2>1. CASE Enqueue \/ TakeSnapshot
    BY <2>1, ProducerLeaves
  <2>2. CASE Render \/ Discard
    <3>1. UNCHANGED <<readPosition, rendered>>
      BY <2>2 DEF Render, RenderStep, RenderBegin, RenderCheck, RenderComplete,
         RenderFinish, Discard, DiscardLoad, DiscardOffset, shared, history
    <3>2. QED
      BY <2>2, <3>1, ConsumerLeaves
  <2>3. QED
    BY <2>1, <2>2
<1>2. RingContents' = RingContents
  BY <1>1, ContentsAreLog, ContentsAreLogNext DEF LoggedFrames
<1>3. PlayedOfHead' = PlayedOfHead
  <2>1. CASE Enqueue \/ TakeSnapshot
    BY <2>1, ProducerLeaves
  <2>2. CASE Render \/ Discard
    BY <2>2 DEF Render, RenderStep, RenderBegin, ResumeOffset, RenderCheck,
       RenderComplete, RenderFinish, Discard, DiscardLoad, DiscardOffset, shared,
       PlayedOfHead, OffsetInv
  <2>3. QED
    BY <2>1, <2>2
<1>4. QED
  BY <1>1, <1>2, <1>3

\* The ring, with its split loads and stores, implements the bounded FIFO: the
\* publishing store appends, the memcpy plays, the releasing store retires, and
\* the store of discard_pending drops the oldest frames; no other step shows.
THEOREM RingImplementsFifo == Spec => ImplementsFifo
<1>1. Init => Fifo!Init
  <2> SUFFICES ASSUME Init PROVE Fifo!Init
    OBVIOUS
  <2>1. RingContents = <<>> /\ PlayedOfHead = 0 /\ rendered = <<>>
    BY DEF Init, RingContents, PlayedOfHead
  <2>2. QED
    BY <2>1 DEF Fifo!Init
<1>2. Spec => []OfferInv
  <2>1. Init => OfferInv
    BY DEF Init, OfferInv
  <2>2. IInv /\ OfferInv /\ [Next]_vars => OfferInv'
    <3> SUFFICES ASSUME IInv, OfferInv, [Next]_vars PROVE OfferInv'
      OBVIOUS
    <3> USE DEF IInv, TypeOK, TypeProducer
    <3>1. ASSUME NEW size, NEW flags, EnqueueLoad(size, flags) PROVE OfferInv'
      <4>1. flags \in KnownFlags /\ offers + 1 \in 1 .. MaxOffers
        BY <3>1 DEF EnqueueLoad, ValidationError
      <4>2. [samples |-> offers + 1, sequence_number |-> offers + 1, flags |-> flags]
                \in OfferedFrames
        BY <4>1 DEF OfferedFrames
      <4>3. /\ offers' = offers + 1
            /\ \/ pPc' = "rejected"
               \/ pFrame' = [samples |-> offers + 1, sequence_number |-> offers + 1,
                             flags |-> flags]
        BY <3>1 DEF EnqueueLoad
      <4>4. QED
        BY <4>1, <4>2, <4>3 DEF OfferInv
    <3>2. ASSUME Enqueue \/ TakeSnapshot,
                 ~(\E size \in OfferedSizes, flags \in OfferedFlags : EnqueueLoad(size, flags))
          PROVE  OfferInv'
      BY <3>2 DEF Enqueue, EnqueueInvalid, EnqueueSamples, EnqueueMetadata,
         EnqueuePublish, TakeSnapshot, SnapshotWrite, SnapshotRead, SnapshotOffset,
         Return, OfferInv
    <3>3. CASE Render \/ Discard
      BY <3>3, ConsumerLeaves DEF OfferInv, pLocals
    <3>4. CASE Reset \/ UNCHANGED vars
      BY <3>4 DEF Reset, vars, pLocals, OfferInv
    <3>5. QED
      BY <3>1, <3>2, <3>3, <3>4 DEF Next
  <2>3. QED
    BY <2>1, <2>2, Invariance, PTL DEF Spec
<1>3. IInv /\ IInv' /\ HInv /\ OfferInv /\ [Next]_vars
          => [Fifo!Next]_<<RingContents, PlayedOfHead, rendered>>
  <2> SUFFICES ASSUME IInv, IInv', HInv, OfferInv, [Next]_vars
               PROVE  Fifo!Next \/ UNCHANGED <<RingContents, PlayedOfHead, rendered>>
    OBVIOUS
  <2>0. OffsetInv
    BY DEF HInv
  <2>1. CASE EnqueuePublish
    BY <2>1, PublishRefines DEF Fifo!Next
  <2>2. CASE RenderCopy
    BY <2>0, <2>2, CopyRefines DEF Fifo!Next
  <2>3. CASE RenderRelease
    BY <2>0, <2>3, ReleaseRefines DEF Fifo!Next
  <2>4. CASE DiscardPosition
    BY <2>0, <2>4, DiscardRefines DEF Fifo!Next
  <2>5. CASE Reset
    <3>1. RingContents' = <<>> /\ PlayedOfHead' = 0 /\ rendered' = <<>>
      BY <2>5 DEF Reset, RingContents, PlayedOfHead, cLocals
    <3>2. QED
      BY <3>1 DEF Fifo!Next, Fifo!Reset
  <2>6. CASE UNCHANGED vars
    <3>1. UNCHANGED <<RingContents, PlayedOfHead, rendered>>
      BY <2>6 DEF vars, shared, pLocals, cLocals, history, RingContents, PlayedOfHead
    <3>2. QED
      BY <3>1
  <2>7. CASE /\ Enqueue \/ TakeSnapshot \/ Render \/ Discard
             /\ ~EnqueuePublish /\ ~RenderCopy /\ ~RenderRelease /\ ~DiscardPosition
    BY <2>0, <2>7, OthersStutter
  <2>8. QED
    BY <2>1, <2>2, <2>3, <2>4, <2>5, <2>6, <2>7 DEF Next
<1>4. QED
  BY <1>1, <1>2, <1>3, Invariance, HistoryInvariance, PTL
  DEF Spec, ImplementsFifo, Fifo!Spec
=============================================================================
