-------------------- MODULE AudioFrameReassembler_proofs --------------------
(***************************************************************************)
(* Lemmas about the reassembly window, for every window size, payload      *)
(* size and frame size: a slot that is sound stays sound when a fragment   *)
(* that is not refused is stored in it, and a frame copied out of a slot   *)
(* stays within the slot's bytes.                                          *)
(***************************************************************************)
EXTENDS AudioFrameReassembler, FiniteSetTheorems, WellFoundedInduction,
        Integers, TLAPS

Marks(slot) == {f \in FragmentIds : slot.received[f]}

\* Every fragment, at its place and with its size, ends within the frame.
SizesFit(slot) ==
    \A f \in FragmentIds :
      f * MaximumPayloadSize + slot.fragment_sizes[f] <= MaximumFramePayload

\* What holds of a slot while a fragment is being stored in it: its count is
\* the number of its marks, and they are within its fragment count.
Consistent(slot) ==
    /\ slot \in Slot
    /\ SizesFit(slot)
    /\ slot.received_count = Cardinality(Marks(slot))
    /\ \A f \in Marks(slot) : f < slot.fragment_count

\* What holds of a slot between calls: it is blank, or it is incomplete.
Sound(slot) ==
    /\ Consistent(slot)
    /\ ~ slot.active => Marks(slot) = {}
    /\ slot.active => /\ slot.fragment_count <= MaximumFragmentCount
                      /\ 0 < slot.received_count
                      /\ slot.received_count < slot.fragment_count

SoundWindow(r) == r \in Reassembler /\ \A i \in SlotIds : Sound(r.slots[i])

\* No two slots collect the same frame.
Distinct(r) ==
    \A i, j \in InFlight(r) :
      /\ r.slots[i].stream_id = r.slots[j].stream_id
      /\ r.slots[i].frame_id = r.slots[j].frame_id
      => i = j

\* Datagrams the session hands to the reassembler.
Audio(d) == d \in Datagram /\ ParsesOk(d) /\ d.type = "audio"

---------------------------------------------------------------------------

\* The last fragment of the longest frame begins within the frame.
LEMMA FragmentLimit ==
    /\ MaximumFragmentCount \in Nat \ {0}
    /\ (MaximumFragmentCount - 1) * MaximumPayloadSize <= MaximumFramePayload
    /\ \A f \in FragmentIds :
         /\ f \in Nat /\ f * MaximumPayloadSize \in Nat
         /\ f * MaximumPayloadSize <= MaximumFramePayload
<1> DEFINE P == MaximumPayloadSize
           F == MaximumFramePayload
           N == MaximumFragmentCount
<1>1. P \in Nat \ {0} /\ F \in Nat \ {0}
  BY PacketAssumption, ReassemblerAssumption
<1>2. N \in Int /\ P * N <= F + P - 1 /\ F + P - 1 < P * N + P
  <2>1. N = (F + P - 1) \div P /\ F + P - 1 \in Nat
    BY <1>1 DEF MaximumFragmentCount
  <2> HIDE DEF N, F, P
  <2> QED BY <1>1, <2>1
<1>3. N > 0
  <2>1. SUFFICES ASSUME N <= 0 PROVE FALSE
    BY <1>2
  <2> HIDE DEF N, F, P
  <2>2. P * N <= 0
    BY <1>1, <1>2, <2>1
  <2> QED BY <1>1, <1>2, <2>2
<1>4. (N - 1) * P = P * N - P
  <2> HIDE DEF N, F, P
  <2> QED BY <1>1, <1>2
<1>5. ASSUME NEW f \in FragmentIds
      PROVE  f \in Nat /\ f * P \in Nat /\ f * P <= F
  <2>1. f \in Nat /\ f <= N - 1
    BY <1>2, <1>3 DEF FragmentIds
  <2> HIDE DEF N, F, P
  <2>2. f * P <= (N - 1) * P
    BY <1>1, <1>2, <2>1
  <2> QED BY <1>1, <1>2, <1>4, <2>1, <2>2
<1>6. N \in Nat \ {0} /\ (N - 1) * P <= F
  <2> HIDE DEF N, F, P
  <2> QED BY <1>1, <1>2, <1>3, <1>4
<1> QED BY <1>5, <1>6

\* The sets of slots and of fragment indices are finite.
LEMMA FiniteIndices ==
    /\ IsFiniteSet(SlotIds)
    /\ IsFiniteSet(FragmentIds)
    /\ \A slot : IsFiniteSet(Marks(slot))
    /\ \A r : /\ InFlight(r) \subseteq SlotIds /\ IsFiniteSet(InFlight(r))
              /\ Cardinality(InFlight(r)) \in Nat
    /\ \A r, now : /\ IsFiniteSet(Expired(r, now))
                   /\ Cardinality(Expired(r, now)) \in Nat
<1>1. IsFiniteSet(SlotIds)
  BY ReassemblerAssumption, FS_Interval DEF SlotIds
<1>2. IsFiniteSet(FragmentIds)
  BY FragmentLimit, FS_Interval DEF FragmentIds
<1>3. ASSUME NEW slot PROVE IsFiniteSet(Marks(slot))
  BY <1>2, FS_Subset DEF Marks
<1>4. ASSUME NEW r
      PROVE  /\ InFlight(r) \subseteq SlotIds /\ IsFiniteSet(InFlight(r))
             /\ Cardinality(InFlight(r)) \in Nat
  BY <1>1, FS_Subset, FS_CardinalityType DEF InFlight
<1>5. ASSUME NEW r, NEW now
      PROVE  /\ IsFiniteSet(Expired(r, now))
             /\ Cardinality(Expired(r, now)) \in Nat
  BY <1>4, FS_Subset, FS_CardinalityType DEF Expired
<1> QED BY <1>1, <1>2, <1>3, <1>4, <1>5

\* A blank slot is sound.
LEMMA EmptySlotSound == Sound(EmptySlot) /\ ~ EmptySlot.active
<1>1. EmptySlot \in Slot
  BY DEF EmptySlot, Slot
<1>2. Marks(EmptySlot) = {}
  BY DEF Marks, EmptySlot
<1>3. SizesFit(EmptySlot)
  BY FragmentLimit DEF SizesFit, EmptySlot
<1>4. EmptySlot.received_count = Cardinality(Marks(EmptySlot))
  BY <1>2, FS_EmptySet DEF EmptySlot
<1> QED BY <1>1, <1>2, <1>3, <1>4 DEF Sound, Consistent, EmptySlot

\* A reset reassembler is sound and has nothing in flight.
LEMMA ResetSound ==
    /\ SoundWindow(ResetReassembler)
    /\ InFlight(ResetReassembler) = {}
    /\ Distinct(ResetReassembler)
<1>1. ResetReassembler \in Reassembler
  BY EmptySlotSound DEF ResetReassembler, Reassembler, Sound, Consistent
<1>2. \A i \in SlotIds : ResetReassembler.slots[i] = EmptySlot
  BY DEF ResetReassembler
<1> QED BY <1>1, <1>2, EmptySlotSound DEF SoundWindow, InFlight, Distinct

\* Ageing releases some slots and leaves the others alone.
LEMMA AdvancedSound ==
    ASSUME NEW r, SoundWindow(r), NEW now \in Nat
    PROVE  /\ SoundWindow(Advanced(r, now))
           /\ Advanced(r, now).last_observed_time = now
           /\ InFlight(Advanced(r, now)) = InFlight(r) \ Expired(r, now)
           /\ \A i \in InFlight(Advanced(r, now)) :
                Advanced(r, now).slots[i] = r.slots[i]
<1> DEFINE a == Advanced(r, now)
<1>1. \A i \in SlotIds :
        a.slots[i] = IF i \in Expired(r, now) THEN EmptySlot ELSE r.slots[i]
  BY DEF Advanced, Released
<1>2. a.last_observed_time = now
  BY DEF Advanced
<1>3. \A i \in SlotIds : Sound(a.slots[i])
  BY <1>1, EmptySlotSound DEF SoundWindow
<1>4. a \in Reassembler
  <2>1. a.slots \in [SlotIds -> Slot]
    <3>1. a.slots = [i \in SlotIds |-> IF i \in Expired(r, now)
                       THEN Released(r.slots[i]) ELSE r.slots[i]]
      BY DEF Advanced
    <3> QED BY <3>1, <1>1, <1>3 DEF Sound, Consistent
  <2> QED BY <2>1 DEF Advanced, Reassembler
<1>5. InFlight(a) = InFlight(r) \ Expired(r, now)
  BY <1>1, EmptySlotSound DEF InFlight, Expired
<1>6. \A i \in InFlight(a) : a.slots[i] = r.slots[i]
  BY <1>1, <1>5 DEF InFlight
<1> QED BY <1>2, <1>3, <1>4, <1>5, <1>6 DEF SoundWindow

\* What parse_datagram and validate_fragment_shape promise of a fragment.
LEMMA CanonicalFragment ==
    ASSUME NEW d, Audio(d), CanonicalShape(d)
    PROVE  /\ d.fragment_index \in FragmentIds
           /\ d.fragment_count \in 1 .. MaximumFragmentCount
           /\ d.fragment_index < d.fragment_count
           /\ Len(d.payload) \in Nat
           /\ d.fragment_index * MaximumPayloadSize + Len(d.payload)
                <= MaximumFramePayload
<1>1. /\ d.fragment_index \in Nat /\ d.fragment_count \in Nat
      /\ Len(d.payload) \in Nat
  BY DEF Audio, Datagram
<1>2. d.fragment_count # 0 /\ d.fragment_index < d.fragment_count
  BY DEF Audio, ParsesOk, ValidHeader
<1>3. d.fragment_count <= MaximumFragmentCount
  BY DEF CanonicalShape
<1>4. d.fragment_index \in FragmentIds
  BY <1>1, <1>2, <1>3, FragmentLimit DEF FragmentIds
<1>5. d.fragment_index * MaximumPayloadSize + Len(d.payload)
        <= MaximumFramePayload
  <2>1. CASE HasFlag(d.flags, FlagSilence)
    <3>1. d.payload = <<>> /\ d.fragment_index = 0
      BY <2>1 DEF CanonicalShape
    <3> QED BY <3>1, PacketAssumption, ReassemblerAssumption
  <2>2. CASE ~ HasFlag(d.flags, FlagSilence)
    BY <2>2 DEF CanonicalShape
  <2> QED BY <2>1, <2>2
<1> QED BY <1>1, <1>2, <1>3, <1>4, <1>5, FragmentLimit

---------------------------------------------------------------------------
(* The slot a fragment goes to.                                            *)

\* A set of slots that is not empty has a first one.
LEMMA LeastInSet ==
    ASSUME NEW S, S \subseteq SlotIds, S # {}
    PROVE  Least(S) \in S
<1>1. S \subseteq Nat
  BY ReassemblerAssumption DEF SlotIds
<1> DEFINE Below(i) == {j \in S : j <= i}
           T == {Below(i) : i \in S}
<1>2. IsFiniteSet(S)
  BY FiniteIndices, FS_Subset
<1>3. T # {} /\ T \subseteq FiniteSubsetsOf(S)
  <2>1. \A i \in S : Below(i) \subseteq S /\ IsFiniteSet(Below(i))
    BY <1>2, FS_Subset
  <2> QED BY <2>1 DEF FiniteSubsetsOf
<1>4. PICK X \in T : \A Y \in T : ~ (<<Y, X>> \in StrictSubsetOrdering(S))
  BY <1>3, FS_StrictSubsetOrderingWellFounded, WFMin
<1>5. PICK i \in S : X = Below(i)
  BY <1>4
<1>6. ASSUME NEW j \in S PROVE i <= j
  <2>1. SUFFICES ASSUME j < i PROVE FALSE
    <3>1. i \in Nat /\ j \in Nat
      BY <1>1
    <3> QED BY <3>1
  <2>2. Below(j) \subseteq Below(i) /\ i \in Below(i) /\ i \notin Below(j)
    <3>1. i \in Nat /\ j \in Nat
      BY <1>1
    <3>2. \A k \in S : k <= j => k <= i
      BY <1>1, <2>1, <3>1
    <3>3. i <= i /\ ~ i <= j
      BY <2>1, <3>1
    <3> QED BY <3>2, <3>3
  <2>3. <<Below(j), Below(i)>> \in StrictSubsetOrdering(S)
    BY <2>2 DEF StrictSubsetOrdering
  <2> QED BY <1>4, <1>5, <2>3
<1> QED BY <1>6 DEF Least

\* A fragment that is not refused has a slot: that of its frame, which lacks
\* this fragment and agrees with its header, or a blank one.
LEMMA TargetIsFit ==
    ASSUME NEW r, SoundWindow(r), NEW d, Audio(d), Refusal(r, d) = "none"
    PROVE  /\ CanonicalShape(d)
           /\ TargetSlot(r, d) \in SlotIds
           /\ \/ /\ MatchingSlots(r, d) # {}
                 /\ r.slots[TargetSlot(r, d)].active
                 /\ r.slots[TargetSlot(r, d)].stream_id = d.stream_id
                 /\ r.slots[TargetSlot(r, d)].frame_id = d.frame_id
                 /\ r.slots[TargetSlot(r, d)].fragment_count = d.fragment_count
                 /\ ~ r.slots[TargetSlot(r, d)].received[d.fragment_index]
              \/ /\ MatchingSlots(r, d) = {}
                 /\ ~ r.slots[TargetSlot(r, d)].active
<1>1. CanonicalShape(d) /\ ~ WindowFull(r, d)
  BY DEF Refusal
<1>2. CASE MatchingSlots(r, d) # {}
  <2>1. TargetSlot(r, d) = Least(MatchingSlots(r, d))
    BY <1>2 DEF TargetSlot
  <2>2. TargetSlot(r, d) \in MatchingSlots(r, d)
    BY <1>2, <2>1, LeastInSet DEF MatchingSlots
  <2>3. /\ SameMetadata(r.slots[TargetSlot(r, d)], d)
        /\ ~ r.slots[TargetSlot(r, d)].received[d.fragment_index]
    BY <1>1, <1>2 DEF Refusal
  <2> QED BY <1>1, <1>2, <2>2, <2>3 DEF MatchingSlots, Matches, SameMetadata
<1>3. CASE MatchingSlots(r, d) = {}
  <2>1. FreeSlots(r) # {}
    BY <1>1, <1>3 DEF WindowFull
  <2>2. TargetSlot(r, d) \in FreeSlots(r)
    BY <1>3, <2>1, LeastInSet DEF TargetSlot, FreeSlots
  <2> QED BY <1>1, <1>3, <2>2 DEF FreeSlots, InFlight
<1> QED BY <1>2, <1>3

\* A blank slot opened for a fragment has its header and no marks.
LEMMA OpenedIsConsistent ==
    ASSUME NEW slot, Sound(slot), ~ slot.active,
           NEW d, Audio(d), NEW now \in Nat
    PROVE  /\ Consistent(Opened(slot, d, now))
           /\ Marks(Opened(slot, d, now)) = {}
           /\ Opened(slot, d, now).active
           /\ Opened(slot, d, now).stream_id = d.stream_id
           /\ Opened(slot, d, now).frame_id = d.frame_id
           /\ Opened(slot, d, now).fragment_count = d.fragment_count
<1> DEFINE o == Opened(slot, d, now)
<1>1. slot \in Slot /\ d \in Datagram
  BY DEF Sound, Consistent, Audio
<1>2. FirstSequence(d) \in Nat
  <2>1. d.sequence_number \in Nat /\ d.fragment_index \in Nat
    BY <1>1 DEF Datagram
  <2>2. SequenceModulus \in Nat \ {0}
    BY ReassemblerAssumption
  <2>3. d.fragment_index % SequenceModulus \in 0 .. SequenceModulus - 1
    BY <2>1, <2>2
  <2>4. d.sequence_number + SequenceModulus
          - (d.fragment_index % SequenceModulus) \in Nat
    BY <2>1, <2>2, <2>3
  <2> QED BY <2>2, <2>4 DEF FirstSequence
<1>3. /\ o.active /\ o.stream_id = d.stream_id /\ o.frame_id = d.frame_id
      /\ o.fragment_count = d.fragment_count
      /\ o.received = slot.received /\ o.fragment_sizes = slot.fragment_sizes
      /\ o.received_count = slot.received_count
  BY <1>1 DEF Opened, Slot
<1>4. o \in Slot
  BY <1>1, <1>2 DEF Opened, Slot, Datagram
<1>5. Marks(o) = {} /\ Marks(slot) = {}
  BY <1>3 DEF Marks, Sound
<1>6. SizesFit(o)
  BY <1>3 DEF SizesFit, Sound, Consistent
<1> QED BY <1>3, <1>4, <1>5, <1>6 DEF Sound, Consistent

\* Storing a fragment that a slot lacks keeps it consistent.
LEMMA StoredIsConsistent ==
    ASSUME NEW slot, Consistent(slot), NEW d, Audio(d), CanonicalShape(d),
           slot.fragment_count = d.fragment_count,
           d.fragment_index \notin Marks(slot), NEW now \in Nat
    PROVE  /\ Consistent(Stored(slot, d, now))
           /\ 0 < Stored(slot, d, now).received_count
           /\ Stored(slot, d, now).received_count <= d.fragment_count
           /\ Stored(slot, d, now).last_arrival_time = now
           /\ Stored(slot, d, now).active = slot.active
           /\ Stored(slot, d, now).stream_id = slot.stream_id
           /\ Stored(slot, d, now).frame_id = slot.frame_id
           /\ Stored(slot, d, now).fragment_count = slot.fragment_count
<1> DEFINE n == Stored(slot, d, now)
           f == d.fragment_index
<1>1. slot \in Slot /\ d \in Datagram
  BY DEF Consistent, Audio
<1>2. /\ f \in FragmentIds
      /\ d.fragment_count \in 1 .. MaximumFragmentCount
      /\ f < d.fragment_count /\ Len(d.payload) \in Nat
      /\ f * MaximumPayloadSize + Len(d.payload) <= MaximumFramePayload
  BY CanonicalFragment
<1>3. /\ n.received = [slot.received EXCEPT ![f] = TRUE]
      /\ n.fragment_sizes = [slot.fragment_sizes EXCEPT ![f] = Len(d.payload)]
      /\ n.received_count = slot.received_count + 1
      /\ n.last_arrival_time = now
      /\ n.active = slot.active /\ n.stream_id = slot.stream_id
      /\ n.frame_id = slot.frame_id
      /\ n.first_sequence_number = slot.first_sequence_number
      /\ n.timestamp_samples = slot.timestamp_samples /\ n.flags = slot.flags
      /\ n.fragment_count = slot.fragment_count
  BY <1>1 DEF Stored, Slot
<1>4. n.storage \in [Offsets -> Nat]
  <2>1. n.storage = [o \in Offsets |->
           IF o - PayloadOffset(d) \in 1 .. Len(d.payload)
           THEN d.payload[o - PayloadOffset(d)] ELSE slot.storage[o]]
    BY <1>1 DEF Stored, Slot
  <2>2. slot.storage \in [Offsets -> Nat] /\ d.payload \in Seq(Nat)
    BY <1>1 DEF Slot, Datagram
  <2>3. \A k \in 1 .. Len(d.payload) : d.payload[k] \in Nat
    BY <2>2
  <2> QED BY <2>1, <2>2, <2>3
<1>5. n \in Slot
  <2>1. /\ n.received \in [FragmentIds -> BOOLEAN]
        /\ n.fragment_sizes \in [FragmentIds -> Nat]
        /\ n.received_count \in Nat /\ n.last_arrival_time \in Nat
    BY <1>1, <1>2, <1>3 DEF Slot
  <2> DEFINE s1 == [slot EXCEPT !.storage = n.storage]
             s2 == [s1 EXCEPT !.received = n.received]
             s3 == [s2 EXCEPT !.fragment_sizes = n.fragment_sizes]
             s4 == [s3 EXCEPT !.received_count = n.received_count]
             s5 == [s4 EXCEPT !.last_arrival_time = now]
  <2>2. s1 \in Slot
    BY <1>1, <1>4 DEF Slot
  <2>3. s2 \in Slot
    BY <2>1, <2>2 DEF Slot
  <2>4. s3 \in Slot
    BY <2>1, <2>3 DEF Slot
  <2>5. s4 \in Slot
    BY <2>1, <2>4 DEF Slot
  <2>6. s5 \in Slot
    BY <2>5 DEF Slot
  <2>7. n = s5
    BY <1>1 DEF Stored, Slot
  <2> QED BY <2>6, <2>7
<1>6. Marks(n) = Marks(slot) \cup {f}
  BY <1>1, <1>2, <1>3 DEF Marks, Slot
<1>7. Cardinality(Marks(n)) = Cardinality(Marks(slot)) + 1
  BY <1>6, FiniteIndices, FS_AddElement
<1>8. SizesFit(n)
  <2>1. \A g \in FragmentIds :
          n.fragment_sizes[g] = IF g = f THEN Len(d.payload)
                                         ELSE slot.fragment_sizes[g]
    BY <1>1, <1>2, <1>3 DEF Slot
  <2> QED BY <1>2, <2>1 DEF SizesFit, Consistent
<1>9. \A g \in Marks(n) : g < n.fragment_count
  BY <1>2, <1>3, <1>6 DEF Consistent
<1>10. Consistent(n)
  BY <1>3, <1>5, <1>7, <1>8, <1>9 DEF Consistent
<1>11. n.received_count <= d.fragment_count
  <2>1. Marks(n) \subseteq 0 .. d.fragment_count - 1
    BY <1>2, <1>3, <1>9, FragmentLimit DEF Marks, FragmentIds
  <2>2. /\ IsFiniteSet(0 .. d.fragment_count - 1)
        /\ Cardinality(0 .. d.fragment_count - 1) = d.fragment_count
    <3>1. 0 \in Int /\ d.fragment_count - 1 \in Int /\ ~ 0 > d.fragment_count - 1
      BY <1>2, FragmentLimit
    <3>2. d.fragment_count - 1 - 0 + 1 = d.fragment_count
      BY <1>2, FragmentLimit
    <3> QED BY <3>1, <3>2, FS_Interval
  <2>3. Cardinality(Marks(n)) <= d.fragment_count
    BY <2>1, <2>2, FS_Subset
  <2> QED BY <2>3, <1>10 DEF Consistent
<1>12. 0 < n.received_count
  BY <1>1, <1>3 DEF Slot
<1> QED BY <1>3, <1>10, <1>11, <1>12

---------------------------------------------------------------------------
(* One fragment.                                                           *)

\* The slot a fragment is stored in, after that.
LEMMA SlotWithFragment ==
    ASSUME NEW r, SoundWindow(r), NEW d, Audio(d), Refusal(r, d) = "none",
           NEW now \in Nat
    PROVE  LET slot == SlotWith(r, d, now)
           IN  /\ Consistent(slot) /\ slot.active
               /\ 0 < slot.received_count
               /\ slot.received_count <= slot.fragment_count
               /\ slot.fragment_count \in 1 .. MaximumFragmentCount
               /\ slot.last_arrival_time = now
               /\ slot.stream_id = d.stream_id /\ slot.frame_id = d.frame_id
<1> DEFINE slot == r.slots[TargetSlot(r, d)]
           open == IF slot.active THEN slot ELSE Opened(slot, d, now)
<1>1. /\ CanonicalShape(d) /\ TargetSlot(r, d) \in SlotIds
      /\ Sound(slot)
  BY TargetIsFit DEF SoundWindow
<1>2. SlotWith(r, d, now) = Stored(open, d, now)
  BY DEF SlotWith
<1>3. /\ Consistent(open) /\ open.active
      /\ open.fragment_count = d.fragment_count
      /\ open.stream_id = d.stream_id /\ open.frame_id = d.frame_id
      /\ d.fragment_index \notin Marks(open)
  <2>1. CASE slot.active
    <3>1. open = slot
      BY <2>1
    <3>2. /\ slot.stream_id = d.stream_id /\ slot.frame_id = d.frame_id
          /\ slot.fragment_count = d.fragment_count
          /\ ~ slot.received[d.fragment_index]
      BY <2>1, TargetIsFit
    <3> QED BY <1>1, <2>1, <3>1, <3>2 DEF Marks, Sound
  <2>2. CASE ~ slot.active
    BY <1>1, <2>2, OpenedIsConsistent
  <2> QED BY <2>1, <2>2
<1> HIDE DEF open
<1>4. d.fragment_count \in 1 .. MaximumFragmentCount
  BY <1>1, CanonicalFragment
<1> QED BY <1>1, <1>2, <1>3, <1>4, StoredIsConsistent

\* A fragment that is not refused leaves the window sound, and no two slots
\* collecting the same frame.
LEMMA AcceptedSound ==
    ASSUME NEW r, SoundWindow(r), Distinct(r), NEW d, Audio(d),
           Refusal(r, d) = "none", NEW now \in Nat
    PROVE  /\ SoundWindow(Accepted(r, d, now))
           /\ Distinct(Accepted(r, d, now))
           /\ Accepted(r, d, now).last_observed_time = r.last_observed_time
           /\ \A i \in InFlight(Accepted(r, d, now)) :
                LET slot == Accepted(r, d, now).slots[i]
                IN  \/ i \in InFlight(r) /\ slot = r.slots[i]
                    \/ slot.stream_id = d.stream_id /\ slot.last_arrival_time = now
<1> DEFINE t    == TargetSlot(r, d)
           slot == SlotWith(r, d, now)
           next == IF Completes(r, d, now) THEN EmptySlot ELSE slot
           a    == Accepted(r, d, now)
<1>1. t \in SlotIds
  BY TargetIsFit
<1>2. /\ Consistent(slot) /\ slot.active /\ 0 < slot.received_count
      /\ slot.received_count <= slot.fragment_count
      /\ slot.fragment_count \in 1 .. MaximumFragmentCount
      /\ slot.last_arrival_time = now
      /\ slot.stream_id = d.stream_id /\ slot.frame_id = d.frame_id
  BY SlotWithFragment
<1>3. /\ a.slots = [r.slots EXCEPT ![t] = next]
      /\ a.last_observed_time = r.last_observed_time
  BY DEF Accepted, Released, SoundWindow, Reassembler
<1>4. Sound(next)
  <2>1. CASE Completes(r, d, now)
    BY <2>1, EmptySlotSound
  <2>2. CASE ~ Completes(r, d, now)
    <3>1. next = slot
      BY <2>2
    <3>2. slot.received_count # slot.fragment_count
      BY <2>2 DEF Completes, Complete
    <3>3. /\ slot.received_count \in Nat /\ slot.fragment_count \in Nat
          /\ slot.fragment_count <= MaximumFragmentCount
      BY <1>2, FragmentLimit DEF Consistent, Slot
    <3>4. slot.received_count < slot.fragment_count
      BY <1>2, <3>2, <3>3
    <3> QED BY <1>2, <3>1, <3>3, <3>4 DEF Sound
  <2> QED BY <2>1, <2>2
<1> HIDE DEF next, slot
<1>5. \A i \in SlotIds : a.slots[i] = IF i = t THEN next ELSE r.slots[i]
  BY <1>1, <1>3 DEF SoundWindow, Reassembler
<1>6. SoundWindow(a)
  <2>1. \A i \in SlotIds : Sound(a.slots[i])
    BY <1>4, <1>5 DEF SoundWindow
  <2>2. a \in Reassembler
    BY <1>1, <1>3, <1>4 DEF Accepted, Reassembler, SoundWindow, Sound, Consistent
  <2> QED BY <2>1, <2>2 DEF SoundWindow
<1>7. next.active => next = slot
  BY EmptySlotSound DEF next
<1>8. \A i \in InFlight(a) :
        \/ i # t /\ i \in InFlight(r) /\ a.slots[i] = r.slots[i]
        \/ i = t /\ a.slots[i] = slot
  BY <1>5, <1>7 DEF InFlight
<1>9. Distinct(a)
  <2>1. SUFFICES ASSUME NEW i \in InFlight(a), NEW j \in InFlight(a),
                        a.slots[i].stream_id = a.slots[j].stream_id,
                        a.slots[i].frame_id = a.slots[j].frame_id
                 PROVE  i = j
    BY DEF Distinct
  <2>2. ASSUME NEW k \in InFlight(r), k # t,
               r.slots[k].stream_id = d.stream_id,
               r.slots[k].frame_id = d.frame_id
        PROVE  FALSE
    <3>1. k \in MatchingSlots(r, d)
      BY <2>2 DEF MatchingSlots, Matches, InFlight
    <3>2. /\ t \in InFlight(r) /\ r.slots[t].stream_id = d.stream_id
          /\ r.slots[t].frame_id = d.frame_id
      BY <3>1, TargetIsFit DEF InFlight
    <3> QED BY <2>2, <3>2 DEF Distinct
  <2> QED BY <1>2, <1>8, <2>1, <2>2 DEF Distinct
<1> QED BY <1>2, <1>3, <1>6, <1>8, <1>9

\* A completed frame is copied from within the slot's bytes.
LEMMA CompletedFrameTyped ==
    ASSUME NEW r, SoundWindow(r), NEW d, Audio(d), Refusal(r, d) = "none",
           NEW now \in Nat
    PROVE  LET frame == CompletedFrame(r, d, now)
           IN  /\ frame \in [stream_id : Nat, first_sequence_number : Nat,
                             timestamp_samples : Nat, frame_id : Nat,
                             flags : Nat, payload : Seq(Nat)]
               /\ frame.stream_id = d.stream_id
               /\ Len(frame.payload) <= MaximumFramePayload
<1> DEFINE slot  == SlotWith(r, d, now)
           frame == CompletedFrame(r, d, now)
           size  == FramePayloadSize(slot)
           last  == slot.fragment_count - 1
<1>1. /\ slot \in Slot /\ SizesFit(slot) /\ slot.stream_id = d.stream_id
      /\ slot.fragment_count \in 1 .. MaximumFragmentCount
  BY SlotWithFragment DEF Consistent
<1> HIDE DEF slot
<1>2. last \in FragmentIds
  BY <1>1, FragmentLimit DEF FragmentIds
<1>3. size \in Nat /\ size <= MaximumFramePayload
  <2>1. last * MaximumPayloadSize \in Nat
    BY <1>2, FragmentLimit
  <2>2. slot.fragment_sizes[last] \in Nat
    BY <1>1, <1>2 DEF Slot
  <2>3. last * MaximumPayloadSize + slot.fragment_sizes[last]
          <= MaximumFramePayload
    BY <1>1, <1>2 DEF SizesFit
  <2> QED BY <2>1, <2>2, <2>3 DEF FramePayloadSize
<1>4. /\ [o \in 1 .. size |-> slot.storage[o]] \in Seq(Nat)
      /\ Len([o \in 1 .. size |-> slot.storage[o]]) = size
  <2>1. \A o \in 1 .. size : slot.storage[o] \in Nat
    BY <1>1, <1>3, ReassemblerAssumption DEF Slot, Offsets
  <2> QED BY <1>3, <2>1
<1>5. frame = [stream_id |-> slot.stream_id,
               first_sequence_number |-> slot.first_sequence_number,
               timestamp_samples |-> slot.timestamp_samples,
               frame_id |-> slot.frame_id, flags |-> slot.flags,
               payload |-> [o \in 1 .. size |-> slot.storage[o]]]
  BY DEF CompletedFrame, FrameOf, slot
<1> QED BY <1>1, <1>3, <1>4, <1>5 DEF Slot
=============================================================================
