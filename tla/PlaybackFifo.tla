---------------------------- MODULE PlaybackFifo ----------------------------
(***************************************************************************)
(* What the playback queue promises, without ring, positions or threads:   *)
(* a bounded first-in first-out queue of frames.  PCM leaves the frame at  *)
(* the head from its beginning to its end without gap or repetition; a     *)
(* frame leaves the queue when it has been played to its end, or because   *)
(* the oldest frames were discarded.                                       *)
(***************************************************************************)
EXTENDS Naturals, Sequences

CONSTANTS Capacity, FrameLength, Frames

VARIABLES
    queue,   \* frames published and not gone, oldest first
    played,  \* PCM frames of the head that were played
    output   \* every PCM frame played since the last reset

Init == queue = <<>> /\ played = 0 /\ output = <<>>

Publish == \E frame \in Frames :
    /\ Len(queue) < Capacity
    /\ queue' = Append(queue, frame)
    /\ UNCHANGED <<played, output>>

Play == \E n \in 1 .. FrameLength - played :
    /\ queue # <<>>
    /\ played' = played + n
    /\ output' = output \o [k \in 1 .. n |->
                     [samples |-> Head(queue).samples, offset |-> played + k - 1]]
    /\ UNCHANGED queue

Retire ==
    /\ queue # <<>>
    /\ played = FrameLength
    /\ queue' = Tail(queue)
    /\ played' = 0
    /\ UNCHANGED output

DiscardOldest == \E n \in 1 .. Len(queue) :
    /\ queue' = SubSeq(queue, n + 1, Len(queue))
    /\ played' = 0
    /\ UNCHANGED output

Reset == queue' = <<>> /\ played' = 0 /\ output' = <<>>

Next == Publish \/ Play \/ Retire \/ DiscardOldest \/ Reset

Spec == Init /\ [][Next]_<<queue, played, output>>
=============================================================================
