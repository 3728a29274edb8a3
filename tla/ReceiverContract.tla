-------------------------- MODULE ReceiverContract --------------------------
(***************************************************************************)
(* What the receiver session promises its caller: at most one stream at a  *)
(* time, and a FIFO of the newest completed frames of that stream, which   *)
(* ends with it.  No frame outlives its stream, none is handed out twice,  *)
(* and a full queue gives up its oldest frame.                             *)
(***************************************************************************)
EXTENDS Naturals, Sequences

CONSTANTS Streams,    \* stream identifiers
          Frames,     \* the frames a sender may have sent
          IsDiscontinuous(_),  \* whether a frame starts anew
          Capacity    \* frames the queue holds

VARIABLES stream,     \* the active stream, or NoStream
          pending     \* its completed frames, oldest first

NoStream == 0
contract == <<stream, pending>>

Init == stream = NoStream /\ pending = <<>>

\* The newest Capacity entries of a queue.
Newest(queue) ==
    SubSeq(queue, IF Len(queue) > Capacity THEN Len(queue) - Capacity + 1 ELSE 1,
           Len(queue))

\* A stream starts; the one before it, if any, is gone with its frames.
Start == stream' \in Streams /\ pending' = <<>>

\* The sender stops the stream, or has been silent for too long.
End == stream # NoStream /\ stream' = NoStream /\ pending' = <<>>

\* A frame of the active stream is complete.
Complete ==
    \E frame \in Frames :
      /\ frame.stream_id = stream
      /\ pending' = IF IsDiscontinuous(frame) THEN <<frame>>
                    ELSE Newest(Append(pending, frame))
      /\ UNCHANGED stream

\* The caller takes the oldest frame.
Pop == pending # <<>> /\ pending' = Tail(pending) /\ UNCHANGED stream

Next == Start \/ End \/ Complete \/ Pop
Spec == Init /\ [][Next]_contract
=============================================================================
