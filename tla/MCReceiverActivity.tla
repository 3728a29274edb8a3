------------------------- MODULE MCReceiverActivity -------------------------
(* Instances for TLC. *)
EXTENDS ReceiverActivity

CONSTANTS first, second

MCInstances == {first, second}
=============================================================================
