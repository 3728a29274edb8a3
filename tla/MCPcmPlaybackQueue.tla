------------------------ MODULE MCPcmPlaybackQueue ------------------------
(* A ring of two slots of two PCM frames, renders shorter and longer than a *)
(* slot, counters that wrap at three.                                       *)
EXTENDS PcmPlaybackQueue

Sizes   == {1, 2}
WholeFrame == {2}
PlainFlags == {0}
Flags   == {0, 1, 2}
Renders == {1, 3}
============================================================================
