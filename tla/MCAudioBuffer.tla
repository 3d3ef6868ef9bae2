--------------------------- MODULE MCAudioBuffer ---------------------------
(* AudioBuffer at the scale of the .cfg: the ring keeps its 4 frames, a frame  *)
(* keeps its odd number of units, and the counters wrap at 12 instead of 256.  *)
EXTENDS AudioBuffer
=============================================================================
