---------------------------- MODULE MCAudioOut ------------------------------
(* AudioOut for TLC.  A grain of 2 gives whole, partial and silent blocks; a *)
(* ring of 4 is the least audio_init makes; a write of 5 frames does not fit *)
(* even an empty ring, and carries both cursors past the wrap.               *)
EXTENDS AudioOut
=============================================================================
