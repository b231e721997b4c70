--------------------------- MODULE MCAudioOutput ---------------------------
(* One block of two frames in a buffer of three: it wraps, and a second one *)
(* does not fit.                                                            *)
EXTENDS AudioOutput

MCBlocks == {<<1, 2>>}
=============================================================================
