---------------------------- MODULE MCReadFrame ----------------------------
(* Lengths on both sides of every limit: empty, a configuration that fits, *)
(* one that does not, a frame that fits, one that does not.                *)
EXTENDS ReadFrame
=============================================================================
