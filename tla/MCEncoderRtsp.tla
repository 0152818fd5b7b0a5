--------------------------- MODULE MCEncoderRtsp ---------------------------
(* Two pictures per four time units, so that timestamps round both ways;   *)
(* the phone's clock stands still, jumps and restarts.                     *)
EXTENDS EncoderRtsp
PtsValues == {-1, 0, 1, 3, 6}
=============================================================================
