------------------------------ MODULE MCSource ------------------------------
(* Small instances of the capture session.                                 *)
EXTENDS SourceInv
=============================================================================
