----------------------------- MODULE MCPicture -----------------------------
(* Picture on a small instance: see MCPicture.cfg. *)
EXTENDS Picture
=============================================================================
