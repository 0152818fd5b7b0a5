----------------------------- MODULE MCDevices -----------------------------
(* Devices on a small instance: see MCDevices.cfg. *)
EXTENDS DevicesInv
=============================================================================
