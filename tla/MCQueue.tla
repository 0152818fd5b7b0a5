------------------------------ MODULE MCQueue ------------------------------
(* recieveQueue as source.cc uses it: video_thread takes packets and also  *)
(* puts some back, video_decode_thread only puts them back.                *)
EXTENDS Queue
=============================================================================
