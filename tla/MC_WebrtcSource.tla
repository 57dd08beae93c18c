--------------------------- MODULE MC_WebrtcSource ---------------------------
(* One camera with short windows, for TLC. *)
EXTENDS WebrtcSource, TLC
===========================================================================
