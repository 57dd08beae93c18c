-------------------------- MODULE MC_FoxgloveSource --------------------------
EXTENDS FoxgloveSource

(* Two servers that hand the ids out in opposite order, and one with a channel
   missing. *)
MCWorlds ==
  {[c \in ChanIds |-> CASE c = 1 -> "a" [] c = 2 -> "b" [] OTHER -> None],
   [c \in ChanIds |-> CASE c = 1 -> "b" [] OTHER -> None]}
===========================================================================
