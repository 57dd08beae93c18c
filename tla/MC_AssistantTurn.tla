------------------------- MODULE MC_AssistantTurn -------------------------
(* One tool call of up to two steps, three turns and a probe. *)
EXTENDS AssistantTurn

CONSTANT c1

MCOneCall == {c1}
===========================================================================
