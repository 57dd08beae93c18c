-------------------------- MODULE MC_GuiExecutor --------------------------
(* Instances of GuiExecutor: three concurrent calls. *)
EXTENDS GuiExecutor

CONSTANTS c1, c2, c3

MCCalls == {c1, c2, c3}
===========================================================================
