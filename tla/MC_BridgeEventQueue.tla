----------------------- MODULE MC_BridgeEventQueue -----------------------
(* Small instance of BridgeEventQueue: frames of one and five units, an
   overhead of one, and a cap that two small frames fit and one large exceeds. *)
EXTENDS BridgeEventQueue

MCPayloadSizes == {1, 5}
==========================================================================
