------------------------------ MODULE MC_Claims ------------------------------
(***************************************************************************)
(* Two comments that the code contradicts, one on the WebRTC camera and    *)
(* one on the assistant's panel.  The two share nothing, so a behaviour    *)
(* may let the camera go first; a history variable notes the comments      *)
(* refuted so far.                                                         *)
(***************************************************************************)
EXTENDS WebrtcSource

CONSTANTS Keys, DefaultKey, Ids, NoId, Kinds, Versions, Empty, RecordsUnanswered,
          Unreadable, Nameable

VARIABLES panel, key, choice, pending, loaded, turn, current, store, owner, heard,
          refuted

panelVars ==
  <<panel, key, choice, pending, loaded, turn, current, store, owner, heard>>

Panel == INSTANCE AssistantConversations WITH bound <- loaded

Claims == {"webrtc_source.cpp:130", "assistant_dialog.cpp:328"}

(* "Only a connection that STAYED up clears the failure history". *)
Camera ==
  /\ refuted = {}
  /\ Next
  /\ refuted' = IF StayedUp THEN {} ELSE {"webrtc_source.cpp:130"}
  /\ UNCHANGED panelVars

(* "There is no --resume target to dangle." *)
PanelActs ==
  /\ refuted = {"webrtc_source.cpp:130"}
  /\ Panel!Next
  /\ refuted' = IF Panel!NothingDangles' THEN refuted ELSE Claims
  /\ UNCHANGED vars

ClaimsSpec ==
  /\ Init /\ Panel!Init /\ refuted = {}
  /\ [][Camera \/ PanelActs]_<<vars, panelVars, refuted>>

(* One of the two comments still stands. *)
PanelOrCameraClaimStands == refuted # Claims
=============================================================================
