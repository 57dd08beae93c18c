-------------------------- MODULE MC_FoxgloveClaims --------------------------
(***************************************************************************)
(* What the Foxglove plugin's README and comments say and the code does    *)
(* not do: a history variable notes which of these statements a behaviour  *)
(* has refuted so far, with every race of the source admitted.             *)
(***************************************************************************)
EXTENDS FoxgloveSource

VARIABLE refuted

(* One server, to which a connection may be made again and again. *)
MCWorlds == {[c \in ChanIds |-> CASE c = 1 -> "a" [] c = 2 -> "b" [] OTHER -> None]}

(* README.md:36, "Unadvertise messages from server not handled". *)
HandlesUnadvertise ==
  batch # <<>> /\ Head(batch).op = "unadvertise" /\ batch' = Tail(batch) /\ adv' # adv

(* README.md:37, "No reconnection on unexpected disconnect". *)
Reconnects == ~connected /\ connected' /\ pc # "starting"

(* README.md:22, a channel is "routed to the matching parser". *)
Misroutes ==
  pc = "frames" /\ \E f \in ToSet(frames), b \in bind : f.sub = b[1] /\ f.topic # b[2]

(* foxglove_source.cpp:182, a lost connection is tried again: not this one, whose
   loss connected_ does not show and whose socket does not reconnect by itself. *)
GivesUp == pc = "idle" /\ connected /\ link = "closed" /\ ~auto

(* foxglove_source.cpp:183, "losing the burst for good" is what the order of the
   poll prevents. *)
LosesBurst == AtRest /\ demand /\ Known(adv) = {} /\ Known(chans) # {}

(* foxglove_source.cpp:388, what is advertised to the host is "the current
   (filtered) full channel set". *)
ShowsGhost == AtRest /\ demand /\ \E t \in listed : \A c \in ChanIds : chans[c] # t

Statements == {"unadvertise", "reconnection", "routing", "retry", "burst", "list"}

Refuted ==
  {s \in Statements : \/ s = "unadvertise" /\ HandlesUnadvertise
                      \/ s = "reconnection" /\ Reconnects
                      \/ s = "routing" /\ Misroutes
                      \/ s = "retry" /\ GivesUp
                      \/ s = "burst" /\ LosesBurst
                      \/ s = "list" /\ ShowsGhost}

(* Two streams, the connection lost in the second only. *)
ClaimsSpec ==
  /\ Init /\ refuted = {}
  /\ [][ /\ Next
         /\ spent.starts < 2 => spent'.losses = 0
         /\ refuted' = refuted \cup Refuted ]_<<vars, refuted>>

(* One of the six statements still stands. *)
FoxgloveClaimStands == refuted # Statements
=============================================================================
