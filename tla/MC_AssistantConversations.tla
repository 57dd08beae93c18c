-------------------- MODULE MC_AssistantConversations --------------------
(***************************************************************************)
(* Three instances side by side, between which a behaviour chooses once:   *)
(* two backends with three sessions and nothing loaded; and one backend    *)
(* with two sessions and no renaming, where either one listing changes     *)
(* between two versions or two listings come and go.                       *)
(***************************************************************************)
EXTENDS AssistantConversations, Naturals, FiniteSets, TLC

CONSTANTS claude, codex, i1, i2, i3, catalog, features, v1, v2

VARIABLE about

MCKeys == {claude, codex}
MCIds == {i1, i2, i3}
MCOneId == {i1}
MCKinds == {catalog, features}
MCVersions == {v1, v2}

MCSymmetry == Permutations(MCIds \ MCOneId)

OneBackend ==
  /\ choice = DefaultKey /\ panel.renaming = NoId
  /\ \A i \in Ids : owner[i] \in {DefaultKey, NoId}
  /\ Cardinality({i \in Ids \ MCOneId : owner[i] # NoId}) <= 1

Within ==
  \/ about = "sessions" /\ current = Nothing
  \/ about = "versions" /\ OneBackend /\ current[features] = Empty
  \/ about = "kinds" /\ OneBackend /\ \A l \in Kinds : current[l] # v2

MCInit == Init /\ about \in {"sessions", "versions", "kinds"}

MCNext == Next /\ UNCHANGED about

MCSpec == MCInit /\ [][MCNext]_<<vars, about>>
===========================================================================
