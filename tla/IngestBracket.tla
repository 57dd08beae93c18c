---------------------------- MODULE IngestBracket ----------------------------
(***************************************************************************)
(* What the host's delegated ingest may rely on: a client creates one      *)
(* dataset, opens one context on it, pushes, attests once, and closes.     *)
(* Nothing is pushed after the attestation, a dataset that received rows   *)
(* is never discarded, and COMPLETED is said of a whole request only.      *)
(***************************************************************************)
CONSTANT None

VARIABLES
  dataset,    \* "none", "made", or "discarded"
  context,    \* "none" or "live"
  landed,     \* the dataset received rows
  attested,   \* the outcome the client declared, or None
  whole       \* an input: every requested row has landed and nobody said Stop

bracketVars == <<dataset, context, landed, attested, whole>>

Init ==
  /\ dataset = "none" /\ context = "none" /\ attested = None
  /\ landed = FALSE /\ whole \in BOOLEAN

Begin ==
  /\ context = "none"
  /\ dataset' = "none" /\ landed' = FALSE
  /\ UNCHANGED <<context, attested>>

Create ==
  /\ dataset = "none" /\ context = "none"
  /\ dataset' = "made"
  /\ UNCHANGED <<context, landed, attested>>

(* Opening makes the dataset if it is not there yet. *)
Open ==
  /\ dataset # "discarded" /\ context = "none" /\ ~landed
  /\ dataset' = "made" /\ context' = "live"
  /\ UNCHANGED <<landed, attested>>

Push ==
  /\ context = "live" /\ attested = None
  /\ landed' = TRUE
  /\ UNCHANGED <<dataset, context, attested>>

Attest(outcome) ==
  /\ context = "live" /\ attested = None
  /\ outcome = "COMPLETED" => whole
  /\ attested' = outcome
  /\ UNCHANGED <<dataset, context, landed>>

(* The context goes, if there was one; with it the dataset nothing went into. *)
Close ==
  /\ context' = "none" /\ attested' = None
  /\ \/ UNCHANGED dataset
     \/ dataset = "made" /\ ~landed /\ dataset' = "discarded"
  /\ UNCHANGED landed

Next ==
  /\ \/ Begin \/ Create \/ Open \/ Push \/ Close
     \/ \E outcome \in {"COMPLETED", "CANCELLED", "FAILED"} : Attest(outcome)
     \/ UNCHANGED <<dataset, context, landed, attested>>
  /\ whole' \in BOOLEAN

Spec == Init /\ [][Next]_bracketVars
===========================================================================
