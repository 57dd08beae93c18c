--------------------------- MODULE WhepConnection ---------------------------
(***************************************************************************)
(* One WHEP connection (data_stream_webrtc/whep_connection.cpp): a worker  *)
(* thread that gathers, POSTs the offer and applies the answer, a peer     *)
(* connection whose callbacks fire on threads of its own, and close(),     *)
(* which may come at any moment.  What the callbacks tell the owner are    *)
(* the three flags of webrtc_source.cpp's CameraRuntime; the frames it     *)
(* receives wait in a bounded queue for the owner's poll.                  *)
(***************************************************************************)
EXTENDS Naturals, Sequences

CONSTANT MaxFrames   \* kMaxQueuedFrames

ASSUME FramesAssumption == MaxFrames \in Nat \ {0}

VARIABLES
  worker,     \* runConnect's place, "off" when there is no worker to join
  reply,      \* what postOffer returned
  closing,    \* closing_
  session,    \* session_url_ is set
  peer,       \* the peer's callbacks: "off", "offering" or "answered"
  owed,       \* history: answers received whose session was not DELETEd
  lost, terminal, connected,   \* CameraRuntime's atomics
  hurt,       \* history: a loss was reported and not handled yet
  primed,     \* normalizer_ holds an SPS and a PPS
  inFlight,   \* onFrame has normalised a frame and not queued it
  queue,      \* queue_, each frame the number of its arrival since the last drain
  announced,  \* the answer's sprop announces both parameter sets
  arrived,    \* history: frames queued since the last drain
  bare        \* history: a keyframe was left without parameter sets that were announced

linkVars == <<worker, reply, closing, session, peer, owed, lost, terminal, connected, hurt>>
frameVars == <<primed, inFlight, queue, announced, arrived, bare>>
whepVars == <<linkVars, frameVars>>

Replies == {"ok", "unauthorized", "error"}

(* open() starts the worker, or fails and leaves the object closed; a callback of
   the peer it had made may have fired by then. *)
open(ok) ==
  /\ worker' = IF ok THEN "gather" ELSE "off"
  /\ peer' = IF ok THEN "offering" ELSE "off"
  /\ lost' \in IF ok THEN {lost} ELSE {lost, TRUE}
  /\ hurt' = (hurt \/ lost')
  /\ UNCHANGED <<reply, closing, session, owed, terminal, connected, frameVars>>

(* failConnect: the error callback, which latches terminal before lost. *)
failConnect(kind) == worker' = IF kind = "unauthorized" THEN "latch" ELSE "report"

(* The wait for ICE gathering ends: done, closing, or timed out. *)
Gather ==
  /\ worker = "gather"
  /\ \/ closing /\ worker' = "off"
     \/ ~closing /\ worker' = "post"
     \/ ~closing /\ failConnect("error")
  /\ UNCHANGED <<reply, closing, session, peer, owed, lost, terminal, connected, hurt,
                 frameVars>>

(* The POST returns: an abort makes it fail, unless the answer was already in. *)
postOffer ==
  /\ worker = "post"
  /\ reply' \in Replies
  /\ owed' = IF reply' = "ok" THEN owed + 1 ELSE owed
  /\ announced' \in IF reply' = "ok" THEN BOOLEAN ELSE {announced}
  /\ worker' = "check"
  /\ UNCHANGED <<closing, session, peer, lost, terminal, connected, hurt,
                 primed, inFlight, queue, arrived, bare>>

(* Mutant: an answer that close() raced is simply dropped. *)
MutDropsOrphan == UNCHANGED owed

DeleteOrphan == owed' = owed - 1

CheckClosing ==
  /\ worker = "check"
  /\ \/ closing /\ reply = "ok" /\ DeleteOrphan /\ worker' = "off"
     \/ closing /\ reply # "ok" /\ worker' = "off" /\ UNCHANGED owed
     \/ ~closing /\ reply = "ok" /\ worker' = "store" /\ UNCHANGED owed
     \/ ~closing /\ reply # "ok" /\ failConnect(reply) /\ UNCHANGED owed
  /\ UNCHANGED <<reply, closing, session, peer, lost, terminal, connected, hurt, frameVars>>

(* Mutant: the parameter sets follow the answer they came with. *)
MutPrimesLast(place) == [store |-> "remote", remote |-> "prime", prime |-> "off"][place]

(* The order in which an accepted answer takes effect. *)
After(place) == [store |-> "prime", prime |-> "remote", remote |-> "off"][place]

StoreSession ==
  /\ worker = "store"
  /\ session' = TRUE
  /\ worker' = After("store")
  /\ UNCHANGED <<reply, closing, peer, owed, lost, terminal, connected, hurt, frameVars>>

primeNormalizer ==
  /\ worker = "prime"
  /\ primed' = (primed \/ announced)
  /\ worker' = After("prime")
  /\ UNCHANGED <<reply, closing, session, peer, owed, lost, terminal, connected, hurt,
                 inFlight, queue, announced, arrived, bare>>

setRemoteDescription ==
  /\ worker = "remote"
  /\ \/ worker' = After("remote") /\ peer' = "answered"
     \/ failConnect("error") /\ UNCHANGED peer
  /\ UNCHANGED <<reply, closing, session, owed, lost, terminal, connected, hurt, frameVars>>

ErrorCallback ==
  /\ \/ worker = "latch" /\ worker' = "report" /\ terminal' = TRUE /\ UNCHANGED <<lost, hurt>>
     \/ worker = "report" /\ worker' = "off" /\ lost' = TRUE /\ hurt' = TRUE
        /\ UNCHANGED terminal
  /\ UNCHANGED <<reply, closing, session, peer, owed, connected, frameVars>>

runConnect ==
  \/ Gather \/ postOffer \/ CheckClosing \/ StoreSession \/ primeNormalizer
  \/ setRemoteDescription \/ ErrorCallback

(* The peer's state callback, for as long as it is attached. *)
PeerConnects ==
  /\ peer = "answered"
  /\ connected' = TRUE
  /\ UNCHANGED <<worker, reply, closing, session, peer, owed, lost, terminal, hurt, frameVars>>

PeerLost ==
  /\ peer # "off"
  /\ lost' = TRUE /\ hurt' = TRUE
  /\ UNCHANGED <<worker, reply, closing, session, peer, owed, terminal, connected, frameVars>>

(***************************************************************************)
(* Media, on a thread of the peer's.  The two locked regions of onFrame    *)
(* are two steps: a drain may come between them.                           *)
(***************************************************************************)
(* A keyframe that brings no parameter sets of its own gets the primed ones. *)
normalize(key, inBand) == bare' = (bare \/ (key /\ ~inBand /\ announced /\ ~primed))

(* Arrivals are bounded to one more than fits between two drains. *)
FrameArrives ==
  /\ peer = "answered" /\ ~inFlight /\ arrived <= MaxFrames
  /\ \E key, inBand \in BOOLEAN : normalize(key, inBand)
  /\ inFlight' = TRUE
  /\ UNCHANGED <<linkVars, primed, queue, announced, arrived>>

DropOldest(q, f) == Append(IF Len(q) >= MaxFrames THEN Tail(q) ELSE q, f)

FrameQueued ==
  /\ inFlight
  /\ inFlight' = FALSE
  /\ arrived' = arrived + 1
  /\ queue' = DropOldest(queue, arrived + 1)
  /\ UNCHANGED <<linkVars, primed, announced, bare>>

drain ==
  /\ queue' = << >> /\ arrived' = 0
  /\ UNCHANGED <<linkVars, primed, inFlight, announced, bare>>

(***************************************************************************)
(* close(), in the order of the code; its caller keeps the place.          *)
(***************************************************************************)
CloseBegins ==
  /\ closing' = TRUE
  /\ UNCHANGED <<worker, reply, session, peer, owed, lost, terminal, connected, hurt, frameVars>>

Joined == worker = "off"

DeleteSession ==
  /\ Joined
  /\ owed' = IF session THEN owed - 1 ELSE owed
  /\ session' = FALSE
  /\ UNCHANGED <<worker, reply, closing, peer, lost, terminal, connected, hurt, frameVars>>

(* Taking a callback away waits for one that is running. *)
teardownPeer == ~inFlight /\ peer' = "off"

CloseEnds ==
  /\ teardownPeer
  /\ closing' = FALSE
  /\ queue' = << >> /\ arrived' = 0 /\ primed' = FALSE /\ announced' = FALSE
  /\ UNCHANGED <<inFlight, bare>>
  /\ UNCHANGED <<worker, reply, session, owed, lost, terminal, connected, hurt>>

WhepInit ==
  /\ worker = "off" /\ reply = "error" /\ closing = FALSE /\ session = FALSE
  /\ peer = "off" /\ owed = 0
  /\ lost = FALSE /\ terminal = FALSE /\ connected = FALSE /\ hurt = FALSE
  /\ primed = FALSE /\ inFlight = FALSE /\ queue = << >> /\ announced = FALSE
  /\ arrived = 0 /\ bare = FALSE

LinkTypeOK ==
  /\ worker \in {"off", "gather", "post", "check", "store", "prime", "remote", "latch", "report"}
  /\ reply \in Replies
  /\ closing \in BOOLEAN /\ session \in BOOLEAN
  /\ peer \in {"off", "offering", "answered"}
  /\ owed \in Nat
  /\ lost \in BOOLEAN /\ terminal \in BOOLEAN /\ connected \in BOOLEAN /\ hurt \in BOOLEAN

FrameTypeOK ==
  /\ primed \in BOOLEAN /\ inFlight \in BOOLEAN /\ announced \in BOOLEAN /\ bare \in BOOLEAN
  /\ queue \in Seq(1 .. MaxFrames + 1) /\ arrived \in 0 .. MaxFrames + 1
===========================================================================
