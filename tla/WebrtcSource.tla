---------------------------- MODULE WebrtcSource ----------------------------
(***************************************************************************)
(* One camera of the WebRTC source (data_stream_webrtc/webrtc_source.cpp). *)
(* The host's thread starts, polls and stops; a poll is several steps,     *)
(* because the connection's threads raise the camera's flags in between.   *)
(* Polls to come are counted down instead of poll_count_ counting up.      *)
(***************************************************************************)
EXTENDS WhepConnection

CONSTANTS
  MinBackoff, MaxBackoff,   \* kMinBackoffMs and kMaxBackoffMs, in polls
  StablePolls,              \* kStableConnectionPolls
  EscalateAfter,            \* kEscalateAfterAttempts
  None

ASSUME BackoffAssumption ==
  /\ MinBackoff \in Nat \ {0} /\ MaxBackoff \in Nat /\ MinBackoff <= MaxBackoff
  /\ StablePolls \in Nat /\ MaxBackoff < StablePolls
  /\ EscalateAfter \in Nat \ {0}
  /\ None \notin Nat

VARIABLES
  host,        \* the host thread's place in onStart, onPoll or onStop
  conn,        \* cam->conn is set
  backoff,     \* backoff_ms
  retryIn,     \* polls until reconnect_at_poll, or None
  stableIn,    \* polls until the stability window closes, or None
  failures,    \* failed_attempts, capped at EscalateAfter
  escalated,   \* cam->escalated
  bound,       \* cam->bound
  calm,        \* history: polls since a loss was handled, capped at StablePolls
  up           \* history: polls since the connection the camera has was seen
               \* connected, that one included and capped at StablePolls; 0 before

camVars == <<conn, backoff, retryIn, stableIn, failures, escalated, bound, calm, up>>
vars == <<whepVars, host, camVars>>

Least(a, b) == IF a < b THEN a ELSE b

(* cameras_ is empty. *)
NoCamera == host = "stopped"

noteFailedAttemptAndMaybeEscalate ==
  /\ failures' = Least(failures + 1, EscalateAfter)
  /\ escalated' = (escalated \/ failures + 1 >= EscalateAfter)

(* A fresh connection; a synchronous failure counts like a loss. *)
connectCamera(wait) ==
  \E ok \in BOOLEAN :
    /\ open(ok)
    /\ conn' = ok
    /\ \/ ok /\ retryIn' = None /\ UNCHANGED <<failures, escalated>>
       \/ ~ok /\ retryIn' = wait /\ noteFailedAttemptAndMaybeEscalate

(* onStart with a valid configuration; a camera left over is closed first. *)
onStart ==
  /\ host = "stopped"
  /\ host' = "idle"
  /\ connectCamera(MinBackoff)
  /\ UNCHANGED <<backoff, stableIn, bound, calm, up>>

(* Mutant: the camera's clock runs only while it has a connection. *)
MutTicksConnected == IF ~conn \/ retryIn \in {None, 0} THEN retryIn ELSE retryIn - 1

TickRetry == IF retryIn \in {None, 0} THEN retryIn ELSE retryIn - 1

(* onPoll: the connected edge opens the window, a window that closes clears the
   history. *)
ClearsHistory == stableIn = 1 /\ ~connected

PollConnected ==
  /\ host = "idle"
  /\ host' = "drain"
  /\ connected' = FALSE
  /\ \/ /\ ClearsHistory
        /\ stableIn' = None
        /\ backoff' = MinBackoff /\ failures' = 0 /\ escalated' = FALSE
     \/ /\ ~ClearsHistory
        /\ stableIn' = IF connected THEN StablePolls
                       ELSE IF stableIn = None THEN None ELSE stableIn - 1
        /\ UNCHANGED <<backoff, failures, escalated>>
  /\ retryIn' = TickRetry
  /\ calm' = Least(calm + 1, StablePolls)
  /\ up' = IF connected THEN (IF conn THEN 1 ELSE 0)
           ELSE IF up = 0 THEN 0 ELSE Least(up + 1, StablePolls)
  /\ UNCHANGED <<worker, reply, closing, session, peer, owed, lost, terminal, hurt, conn, bound,
                 frameVars>>

(* The frames are taken whether or not the topic can be bound. *)
ensureBinding == bound' \in IF queue = << >> \/ bound THEN {bound} ELSE BOOLEAN

PollFrames ==
  /\ host = "drain"
  /\ host' = "lost"
  /\ \/ conn /\ drain /\ ensureBinding
     \/ ~conn /\ UNCHANGED <<whepVars, bound>>
  /\ UNCHANGED <<conn, backoff, retryIn, stableIn, failures, escalated, calm, up>>

(* Mutant: a loss leaves the stability window open. *)
MutKeepsWindow == UNCHANGED stableIn

CloseWindow == stableIn' = None

(* The loss is consumed, and the connection closed by this thread. *)
PollLost ==
  /\ host = "lost"
  /\ lost' = FALSE
  /\ \/ lost /\ CloseWindow /\ host' = (IF conn THEN "close" ELSE "judge") /\ calm' = 0
        /\ up' = 0
     \/ ~lost /\ host' = "retry" /\ UNCHANGED <<stableIn, calm, up>>
  /\ UNCHANGED <<worker, reply, closing, session, peer, owed, terminal, connected, hurt,
                 conn, backoff, retryIn, failures, escalated, bound, frameVars>>

ClearLost == lost' = FALSE

(* Mutant: a refused token is retried like any failure. *)
MutRetriesRefused == backoff

NextAttempt == IF terminal THEN None ELSE backoff

(* After teardownCamera: stop for good, or schedule the next attempt. *)
Judge ==
  /\ host = "judge"
  /\ host' = "retry"
  /\ ClearLost /\ hurt' = FALSE
  /\ conn' = FALSE
  /\ retryIn' = NextAttempt
  /\ \/ terminal /\ UNCHANGED <<failures, escalated>>
     \/ ~terminal /\ noteFailedAttemptAndMaybeEscalate
  /\ UNCHANGED <<worker, reply, closing, session, peer, owed, terminal, connected,
                 backoff, stableIn, bound, calm, up, frameVars>>

NextBackoff == Least(backoff * 2, MaxBackoff)

PollRetry ==
  /\ host = "retry"
  /\ host' = "idle"
  /\ \/ /\ ~conn /\ retryIn = 0
        /\ backoff' = NextBackoff
        /\ connectCamera(backoff')
     \/ /\ conn \/ retryIn # 0
        /\ UNCHANGED <<whepVars, conn, backoff, retryIn, failures, escalated>>
  /\ UNCHANGED <<stableIn, bound, calm, up>>

(* onStop, and the restart's and the destructor's cleanup. *)
onStop ==
  /\ host = "idle"
  /\ host' = IF conn THEN "stop close" ELSE "clear"
  /\ UNCHANGED <<whepVars, camVars>>

(* cameras_.clear(): the camera and its flags are gone. *)
ClearCamera ==
  /\ host = "clear"
  /\ host' = "stopped"
  /\ conn' = FALSE /\ backoff' = MinBackoff /\ retryIn' = None /\ stableIn' = None
  /\ failures' = 0 /\ escalated' = FALSE /\ bound' = FALSE /\ calm' = 0
  /\ up' = 0
  /\ lost' = FALSE /\ terminal' = FALSE /\ connected' = FALSE /\ hurt' = FALSE
  /\ UNCHANGED <<worker, reply, closing, session, peer, owed, frameVars>>

(* close() on the host's thread, or for a stop on a thread it joins. *)
Closing(from, to, step) == host = from /\ host' = to /\ step /\ UNCHANGED camVars

CloseSteps ==
  \/ Closing("close", "join", CloseBegins) \/ Closing("join", "detach", DeleteSession)
  \/ Closing("detach", "judge", CloseEnds)
  \/ Closing("stop close", "stop join", CloseBegins)
  \/ Closing("stop join", "stop detach", DeleteSession)
  \/ Closing("stop detach", "clear", CloseEnds)

---------------------------------------------------------------------------
Init ==
  /\ WhepInit
  /\ host = "stopped"
  /\ conn = FALSE /\ backoff = MinBackoff /\ retryIn = None /\ stableIn = None
  /\ failures = 0 /\ escalated = FALSE /\ bound = FALSE /\ calm = 0 /\ up = 0

PollSteps ==
  PollConnected \/ PollFrames \/ PollLost \/ Judge \/ PollRetry \/ CloseSteps \/ ClearCamera

ConnectionSteps == runConnect /\ UNCHANGED <<host, camVars>>

FrameQueuedStep == FrameQueued /\ UNCHANGED <<host, camVars>>

PeerSteps == (PeerConnects \/ PeerLost \/ FrameArrives) /\ UNCHANGED <<host, camVars>>

Next == PollSteps \/ ConnectionSteps \/ FrameQueuedStep \/ PeerSteps \/ onStart \/ onStop

(* The host polls, and every wait of the worker is bounded by a timeout, and
   a callback that runs returns; the peer, the user and the server's media may do nothing
   for ever. *)
Fairness == WF_vars(PollSteps) /\ WF_vars(ConnectionSteps) /\ WF_vars(FrameQueuedStep)

Spec == Init /\ [][Next]_vars /\ Fairness

---------------------------------------------------------------------------
CameraTypeOK ==
  /\ host \in {"stopped", "idle", "drain", "lost", "close", "join", "detach", "judge", "retry",
               "stop close", "stop join", "stop detach", "clear"}
  /\ conn \in BOOLEAN /\ escalated \in BOOLEAN /\ bound \in BOOLEAN
  /\ backoff \in MinBackoff .. MaxBackoff
  /\ retryIn \in 0 .. MaxBackoff \cup {None} /\ stableIn \in 1 .. StablePolls \cup {None}
  /\ failures \in 0 .. EscalateAfter /\ calm \in 0 .. StablePolls
  /\ up \in 0 .. StablePolls

(* The state has the types of the members it models. *)
TypeOK == LinkTypeOK /\ FrameTypeOK /\ CameraTypeOK

(* Every WHEP session whose answer arrived is hung up by the time its connection
   is gone, whenever close() meets the POST, and never twice; a camera that no
   longer exists has no thread or peer left that could write to its flags, a
   connection that is gone no frame or parameter set; and a loss is handled once:
   what a poll finds in the flag was reported since the last one was handled. *)
NothingOutlivesClose ==
  /\ TypeOK
  /\ (~conn \/ host \in {"clear", "judge"}) => owed = 0 /\ queue = << >> /\ ~primed
  /\ NoCamera => worker = "off" /\ peer = "off" /\ ~inFlight
  /\ lost /\ host \in {"idle", "drain", "lost", "retry"} => hurt

(* However polls, frames and the connect worker interleave, the queue holds the
   newest frames since the last drain, in the order they came and none missing in
   between; and no keyframe goes without parameter sets the answer announced. *)
FramesWhole ==
  /\ LET kept == Least(arrived, MaxFrames)
     IN  queue = [i \in 1 .. kept |-> arrived - kept + i]
  /\ ~bare

(* At rest a camera without a connection is waiting for its next attempt, unless
   the server refused the token: then it waits for a restart. *)
RetryIffAllowed ==
  host = "idle" /\ ~conn => (retryIn = None <=> terminal)

(* The window that is open was opened by the edge of a connection already torn
   down: it was raised after the poll had read the flag, the same poll handled that
   connection's loss, and teardownCamera leaves `connected' set. *)
StaleWindow == stableIn # None /\ up = 0

(* The failure history is cleared only after a full window of polls that handled no
   loss, and then for a connection that is still there and was up all that time, or
   because a stale edge opened the window.  (The stale edge breaks what the
   code says of the history: see StayedUp.) *)
ClearedAfterCalm ==
  [][failures' < failures =>
       \/ calm >= StablePolls /\ ((conn /\ up >= StablePolls) \/ StaleWindow)
       \/ NoCamera']_vars

(* What the code says of a step: "Only a connection that STAYED up clears the
   failure history". *)
StayedUp == failures' < failures => (conn /\ up >= StablePolls) \/ NoCamera'

(* A loss leads to another attempt, to a terminal refusal, or to a stop. *)
LossRecovers == hurt ~> (retryIn = 0 \/ terminal \/ NoCamera)
===========================================================================
