------------------------- MODULE WebrtcSourceProofs -------------------------
(***************************************************************************)
(* The safety properties of the WebRTC source for every back-off, every    *)
(* stability window, every escalation threshold and every queue length.    *)
(***************************************************************************)
EXTENDS WebrtcSource, TLAPS

(* What close() leaves, and what a connection that was never opened is. *)
Closed ==
  /\ worker = "off" /\ peer = "off" /\ ~session /\ ~closing
  /\ ~primed /\ ~inFlight /\ ~announced /\ queue = << >> /\ arrived = 0

(* The host's place says how far a close has come. *)
CloseInv ==
  /\ ~conn \/ host \in {"judge", "clear"} => Closed
  /\ NoCamera => ~conn /\ ~terminal
  /\ host \in {"close", "join", "detach", "stop close", "stop join", "stop detach"} => conn
  /\ closing <=> host \in {"join", "detach", "stop join", "stop detach"}
  /\ host \in {"detach", "stop detach"} => worker = "off" /\ ~session

(* An answer that was received is either on its way to session_url_ or in it. *)
Unstored == worker = "store" \/ (worker = "check" /\ reply = "ok")

SessionInv ==
  /\ owed = IF session \/ Unstored THEN 1 ELSE 0
  /\ worker \in {"gather", "post", "check", "store"} => ~session

(* Media flows only after the worker has primed the normalizer. *)
MediaInv ==
  /\ worker # "off" => peer = "offering"
  /\ worker = "remote" \/ peer = "answered" => (announced => primed)
  /\ inFlight => peer = "answered" /\ arrived <= MaxFrames

(* A camera without a connection waits, unless it was refused. *)
RetryInv ==
  host \in {"idle", "drain", "lost", "retry"} /\ ~conn => (retryIn = None <=> terminal)

(* The window that is open has lasted for the polls since the last loss, and as long
   as the connection was seen up, if it was not opened by a stale edge; a connection
   that is being closed counts as up no more. *)
WindowInv ==
  /\ stableIn # None => stableIn + calm >= StablePolls + 1
  /\ stableIn # None => up = 0 \/ stableIn + up >= StablePolls + 1
  /\ up # 0 => conn /\ host \notin {"close", "join", "detach", "judge"}

CameraInv ==
  /\ TypeOK
  /\ lost => hurt
  /\ CloseInv /\ SessionInv /\ MediaInv /\ RetryInv /\ WindowInv
  /\ FramesWhole

(* Nothing has arrived since a drain, nothing is queued. *)
LEMMA EmptyQueue == [i \in 1 .. Least(0, MaxFrames) |-> 0 - Least(0, MaxFrames) + i] = << >>
<1>1. Least(0, MaxFrames) = 0
  BY FramesAssumption DEF Least
<1> QED
  BY <1>1

(* A session that was owed is not owed any more. *)
LEMMA HungUp == 1 - 1 = 0 /\ 0 \in Nat
OBVIOUS

(* An empty queue is a queue of frames. *)
LEMMA NothingQueued == << >> \in Seq(1 .. MaxFrames + 1) /\ 0 \in 0 .. MaxFrames + 1
BY FramesAssumption

(* A queue that takes a frame stays a queue of frames. *)
LEMMA QueueOfFrames ==
  ASSUME NEW q \in Seq(1 .. MaxFrames + 1), NEW f \in 1 .. MaxFrames + 1
  PROVE  DropOldest(q, f) \in Seq(1 .. MaxFrames + 1)
<1>1. CASE Len(q) >= MaxFrames
  <2>1. q # << >>
    BY <1>1, FramesAssumption
  <2>2. Tail(q) \in Seq(1 .. MaxFrames + 1)
    BY <2>1
  <2>3. Append(Tail(q), f) \in Seq(1 .. MaxFrames + 1)
    BY <2>2
  <2> QED
    BY <1>1, <2>3 DEF DropOldest
<1>2. CASE ~(Len(q) >= MaxFrames)
  <2>1. Append(q, f) \in Seq(1 .. MaxFrames + 1)
    OBVIOUS
  <2> QED
    BY <1>2, <2>1 DEF DropOldest
<1> QED
  BY <1>1, <1>2

(* The newest frames are kept, in the order they came. *)
LEMMA NewestKept ==
  ASSUME NEW n \in 0 .. MaxFrames, NEW m \in Nat, m = n + 1
  PROVE  DropOldest([i \in 1 .. n |-> i], m)
           = [i \in 1 .. Least(m, MaxFrames) |-> m - Least(m, MaxFrames) + i]
<1> DEFINE q == [i \in 1 .. n |-> i]
<1> USE FramesAssumption
<1>1. q \in Seq(Nat) /\ Len(q) = n
  OBVIOUS
<1> HIDE DEF q
<1>2. CASE n < MaxFrames
  <2>1. Least(m, MaxFrames) = m
    BY <1>2 DEF Least
  <2>2. DropOldest(q, m) = Append(q, m)
    BY <1>1, <1>2 DEF DropOldest
  <2>3. Append(q, m) = [i \in 1 .. m |-> i]
    BY <1>1 DEF q
  <2>4. [i \in 1 .. m |-> i] = [i \in 1 .. m |-> m - m + i]
    OBVIOUS
  <2> QED
    BY <2>1, <2>2, <2>3, <2>4 DEF q
<1>3. CASE n = MaxFrames
  <2>1. Least(m, MaxFrames) = MaxFrames
    BY <1>3 DEF Least
  <2>2. DropOldest(q, m) = Append(Tail(q), m)
    BY <1>1, <1>3 DEF DropOldest
  <2>3. Tail(q) = [i \in 1 .. n - 1 |-> i + 1]
    <3>1. \A i \in 1 .. n : q[i] = i
      BY DEF q
    <3>2. Tail(q) \in Seq(Nat) /\ Len(Tail(q)) = n - 1
      BY <1>1, <1>3
    <3>3. \A i \in 1 .. n - 1 : Tail(q)[i] = i + 1
      BY <1>1, <1>3, <3>1
    <3> DEFINE t == Tail(q)
    <3>4. t \in Seq(Nat) /\ Len(t) = n - 1 /\ \A i \in 1 .. n - 1 : t[i] = i + 1
      BY <3>2, <3>3
    <3> HIDE DEF t
    <3>5. n - 1 \in Nat
      BY <1>3
    <3>6. t = [i \in 1 .. n - 1 |-> i + 1]
      BY <3>4, <3>5
    <3> QED
      BY <3>6 DEF t
  <2>4. Append([i \in 1 .. n - 1 |-> i + 1], m) = [i \in 1 .. n |-> i + 1]
    <3> DEFINE t == [i \in 1 .. n - 1 |-> i + 1]
    <3>1. t \in Seq(Nat) /\ Len(t) = n - 1 /\ \A i \in 1 .. n - 1 : t[i] = i + 1
      BY <1>3
    <3> HIDE DEF t
    <3>2. Append(t, m) \in Seq(Nat) /\ Len(Append(t, m)) = n
      BY <3>1, <1>3
    <3>3. \A i \in 1 .. n : Append(t, m)[i] = i + 1
      BY <3>1, <1>3
    <3>4. Append(t, m) = [i \in 1 .. n |-> i + 1]
      BY <3>2, <3>3
    <3> QED
      BY <3>4 DEF t
  <2>5. [i \in 1 .. n |-> i + 1] = [i \in 1 .. MaxFrames |-> m - MaxFrames + i]
    BY <1>3
  <2> QED
    BY <2>1, <2>2, <2>3, <2>4, <2>5 DEF q
<1> QED
  BY <1>2, <1>3
(* An attempt that is scheduled is never taken for none. *)
LEMMA BackoffRange == \A n \in MinBackoff .. MaxBackoff : n # None /\ n \in 0 .. MaxBackoff
<1>1. \A n \in MinBackoff .. MaxBackoff : n \in Nat /\ n \in 0 .. MaxBackoff
  BY BackoffAssumption
<1> QED
  BY <1>1, BackoffAssumption, Zenon

(* What a failed attempt does to the history. *)
LEMMA NoteFacts ==
  ASSUME CameraTypeOK, noteFailedAttemptAndMaybeEscalate
  PROVE  failures' \in 0 .. EscalateAfter /\ escalated' \in BOOLEAN
<1>1. failures \in 0 .. EscalateAfter /\ failures' = Least(failures + 1, EscalateAfter)
  BY DEF CameraTypeOK, noteFailedAttemptAndMaybeEscalate
<1>2. failures' \in 0 .. EscalateAfter
  BY <1>1, BackoffAssumption DEF Least
<1>3. escalated' \in BOOLEAN
  BY DEF noteFailedAttemptAndMaybeEscalate
<1> QED
  BY <1>2, <1>3

(* connectCamera, whatever the wait it was given. *)
ConnectOutcome ==
  \E ok \in BOOLEAN :
    /\ open(ok)
    /\ conn' = ok
    /\ \/ ok /\ retryIn' = None /\ UNCHANGED <<failures, escalated>>
       \/ ~ok /\ retryIn' \in MinBackoff .. MaxBackoff /\ noteFailedAttemptAndMaybeEscalate

(* A camera without a connection gets one, or waits for the next attempt. *)
LEMMA ConnectPreserves ==
  ASSUME CameraInv, ~conn, ~terminal, ConnectOutcome,
         host' = "idle", backoff' \in MinBackoff .. MaxBackoff,
         host \notin {"join", "detach", "stop join", "stop detach"},
         UNCHANGED <<stableIn, bound, calm, up>>
  PROVE  CameraInv'
<1>1. PICK ok \in BOOLEAN :
        /\ open(ok)
        /\ conn' = ok
        /\ \/ ok /\ retryIn' = None /\ UNCHANGED <<failures, escalated>>
           \/ ~ok /\ retryIn' \in MinBackoff .. MaxBackoff /\ noteFailedAttemptAndMaybeEscalate
  BY DEF ConnectOutcome
<1>2. Closed
  BY DEF CameraInv, CloseInv
<1>3. UNCHANGED <<reply, closing, session, owed, terminal, connected, frameVars>>
  BY <1>1 DEF open
<1>4. CASE ok
  <2>1. worker' = "gather" /\ peer' = "offering" /\ conn' /\ lost' = lost
    BY <1>1, <1>4, Zenon DEF open
  <2>2. hurt' = (hurt \/ lost) /\ retryIn' = None /\ UNCHANGED <<failures, escalated>>
    BY <1>1, <1>4, <2>1 DEF open
  <2> QED
    <3>1. TypeOK'
      BY <2>1, <2>2, <1>3 DEF CameraInv, TypeOK, LinkTypeOK, FrameTypeOK, CameraTypeOK, frameVars
    <3>2. CloseInv' /\ RetryInv' /\ MediaInv'
      BY <2>1, <1>2, <1>3 DEF CameraInv, CloseInv, Closed, NoCamera, RetryInv, MediaInv, frameVars
    <3>3. SessionInv'
      BY <2>1, <1>2, <1>3 DEF CameraInv, Closed, SessionInv, Unstored
    <3>4. (lost => hurt)' /\ WindowInv' /\ FramesWhole'
      BY <2>1, <2>2, <1>3 DEF CameraInv, WindowInv, FramesWhole, frameVars
    <3> QED
      BY <3>1, <3>2, <3>3, <3>4 DEF CameraInv
<1>5. CASE ~ok
  <2>1. worker' = "off" /\ peer' = "off" /\ ~conn' /\ conn' \in BOOLEAN /\ lost' \in BOOLEAN
    BY <1>1, <1>5, Zenon DEF open, CameraInv, TypeOK, LinkTypeOK
  <2>2. hurt' = (hurt \/ lost')
    BY <1>1 DEF open
  <2>3. retryIn' \in MinBackoff .. MaxBackoff
    BY <1>1, <1>5
  <2>4. retryIn' # None /\ retryIn' \in 0 .. MaxBackoff
    BY <2>3, BackoffRange, Zenon
  <2>5. failures' \in 0 .. EscalateAfter /\ escalated' \in BOOLEAN
    BY <1>1, <1>5, NoteFacts DEF CameraInv, TypeOK
  <2> QED
    <3>1. TypeOK'
      BY <2>1, <2>2, <2>4, <2>5, <1>3
         DEF CameraInv, TypeOK, LinkTypeOK, FrameTypeOK, CameraTypeOK, frameVars
    <3>2. CloseInv' /\ RetryInv' /\ MediaInv'
      BY <2>1, <2>4, <1>2, <1>3
         DEF CameraInv, CloseInv, Closed, NoCamera, RetryInv, MediaInv, frameVars
    <3>3. SessionInv'
      BY <2>1, <1>2, <1>3 DEF CameraInv, Closed, SessionInv, Unstored
    <3>4. (lost => hurt)' /\ WindowInv' /\ FramesWhole'
      BY <2>1, <2>2, <1>3 DEF CameraInv, WindowInv, FramesWhole, frameVars
    <3> QED
      BY <3>1, <3>2, <3>3, <3>4 DEF CameraInv
<1> QED
  BY <1>4, <1>5

(* A stopped source starts. *)
LEMMA onStartPreserves ==
  ASSUME CameraInv, onStart
  PROVE  CameraInv'
<1>1. ~conn /\ ~terminal
  BY DEF CameraInv, CloseInv, NoCamera, onStart
<1>2. ConnectOutcome
  BY BackoffAssumption DEF onStart, connectCamera, ConnectOutcome
<1> QED
  BY <1>1, <1>2, ConnectPreserves DEF onStart, CameraInv, TypeOK, CameraTypeOK

(* A poll connects again once the wait is over. *)
LEMMA PollRetryPreserves ==
  ASSUME CameraInv, PollRetry
  PROVE  CameraInv'
<1>1. CASE ~conn /\ retryIn = 0
  <2>1. ~terminal
    BY <1>1, BackoffAssumption DEF CameraInv, RetryInv, PollRetry
  <2>2. backoff' = NextBackoff /\ connectCamera(backoff')
    BY <1>1 DEF PollRetry
  <2>3. backoff' \in MinBackoff .. MaxBackoff
    <3>1. backoff \in MinBackoff .. MaxBackoff
      BY DEF CameraInv, TypeOK, CameraTypeOK
    <3>2. backoff' = NextBackoff
      BY <2>2
    <3> QED
      BY <3>1, <3>2, BackoffAssumption DEF NextBackoff, Least
  <2>4. ConnectOutcome
    BY <2>2, <2>3 DEF connectCamera, ConnectOutcome
  <2> QED
    BY <1>1, <2>1, <2>3, <2>4, ConnectPreserves DEF PollRetry
<1>2. CASE conn \/ retryIn # 0
  <2>1. UNCHANGED <<whepVars, camVars>> /\ host = "retry" /\ host' = "idle"
    BY <1>2 DEF PollRetry, camVars
  <2> QED
    BY <2>1 DEF CameraInv, TypeOK, LinkTypeOK, FrameTypeOK, CameraTypeOK, CloseInv, Closed,
       NoCamera, SessionInv, Unstored, MediaInv, RetryInv, WindowInv, FramesWhole,
       whepVars, linkVars, frameVars, camVars
<1> QED
  BY <1>1, <1>2

(* The worker's wait for candidates ends. *)
LEMMA GatherPreserves ==
  ASSUME CameraInv, Gather, UNCHANGED <<host, camVars>>
  PROVE  CameraInv'
<1> USE BackoffAssumption, FramesAssumption
<1> USE DEF CameraInv, linkVars, frameVars, whepVars, camVars, Gather, failConnect
<1>1. LinkTypeOK'
  BY DEF TypeOK, LinkTypeOK, FrameTypeOK, CameraTypeOK, Replies
<1>2. FrameTypeOK'
  BY DEF TypeOK, LinkTypeOK, FrameTypeOK, CameraTypeOK
<1>3. CameraTypeOK'
  BY DEF TypeOK, LinkTypeOK, FrameTypeOK, CameraTypeOK
<1>4. (lost => hurt)'
  BY DEF TypeOK, LinkTypeOK, FrameTypeOK, CameraTypeOK
<1>5. CloseInv'
  BY DEF TypeOK, LinkTypeOK, FrameTypeOK, CameraTypeOK, CloseInv, Closed, NoCamera
<1>6. SessionInv'
  BY DEF TypeOK, LinkTypeOK, FrameTypeOK, CameraTypeOK, SessionInv, Unstored, CloseInv,
      Closed
<1>7. MediaInv'
  BY DEF TypeOK, LinkTypeOK, FrameTypeOK, CameraTypeOK, MediaInv, CloseInv, Closed
<1>8. RetryInv'
  BY DEF TypeOK, LinkTypeOK, FrameTypeOK, CameraTypeOK, RetryInv, CloseInv, NoCamera,
      Closed
<1>9. WindowInv'
  BY DEF TypeOK, LinkTypeOK, FrameTypeOK, CameraTypeOK, WindowInv
<1>10. FramesWhole'
  BY DEF TypeOK, LinkTypeOK, FrameTypeOK, CameraTypeOK, FramesWhole, MediaInv, CloseInv,
      Closed, Least
<1> QED
  BY <1>1, <1>2, <1>3, <1>4, <1>5, <1>6, <1>7, <1>8, <1>9, <1>10 DEF TypeOK

(* The server answers the offer, and owes a session if it accepts. *)
LEMMA postOfferPreserves ==
  ASSUME CameraInv, postOffer, UNCHANGED <<host, camVars>>
  PROVE  CameraInv'
<1> USE BackoffAssumption, FramesAssumption
<1> USE DEF CameraInv, linkVars, frameVars, whepVars, camVars, postOffer, Replies
<1>1. LinkTypeOK'
  <2>1. owed \in Nat /\ owed' \in {owed, owed + 1}
    BY DEF TypeOK, LinkTypeOK
  <2>2. owed' \in Nat
    BY <2>1
  <2> QED
    BY <2>2, Zenon DEF TypeOK, LinkTypeOK
<1>2. FrameTypeOK'
  BY DEF TypeOK, LinkTypeOK, FrameTypeOK, CameraTypeOK
<1>3. CameraTypeOK'
  BY DEF TypeOK, LinkTypeOK, FrameTypeOK, CameraTypeOK
<1>4. (lost => hurt)'
  BY DEF TypeOK, LinkTypeOK, FrameTypeOK, CameraTypeOK
<1>5. CloseInv'
  BY DEF TypeOK, LinkTypeOK, FrameTypeOK, CameraTypeOK, CloseInv, Closed, NoCamera
<1>6. SessionInv'
  <2>1. ~session /\ ~Unstored /\ owed = 0
    BY DEF SessionInv, Unstored
  <2>2. session' = session /\ (Unstored' <=> reply' = "ok")
    BY DEF Unstored
  <2>3. CASE reply' = "ok"
    BY <2>1, <2>2, <2>3 DEF SessionInv
  <2>4. CASE reply' # "ok"
    BY <2>1, <2>2, <2>4 DEF SessionInv
  <2> QED
    BY <2>3, <2>4
<1>7. MediaInv'
  BY DEF TypeOK, LinkTypeOK, FrameTypeOK, CameraTypeOK, MediaInv, CloseInv, Closed
<1>8. RetryInv'
  BY DEF TypeOK, LinkTypeOK, FrameTypeOK, CameraTypeOK, RetryInv, CloseInv, NoCamera,
      Closed
<1>9. WindowInv'
  BY DEF TypeOK, LinkTypeOK, FrameTypeOK, CameraTypeOK, WindowInv
<1>10. FramesWhole'
  BY DEF TypeOK, LinkTypeOK, FrameTypeOK, CameraTypeOK, FramesWhole, MediaInv, CloseInv,
      Closed, Least
<1> QED
  BY <1>1, <1>2, <1>3, <1>4, <1>5, <1>6, <1>7, <1>8, <1>9, <1>10 DEF TypeOK

(* The worker meets a close, an answer or a refusal. *)
LEMMA CheckClosingPreserves ==
  ASSUME CameraInv, CheckClosing, UNCHANGED <<host, camVars>>
  PROVE  CameraInv'
<1> USE BackoffAssumption, FramesAssumption
<1> USE DEF CameraInv, linkVars, frameVars, whepVars, camVars, CheckClosing, DeleteOrphan,
      failConnect, Replies
<1>1. LinkTypeOK'
  <2>1. closing /\ reply = "ok" => owed = 1
    BY DEF SessionInv, Unstored
  <2>2. owed' \in Nat
    <3>1. CASE closing /\ reply = "ok"
      BY <2>1, <3>1
    <3>2. CASE ~(closing /\ reply = "ok")
      BY <3>2 DEF TypeOK, LinkTypeOK
    <3> QED
      BY <3>1, <3>2
  <2>3. worker' \in {"off", "store", "latch", "report"}
    BY Zenon
  <2> QED
    BY <2>2, <2>3 DEF TypeOK, LinkTypeOK
<1>2. FrameTypeOK'
  BY DEF TypeOK, LinkTypeOK, FrameTypeOK, CameraTypeOK
<1>3. CameraTypeOK'
  BY DEF TypeOK, LinkTypeOK, FrameTypeOK, CameraTypeOK
<1>4. (lost => hurt)'
  BY DEF TypeOK, LinkTypeOK, FrameTypeOK, CameraTypeOK
<1>5. CloseInv'
  BY DEF TypeOK, LinkTypeOK, FrameTypeOK, CameraTypeOK, CloseInv, Closed, NoCamera
<1>6. SessionInv'
  <2>1. ~session /\ session' = session /\ owed = IF reply = "ok" THEN 1 ELSE 0
    BY DEF SessionInv, Unstored
  <2>2. CASE reply = "ok" /\ closing
    BY <2>1, <2>2 DEF SessionInv, Unstored
  <2>3. CASE reply = "ok" /\ ~closing
    BY <2>1, <2>3 DEF SessionInv, Unstored
  <2>4. CASE reply # "ok"
    <3>1. owed' = 0 /\ worker' \in {"off", "latch", "report"}
      BY <2>1, <2>4
    <3> QED
      BY <2>1, <3>1 DEF SessionInv, Unstored
  <2> QED
    BY <2>2, <2>3, <2>4
<1>7. MediaInv'
  BY DEF TypeOK, LinkTypeOK, FrameTypeOK, CameraTypeOK, MediaInv, CloseInv, Closed
<1>8. RetryInv'
  BY DEF TypeOK, LinkTypeOK, FrameTypeOK, CameraTypeOK, RetryInv, CloseInv, NoCamera,
      Closed
<1>9. WindowInv'
  BY DEF TypeOK, LinkTypeOK, FrameTypeOK, CameraTypeOK, WindowInv
<1>10. FramesWhole'
  BY DEF TypeOK, LinkTypeOK, FrameTypeOK, CameraTypeOK, FramesWhole, MediaInv, CloseInv,
      Closed, Least
<1> QED
  BY <1>1, <1>2, <1>3, <1>4, <1>5, <1>6, <1>7, <1>8, <1>9, <1>10 DEF TypeOK

(* The session moves from the worker to session_url_. *)
LEMMA StoreSessionPreserves ==
  ASSUME CameraInv, StoreSession, UNCHANGED <<host, camVars>>
  PROVE  CameraInv'
<1> USE BackoffAssumption, FramesAssumption
<1> USE DEF CameraInv, linkVars, frameVars, whepVars, camVars, StoreSession, After
<1>1. LinkTypeOK'
  BY DEF TypeOK, LinkTypeOK, FrameTypeOK, CameraTypeOK, Replies
<1>2. FrameTypeOK'
  BY DEF TypeOK, LinkTypeOK, FrameTypeOK, CameraTypeOK
<1>3. CameraTypeOK'
  BY DEF TypeOK, LinkTypeOK, FrameTypeOK, CameraTypeOK
<1>4. (lost => hurt)'
  BY DEF TypeOK, LinkTypeOK, FrameTypeOK, CameraTypeOK
<1>5. CloseInv'
  BY DEF TypeOK, LinkTypeOK, FrameTypeOK, CameraTypeOK, CloseInv, Closed, NoCamera
<1>6. SessionInv'
  BY DEF TypeOK, LinkTypeOK, FrameTypeOK, CameraTypeOK, SessionInv, Unstored, CloseInv,
      Closed
<1>7. MediaInv'
  BY DEF TypeOK, LinkTypeOK, FrameTypeOK, CameraTypeOK, MediaInv, CloseInv, Closed
<1>8. RetryInv'
  BY DEF TypeOK, LinkTypeOK, FrameTypeOK, CameraTypeOK, RetryInv, CloseInv, NoCamera,
      Closed
<1>9. WindowInv'
  BY DEF TypeOK, LinkTypeOK, FrameTypeOK, CameraTypeOK, WindowInv
<1>10. FramesWhole'
  BY DEF TypeOK, LinkTypeOK, FrameTypeOK, CameraTypeOK, FramesWhole, MediaInv, CloseInv,
      Closed, Least
<1> QED
  BY <1>1, <1>2, <1>3, <1>4, <1>5, <1>6, <1>7, <1>8, <1>9, <1>10 DEF TypeOK

(* The announced parameter sets are in place before media can flow. *)
LEMMA primeNormalizerPreserves ==
  ASSUME CameraInv, primeNormalizer, UNCHANGED <<host, camVars>>
  PROVE  CameraInv'
<1> USE BackoffAssumption, FramesAssumption
<1> USE DEF CameraInv, linkVars, frameVars, whepVars, camVars, primeNormalizer, After
<1>1. LinkTypeOK'
  BY DEF TypeOK, LinkTypeOK, FrameTypeOK, CameraTypeOK, Replies
<1>2. FrameTypeOK'
  BY DEF TypeOK, LinkTypeOK, FrameTypeOK, CameraTypeOK
<1>3. CameraTypeOK'
  BY DEF TypeOK, LinkTypeOK, FrameTypeOK, CameraTypeOK
<1>4. (lost => hurt)'
  BY DEF TypeOK, LinkTypeOK, FrameTypeOK, CameraTypeOK
<1>5. CloseInv'
  BY DEF TypeOK, LinkTypeOK, FrameTypeOK, CameraTypeOK, CloseInv, Closed, NoCamera
<1>6. SessionInv'
  BY DEF TypeOK, LinkTypeOK, FrameTypeOK, CameraTypeOK, SessionInv, Unstored, CloseInv,
      Closed
<1>7. MediaInv'
  BY DEF TypeOK, LinkTypeOK, FrameTypeOK, CameraTypeOK, MediaInv, CloseInv, Closed
<1>8. RetryInv'
  BY DEF TypeOK, LinkTypeOK, FrameTypeOK, CameraTypeOK, RetryInv, CloseInv, NoCamera,
      Closed
<1>9. WindowInv'
  BY DEF TypeOK, LinkTypeOK, FrameTypeOK, CameraTypeOK, WindowInv
<1>10. FramesWhole'
  BY DEF TypeOK, LinkTypeOK, FrameTypeOK, CameraTypeOK, FramesWhole, MediaInv, CloseInv,
      Closed, Least
<1> QED
  BY <1>1, <1>2, <1>3, <1>4, <1>5, <1>6, <1>7, <1>8, <1>9, <1>10 DEF TypeOK

(* The answer is activated, or rejected. *)
LEMMA setRemoteDescriptionPreserves ==
  ASSUME CameraInv, setRemoteDescription, UNCHANGED <<host, camVars>>
  PROVE  CameraInv'
<1> USE BackoffAssumption, FramesAssumption
<1> USE DEF CameraInv, linkVars, frameVars, whepVars, camVars, setRemoteDescription,
      After, failConnect
<1>1. LinkTypeOK'
  BY DEF TypeOK, LinkTypeOK, FrameTypeOK, CameraTypeOK, Replies
<1>2. FrameTypeOK'
  BY DEF TypeOK, LinkTypeOK, FrameTypeOK, CameraTypeOK
<1>3. CameraTypeOK'
  BY DEF TypeOK, LinkTypeOK, FrameTypeOK, CameraTypeOK
<1>4. (lost => hurt)'
  BY DEF TypeOK, LinkTypeOK, FrameTypeOK, CameraTypeOK
<1>5. CloseInv'
  BY DEF TypeOK, LinkTypeOK, FrameTypeOK, CameraTypeOK, CloseInv, Closed, NoCamera
<1>6. SessionInv'
  BY DEF TypeOK, LinkTypeOK, FrameTypeOK, CameraTypeOK, SessionInv, Unstored, CloseInv,
      Closed
<1>7. MediaInv'
  BY DEF TypeOK, LinkTypeOK, FrameTypeOK, CameraTypeOK, MediaInv, CloseInv, Closed
<1>8. RetryInv'
  BY DEF TypeOK, LinkTypeOK, FrameTypeOK, CameraTypeOK, RetryInv, CloseInv, NoCamera,
      Closed
<1>9. WindowInv'
  BY DEF TypeOK, LinkTypeOK, FrameTypeOK, CameraTypeOK, WindowInv
<1>10. FramesWhole'
  BY DEF TypeOK, LinkTypeOK, FrameTypeOK, CameraTypeOK, FramesWhole, MediaInv, CloseInv,
      Closed, Least
<1> QED
  BY <1>1, <1>2, <1>3, <1>4, <1>5, <1>6, <1>7, <1>8, <1>9, <1>10 DEF TypeOK

(* The error callback latches terminal, then lost. *)
LEMMA ErrorCallbackPreserves ==
  ASSUME CameraInv, ErrorCallback, UNCHANGED <<host, camVars>>
  PROVE  CameraInv'
<1> USE BackoffAssumption, FramesAssumption
<1> USE DEF CameraInv, linkVars, frameVars, whepVars, camVars, ErrorCallback
<1>1. LinkTypeOK'
  BY DEF TypeOK, LinkTypeOK, FrameTypeOK, CameraTypeOK, Replies
<1>2. FrameTypeOK'
  BY DEF TypeOK, LinkTypeOK, FrameTypeOK, CameraTypeOK
<1>3. CameraTypeOK'
  BY DEF TypeOK, LinkTypeOK, FrameTypeOK, CameraTypeOK
<1>4. (lost => hurt)'
  BY DEF TypeOK, LinkTypeOK, FrameTypeOK, CameraTypeOK
<1>5. CloseInv'
  BY DEF TypeOK, LinkTypeOK, FrameTypeOK, CameraTypeOK, CloseInv, Closed, NoCamera
<1>6. SessionInv'
  BY DEF TypeOK, LinkTypeOK, FrameTypeOK, CameraTypeOK, SessionInv, Unstored, CloseInv,
      Closed
<1>7. MediaInv'
  BY DEF TypeOK, LinkTypeOK, FrameTypeOK, CameraTypeOK, MediaInv, CloseInv, Closed
<1>8. RetryInv'
  BY DEF TypeOK, LinkTypeOK, FrameTypeOK, CameraTypeOK, RetryInv, CloseInv, NoCamera,
      Closed
<1>9. WindowInv'
  BY DEF TypeOK, LinkTypeOK, FrameTypeOK, CameraTypeOK, WindowInv
<1>10. FramesWhole'
  BY DEF TypeOK, LinkTypeOK, FrameTypeOK, CameraTypeOK, FramesWhole, MediaInv, CloseInv,
      Closed, Least
<1> QED
  BY <1>1, <1>2, <1>3, <1>4, <1>5, <1>6, <1>7, <1>8, <1>9, <1>10 DEF TypeOK

(* The peer reports that it is connected. *)
LEMMA PeerConnectsPreserves ==
  ASSUME CameraInv, PeerConnects, UNCHANGED <<host, camVars>>
  PROVE  CameraInv'
<1> USE BackoffAssumption, FramesAssumption
<1> USE DEF CameraInv, linkVars, frameVars, whepVars, camVars, PeerConnects
<1>1. LinkTypeOK'
  BY DEF TypeOK, LinkTypeOK, FrameTypeOK, CameraTypeOK, Replies
<1>2. FrameTypeOK'
  BY DEF TypeOK, LinkTypeOK, FrameTypeOK, CameraTypeOK
<1>3. CameraTypeOK'
  BY DEF TypeOK, LinkTypeOK, FrameTypeOK, CameraTypeOK
<1>4. (lost => hurt)'
  BY DEF TypeOK, LinkTypeOK, FrameTypeOK, CameraTypeOK
<1>5. CloseInv'
  BY DEF TypeOK, LinkTypeOK, FrameTypeOK, CameraTypeOK, CloseInv, Closed, NoCamera
<1>6. SessionInv'
  BY DEF TypeOK, LinkTypeOK, FrameTypeOK, CameraTypeOK, SessionInv, Unstored, CloseInv,
      Closed
<1>7. MediaInv'
  BY DEF TypeOK, LinkTypeOK, FrameTypeOK, CameraTypeOK, MediaInv, CloseInv, Closed
<1>8. RetryInv'
  BY DEF TypeOK, LinkTypeOK, FrameTypeOK, CameraTypeOK, RetryInv, CloseInv, NoCamera,
      Closed
<1>9. WindowInv'
  BY DEF TypeOK, LinkTypeOK, FrameTypeOK, CameraTypeOK, WindowInv
<1>10. FramesWhole'
  BY DEF TypeOK, LinkTypeOK, FrameTypeOK, CameraTypeOK, FramesWhole, MediaInv, CloseInv,
      Closed, Least
<1> QED
  BY <1>1, <1>2, <1>3, <1>4, <1>5, <1>6, <1>7, <1>8, <1>9, <1>10 DEF TypeOK

(* The peer reports a loss. *)
LEMMA PeerLostPreserves ==
  ASSUME CameraInv, PeerLost, UNCHANGED <<host, camVars>>
  PROVE  CameraInv'
<1> USE BackoffAssumption, FramesAssumption
<1> USE DEF CameraInv, linkVars, frameVars, whepVars, camVars, PeerLost
<1>1. LinkTypeOK'
  BY DEF TypeOK, LinkTypeOK, FrameTypeOK, CameraTypeOK, Replies
<1>2. FrameTypeOK'
  BY DEF TypeOK, LinkTypeOK, FrameTypeOK, CameraTypeOK
<1>3. CameraTypeOK'
  BY DEF TypeOK, LinkTypeOK, FrameTypeOK, CameraTypeOK
<1>4. (lost => hurt)'
  BY DEF TypeOK, LinkTypeOK, FrameTypeOK, CameraTypeOK
<1>5. CloseInv'
  BY DEF TypeOK, LinkTypeOK, FrameTypeOK, CameraTypeOK, CloseInv, Closed, NoCamera
<1>6. SessionInv'
  BY DEF TypeOK, LinkTypeOK, FrameTypeOK, CameraTypeOK, SessionInv, Unstored, CloseInv,
      Closed
<1>7. MediaInv'
  BY DEF TypeOK, LinkTypeOK, FrameTypeOK, CameraTypeOK, MediaInv, CloseInv, Closed
<1>8. RetryInv'
  BY DEF TypeOK, LinkTypeOK, FrameTypeOK, CameraTypeOK, RetryInv, CloseInv, NoCamera,
      Closed
<1>9. WindowInv'
  BY DEF TypeOK, LinkTypeOK, FrameTypeOK, CameraTypeOK, WindowInv
<1>10. FramesWhole'
  BY DEF TypeOK, LinkTypeOK, FrameTypeOK, CameraTypeOK, FramesWhole, MediaInv, CloseInv,
      Closed, Least
<1> QED
  BY <1>1, <1>2, <1>3, <1>4, <1>5, <1>6, <1>7, <1>8, <1>9, <1>10 DEF TypeOK

(* A frame is normalised: the parameter sets are there if any were announced. *)
LEMMA FrameArrivesPreserves ==
  ASSUME CameraInv, FrameArrives, UNCHANGED <<host, camVars>>
  PROVE  CameraInv'
<1> USE BackoffAssumption, FramesAssumption
<1> USE DEF CameraInv, linkVars, frameVars, whepVars, camVars, FrameArrives, normalize
<1>1. LinkTypeOK'
  BY DEF TypeOK, LinkTypeOK, FrameTypeOK, CameraTypeOK, Replies
<1>2. FrameTypeOK'
  BY DEF TypeOK, LinkTypeOK, FrameTypeOK, CameraTypeOK
<1>3. CameraTypeOK'
  BY DEF TypeOK, LinkTypeOK, FrameTypeOK, CameraTypeOK
<1>4. (lost => hurt)'
  BY DEF TypeOK, LinkTypeOK, FrameTypeOK, CameraTypeOK
<1>5. CloseInv'
  BY DEF TypeOK, LinkTypeOK, FrameTypeOK, CameraTypeOK, CloseInv, Closed, NoCamera
<1>6. SessionInv'
  BY DEF TypeOK, LinkTypeOK, FrameTypeOK, CameraTypeOK, SessionInv, Unstored, CloseInv,
      Closed
<1>7. MediaInv'
  BY DEF TypeOK, LinkTypeOK, FrameTypeOK, CameraTypeOK, MediaInv, CloseInv, Closed
<1>8. RetryInv'
  BY DEF TypeOK, LinkTypeOK, FrameTypeOK, CameraTypeOK, RetryInv, CloseInv, NoCamera,
      Closed
<1>9. WindowInv'
  BY DEF TypeOK, LinkTypeOK, FrameTypeOK, CameraTypeOK, WindowInv
<1>10. FramesWhole'
  BY DEF TypeOK, LinkTypeOK, FrameTypeOK, CameraTypeOK, FramesWhole, MediaInv, CloseInv,
      Closed, Least
<1> QED
  BY <1>1, <1>2, <1>3, <1>4, <1>5, <1>6, <1>7, <1>8, <1>9, <1>10 DEF TypeOK

(* A frame is queued, and the oldest makes room for it. *)
LEMMA FrameQueuedPreserves ==
  ASSUME CameraInv, FrameQueued, UNCHANGED <<host, camVars>>
  PROVE  CameraInv'
<1> USE BackoffAssumption, FramesAssumption
<1> USE DEF CameraInv, linkVars, frameVars, whepVars, camVars, FrameQueued
<1>1. LinkTypeOK'
  BY DEF TypeOK, LinkTypeOK, FrameTypeOK, CameraTypeOK, Replies
<1>2. FrameTypeOK'
  <2>1. arrived <= MaxFrames /\ arrived \in 0 .. MaxFrames + 1
    BY DEF MediaInv, TypeOK, FrameTypeOK
  <2>2. arrived + 1 \in 1 .. MaxFrames + 1 /\ arrived' = arrived + 1
    BY <2>1, FramesAssumption
  <2>3. queue' \in Seq(1 .. MaxFrames + 1)
    BY <2>2, QueueOfFrames, Zenon DEF TypeOK, FrameTypeOK
  <2>4. arrived' \in 0 .. MaxFrames + 1
    BY <2>2, FramesAssumption
  <2> QED
    BY <2>3, <2>4, Zenon DEF TypeOK, FrameTypeOK
<1>3. CameraTypeOK'
  BY DEF TypeOK, LinkTypeOK, FrameTypeOK, CameraTypeOK
<1>4. (lost => hurt)'
  BY DEF TypeOK, LinkTypeOK, FrameTypeOK, CameraTypeOK
<1>5. CloseInv'
  BY DEF TypeOK, LinkTypeOK, FrameTypeOK, CameraTypeOK, CloseInv, Closed, NoCamera
<1>6. SessionInv'
  BY DEF TypeOK, LinkTypeOK, FrameTypeOK, CameraTypeOK, SessionInv, Unstored, CloseInv,
      Closed
<1>7. MediaInv'
  BY DEF TypeOK, LinkTypeOK, FrameTypeOK, CameraTypeOK, MediaInv, CloseInv, Closed
<1>8. RetryInv'
  BY DEF TypeOK, LinkTypeOK, FrameTypeOK, CameraTypeOK, RetryInv, CloseInv, NoCamera,
      Closed
<1>9. WindowInv'
  BY DEF TypeOK, LinkTypeOK, FrameTypeOK, CameraTypeOK, WindowInv
<1>10. FramesWhole'
  <2>1. arrived \in 0 .. MaxFrames
    BY FramesAssumption DEF MediaInv, TypeOK, FrameTypeOK
  <2>2. queue = [i \in 1 .. arrived |-> i]
    BY <2>1 DEF FramesWhole, Least
  <2>3. queue' = DropOldest([i \in 1 .. arrived |-> i], arrived') /\ arrived' = arrived + 1
    BY <2>2
  <2>4. ~bare'
    BY DEF FramesWhole
  <2>5. arrived' \in Nat
    BY <2>1, <2>3, FramesAssumption
  <2>6. queue' = [i \in 1 .. Least(arrived', MaxFrames) |-> arrived' - Least(arrived', MaxFrames) + i]
    BY <2>1, <2>3, <2>5, NewestKept, Zenon
  <2> QED
    BY <2>4, <2>6 DEF FramesWhole
<1> QED
  BY <1>1, <1>2, <1>3, <1>4, <1>5, <1>6, <1>7, <1>8, <1>9, <1>10 DEF TypeOK

(* close() raises closing_. *)
LEMMA CloseBeginsPreserves ==
  ASSUME CameraInv, CloseBegins, UNCHANGED camVars, host \in {"close", "stop close"},
         host' \in {"join", "stop join"}, host' = "join" => host = "close"
  PROVE  CameraInv'
<1> USE BackoffAssumption, FramesAssumption
<1> USE DEF CameraInv, linkVars, frameVars, whepVars, camVars, CloseBegins
<1>1. LinkTypeOK'
  BY DEF TypeOK, LinkTypeOK, FrameTypeOK, CameraTypeOK, Replies
<1>2. FrameTypeOK'
  BY DEF TypeOK, LinkTypeOK, FrameTypeOK, CameraTypeOK
<1>3. CameraTypeOK'
  BY DEF TypeOK, LinkTypeOK, FrameTypeOK, CameraTypeOK
<1>4. (lost => hurt)'
  BY DEF TypeOK, LinkTypeOK, FrameTypeOK, CameraTypeOK
<1>5. CloseInv'
  BY DEF TypeOK, LinkTypeOK, FrameTypeOK, CameraTypeOK, CloseInv, Closed, NoCamera
<1>6. SessionInv'
  BY DEF TypeOK, LinkTypeOK, FrameTypeOK, CameraTypeOK, SessionInv, Unstored, CloseInv,
      Closed
<1>7. MediaInv'
  BY DEF TypeOK, LinkTypeOK, FrameTypeOK, CameraTypeOK, MediaInv, CloseInv, Closed
<1>8. RetryInv'
  BY DEF TypeOK, LinkTypeOK, FrameTypeOK, CameraTypeOK, RetryInv, CloseInv, NoCamera,
      Closed
<1>9. WindowInv'
  BY DEF TypeOK, LinkTypeOK, FrameTypeOK, CameraTypeOK, WindowInv
<1>10. FramesWhole'
  BY DEF TypeOK, LinkTypeOK, FrameTypeOK, CameraTypeOK, FramesWhole, MediaInv, CloseInv,
      Closed, Least
<1> QED
  BY <1>1, <1>2, <1>3, <1>4, <1>5, <1>6, <1>7, <1>8, <1>9, <1>10 DEF TypeOK

(* close() has joined the worker and hangs up the session. *)
LEMMA DeleteSessionPreserves ==
  ASSUME CameraInv, DeleteSession, UNCHANGED camVars, host \in {"join", "stop join"},
         host' \in {"detach", "stop detach"}, host' = "detach" => host = "join"
  PROVE  CameraInv'
<1> USE BackoffAssumption, FramesAssumption
<1> USE DEF CameraInv, linkVars, frameVars, whepVars, camVars, DeleteSession, Joined
<1>1. LinkTypeOK'
  <2>1. owed' \in Nat
    <3>1. CASE session
      <4>1. owed = 1 /\ owed' = owed - 1
        BY <3>1 DEF SessionInv
      <4>2. owed' = 0
        BY <4>1, HungUp, Zenon
      <4> QED
        BY <4>2, HungUp, Zenon
    <3>2. CASE ~session
      BY <3>2 DEF TypeOK, LinkTypeOK
    <3> QED
      BY <3>1, <3>2
  <2> QED
    BY <2>1 DEF TypeOK, LinkTypeOK
<1>2. FrameTypeOK'
  BY DEF TypeOK, LinkTypeOK, FrameTypeOK, CameraTypeOK
<1>3. CameraTypeOK'
  BY DEF TypeOK, LinkTypeOK, FrameTypeOK, CameraTypeOK
<1>4. (lost => hurt)'
  BY DEF TypeOK, LinkTypeOK, FrameTypeOK, CameraTypeOK
<1>5. CloseInv'
  BY DEF TypeOK, LinkTypeOK, FrameTypeOK, CameraTypeOK, CloseInv, Closed, NoCamera
<1>6. SessionInv'
  <2>1. ~Unstored /\ ~Unstored' /\ ~session' /\ worker' = "off"
    BY DEF Unstored
  <2>2. owed' = 0
    <3>1. CASE session
      <4>1. owed = 1 /\ owed' = owed - 1
        BY <3>1 DEF SessionInv
      <4> QED
        BY <4>1, HungUp, Zenon
    <3>2. CASE ~session
      BY <2>1, <3>2 DEF SessionInv
    <3> QED
      BY <3>1, <3>2
  <2> QED
    BY <2>1, <2>2 DEF SessionInv
<1>7. MediaInv'
  BY DEF TypeOK, LinkTypeOK, FrameTypeOK, CameraTypeOK, MediaInv, CloseInv, Closed
<1>8. RetryInv'
  BY DEF TypeOK, LinkTypeOK, FrameTypeOK, CameraTypeOK, RetryInv, CloseInv, NoCamera,
      Closed
<1>9. WindowInv'
  BY DEF TypeOK, LinkTypeOK, FrameTypeOK, CameraTypeOK, WindowInv
<1>10. FramesWhole'
  BY DEF TypeOK, LinkTypeOK, FrameTypeOK, CameraTypeOK, FramesWhole, MediaInv, CloseInv,
      Closed, Least
<1> QED
  BY <1>1, <1>2, <1>3, <1>4, <1>5, <1>6, <1>7, <1>8, <1>9, <1>10 DEF TypeOK

(* close() takes the callbacks away and forgets the frames. *)
LEMMA CloseEndsPreserves ==
  ASSUME CameraInv, CloseEnds, UNCHANGED camVars, host \in {"detach", "stop detach"},
         host' \in {"judge", "clear"}, host' = "judge" => host = "detach"
  PROVE  CameraInv'
<1> USE BackoffAssumption, FramesAssumption
<1> USE DEF CameraInv, linkVars, frameVars, whepVars, camVars, CloseEnds, teardownPeer
<1>1. LinkTypeOK'
  BY DEF TypeOK, LinkTypeOK, FrameTypeOK, CameraTypeOK, Replies
<1>2. FrameTypeOK'
  BY NothingQueued, Zenon DEF TypeOK, FrameTypeOK
<1>3. CameraTypeOK'
  BY DEF TypeOK, LinkTypeOK, FrameTypeOK, CameraTypeOK
<1>4. (lost => hurt)'
  BY DEF TypeOK, LinkTypeOK, FrameTypeOK, CameraTypeOK
<1>5. CloseInv'
  BY DEF TypeOK, LinkTypeOK, FrameTypeOK, CameraTypeOK, CloseInv, Closed, NoCamera
<1>6. SessionInv'
  BY DEF TypeOK, LinkTypeOK, FrameTypeOK, CameraTypeOK, SessionInv, Unstored, CloseInv,
      Closed
<1>7. MediaInv'
  BY DEF TypeOK, LinkTypeOK, FrameTypeOK, CameraTypeOK, MediaInv, CloseInv, Closed
<1>8. RetryInv'
  BY DEF TypeOK, LinkTypeOK, FrameTypeOK, CameraTypeOK, RetryInv, CloseInv, NoCamera,
      Closed
<1>9. WindowInv'
  BY DEF TypeOK, LinkTypeOK, FrameTypeOK, CameraTypeOK, WindowInv
<1>10. FramesWhole'
  BY EmptyQueue DEF FramesWhole
<1> QED
  BY <1>1, <1>2, <1>3, <1>4, <1>5, <1>6, <1>7, <1>8, <1>9, <1>10 DEF TypeOK

(* A poll opens, shortens or closes the stability window. *)
LEMMA PollConnectedPreserves ==
  ASSUME CameraInv, PollConnected
  PROVE  CameraInv'
<1> USE BackoffAssumption, FramesAssumption
<1> USE DEF CameraInv, linkVars, frameVars, whepVars, camVars, PollConnected,
      ClearsHistory, TickRetry, Least
<1>1. LinkTypeOK'
  BY DEF TypeOK, LinkTypeOK, FrameTypeOK, CameraTypeOK, Replies
<1>2. FrameTypeOK'
  BY DEF TypeOK, LinkTypeOK, FrameTypeOK, CameraTypeOK
<1>3. CameraTypeOK'
  <2>1. retryIn' \in 0 .. MaxBackoff \cup {None}
    BY BackoffAssumption DEF TypeOK, CameraTypeOK
  <2>2. stableIn' \in 1 .. StablePolls \cup {None}
    BY BackoffAssumption DEF TypeOK, CameraTypeOK, LinkTypeOK
  <2>3. calm' \in 0 .. StablePolls /\ up' \in 0 .. StablePolls /\ failures' \in 0 .. EscalateAfter
    BY BackoffAssumption DEF TypeOK, CameraTypeOK
  <2>4. backoff' \in MinBackoff .. MaxBackoff
    BY BackoffAssumption DEF TypeOK, CameraTypeOK
  <2>5. host' = "drain" /\ conn' = conn /\ bound' = bound /\ escalated' \in BOOLEAN
    BY DEF TypeOK, CameraTypeOK
  <2> QED
    BY <2>1, <2>2, <2>3, <2>4, <2>5, Zenon DEF TypeOK, CameraTypeOK
<1>4. (lost => hurt)'
  BY DEF TypeOK, LinkTypeOK, FrameTypeOK, CameraTypeOK
<1>5. CloseInv'
  BY DEF TypeOK, LinkTypeOK, FrameTypeOK, CameraTypeOK, CloseInv, Closed, NoCamera
<1>6. SessionInv'
  BY DEF TypeOK, LinkTypeOK, FrameTypeOK, CameraTypeOK, SessionInv, Unstored, CloseInv,
      Closed
<1>7. MediaInv'
  BY DEF TypeOK, LinkTypeOK, FrameTypeOK, CameraTypeOK, MediaInv, CloseInv, Closed
<1>8. RetryInv'
  BY DEF TypeOK, LinkTypeOK, FrameTypeOK, CameraTypeOK, RetryInv, CloseInv, NoCamera,
      Closed
<1>9. WindowInv'
  BY BackoffAssumption DEF WindowInv, TypeOK, CameraTypeOK, LinkTypeOK
<1>10. FramesWhole'
  BY DEF TypeOK, LinkTypeOK, FrameTypeOK, CameraTypeOK, FramesWhole, MediaInv, CloseInv,
      Closed
<1> QED
  BY <1>1, <1>2, <1>3, <1>4, <1>5, <1>6, <1>7, <1>8, <1>9, <1>10 DEF TypeOK

(* A poll takes the frames. *)
LEMMA PollFramesPreserves ==
  ASSUME CameraInv, PollFrames
  PROVE  CameraInv'
<1> USE BackoffAssumption, FramesAssumption
<1> USE DEF CameraInv, linkVars, frameVars, whepVars, camVars, PollFrames, drain,
      ensureBinding
<1>1. LinkTypeOK'
  BY DEF TypeOK, LinkTypeOK, FrameTypeOK, CameraTypeOK, Replies
<1>2. FrameTypeOK'
  <2>1. CASE conn
    <3>1. queue' \in Seq(1 .. MaxFrames + 1) /\ arrived' \in 0 .. MaxFrames + 1
      BY <2>1, FramesAssumption
    <3> QED
      BY <2>1, <3>1, Zenon DEF TypeOK, FrameTypeOK
  <2>2. CASE ~conn
    BY <2>2 DEF TypeOK, FrameTypeOK
  <2> QED
    BY <2>1, <2>2
<1>3. CameraTypeOK'
  BY DEF TypeOK, LinkTypeOK, FrameTypeOK, CameraTypeOK
<1>4. (lost => hurt)'
  BY DEF TypeOK, LinkTypeOK, FrameTypeOK, CameraTypeOK
<1>5. CloseInv'
  BY DEF TypeOK, LinkTypeOK, FrameTypeOK, CameraTypeOK, CloseInv, Closed, NoCamera
<1>6. SessionInv'
  BY DEF TypeOK, LinkTypeOK, FrameTypeOK, CameraTypeOK, SessionInv, Unstored, CloseInv,
      Closed
<1>7. MediaInv'
  BY DEF TypeOK, LinkTypeOK, FrameTypeOK, CameraTypeOK, MediaInv, CloseInv, Closed
<1>8. RetryInv'
  BY DEF TypeOK, LinkTypeOK, FrameTypeOK, CameraTypeOK, RetryInv, CloseInv, NoCamera,
      Closed
<1>9. WindowInv'
  BY DEF TypeOK, LinkTypeOK, FrameTypeOK, CameraTypeOK, WindowInv
<1>10. FramesWhole'
  <2>1. CASE conn
    BY <2>1, EmptyQueue DEF FramesWhole
  <2>2. CASE ~conn
    BY <2>2 DEF FramesWhole
  <2> QED
    BY <2>1, <2>2
<1> QED
  BY <1>1, <1>2, <1>3, <1>4, <1>5, <1>6, <1>7, <1>8, <1>9, <1>10 DEF TypeOK

(* A poll consumes a loss. *)
LEMMA PollLostPreserves ==
  ASSUME CameraInv, PollLost
  PROVE  CameraInv'
<1> USE BackoffAssumption, FramesAssumption
<1> USE DEF CameraInv, linkVars, frameVars, whepVars, camVars, PollLost, CloseWindow
<1>1. LinkTypeOK'
  BY DEF TypeOK, LinkTypeOK, FrameTypeOK, CameraTypeOK, Replies
<1>2. FrameTypeOK'
  BY DEF TypeOK, LinkTypeOK, FrameTypeOK, CameraTypeOK
<1>3. CameraTypeOK'
  <2>1. stableIn' \in {stableIn, None} /\ calm' \in 0 .. StablePolls /\ up' \in 0 .. StablePolls
    BY BackoffAssumption DEF TypeOK, CameraTypeOK
  <2>2. host' \in {"close", "judge", "retry"}
    BY Zenon
  <2> QED
    BY <2>1, <2>2, Zenon DEF TypeOK, CameraTypeOK
<1>4. (lost => hurt)'
  BY DEF TypeOK, LinkTypeOK, FrameTypeOK, CameraTypeOK
<1>5. CloseInv'
  BY DEF TypeOK, LinkTypeOK, FrameTypeOK, CameraTypeOK, CloseInv, Closed, NoCamera
<1>6. SessionInv'
  BY DEF TypeOK, LinkTypeOK, FrameTypeOK, CameraTypeOK, SessionInv, Unstored, CloseInv,
      Closed
<1>7. MediaInv'
  BY DEF TypeOK, LinkTypeOK, FrameTypeOK, CameraTypeOK, MediaInv, CloseInv, Closed
<1>8. RetryInv'
  BY DEF TypeOK, LinkTypeOK, FrameTypeOK, CameraTypeOK, RetryInv, CloseInv, NoCamera,
      Closed
<1>9. WindowInv'
  BY DEF TypeOK, LinkTypeOK, FrameTypeOK, CameraTypeOK, WindowInv
<1>10. FramesWhole'
  BY DEF TypeOK, LinkTypeOK, FrameTypeOK, CameraTypeOK, FramesWhole, MediaInv, CloseInv,
      Closed, Least
<1> QED
  BY <1>1, <1>2, <1>3, <1>4, <1>5, <1>6, <1>7, <1>8, <1>9, <1>10 DEF TypeOK

(* A failed connection is given up or scheduled again. *)
LEMMA JudgePreserves ==
  ASSUME CameraInv, Judge
  PROVE  CameraInv'
<1> USE BackoffAssumption, FramesAssumption
<1> USE DEF CameraInv, linkVars, frameVars, whepVars, camVars, Judge, ClearLost,
      NextAttempt
<1>1. LinkTypeOK'
  BY DEF TypeOK, LinkTypeOK, FrameTypeOK, CameraTypeOK, Replies
<1>2. FrameTypeOK'
  BY DEF TypeOK, LinkTypeOK, FrameTypeOK, CameraTypeOK
<1>3. CameraTypeOK'
  <2>1. retryIn' \in 0 .. MaxBackoff \cup {None}
    BY BackoffRange DEF TypeOK, CameraTypeOK
  <2>2. failures' \in 0 .. EscalateAfter /\ escalated' \in BOOLEAN
    BY NoteFacts DEF TypeOK, CameraTypeOK
  <2> QED
    BY <2>1, <2>2, Zenon DEF TypeOK, CameraTypeOK
<1>4. (lost => hurt)'
  BY DEF TypeOK, LinkTypeOK, FrameTypeOK, CameraTypeOK
<1>5. CloseInv'
  BY DEF TypeOK, LinkTypeOK, FrameTypeOK, CameraTypeOK, CloseInv, Closed, NoCamera
<1>6. SessionInv'
  BY DEF TypeOK, LinkTypeOK, FrameTypeOK, CameraTypeOK, SessionInv, Unstored, CloseInv,
      Closed
<1>7. MediaInv'
  BY DEF TypeOK, LinkTypeOK, FrameTypeOK, CameraTypeOK, MediaInv, CloseInv, Closed
<1>8. RetryInv'
  BY BackoffRange DEF RetryInv, TypeOK, CameraTypeOK
<1>9. WindowInv'
  BY DEF TypeOK, LinkTypeOK, FrameTypeOK, CameraTypeOK, WindowInv
<1>10. FramesWhole'
  BY DEF TypeOK, LinkTypeOK, FrameTypeOK, CameraTypeOK, FramesWhole, MediaInv, CloseInv,
      Closed, Least
<1> QED
  BY <1>1, <1>2, <1>3, <1>4, <1>5, <1>6, <1>7, <1>8, <1>9, <1>10 DEF TypeOK

(* A stop closes the connection, if there is one. *)
LEMMA onStopPreserves ==
  ASSUME CameraInv, onStop
  PROVE  CameraInv'
<1> USE BackoffAssumption, FramesAssumption
<1> USE DEF CameraInv, linkVars, frameVars, whepVars, camVars, onStop
<1>1. LinkTypeOK'
  BY DEF TypeOK, LinkTypeOK, FrameTypeOK, CameraTypeOK, Replies
<1>2. FrameTypeOK'
  BY DEF TypeOK, LinkTypeOK, FrameTypeOK, CameraTypeOK
<1>3. CameraTypeOK'
  BY DEF TypeOK, LinkTypeOK, FrameTypeOK, CameraTypeOK
<1>4. (lost => hurt)'
  BY DEF TypeOK, LinkTypeOK, FrameTypeOK, CameraTypeOK
<1>5. CloseInv'
  BY DEF TypeOK, LinkTypeOK, FrameTypeOK, CameraTypeOK, CloseInv, Closed, NoCamera
<1>6. SessionInv'
  BY DEF TypeOK, LinkTypeOK, FrameTypeOK, CameraTypeOK, SessionInv, Unstored, CloseInv,
      Closed
<1>7. MediaInv'
  BY DEF TypeOK, LinkTypeOK, FrameTypeOK, CameraTypeOK, MediaInv, CloseInv, Closed
<1>8. RetryInv'
  BY DEF TypeOK, LinkTypeOK, FrameTypeOK, CameraTypeOK, RetryInv, CloseInv, NoCamera,
      Closed
<1>9. WindowInv'
  BY DEF TypeOK, LinkTypeOK, FrameTypeOK, CameraTypeOK, WindowInv
<1>10. FramesWhole'
  BY DEF TypeOK, LinkTypeOK, FrameTypeOK, CameraTypeOK, FramesWhole, MediaInv, CloseInv,
      Closed, Least
<1> QED
  BY <1>1, <1>2, <1>3, <1>4, <1>5, <1>6, <1>7, <1>8, <1>9, <1>10 DEF TypeOK

(* The camera and its flags are gone. *)
LEMMA ClearCameraPreserves ==
  ASSUME CameraInv, ClearCamera
  PROVE  CameraInv'
<1> USE BackoffAssumption, FramesAssumption
<1> USE DEF CameraInv, linkVars, frameVars, whepVars, camVars, ClearCamera
<1>1. LinkTypeOK'
  BY DEF TypeOK, LinkTypeOK, FrameTypeOK, CameraTypeOK, Replies
<1>2. FrameTypeOK'
  BY DEF TypeOK, LinkTypeOK, FrameTypeOK, CameraTypeOK
<1>3. CameraTypeOK'
  <2>1. /\ MinBackoff \in MinBackoff .. MaxBackoff
        /\ 0 \in 0 .. EscalateAfter /\ 0 \in 0 .. StablePolls
    BY BackoffAssumption
  <2> QED
    BY <2>1, Zenon DEF TypeOK, CameraTypeOK
<1>4. (lost => hurt)'
  BY DEF TypeOK, LinkTypeOK, FrameTypeOK, CameraTypeOK
<1>5. CloseInv'
  BY DEF TypeOK, LinkTypeOK, FrameTypeOK, CameraTypeOK, CloseInv, Closed, NoCamera
<1>6. SessionInv'
  BY DEF TypeOK, LinkTypeOK, FrameTypeOK, CameraTypeOK, SessionInv, Unstored, CloseInv,
      Closed
<1>7. MediaInv'
  BY DEF TypeOK, LinkTypeOK, FrameTypeOK, CameraTypeOK, MediaInv, CloseInv, Closed
<1>8. RetryInv'
  BY DEF TypeOK, LinkTypeOK, FrameTypeOK, CameraTypeOK, RetryInv, CloseInv, NoCamera,
      Closed
<1>9. WindowInv'
  BY DEF TypeOK, LinkTypeOK, FrameTypeOK, CameraTypeOK, WindowInv
<1>10. FramesWhole'
  BY DEF TypeOK, LinkTypeOK, FrameTypeOK, CameraTypeOK, FramesWhole, MediaInv, CloseInv,
      Closed, Least
<1> QED
  BY <1>1, <1>2, <1>3, <1>4, <1>5, <1>6, <1>7, <1>8, <1>9, <1>10 DEF TypeOK

(* close(), on the host's thread or on the one a stop joins. *)
LEMMA CloseStepsPreserve ==
  ASSUME CameraInv, CloseSteps
  PROVE  CameraInv'
<1>1. CASE Closing("close", "join", CloseBegins) \/ Closing("stop close", "stop join", CloseBegins)
  BY <1>1, CloseBeginsPreserves DEF Closing
<1>2. CASE \/ Closing("join", "detach", DeleteSession)
           \/ Closing("stop join", "stop detach", DeleteSession)
  BY <1>2, DeleteSessionPreserves DEF Closing
<1>3. CASE Closing("detach", "judge", CloseEnds) \/ Closing("stop detach", "clear", CloseEnds)
  BY <1>3, CloseEndsPreserves DEF Closing
<1> QED
  BY <1>1, <1>2, <1>3 DEF CloseSteps

(* No camera, no connection, nothing queued. *)
LEMMA InitEstablishes == Init => CameraInv
<1> SUFFICES ASSUME Init PROVE CameraInv
  OBVIOUS
<1> USE BackoffAssumption, FramesAssumption
<1>1. LinkTypeOK
  BY DEF Init, WhepInit, LinkTypeOK, Replies
<1>2. FrameTypeOK
  BY NothingQueued, Zenon DEF Init, WhepInit, FrameTypeOK
<1>3. CameraTypeOK
  <2>1. /\ MinBackoff \in MinBackoff .. MaxBackoff
        /\ 0 \in 0 .. EscalateAfter /\ 0 \in 0 .. StablePolls
    OBVIOUS
  <2> QED
    BY <2>1, Zenon DEF Init, CameraTypeOK
<1>4. (lost => hurt) /\ CloseInv /\ MediaInv
  BY DEF Init, WhepInit, CloseInv, Closed, NoCamera, MediaInv
<1>5. SessionInv
  BY DEF Init, WhepInit, SessionInv, Unstored
<1>6. RetryInv /\ WindowInv
  BY DEF Init, RetryInv, WindowInv
<1>7. FramesWhole
  BY EmptyQueue DEF Init, WhepInit, FramesWhole
<1> QED
  BY <1>1, <1>2, <1>3, <1>4, <1>5, <1>6, <1>7 DEF CameraInv, TypeOK

(* Every step of the host, the worker and the peer keeps the invariant. *)
LEMMA NextPreserves ==
  ASSUME CameraInv, [Next]_vars
  PROVE  CameraInv'
<1>1. CASE PollSteps
  BY <1>1, PollConnectedPreserves, PollFramesPreserves, PollLostPreserves, JudgePreserves,
     PollRetryPreserves, CloseStepsPreserve, ClearCameraPreserves DEF PollSteps
<1>2. CASE ConnectionSteps
  BY <1>2, GatherPreserves, postOfferPreserves, CheckClosingPreserves, StoreSessionPreserves,
     primeNormalizerPreserves, setRemoteDescriptionPreserves, ErrorCallbackPreserves
     DEF ConnectionSteps, runConnect
<1>3. CASE FrameQueuedStep
  BY <1>3, FrameQueuedPreserves DEF FrameQueuedStep
<1>4. CASE PeerSteps
  BY <1>4, PeerConnectsPreserves, PeerLostPreserves, FrameArrivesPreserves DEF PeerSteps
<1>5. CASE onStart
  BY <1>5, onStartPreserves
<1>6. CASE onStop
  BY <1>6, onStopPreserves
<1>7. CASE UNCHANGED vars
  <2> USE <1>7 DEF CameraInv, vars, whepVars, linkVars, frameVars, camVars
  <2>1. LinkTypeOK' /\ FrameTypeOK'
    BY DEF TypeOK, LinkTypeOK, FrameTypeOK
  <2>2. CameraTypeOK' /\ RetryInv' /\ WindowInv'
    BY DEF TypeOK, CameraTypeOK, RetryInv, WindowInv
  <2>3. CloseInv' /\ MediaInv'
    BY DEF CloseInv, Closed, NoCamera, MediaInv
  <2>4. (lost => hurt)' /\ SessionInv'
    BY DEF SessionInv, Unstored
  <2>5. FramesWhole'
    BY DEF FramesWhole
  <2> QED
    BY <2>1, <2>2, <2>3, <2>4, <2>5 DEF TypeOK
<1> QED
  BY <1>1, <1>2, <1>3, <1>4, <1>5, <1>6, <1>7 DEF Next

(* The invariant holds of every behaviour of a camera. *)
THEOREM CameraInvariant == Spec => []CameraInv
<1>1. CameraInv /\ [Next]_vars => CameraInv'
  BY NextPreserves
<1> QED
  BY <1>1, InitEstablishes, PTL DEF Spec

(* Every session that an answer opened is hung up by the time its connection is
   gone, and only once; a camera that is gone has no thread and no peer left. *)
THEOREM CloseLeavesNothing == Spec => []NothingOutlivesClose
<1>1. CameraInv => NothingOutlivesClose
  <2> SUFFICES ASSUME CameraInv PROVE NothingOutlivesClose
    OBVIOUS
  <2>1. (~conn \/ host \in {"clear", "judge"}) => owed = 0 /\ queue = << >> /\ ~primed
    BY DEF CameraInv, CloseInv, Closed, SessionInv, Unstored
  <2>2. NoCamera => worker = "off" /\ peer = "off" /\ ~inFlight
    BY DEF CameraInv, CloseInv, Closed
  <2> QED
    BY <2>1, <2>2 DEF CameraInv, NothingOutlivesClose
<1> QED
  BY <1>1, CameraInvariant, PTL

(* The queue holds the newest frames in order, and no keyframe misses parameter
   sets the answer announced, for every queue length. *)
THEOREM FramesStayWhole == Spec => []FramesWhole
<1>1. CameraInv => FramesWhole
  BY DEF CameraInv
<1> QED
  BY <1>1, CameraInvariant, PTL

(* A camera at rest without a connection waits for its next attempt, unless its
   token was refused. *)
THEOREM RetriesIffAllowed == Spec => []RetryIffAllowed
<1>1. CameraInv => RetryIffAllowed
  BY DEF CameraInv, RetryInv, RetryIffAllowed
<1> QED
  BY <1>1, CameraInvariant, PTL

(* No failure is forgotten before a full window without a loss, nor for a connection
   that was not up for that long unless a stale edge opened the window. *)
LEMMA ForgetsLate ==
  ASSUME CameraInv, [Next]_vars, failures' < failures
  PROVE  \/ calm >= StablePolls /\ ((conn /\ up >= StablePolls) \/ StaleWindow)
         \/ NoCamera'
<1>1. failures \in 0 .. EscalateAfter /\ calm \in 0 .. StablePolls /\ up \in 0 .. StablePolls
  BY DEF CameraInv, TypeOK, CameraTypeOK
<1>2. ~(failures' = failures) /\ ~noteFailedAttemptAndMaybeEscalate
  <2>1. ASSUME noteFailedAttemptAndMaybeEscalate PROVE FALSE
    <3>1. failures' = Least(failures + 1, EscalateAfter)
      BY <2>1 DEF noteFailedAttemptAndMaybeEscalate
    <3> QED
      BY <1>1, <3>1, BackoffAssumption DEF Least
  <2> QED
    BY <1>1, <2>1
<1>3. CASE PollSteps
  <2>1. CASE PollConnected
    <3>1. ClearsHistory
      BY <1>2, <2>1 DEF PollConnected
    <3>2. stableIn = 1 /\ stableIn # None
      BY <3>1, BackoffAssumption DEF ClearsHistory
    <3>3. calm >= StablePolls
      BY <1>1, <3>2, BackoffAssumption DEF CameraInv, WindowInv
    <3>4. CASE up = 0
      BY <3>2, <3>3, <3>4 DEF StaleWindow
    <3>5. CASE up # 0
      <4>1. up >= StablePolls
        BY <1>1, <3>2, <3>5, BackoffAssumption DEF CameraInv, WindowInv
      <4> QED
        BY <3>3, <3>5, <4>1 DEF CameraInv, WindowInv
    <3> QED
      BY <3>4, <3>5
  <2>2. CASE ClearCamera
    BY <2>2 DEF ClearCamera, NoCamera
  <2>3. CASE PollFrames \/ PollLost \/ Judge \/ PollRetry \/ CloseSteps
    BY <1>2, <2>3, Zenon DEF PollFrames, PollLost, Judge, PollRetry, connectCamera, CloseSteps,
       Closing, camVars
  <2> QED
    BY <1>3, <2>1, <2>2, <2>3 DEF PollSteps
<1>4. CASE ConnectionSteps \/ FrameQueuedStep \/ PeerSteps \/ onStart \/ onStop
  BY <1>2, <1>4, Zenon DEF ConnectionSteps, FrameQueuedStep, PeerSteps, onStart, connectCamera,
     onStop, camVars
<1>5. CASE UNCHANGED vars
  BY <1>2, <1>5 DEF vars, camVars
<1> QED
  BY <1>3, <1>4, <1>5 DEF Next

(* The failure history is cleared only after a full window of polls that handled no
   loss, and then for a connection that was up all that time and still is, or because
   the edge of a connection already torn down opened the window (onPoll). *)
THEOREM HistoryClearedAfterCalm == Spec => ClearedAfterCalm
<1> DEFINE Late == \/ calm >= StablePolls /\ ((conn /\ up >= StablePolls) \/ StaleWindow)
                   \/ NoCamera'
<1>1. CameraInv /\ [Next]_vars => [failures' < failures => Late]_vars
  BY ForgetsLate
<1> QED
  BY <1>1, CameraInvariant, PTL DEF Spec, ClearedAfterCalm
===========================================================================
