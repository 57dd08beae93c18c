------------------------- MODULE AssistantTurnProofs -------------------------
(***************************************************************************)
(* The accounting of the assistant's turns, and the panel's use of its     *)
(* executor, for every set of tool calls and every number of turns and     *)
(* settings commits.  Absent and Once stay opaque in the action lemmas:    *)
(* what those need of the two queues is proved first.                      *)
(***************************************************************************)
EXTENDS AssistantTurn, TLAPS

(* How often an item is in a queue, as far as the argument counts. *)
Absent(s, e) == \A i \in 1..Len(s) : s[i] # e
Once(s, e) == \E i \in 1..Len(s) : s[i] = e /\ \A j \in 1..Len(s) : s[j] = e => j = i

(* The four places of a turn: in the command queue, with the worker, in the event
   queue, nowhere. *)
Running == worker \in {"begin", "launch", "run"}
Commanded == Once(cmds, "turn") /\ Absent(evts, "complete") /\ ~Running
Underway == Absent(cmds, "turn") /\ Absent(evts, "complete") /\ Running
Reported == Absent(cmds, "turn") /\ Once(evts, "complete") /\ ~Running
AtRest == Absent(cmds, "turn") /\ Absent(evts, "complete") /\ ~Running

(* What the panel itself keeps. *)
PanelTyped ==
  /\ panel \in {"open", "tick", "cancelling", "closing", "joining", "dead"}
  /\ busy \in BOOLEAN /\ stop \in BOOLEAN /\ cancel \in BOOLEAN
  /\ cmds \in Seq({"turn", "probe"})
  /\ evts \in Seq({"error", "complete", "probe"})
  /\ worker \in {"wait", "begin", "launch", "run", "probe", "exited"}
  /\ cli \in {"none", "running", "dying", "gone"}
  /\ mcp \in BOOLEAN /\ pressed \in BOOLEAN /\ sent \in 0..MaxTurns /\ probes \in 0..MaxProbes

(* The worker is told to stop after the executor is down. *)
ClosedInv == panel \in {"joining", "dead"} => stop /\ gui = "down"

(* A busy panel has one turn in one place, another one has none. *)
CountInv == IF busy THEN Commanded \/ Underway \/ Reported ELSE AtRest

(* The CLI process is the running turn's. *)
CliInv == cli # "none" <=> worker = "run"

TurnInv == E!TypeOK /\ PanelTyped /\ ClosedInv /\ CountInv /\ CliInv

(* An empty queue holds nothing. *)
LEMMA EmptyHasNone == ASSUME NEW e PROVE Absent(<<>>, e)
BY DEF Absent

(* What a push to the back of a queue does to the count of an item. *)
LEMMA AppendCounts ==
  ASSUME NEW S, NEW s \in Seq(S), NEW x \in S, NEW e
  PROVE  /\ Append(s, x) \in Seq(S)
         /\ x # e /\ Absent(s, e) => Absent(Append(s, x), e)
         /\ x # e /\ Once(s, e) => Once(Append(s, x), e)
         /\ x = e /\ Absent(s, e) => Once(Append(s, x), e)
<1> DEFINE t == Append(s, x)
<1>1. /\ t \in Seq(S) /\ Len(t) = Len(s) + 1 /\ t[Len(s) + 1] = x /\ Len(s) \in Nat
      /\ \A i \in 1..Len(s) : t[i] = s[i]
  OBVIOUS
<1>2. \A i : i \in 1..(Len(s) + 1) <=> i \in 1..Len(s) \/ i = Len(s) + 1
  BY <1>1
<1>3. Len(s) + 1 \in 1..(Len(s) + 1) /\ Len(s) + 1 \notin 1..Len(s)
  BY <1>1
<1> HIDE DEF t
<1>4. x # e /\ Absent(s, e) => Absent(t, e)
  BY <1>1, <1>2 DEF Absent
<1>5. x # e /\ Once(s, e) => Once(t, e)
  <2> SUFFICES ASSUME x # e, Once(s, e) PROVE Once(t, e)
    OBVIOUS
  <2>1. PICK i \in 1..Len(s) : s[i] = e /\ \A j \in 1..Len(s) : s[j] = e => j = i
    BY DEF Once
  <2>2. i \in 1..Len(t) /\ t[i] = e
    BY <1>1, <1>2, <2>1
  <2>3. \A j \in 1..Len(t) : t[j] = e => j = i
    BY <1>1, <1>2, <2>1
  <2> QED
    BY <2>2, <2>3 DEF Once
<1>6. x = e /\ Absent(s, e) => Once(t, e)
  <2> SUFFICES ASSUME x = e, Absent(s, e) PROVE Once(t, e)
    OBVIOUS
  <2>1. Len(s) + 1 \in 1..Len(t) /\ t[Len(s) + 1] = e
    BY <1>1, <1>3
  <2>2. \A j \in 1..Len(t) : t[j] = e => j = Len(s) + 1
    BY <1>1, <1>2 DEF Absent
  <2> QED
    BY <2>1, <2>2 DEF Once
<1> QED
  BY <1>1, <1>4, <1>5, <1>6 DEF t

(* What a pop from the front does to it. *)
LEMMA TailCounts ==
  ASSUME NEW S, NEW s \in Seq(S), s # <<>>, NEW e
  PROVE  /\ Tail(s) \in Seq(S) /\ Head(s) \in S
         /\ Absent(s, e) => Head(s) # e /\ Absent(Tail(s), e)
         /\ Once(s, e) /\ Head(s) = e => Absent(Tail(s), e)
         /\ Once(s, e) /\ Head(s) # e => Once(Tail(s), e)
<1> DEFINE t == Tail(s)
<1>1. /\ t \in Seq(S) /\ Len(t) = Len(s) - 1 /\ Len(s) \in Nat \ {0} /\ Head(s) = s[1]
      /\ \A i \in 1..Len(t) : t[i] = s[i + 1]
      /\ Head(s) \in S
  OBVIOUS
<1>2. 1 \in 1..Len(s) /\ \A i \in 1..Len(t) : i + 1 \in 1..Len(s) /\ i + 1 # 1
  BY <1>1
<1> HIDE DEF t
<1>3. Absent(s, e) => Head(s) # e /\ Absent(t, e)
  BY <1>1, <1>2 DEF Absent
<1>4. Once(s, e) /\ Head(s) = e => Absent(t, e)
  BY <1>1, <1>2 DEF Once, Absent
<1>5. Once(s, e) /\ Head(s) # e => Once(t, e)
  <2> SUFFICES ASSUME Once(s, e), Head(s) # e PROVE Once(t, e)
    OBVIOUS
  <2>1. PICK i \in 1..Len(s) : s[i] = e /\ \A j \in 1..Len(s) : s[j] = e => j = i
    BY DEF Once
  <2>2. i # 1
    BY <1>1, <2>1
  <2>3. PICK k \in 1..Len(t) : k + 1 = i
    <3>1. i - 1 \in 1..Len(t) /\ (i - 1) + 1 = i
      BY <1>1, <2>1, <2>2
    <3> QED
      BY <3>1
  <2>4. t[k] = e
    BY <1>1, <2>1, <2>3
  <2>5. \A j \in 1..Len(t) : t[j] = e => j = k
    BY <1>1, <1>2, <2>1, <2>3
  <2> QED
    BY <2>4, <2>5 DEF Once
<1> QED
  BY <1>1, <1>3, <1>4, <1>5 DEF t

(* A failed turn reports an error and one completion. *)
LEMMA ErrorThenComplete ==
  ASSUME NEW s \in Seq({"error", "complete", "probe"}), Absent(s, "complete")
  PROVE  /\ s \o <<"error", "complete">> \in Seq({"error", "complete", "probe"})
         /\ Once(s \o <<"error", "complete">>, "complete")
<1>1. s \o <<"error", "complete">> = Append(Append(s, "error"), "complete")
  OBVIOUS
<1> DEFINE t == Append(s, "error")
<1>2. t \in Seq({"error", "complete", "probe"}) /\ Absent(t, "complete")
  BY AppendCounts
<1> HIDE DEF t
<1>3. /\ Append(t, "complete") \in Seq({"error", "complete", "probe"})
      /\ Once(Append(t, "complete"), "complete")
  BY <1>2, AppendCounts
<1> QED
  BY <1>1, <1>3 DEF t

(* The counts are the places TurnAccounting speaks of. *)
LEMMA CountedIsAccounted == TurnInv => TurnAccounting
<1> SUFFICES ASSUME TurnInv PROVE TurnAccounting
  OBVIOUS
<1>1. TypeOK
  BY DEF TurnInv, PanelTyped, ClosedInv, TypeOK
<1> DEFINE A == Occurrences(cmds, "turn") \X {"cmds"}
           B == Occurrences(evts, "complete") \X {"evts"}
           C == IF Running THEN {<<0, "worker">>} ELSE {}
<1>2. TurnPlaces = A \cup B \cup C
  BY DEF TurnPlaces, Running
<1>3. (Absent(cmds, "turn") => A = {}) /\ (Absent(evts, "complete") => B = {})
  BY DEF Absent, Occurrences
<1>4. Once(cmds, "turn") => \E p \in A : A = {p}
  <2> SUFFICES ASSUME Once(cmds, "turn") PROVE \E p \in A : A = {p}
    OBVIOUS
  <2>1. PICK i \in 1..Len(cmds) : Occurrences(cmds, "turn") = {i}
    BY DEF Once, Occurrences
  <2>2. A = {<<i, "cmds">>}
    BY <2>1
  <2> QED
    BY <2>2
<1>5. Once(evts, "complete") => \E p \in B : B = {p}
  <2> SUFFICES ASSUME Once(evts, "complete") PROVE \E p \in B : B = {p}
    OBVIOUS
  <2>1. PICK i \in 1..Len(evts) : Occurrences(evts, "complete") = {i}
    BY DEF Once, Occurrences
  <2>2. B = {<<i, "evts">>}
    BY <2>1
  <2> QED
    BY <2>2
<1>6. IF Running THEN \E p \in C : C = {p} ELSE C = {}
  OBVIOUS
<1> HIDE DEF A, B, C
<1>7. IF busy THEN \E p \in TurnPlaces : TurnPlaces = {p} ELSE TurnPlaces = {}
  BY <1>2, <1>3, <1>4, <1>5, <1>6 DEF TurnInv, CountInv, Commanded, Underway, Reported, AtRest
<1> QED
  BY <1>1, <1>7 DEF TurnAccounting, TurnInv, CliInv

(* A call is queued, or refused during a shutdown. *)
LEMMA SubmitTyped ==
  ASSUME E!TypeOK, NEW c \in Calls, E!Submit(c)
  PROVE  E!TypeOK'
<1>1. Append(queue, c) \in Seq(Calls)
  BY DEF E!TypeOK
<1>2. /\ UNCHANGED <<done, abandoned, result, gui, batch, fresh, executed, steps, ended, late, shuttingDown>>
      /\ queue' = queue \/ queue' = Append(queue, c)
      /\ caller' \in [Calls -> {"idle", "waiting", "returned"}]
      /\ answer' \in [Calls -> E!Answers \cup {"none", "empty", "resume"}]
  BY DEF E!Submit, E!TypeOK, E!Answers, E!Reasons, E!slotVars, E!guiVars, E!historyVars
<1> QED
  BY <1>1, <1>2 DEF E!TypeOK

(* A caller takes its answer. *)
LEMMA ReceiveTyped ==
  ASSUME E!TypeOK, NEW c \in Calls, E!Receive(c)
  PROVE  E!TypeOK'
BY DEF E!Receive, E!TypeOK, E!Answers, E!Reasons, E!callerVars, E!slotVars, E!guiVars,
   E!historyVars

(* A caller walks away. *)
LEMMA TimeOutTyped ==
  ASSUME E!TypeOK, NEW c \in Calls, E!TimeOut(c)
  PROVE  E!TypeOK'
BY DEF E!TimeOut, E!TypeOK, E!Answers, E!Reasons, E!callerVars, E!slotVars, E!guiVars,
   E!historyVars

(* A drain takes the queue. *)
LEMMA DrainBeginTyped ==
  ASSUME E!TypeOK, E!DrainBegin
  PROVE  E!TypeOK'
BY DEF E!DrainBegin, E!TakeQueue, E!TypeOK, E!Answers, E!Reasons, E!callerVars, E!slotVars,
   E!guiVars, E!historyVars

(* A slot is looked at. *)
LEMMA CheckSlotTyped ==
  ASSUME E!TypeOK, E!CheckSlot
  PROVE  E!TypeOK'
<1>1. batch # <<>> /\ Head(batch) \in Calls /\ Tail(batch) \in Seq(Calls)
  BY DEF E!CheckSlot, E!TypeOK, E!Reasons
<1> QED
  BY <1>1 DEF E!CheckSlot, E!Discard, E!NextSlot, E!TypeOK, E!Answers, E!Reasons, E!callerVars,
     E!slotVars, E!guiVars, E!historyVars

(* A tool runs one step. *)
LEMMA RunStepTyped ==
  ASSUME E!TypeOK, E!RunStep
  PROVE  E!TypeOK'
<1>1. batch # <<>> /\ Head(batch) \in Calls /\ Tail(batch) \in Seq(Calls)
  BY DEF E!RunStep, E!TypeOK, E!Reasons
<1>2. /\ UNCHANGED <<caller, answer, done, abandoned, result, batch, queue, shuttingDown>>
      /\ gui' = "publish" /\ fresh' \in {"final", "resume"}
  BY DEF E!RunStep, E!callerVars, E!slotVars
<1>3. ended' \in [Calls -> BOOLEAN]
  BY <1>1 DEF E!RunStep, E!TypeOK
<1>4. executed' \in [Calls -> Nat] /\ steps' \in [Calls -> Nat] /\ late' \in [Calls -> Nat]
  BY <1>1 DEF E!RunStep, E!TypeOK
<1> QED
  BY <1>1, <1>2, <1>3, <1>4 DEF E!TypeOK

(* A step's result is published. *)
LEMMA PublishTyped ==
  ASSUME E!TypeOK, E!Publish
  PROVE  E!TypeOK'
<1>1. batch # <<>> /\ Head(batch) \in Calls /\ Tail(batch) \in Seq(Calls)
  BY DEF E!Publish, E!TypeOK, E!Reasons
<1> QED
  BY <1>1 DEF E!Publish, E!Discard, E!Deliver, E!NextSlot, E!TypeOK, E!Answers, E!Reasons,
     E!callerVars, E!slotVars, E!guiVars, E!historyVars

(* A continuation goes back to the queue. *)
LEMMA RequeueTyped ==
  ASSUME E!TypeOK, E!Requeue
  PROVE  E!TypeOK'
<1>1. batch # <<>> /\ Head(batch) \in Calls /\ Tail(batch) \in Seq(Calls)
  BY DEF E!Requeue, E!TypeOK, E!Reasons
<1>2. Append(queue, Head(batch)) \in Seq(Calls)
  BY <1>1 DEF E!TypeOK
<1>3. /\ UNCHANGED <<caller, answer, done, abandoned, result, fresh, executed, steps, ended, late, shuttingDown>>
      /\ queue' = Append(queue, Head(batch)) /\ batch' = Tail(batch)
      /\ gui' = IF Tail(batch) = <<>> THEN "idle" ELSE "check"
  BY DEF E!Requeue, E!NextSlot, E!callerVars, E!slotVars, E!historyVars
<1> QED
  BY <1>1, <1>2, <1>3 DEF E!TypeOK

(* A cancel takes the queue. *)
LEMMA CancelBeginTyped ==
  ASSUME E!TypeOK, E!CancelBegin
  PROVE  E!TypeOK'
BY DEF E!CancelBegin, E!TakeQueue, E!TypeOK, E!Answers, E!Reasons, E!callerVars, E!slotVars,
   E!guiVars, E!historyVars

(* A shutdown raises its flag. *)
LEMMA ShutdownBeginTyped ==
  ASSUME E!TypeOK, E!ShutdownBegin
  PROVE  E!TypeOK'
BY DEF E!ShutdownBegin, E!TypeOK, E!Answers, E!Reasons, E!callerVars, E!slotVars, E!guiVars,
   E!historyVars

(* A shutdown takes the queue. *)
LEMMA ShutdownCancelsTyped ==
  ASSUME E!TypeOK, E!ShutdownCancels
  PROVE  E!TypeOK'
BY DEF E!ShutdownCancels, E!TakeQueue, E!TypeOK, E!Answers, E!Reasons, E!callerVars,
   E!slotVars, E!guiVars, E!historyVars

(* A pending slot is failed. *)
LEMMA CancelSlotTyped ==
  ASSUME E!TypeOK, E!CancelSlot
  PROVE  E!TypeOK'
<1>1. batch # <<>> /\ Head(batch) \in Calls /\ Tail(batch) \in Seq(Calls)
  BY DEF E!CancelSlot, E!TypeOK, E!Reasons
<1> QED
  BY <1>1 DEF E!CancelSlot, E!Fail, E!NextSlot, E!TypeOK, E!Answers, E!Reasons, E!callerVars,
     E!slotVars, E!guiVars, E!historyVars

(* The executor's own variables are untouched. *)
LEMMA ExecutorRests ==
  ASSUME E!TypeOK, UNCHANGED execVars
  PROVE  E!TypeOK'
BY DEF execVars, E!TypeOK

(* What a step leaves alone keeps what is said of it. *)
LEMMA TurnFrames ==
  /\ PanelTyped /\ UNCHANGED turnVars => PanelTyped'
  /\ ClosedInv /\ UNCHANGED <<panel, stop, gui>> => ClosedInv'
  /\ CountInv /\ UNCHANGED <<busy, cmds, evts, worker>> => CountInv'
  /\ CliInv /\ UNCHANGED <<cli, worker>> => CliInv'
<1>1. PanelTyped /\ UNCHANGED turnVars => PanelTyped'
  BY DEF PanelTyped, turnVars, workerVars, historyVars
<1>2. ClosedInv /\ UNCHANGED <<panel, stop, gui>> => ClosedInv'
  BY DEF ClosedInv
<1>3. CountInv /\ UNCHANGED <<busy, cmds, evts, worker>> => CountInv'
  <2> SUFFICES ASSUME CountInv, busy' = busy, cmds' = cmds, evts' = evts, worker' = worker
               PROVE  CountInv'
    OBVIOUS
  <2> QED
    BY DEF CountInv, Commanded, Underway, Reported, AtRest, Running
<1>4. CliInv /\ UNCHANGED <<cli, worker>> => CliInv'
  BY DEF CliInv
<1> QED
  BY <1>1, <1>2, <1>3, <1>4

(* A new panel is idle. *)
LEMMA InitEstablishes == Init => TurnInv
<1> SUFFICES ASSUME Init PROVE TurnInv
  OBVIOUS
<1>1. E!TypeOK
  <2>1. queue \in Seq(Calls) /\ batch \in Seq(Calls)
    BY DEF Init, E!Init
  <2>2. /\ done \in [Calls -> BOOLEAN] /\ abandoned \in [Calls -> BOOLEAN]
        /\ ended \in [Calls -> BOOLEAN] /\ shuttingDown \in BOOLEAN
    BY DEF Init, E!Init
  <2>3. executed \in [Calls -> Nat] /\ steps \in [Calls -> Nat] /\ late \in [Calls -> Nat]
    BY DEF Init, E!Init
  <2>4. /\ caller \in [Calls -> {"idle", "waiting", "returned"}]
        /\ answer \in [Calls -> E!Answers \cup {"none", "empty", "resume"}]
        /\ result \in [Calls -> {"empty", "resume", "final"} \cup E!Reasons]
        /\ gui = "idle" /\ fresh = "empty" /\ batch = <<>>
    BY DEF Init, E!Init
  <2> QED
    BY <2>1, <2>2, <2>3, <2>4 DEF E!TypeOK
<1>2. PanelTyped
  <2>1. sent \in 0..MaxTurns /\ probes \in 0..MaxProbes
    BY TurnAssumption DEF Init
  <2>2. busy \in BOOLEAN /\ stop \in BOOLEAN /\ cancel \in BOOLEAN /\ mcp \in BOOLEAN
    BY DEF Init
  <2>3. pressed \in BOOLEAN
    BY DEF Init
  <2>4. cmds \in Seq({"turn", "probe"}) /\ evts \in Seq({"error", "complete", "probe"})
    BY DEF Init
  <2>5. panel = "open" /\ worker = "wait" /\ cli = "none"
    BY DEF Init
  <2> QED
    BY <2>1, <2>2, <2>3, <2>4, <2>5 DEF PanelTyped
<1>3. Absent(cmds, "turn") /\ Absent(evts, "complete")
  BY EmptyHasNone DEF Init
<1> QED
  BY <1>1, <1>2, <1>3 DEF Init, TurnInv, ClosedInv, CountInv, AtRest, Running, CliInv

(* The user sends a message. *)
LEMMA sendCurrentInputPreserves ==
  ASSUME TurnInv, sendCurrentInput
  PROVE  TurnInv'
<1> USE DEF TurnInv, sendCurrentInput, Ready, postCommand, workerVars, historyVars
<1>1. E!TypeOK'
  BY ExecutorRests
<1>2. UNCHANGED gui
  BY DEF execVars
<1>3. PanelTyped'
  <2>1. sent' \in 0..MaxTurns
    BY TurnAssumption DEF PanelTyped
  <2>2. cmds' \in Seq({"turn", "probe"})
    BY AppendCounts DEF PanelTyped
  <2> QED
    BY <2>1, <2>2 DEF PanelTyped
<1>4. Once(cmds', "turn")
  BY AppendCounts DEF PanelTyped, CountInv, AtRest
<1>5. CountInv'
  BY <1>4 DEF CountInv, AtRest, Commanded, Running
<1> QED
  BY <1>1, <1>2, <1>3, <1>5, TurnFrames

(* The user commits the settings. *)
LEMMA commitSettingsPreserves ==
  ASSUME TurnInv, commitSettings
  PROVE  TurnInv'
<1> USE DEF TurnInv, commitSettings, Ready, postCommand, workerVars, historyVars
<1>1. E!TypeOK'
  BY ExecutorRests
<1>2. UNCHANGED gui
  BY DEF execVars
<1>3. PanelTyped'
  <2>1. probes' \in 0..MaxProbes
    BY TurnAssumption DEF PanelTyped
  <2>2. cmds' \in Seq({"turn", "probe"})
    BY AppendCounts DEF PanelTyped
  <2> QED
    BY <2>1, <2>2 DEF PanelTyped
<1>4. /\ Once(cmds, "turn") => Once(cmds', "turn")
      /\ Absent(cmds, "turn") => Absent(cmds', "turn")
  BY AppendCounts DEF PanelTyped
<1>5. CountInv'
  BY <1>4 DEF CountInv, AtRest, Commanded, Underway, Reported, Running
<1> QED
  BY <1>1, <1>2, <1>3, <1>5, TurnFrames

(* The user cancels. *)
LEMMA CancelClickedPreserves ==
  ASSUME TurnInv, CancelClicked
  PROVE  TurnInv'
<1> USE DEF TurnInv, CancelClicked, Ready, workerVars, historyVars
<1>1. E!TypeOK'
  BY ExecutorRests
<1>2. UNCHANGED gui
  BY DEF execVars
<1>3. PanelTyped'
  BY DEF PanelTyped
<1>4. ClosedInv'
  BY <1>2 DEF ClosedInv
<1> QED
  BY <1>1, <1>3, <1>4, TurnFrames

(* The panel is closed. *)
LEMMA DestroyPreserves ==
  ASSUME TurnInv, Destroy
  PROVE  TurnInv'
<1> USE DEF TurnInv, Destroy, Ready, workerVars, historyVars
<1>1. E!TypeOK'
  BY ExecutorRests
<1>2. UNCHANGED gui
  BY DEF execVars
<1>3. PanelTyped'
  BY DEF PanelTyped
<1>4. ClosedInv'
  BY <1>2 DEF ClosedInv
<1> QED
  BY <1>1, <1>3, <1>4, TurnFrames

(* The worker is joined. *)
LEMMA JoinPreserves ==
  ASSUME TurnInv, Join
  PROVE  TurnInv'
<1> USE DEF TurnInv, Join, workerVars, historyVars
<1>1. E!TypeOK'
  BY ExecutorRests
<1>2. UNCHANGED gui
  BY DEF execVars
<1>3. PanelTyped'
  BY DEF PanelTyped
<1>4. ClosedInv'
  BY <1>2 DEF ClosedInv
<1> QED
  BY <1>1, <1>3, <1>4, TurnFrames

(* The pending tool calls are failed. *)
LEMMA cancelPendingPreserves ==
  ASSUME TurnInv, cancelPending
  PROVE  TurnInv'
<1> USE DEF TurnInv, cancelPending, workerVars, historyVars
<1>1. E!TypeOK'
  BY ExecutorRests, CancelBeginTyped
<1>2. PanelTyped'
  BY DEF PanelTyped
<1>3. ClosedInv'
  BY DEF ClosedInv
<1> QED
  BY <1>1, <1>2, <1>3, TurnFrames

(* A tick runs the tools first. *)
LEMMA TickDrainsPreserves ==
  ASSUME TurnInv, TickDrains
  PROVE  TurnInv'
<1> USE DEF TurnInv, TickDrains, Ready, workerVars, historyVars
<1>1. E!TypeOK'
  BY DrainBeginTyped
<1>2. PanelTyped'
  BY DEF PanelTyped
<1>3. ClosedInv'
  BY DEF ClosedInv
<1> QED
  BY <1>1, <1>2, <1>3, TurnFrames

(* A tick applies the worker's events. *)
LEMMA TickEventsPreserves ==
  ASSUME TurnInv, TickEvents
  PROVE  TurnInv'
<1> USE DEF TurnInv, TickEvents, workerVars, historyVars
<1>1. E!TypeOK'
  BY ExecutorRests
<1>2. PanelTyped'
  BY DEF PanelTyped
<1>3. ClosedInv'
  BY DEF ClosedInv
<1>4. Absent(evts', "complete")
  BY EmptyHasNone
<1>5. busy' = (busy /\ Absent(evts, "complete"))
  BY DEF Absent
<1>6. Once(evts, "complete") => ~Absent(evts, "complete")
  BY DEF Once, Absent
<1>7. UNCHANGED <<cmds, worker>>
  OBVIOUS
<1>8. CountInv'
  BY <1>4, <1>5, <1>6, <1>7, Zenon DEF CountInv, AtRest, Commanded, Underway, Reported, Running
<1> QED
  BY <1>1, <1>2, <1>3, <1>8, TurnFrames

(* The GUI thread goes on inside a drain or a cancel. *)
LEMMA ExecutorStepPreserves ==
  ASSUME TurnInv, ExecutorStep
  PROVE  TurnInv'
<1> USE DEF TurnInv, ExecutorStep, workerVars, historyVars
<1>1. E!TypeOK'
  BY CheckSlotTyped, RunStepTyped, PublishTyped, RequeueTyped, CancelSlotTyped
<1>2. gui # "down"
  BY DEF E!CheckSlot, E!RunStep, E!Publish, E!Requeue, E!CancelSlot, E!Reasons
<1>3. ClosedInv'
  BY <1>2 DEF ClosedInv, turnVars
<1> QED
  BY <1>1, <1>3, TurnFrames DEF turnVars

(* The destructor shuts the executor down, then stops the worker. *)
LEMMA DestroyShutdownPreserves ==
  ASSUME TurnInv, DestroyShutdown
  PROVE  TurnInv'
<1> USE DEF TurnInv, DestroyShutdown, workerVars, historyVars
<1>1. E!TypeOK'
  BY ExecutorRests, ShutdownBeginTyped, ShutdownCancelsTyped DEF E!Shutdown
<1>2. PanelTyped'
  BY DEF PanelTyped
<1>3. ClosedInv'
  BY DEF ClosedInv, execVars
<1> QED
  BY <1>1, <1>2, <1>3, TurnFrames

(* The worker takes a command, or leaves. *)
LEMMA workerLoopPreserves ==
  ASSUME TurnInv, workerLoop
  PROVE  TurnInv'
<1> USE DEF TurnInv, workerLoop, workerVars, historyVars
<1>1. E!TypeOK'
  BY ExecutorRests
<1>2. UNCHANGED gui
  BY DEF execVars
<1>3. PanelTyped'
  <2>1. cmds' \in Seq({"turn", "probe"})
    BY TailCounts DEF PanelTyped
  <2> QED
    BY <2>1 DEF PanelTyped
<1>4. CountInv'
  <2>1. CASE cmds = <<>>
    BY <2>1 DEF CountInv, AtRest, Commanded, Underway, Reported, Running
  <2>2. CASE cmds # <<>>
    <3>1. /\ Absent(cmds, "turn") => Head(cmds) # "turn" /\ Absent(Tail(cmds), "turn")
          /\ Once(cmds, "turn") /\ Head(cmds) = "turn" => Absent(Tail(cmds), "turn")
          /\ Once(cmds, "turn") /\ Head(cmds) # "turn" => Once(Tail(cmds), "turn")
      BY <2>2, TailCounts DEF PanelTyped
    <3>2. /\ UNCHANGED <<busy, evts>> /\ cmds' = Tail(cmds) /\ worker = "wait"
          /\ worker' = IF Head(cmds) = "turn" THEN "begin" ELSE "probe"
      BY <2>2
    <3> QED
      BY <3>1, <3>2 DEF CountInv, AtRest, Commanded, Underway, Reported, Running
  <2> QED
    BY <2>1, <2>2
<1>5. CliInv'
  BY DEF CliInv
<1> QED
  BY <1>1, <1>2, <1>3, <1>4, <1>5, TurnFrames

(* The backend clears its cancel flag. *)
LEMMA BeginTurnPreserves ==
  ASSUME TurnInv, BeginTurn
  PROVE  TurnInv'
<1> USE DEF TurnInv, BeginTurn, workerVars, historyVars
<1>1. E!TypeOK'
  BY ExecutorRests
<1>2. UNCHANGED gui
  BY DEF execVars
<1>3. PanelTyped'
  BY DEF PanelTyped
<1>4. CountInv'
  BY DEF CountInv, AtRest, Commanded, Underway, Reported, Running
<1>5. CliInv'
  BY DEF CliInv
<1> QED
  BY <1>1, <1>2, <1>3, <1>4, <1>5, TurnFrames

(* The CLI is started. *)
LEMMA LaunchPreserves ==
  ASSUME TurnInv, Launch
  PROVE  TurnInv'
<1> USE DEF TurnInv, Launch, workerVars, historyVars
<1>1. E!TypeOK'
  BY ExecutorRests
<1>2. UNCHANGED gui
  BY DEF execVars
<1>3. PanelTyped'
  BY DEF PanelTyped
<1>4. CountInv'
  BY DEF CountInv, AtRest, Commanded, Underway, Reported, Running
<1>5. CliInv'
  BY DEF CliInv
<1> QED
  BY <1>1, <1>2, <1>3, <1>4, <1>5, TurnFrames

(* A turn that cannot start is reported as complete. *)
LEMMA LaunchFailsPreserves ==
  ASSUME TurnInv, LaunchFails
  PROVE  TurnInv'
<1> USE DEF TurnInv, LaunchFails, workerVars, historyVars
<1>1. E!TypeOK'
  BY ExecutorRests
<1>2. UNCHANGED gui
  BY DEF execVars
<1>3. Underway
  BY DEF CountInv, AtRest, Commanded, Underway, Reported, Running
<1>4. evts' \in Seq({"error", "complete", "probe"}) /\ Once(evts', "complete")
  BY <1>3, ErrorThenComplete DEF PanelTyped, Underway
<1>5. PanelTyped'
  BY <1>4 DEF PanelTyped
<1>6. busy
  BY <1>3 DEF CountInv, AtRest, Underway
<1>7. CountInv'
  BY <1>3, <1>4, <1>6 DEF CountInv, Underway, Reported, Running
<1>8. CliInv'
  BY DEF CliInv
<1> QED
  BY <1>1, <1>2, <1>5, <1>7, <1>8, TurnFrames

(* The CLI has ended and the turn is reported. *)
LEMMA FinishTurnPreserves ==
  ASSUME TurnInv, FinishTurn
  PROVE  TurnInv'
<1> USE DEF TurnInv, FinishTurn, workerVars, historyVars
<1>1. E!TypeOK'
  BY ExecutorRests
<1>2. UNCHANGED gui
  BY DEF execVars
<1>3. Underway
  BY DEF CountInv, AtRest, Commanded, Underway, Reported, Running
<1>4. evts' \in Seq({"error", "complete", "probe"}) /\ Once(evts', "complete")
  <2>1. evts \in Seq({"error", "complete", "probe"}) /\ Absent(evts, "complete")
    BY <1>3 DEF PanelTyped, Underway
  <2>2. CASE evts' = evts \o <<"error", "complete">>
    BY <2>1, <2>2, ErrorThenComplete
  <2>3. CASE evts' = Append(evts, "complete")
    <3>1. /\ Append(evts, "complete") \in Seq({"error", "complete", "probe"})
          /\ Once(Append(evts, "complete"), "complete")
      BY <2>1, AppendCounts
    <3> QED
      BY <2>3, <3>1
  <2> QED
    BY <2>2, <2>3
<1>5. PanelTyped'
  BY <1>4 DEF PanelTyped
<1>6. busy
  BY <1>3 DEF CountInv, AtRest, Underway
<1>7. CountInv'
  BY <1>3, <1>4, <1>6 DEF CountInv, Underway, Reported, Running
<1>8. CliInv'
  BY DEF CliInv
<1> QED
  BY <1>1, <1>2, <1>5, <1>7, <1>8, TurnFrames

(* A probe is reported. *)
LEMMA testConnectionPreserves ==
  ASSUME TurnInv, testConnection
  PROVE  TurnInv'
<1> USE DEF TurnInv, testConnection, workerVars, historyVars
<1>1. E!TypeOK'
  BY ExecutorRests
<1>2. UNCHANGED gui
  BY DEF execVars
<1>3. /\ evts' \in Seq({"error", "complete", "probe"})
      /\ Once(evts, "complete") => Once(evts', "complete")
      /\ Absent(evts, "complete") => Absent(evts', "complete")
  BY AppendCounts DEF PanelTyped
<1>4. PanelTyped'
  BY <1>3 DEF PanelTyped
<1>5. CountInv'
  BY <1>3 DEF CountInv, AtRest, Commanded, Underway, Reported, Running
<1>6. CliInv'
  BY DEF CliInv
<1> QED
  BY <1>1, <1>2, <1>4, <1>5, <1>6, TurnFrames

(* A running CLI is signalled. *)
LEMMA KillPreserves ==
  ASSUME TurnInv, Kill
  PROVE  TurnInv'
<1> USE DEF TurnInv, Kill, workerVars, historyVars
<1>1. E!TypeOK'
  BY ExecutorRests
<1>2. UNCHANGED gui
  BY DEF execVars
<1>3. PanelTyped'
  BY DEF PanelTyped
<1>4. CliInv'
  BY DEF CliInv
<1> QED
  BY <1>1, <1>2, <1>3, <1>4, TurnFrames

(* A tool call arrives. *)
LEMMA McpCallsPreserves ==
  ASSUME TurnInv, McpCalls
  PROVE  TurnInv'
<1> USE DEF TurnInv, McpCalls, workerVars, historyVars
<1>1. E!TypeOK' /\ UNCHANGED gui
  BY SubmitTyped, ReceiveTyped, TimeOutTyped DEF E!Submit, E!Receive, E!TimeOut, E!guiVars
<1> QED
  BY <1>1, TurnFrames DEF turnVars

(* A caller is answered or times out. *)
LEMMA McpThreadsPreserves ==
  ASSUME TurnInv, McpThreads
  PROVE  TurnInv'
<1> USE DEF TurnInv, McpThreads, workerVars, historyVars
<1>1. E!TypeOK' /\ UNCHANGED gui
  BY SubmitTyped, ReceiveTyped, TimeOutTyped DEF E!Submit, E!Receive, E!TimeOut, E!guiVars
<1> QED
  BY <1>1, TurnFrames DEF turnVars

(* The CLI ends, by itself or signalled. *)
LEMMA CliEndsPreserves ==
  ASSUME TurnInv, NEW state \in {"running", "dying"}, CliEnds(state)
  PROVE  TurnInv'
<1> USE DEF TurnInv, CliEnds, workerVars, historyVars
<1>1. E!TypeOK'
  BY ExecutorRests
<1>2. UNCHANGED gui
  BY DEF execVars
<1>3. PanelTyped'
  BY DEF PanelTyped
<1>4. CliInv'
  BY DEF CliInv
<1> QED
  BY <1>1, <1>2, <1>3, <1>4, TurnFrames

(* Every step of the panel preserves the invariant. *)
LEMMA NextPreserves == TurnInv /\ [Next]_vars => TurnInv'
<1> SUFFICES ASSUME TurnInv, [Next]_vars PROVE TurnInv'
  OBVIOUS
<1>1. CASE sendCurrentInput \/ commitSettings \/ CancelClicked \/ Destroy
  BY <1>1, sendCurrentInputPreserves, commitSettingsPreserves, CancelClickedPreserves,
     DestroyPreserves
<1>2. CASE onTick \/ GuiRunsOn
  BY <1>2, TickDrainsPreserves, TickEventsPreserves, ExecutorStepPreserves,
     cancelPendingPreserves DEF onTick, GuiRunsOn
<1>3. CASE Teardown
  BY <1>3, DestroyShutdownPreserves, JoinPreserves DEF Teardown
<1>4. CASE Worker \/ Kill
  BY <1>4, workerLoopPreserves, BeginTurnPreserves, LaunchFailsPreserves, LaunchPreserves,
     FinishTurnPreserves, testConnectionPreserves, KillPreserves DEF Worker
<1>5. CASE McpCalls \/ McpThreads
  BY <1>5, McpCallsPreserves, McpThreadsPreserves
<1>6. CASE CliEnds("running") \/ CliEnds("dying")
  BY <1>6, CliEndsPreserves
<1>7. CASE UNCHANGED vars
  <2>1. UNCHANGED execVars /\ UNCHANGED turnVars /\ UNCHANGED gui
    BY <1>7 DEF vars, execVars
  <2> QED
    BY <2>1, ExecutorRests, TurnFrames DEF TurnInv, turnVars, workerVars
<1> QED
  BY <1>1, <1>2, <1>3, <1>4, <1>5, <1>6, <1>7 DEF Next

(* A turn is in one place at most, for every set of tool calls and every
   number of turns and probes. *)
THEOREM TurnInvariant == Spec => []TurnInv
<1>1. TurnInv /\ [Next]_vars => TurnInv'
  BY NextPreserves
<1> QED
  BY <1>1, InitEstablishes, PTL DEF Spec

(* The panel is busy exactly while one turn is queued, running or reported and
   not yet applied, and a CLI process belongs to the running turn. *)
THEOREM TurnAccountingHolds == Spec => []TurnAccounting
<1>1. TurnInv => TurnAccounting
  BY CountedIsAccounted
<1> QED
  BY <1>1, TurnInvariant, PTL

(* A step of the panel is a step of its executor or none of it: a turn, a cancel
   or a teardown never touches a slot but through the executor's operations, so
   that what GuiExecutorProofs proves of the executor holds in the panel. *)
THEOREM ExecutorRefined == Spec => E!Spec
<1>1. Init => E!Init
  BY DEF Init
<1>2. [Next]_vars => [E!Next]_(E!execVars)
  <2> SUFFICES ASSUME [Next]_vars PROVE E!Next \/ UNCHANGED E!execVars
    OBVIOUS
  <2>1. UNCHANGED execVars => UNCHANGED E!execVars
    BY DEF execVars, E!execVars, E!callerVars, E!slotVars, E!guiVars, E!historyVars
  <2>2. CASE sendCurrentInput \/ commitSettings \/ CancelClicked \/ Destroy
    BY <2>1, <2>2 DEF sendCurrentInput, commitSettings, CancelClicked, Destroy
  <2>3. CASE onTick
    BY <2>1, <2>3 DEF onTick, TickDrains, TickEvents, E!Next, E!Drain
  <2>4. CASE GuiRunsOn
    BY <2>1, <2>4 DEF GuiRunsOn, ExecutorStep, cancelPending, E!Next, E!Drain
  <2>5. CASE Teardown
    BY <2>1, <2>5 DEF Teardown, DestroyShutdown, Join, E!Next
  <2>6. CASE Worker \/ Kill
    BY <2>1, <2>6 DEF Worker, workerLoop, BeginTurn, LaunchFails, Launch, FinishTurn,
       testConnection, Kill
  <2>7. CASE McpCalls \/ McpThreads
    BY <2>7 DEF McpCalls, McpThreads, E!Next, E!CallerStep
  <2>8. CASE CliEnds("running") \/ CliEnds("dying")
    BY <2>1, <2>8 DEF CliEnds
  <2>9. CASE UNCHANGED vars
    BY <2>1, <2>9 DEF vars
  <2> QED
    BY <2>2, <2>3, <2>4, <2>5, <2>6, <2>7, <2>8, <2>9 DEF Next
<1> QED
  BY <1>1, <1>2, PTL DEF Spec, E!Spec

=============================================================================
