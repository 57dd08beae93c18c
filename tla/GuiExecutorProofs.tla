------------------------- MODULE GuiExecutorProofs -------------------------
(***************************************************************************)
(* The safety properties of GuiExecutor for every set of calls and every   *)
(* number of steps.  Elems and NoRepeat stay opaque in the action lemmas:  *)
(* what they need of them are the three facts proved first.                *)
(***************************************************************************)
EXTENDS GuiExecutor, TLAPS

(* An empty queue holds nothing. *)
LEMMA EmptyFacts ==
  /\ NoRepeat(<<>>)
  /\ \A y : y \notin Elems(<<>>)
BY DEF Elems, NoRepeat

(* What queue_.push_back does to a queue without repetitions. *)
LEMMA AppendFacts ==
  ASSUME NEW S, NEW s \in Seq(S), NEW x \in S
  PROVE  /\ Append(s, x) \in Seq(S) /\ Append(s, x) # <<>>
         /\ \A y : y \in Elems(Append(s, x)) <=> y \in Elems(s) \/ y = x
         /\ NoRepeat(s) /\ x \notin Elems(s) => NoRepeat(Append(s, x))
<1>1. /\ Append(s, x) \in Seq(S)
      /\ Len(Append(s, x)) = Len(s) + 1
      /\ Append(s, x)[Len(s) + 1] = x
      /\ \A i \in 1..Len(s) : Append(s, x)[i] = s[i]
  OBVIOUS
<1>2. Len(s) \in Nat
  OBVIOUS
<1>3. \A i : i \in 1..(Len(s) + 1) <=> i \in 1..Len(s) \/ i = Len(s) + 1
  BY <1>2
<1> DEFINE t == Append(s, x)
<1> HIDE DEF t
<1>4. /\ t \in Seq(S) /\ Len(t) = Len(s) + 1 /\ t[Len(s) + 1] = x
      /\ \A i \in 1..Len(s) : t[i] = s[i]
  BY <1>1 DEF t
<1>5. t # <<>>
  BY <1>4, <1>2
<1>6. \A y : y \in Elems(t) <=> y \in Elems(s) \/ y = x
  BY <1>2, <1>3, <1>4 DEF Elems
<1>7. NoRepeat(s) /\ x \notin Elems(s) => NoRepeat(t)
  BY <1>2, <1>3, <1>4 DEF Elems, NoRepeat
<1> QED
  BY <1>4, <1>5, <1>6, <1>7 DEF t

(* What moving on to the next slot does to a batch without repetitions. *)
LEMMA TailFacts ==
  ASSUME NEW S, NEW s \in Seq(S), s # <<>>
  PROVE  /\ Head(s) \in S /\ Tail(s) \in Seq(S)
         /\ Head(s) \in Elems(s)
         /\ NoRepeat(s) =>
              /\ NoRepeat(Tail(s))
              /\ \A y : y \in Elems(Tail(s)) <=> y \in Elems(s) /\ y # Head(s)
<1>1. /\ Len(s) \in Nat \ {0} /\ Head(s) = s[1] /\ Head(s) \in S
      /\ Tail(s) \in Seq(S) /\ Len(Tail(s)) = Len(s) - 1
      /\ \A i \in 1..(Len(s) - 1) : Tail(s)[i] = s[i + 1]
  OBVIOUS
<1> DEFINE t == Tail(s)
           h == Head(s)
<1> HIDE DEF t, h
<1>2. /\ Len(s) \in Nat \ {0} /\ h = s[1] /\ h \in S
      /\ t \in Seq(S) /\ Len(t) = Len(s) - 1
      /\ \A i \in 1..(Len(s) - 1) : t[i] = s[i + 1]
  BY <1>1 DEF t, h
<1>3. h \in Elems(s)
  BY <1>2 DEF Elems
<1>4. ASSUME NoRepeat(s) PROVE NoRepeat(t)
  <2>1. SUFFICES ASSUME NEW i \in 1..Len(t), NEW j \in 1..Len(t), t[i] = t[j] PROVE i = j
    BY DEF NoRepeat
  <2>2. /\ i + 1 \in 1..Len(s) /\ j + 1 \in 1..Len(s)
        /\ s[i + 1] = s[j + 1]
    BY <1>2, <2>1
  <2>3. i + 1 = j + 1
    BY <2>2, <1>4 DEF NoRepeat
  <2> QED
    BY <2>3, <1>2
<1>5. ASSUME NoRepeat(s), NEW y PROVE y \in Elems(t) <=> y \in Elems(s) /\ y # h
  <2>1. ASSUME y \in Elems(t) PROVE y \in Elems(s) /\ y # h
    <3>1. PICK i \in 1..Len(t) : y = t[i]
      BY <2>1 DEF Elems
    <3>2. i + 1 \in 1..Len(s) /\ y = s[i + 1] /\ i + 1 # 1 /\ 1 \in 1..Len(s)
      BY <3>1, <1>2
    <3> QED
      BY <3>2, <1>2, <1>5 DEF Elems, NoRepeat
  <2>2. ASSUME y \in Elems(s), y # h PROVE y \in Elems(t)
    <3>1. PICK i \in 1..Len(s) : y = s[i]
      BY <2>2 DEF Elems
    <3>2. i # 1
      BY <3>1, <2>2, <1>2
    <3>3. i - 1 \in 1..Len(t) /\ t[i - 1] = y
      BY <3>1, <3>2, <1>2
    <3> QED
      BY <3>3 DEF Elems
  <2> QED
    BY <2>1, <2>2
<1> QED
  BY <1>2, <1>3, <1>4, <1>5 DEF t, h

(* call() queues its slot or is turned away. *)
LEMMA SubmitPreserves ==
  ASSUME ExecutorInv, NEW d \in Calls, Submit(d)
  PROVE  ExecutorInv'
<1>1. TypeOK /\ PlacesInv /\ AnswersAreTrue
  BY DEF ExecutorInv
<1>2. \A c \in Calls : CallerInv(c) /\ SlotInv(c) /\ WorkInv(c)
  BY DEF ExecutorInv
<1>3. /\ Append(queue, d) \in Seq(Calls) /\ Append(queue, d) # <<>>
      /\ \A y : y \in Elems(Append(queue, d)) <=> y \in Elems(queue) \/ y = d
      /\ NoRepeat(queue) /\ d \notin Elems(queue) => NoRepeat(Append(queue, d))
  BY <1>1, AppendFacts DEF TypeOK
<1>4. TypeOK'
  BY <1>1, <1>3 DEF TypeOK, Submit, callerVars, slotVars, guiVars, historyVars, Answers,
     Reasons
<1>5. PlacesInv'
  BY <1>1, <1>3, <1>2 DEF TypeOK, PlacesInv, CallerInv, SlotInv, WorkInv, Placed,
     Publishing, Submit, callerVars, slotVars, guiVars, historyVars, Reasons
<1>6. ASSUME NEW c \in Calls PROVE (CallerInv(c) /\ SlotInv(c) /\ WorkInv(c))'
  <2>1. TypeOK /\ PlacesInv /\ CallerInv(c) /\ SlotInv(c) /\ WorkInv(c)
    BY <1>1, <1>2
  <2>2. /\ UNCHANGED <<done, abandoned, result, gui, fresh, batch, executed, ended, late>>
        /\ c # d => caller'[c] = caller[c] /\ answer'[c] = answer[c]
    BY <1>1 DEF Submit, TypeOK, callerVars, slotVars, guiVars, historyVars
  <2>3. CASE shuttingDown
    <3>1. /\ queue' = queue
          /\ c = d => caller[c] = "idle" /\ caller'[c] = "returned" /\ answer'[c] = "shutdown"
      BY <1>1, <2>3 DEF Submit, TypeOK
    <3> QED
      BY <2>1, <2>2, <3>1 DEF TypeOK, CallerInv, SlotInv, WorkInv, Placed, Publishing
  <2>4. CASE ~shuttingDown
    <3>1. /\ queue' = Append(queue, d) /\ answer' = answer
          /\ c = d => caller[c] = "idle" /\ caller'[c] = "waiting"
      BY <1>1, <2>4 DEF Submit, TypeOK
    <3>2. Placed(c)' <=> Placed(c) \/ c = d
      BY <1>3, <2>2, <3>1 DEF Placed
    <3> QED
      BY <2>1, <2>2, <3>1, <3>2 DEF TypeOK, CallerInv, SlotInv, WorkInv, Publishing
  <2> QED
    BY <2>3, <2>4
<1>7. AnswersAreTrue'
  BY <1>1, <1>3, <1>2 DEF TypeOK, AnswersAreTrue, CallerInv, SlotInv, WorkInv, Placed,
     Publishing, Submit, callerVars, slotVars, guiVars, historyVars, Answers, Reasons
<1> QED
  BY <1>4, <1>5, <1>6, <1>7 DEF ExecutorInv

(* call() returns the result of a slot that is done. *)
LEMMA ReceivePreserves ==
  ASSUME ExecutorInv, NEW d \in Calls, Receive(d)
  PROVE  ExecutorInv'
<1>1. TypeOK /\ PlacesInv /\ AnswersAreTrue
  BY DEF ExecutorInv
<1>2. \A c \in Calls : CallerInv(c) /\ SlotInv(c) /\ WorkInv(c)
  BY DEF ExecutorInv
<1>3. TypeOK'
  BY <1>1 DEF TypeOK, Receive, callerVars, slotVars, guiVars, historyVars, Answers, Reasons
<1>4. PlacesInv'
  BY <1>1, <1>2 DEF TypeOK, PlacesInv, CallerInv, SlotInv, WorkInv, Placed, Publishing,
     Receive, callerVars, slotVars, guiVars, historyVars, Reasons
<1>5. ASSUME NEW c \in Calls PROVE (CallerInv(c) /\ SlotInv(c) /\ WorkInv(c))'
  <2>1. CallerInv(c)'
    BY <1>1, <1>2 DEF TypeOK, PlacesInv, CallerInv, SlotInv, WorkInv, Placed,
       Publishing, Receive, callerVars, slotVars, guiVars, historyVars, Answers,
       Reasons
  <2>2. SlotInv(c)'
    BY <1>1, <1>2 DEF TypeOK, PlacesInv, CallerInv, SlotInv, WorkInv, Placed,
       Publishing, Receive, callerVars, slotVars, guiVars, historyVars, Answers,
       Reasons
  <2>3. WorkInv(c)'
    BY <1>1, <1>2 DEF TypeOK, PlacesInv, CallerInv, SlotInv, WorkInv, Placed,
       Publishing, Receive, callerVars, slotVars, guiVars, historyVars, Answers,
       Reasons
  <2> QED
    BY <2>1, <2>2, <2>3
<1>6. AnswersAreTrue'
  BY <1>1, <1>2 DEF TypeOK, AnswersAreTrue, CallerInv, SlotInv, WorkInv, Placed,
     Publishing, Receive, callerVars, slotVars, guiVars, historyVars, Answers, Reasons
<1> QED
  BY <1>3, <1>4, <1>5, <1>6 DEF ExecutorInv

(* call() gives up on a slot that is not done. *)
LEMMA TimeOutPreserves ==
  ASSUME ExecutorInv, NEW d \in Calls, TimeOut(d)
  PROVE  ExecutorInv'
<1>1. TypeOK /\ PlacesInv /\ AnswersAreTrue
  BY DEF ExecutorInv
<1>2. \A c \in Calls : CallerInv(c) /\ SlotInv(c) /\ WorkInv(c)
  BY DEF ExecutorInv
<1>3. TypeOK'
  BY <1>1 DEF TypeOK, TimeOut, callerVars, slotVars, guiVars, historyVars, Answers, Reasons
<1>4. PlacesInv'
  BY <1>1, <1>2 DEF TypeOK, PlacesInv, CallerInv, SlotInv, WorkInv, Placed, Publishing,
     TimeOut, callerVars, slotVars, guiVars, historyVars, Reasons
<1>5. ASSUME NEW c \in Calls PROVE (CallerInv(c) /\ SlotInv(c) /\ WorkInv(c))'
  <2>1. CallerInv(c)'
    BY <1>1, <1>2 DEF TypeOK, PlacesInv, CallerInv, SlotInv, WorkInv, Placed,
       Publishing, TimeOut, callerVars, slotVars, guiVars, historyVars, Answers,
       Reasons
  <2>2. SlotInv(c)'
    BY <1>1, <1>2 DEF TypeOK, PlacesInv, CallerInv, SlotInv, WorkInv, Placed,
       Publishing, TimeOut, callerVars, slotVars, guiVars, historyVars, Answers,
       Reasons
  <2>3. WorkInv(c)'
    BY <1>1, <1>2 DEF TypeOK, PlacesInv, CallerInv, SlotInv, WorkInv, Placed,
       Publishing, TimeOut, callerVars, slotVars, guiVars, historyVars, Answers,
       Reasons
  <2> QED
    BY <2>1, <2>2, <2>3
<1>6. AnswersAreTrue'
  BY <1>1, <1>2 DEF TypeOK, AnswersAreTrue, CallerInv, SlotInv, WorkInv, Placed,
     Publishing, TimeOut, callerVars, slotVars, guiVars, historyVars, Answers, Reasons
<1> QED
  BY <1>3, <1>4, <1>5, <1>6 DEF ExecutorInv

(* drain() swaps the queue out. *)
LEMMA DrainBeginPreserves ==
  ASSUME ExecutorInv, DrainBegin
  PROVE  ExecutorInv'
<1>1. TypeOK /\ PlacesInv /\ AnswersAreTrue
  BY DEF ExecutorInv
<1>2. \A c \in Calls : CallerInv(c) /\ SlotInv(c) /\ WorkInv(c)
  BY DEF ExecutorInv
<1>3. NoRepeat(<<>>) /\ \A y : y \notin Elems(<<>>)
  BY EmptyFacts
<1>4. TypeOK'
  BY <1>1, <1>3 DEF TypeOK, DrainBegin, TakeQueue, callerVars, slotVars, guiVars,
     historyVars, Answers, Reasons
<1>5. PlacesInv'
  BY <1>1, <1>3, <1>2 DEF TypeOK, PlacesInv, CallerInv, SlotInv, WorkInv, Placed,
     Publishing, DrainBegin, TakeQueue, callerVars, slotVars, guiVars, historyVars,
     Reasons
<1>6. ASSUME NEW c \in Calls PROVE (CallerInv(c) /\ SlotInv(c) /\ WorkInv(c))'
  <2>1. CallerInv(c)'
    BY <1>1, <1>3, <1>2 DEF TypeOK, PlacesInv, CallerInv, SlotInv, WorkInv, Placed,
       Publishing, DrainBegin, TakeQueue, callerVars, slotVars, guiVars, historyVars,
       Answers, Reasons
  <2>2. SlotInv(c)'
    BY <1>1, <1>3, <1>2 DEF TypeOK, PlacesInv, CallerInv, SlotInv, WorkInv, Placed,
       Publishing, DrainBegin, TakeQueue, callerVars, slotVars, guiVars, historyVars,
       Answers, Reasons
  <2>3. WorkInv(c)'
    BY <1>1, <1>3, <1>2 DEF TypeOK, PlacesInv, CallerInv, SlotInv, WorkInv, Placed,
       Publishing, DrainBegin, TakeQueue, callerVars, slotVars, guiVars, historyVars,
       Answers, Reasons
  <2> QED
    BY <2>1, <2>2, <2>3
<1>7. AnswersAreTrue'
  BY <1>1, <1>3, <1>2 DEF TypeOK, AnswersAreTrue, CallerInv, SlotInv, WorkInv, Placed,
     Publishing, DrainBegin, TakeQueue, callerVars, slotVars, guiVars, historyVars,
     Answers, Reasons
<1> QED
  BY <1>4, <1>5, <1>6, <1>7 DEF ExecutorInv

(* drain() skips a slot nobody waits for. *)
LEMMA CheckSlotPreserves ==
  ASSUME ExecutorInv, CheckSlot
  PROVE  ExecutorInv'
<1>1. TypeOK /\ PlacesInv /\ AnswersAreTrue
  BY DEF ExecutorInv
<1>2. \A c \in Calls : CallerInv(c) /\ SlotInv(c) /\ WorkInv(c)
  BY DEF ExecutorInv
<1>3. /\ batch # <<>>
      /\ Head(batch) \in Calls /\ Tail(batch) \in Seq(Calls)
      /\ Head(batch) \in Elems(batch) /\ NoRepeat(Tail(batch))
      /\ \A y : y \in Elems(Tail(batch)) <=> y \in Elems(batch) /\ y # Head(batch)
  BY <1>1, TailFacts DEF TypeOK, PlacesInv, CheckSlot, Reasons
<1>4. TypeOK'
  BY <1>1, <1>3 DEF TypeOK, CheckSlot, Discard, NextSlot, callerVars, slotVars, guiVars,
     historyVars, Answers, Reasons
<1>5. PlacesInv'
  BY <1>1, <1>3, <1>2 DEF TypeOK, PlacesInv, CallerInv, SlotInv, WorkInv, Placed,
     Publishing, CheckSlot, Discard, NextSlot, callerVars, slotVars, guiVars,
     historyVars, Reasons
<1>6. ASSUME NEW c \in Calls PROVE (CallerInv(c) /\ SlotInv(c) /\ WorkInv(c))'
  <2>1. TypeOK /\ PlacesInv /\ CallerInv(c) /\ SlotInv(c) /\ WorkInv(c) /\ CallerInv(Head(batch))
    BY <1>1, <1>2, <1>3
  <2>2. /\ UNCHANGED <<caller, answer, done, abandoned, queue, fresh, executed, ended, late>>
        /\ gui = "check"
    BY DEF CheckSlot, Discard, callerVars, slotVars, guiVars, historyVars
  <2>3. CASE abandoned[Head(batch)]
    <3>1. /\ batch' = Tail(batch) /\ gui' \in {"check", "idle"}
          /\ result'[c] = IF c = Head(batch) THEN "empty" ELSE result[c]
      BY <1>1, <1>3, <2>3 DEF CheckSlot, Discard, NextSlot, TypeOK
    <3>2. Placed(c)' <=> Placed(c) /\ c # Head(batch)
      BY <1>1, <1>3, <2>2, <3>1 DEF Placed, PlacesInv
    <3> QED
      BY <2>1, <2>2, <2>3, <3>1, <3>2 DEF TypeOK, CallerInv, SlotInv, WorkInv, Publishing
  <2>4. CASE ~abandoned[Head(batch)]
    <3>1. UNCHANGED <<batch, result>> /\ gui' = "run"
      BY <2>4 DEF CheckSlot
    <3> QED
      BY <2>1, <2>2, <3>1 DEF CallerInv, SlotInv, WorkInv, Placed, Publishing
  <2> QED
    BY <2>3, <2>4
<1>7. AnswersAreTrue'
  BY <1>1, <1>3, <1>2 DEF TypeOK, AnswersAreTrue, CallerInv, SlotInv, WorkInv, Placed,
     Publishing, CheckSlot, Discard, NextSlot, callerVars, slotVars, guiVars,
     historyVars, Answers, Reasons
<1> QED
  BY <1>4, <1>5, <1>6, <1>7 DEF ExecutorInv

(* One step of the tool. *)
LEMMA RunStepPreserves ==
  ASSUME ExecutorInv, RunStep
  PROVE  ExecutorInv'
<1>1. TypeOK /\ PlacesInv /\ AnswersAreTrue
  BY DEF ExecutorInv
<1>2. \A c \in Calls : CallerInv(c) /\ SlotInv(c) /\ WorkInv(c)
  BY DEF ExecutorInv
<1>3. /\ batch # <<>>
      /\ Head(batch) \in Calls /\ Tail(batch) \in Seq(Calls)
      /\ Head(batch) \in Elems(batch) /\ NoRepeat(Tail(batch))
      /\ \A y : y \in Elems(Tail(batch)) <=> y \in Elems(batch) /\ y # Head(batch)
  BY <1>1, TailFacts DEF TypeOK, PlacesInv, RunStep, Reasons
<1>4. TypeOK'
  <2>1. fresh' \in {"final", "resume"}
    BY DEF RunStep
  <2>2. /\ executed' \in [Calls -> Nat] /\ steps' \in [Calls -> Nat]
        /\ late' \in [Calls -> Nat] /\ ended' \in [Calls -> BOOLEAN]
    <3>1. executed' \in [Calls -> Nat]
      BY <1>1, <1>3 DEF RunStep, TypeOK
    <3>2. steps' \in [Calls -> Nat]
      BY <1>1, <1>3 DEF RunStep, TypeOK
    <3>3. late' \in [Calls -> Nat]
      BY <1>1, <1>3 DEF RunStep, TypeOK
    <3>4. ended' \in [Calls -> BOOLEAN]
      <4>1. ended' = [ended EXCEPT ![Head(batch)] = (fresh' = "final")]
        BY DEF RunStep
      <4>2. (fresh' = "final") \in BOOLEAN
        OBVIOUS
      <4> QED
        BY <1>1, <1>3, <4>1, <4>2, Zenon DEF TypeOK
    <3> QED
      BY <3>1, <3>2, <3>3, <3>4
  <2>3. /\ UNCHANGED <<caller, answer, done, abandoned, result, queue, shuttingDown, batch>>
        /\ gui' = "publish"
    BY DEF RunStep, callerVars, slotVars, guiVars, historyVars
  <2> QED
    BY <1>1, <1>3, <2>1, <2>2, <2>3 DEF TypeOK
<1>5. PlacesInv'
  BY <1>1, <1>3, <1>2 DEF TypeOK, PlacesInv, CallerInv, SlotInv, WorkInv, Placed,
     Publishing, RunStep, callerVars, slotVars, guiVars, historyVars, Reasons
<1>6. ASSUME NEW c \in Calls PROVE (CallerInv(c) /\ SlotInv(c) /\ WorkInv(c))'
  <2>1. TypeOK /\ PlacesInv /\ CallerInv(c) /\ SlotInv(c) /\ WorkInv(c)
    BY <1>1, <1>2
  <2>2. /\ UNCHANGED <<caller, answer, done, abandoned, result, queue, batch>>
        /\ gui = "run" /\ gui' = "publish"
    BY DEF RunStep, callerVars, slotVars, guiVars, historyVars
  <2>3. c # Head(batch) => executed'[c] = executed[c] /\ ended'[c] = ended[c] /\ late'[c] = late[c]
    BY <1>1, <1>3 DEF RunStep, TypeOK
  <2>4. c = Head(batch) =>
          /\ executed'[c] = IF result[c] = "resume" THEN executed[c] ELSE executed[c] + 1
          /\ ended'[c] = (fresh' = "final")
          /\ late'[c] = IF caller[c] = "returned" THEN late[c] + 1 ELSE late[c]
    BY <1>1, <1>3 DEF RunStep, TypeOK
  <2>5. Placed(c)' <=> Placed(c)
    BY <2>2 DEF Placed
  <2>6. c = Head(batch) => Placed(c)
    BY <1>3 DEF Placed
  <2>7. CallerInv(c)' /\ SlotInv(c)'
    BY <2>1, <2>2, <2>3, <2>4, <2>5, <2>6 DEF CallerInv, SlotInv
  <2>8. CASE c = Head(batch)
    <3>1. ~Publishing(c) /\ Placed(c) /\ Publishing(c)'
      BY <2>2, <2>6, <2>8 DEF Publishing
    <3>2. executed'[c] = 1
      BY <2>1, <2>4, <2>8, <3>1 DEF WorkInv
    <3>3. late'[c] <= 1 /\ (late'[c] # 0 => abandoned'[c])
      BY <2>1, <2>2, <2>4, <2>8, <3>1 DEF CallerInv, WorkInv
    <3>4. ended'[c] <=> fresh' = "final"
      BY <2>4, <2>8
    <3> QED
      BY <2>7, <3>1, <3>2, <3>3, <3>4 DEF WorkInv
  <2>9. CASE c # Head(batch)
    <3>1. ~Publishing(c) /\ ~Publishing(c)'
      BY <2>2, <2>9 DEF Publishing
    <3>2. WorkInv(c)'
      BY <2>1, <2>2, <2>3, <2>5, <2>9, <3>1 DEF WorkInv
    <3> QED
      BY <2>7, <3>2
  <2> QED
    BY <2>8, <2>9
<1>7. AnswersAreTrue'
  BY <1>1, <1>3, <1>2 DEF TypeOK, AnswersAreTrue, CallerInv, SlotInv, WorkInv, Placed,
     Publishing, RunStep, callerVars, slotVars, guiVars, historyVars, Answers, Reasons
<1> QED
  BY <1>4, <1>5, <1>6, <1>7 DEF ExecutorInv

(* The second look at the slot: deliver or forget. *)
LEMMA PublishPreserves ==
  ASSUME ExecutorInv, Publish
  PROVE  ExecutorInv'
<1>1. TypeOK /\ PlacesInv /\ AnswersAreTrue
  BY DEF ExecutorInv
<1>2. \A c \in Calls : CallerInv(c) /\ SlotInv(c) /\ WorkInv(c)
  BY DEF ExecutorInv
<1>3. /\ batch # <<>>
      /\ Head(batch) \in Calls /\ Tail(batch) \in Seq(Calls)
      /\ Head(batch) \in Elems(batch) /\ NoRepeat(Tail(batch))
      /\ \A y : y \in Elems(Tail(batch)) <=> y \in Elems(batch) /\ y # Head(batch)
  BY <1>1, TailFacts DEF TypeOK, PlacesInv, Publish, Reasons
<1>4. TypeOK'
  BY <1>1, <1>3 DEF TypeOK, Publish, Discard, Deliver, NextSlot, callerVars, slotVars,
     guiVars, historyVars, Answers, Reasons
<1>5. PlacesInv'
  BY <1>1, <1>3, <1>2 DEF TypeOK, PlacesInv, CallerInv, SlotInv, WorkInv, Placed,
     Publishing, Publish, Discard, Deliver, NextSlot, callerVars, slotVars, guiVars,
     historyVars, Reasons
<1>6. ASSUME NEW c \in Calls PROVE (CallerInv(c) /\ SlotInv(c) /\ WorkInv(c))'
  <2>1. TypeOK /\ PlacesInv /\ CallerInv(c) /\ SlotInv(c) /\ WorkInv(c)
    BY <1>1, <1>2
  <2>2. /\ UNCHANGED <<caller, answer, abandoned, queue, fresh, executed, ended, late>>
        /\ gui = "publish" /\ fresh \in {"final", "resume"}
        /\ c # Head(batch) => result'[c] = result[c] /\ done'[c] = done[c]
    BY <1>1, <1>3 DEF Publish, Discard, Deliver, PlacesInv, TypeOK, callerVars,
       slotVars, guiVars, historyVars
  <2>3. c = Head(batch) => Placed(c) /\ Publishing(c)
    BY <1>3, <2>2 DEF Placed, Publishing
  <2>4. ASSUME batch' = Tail(batch) PROVE Placed(c)' <=> Placed(c) /\ c # Head(batch)
    BY <1>1, <1>3, <2>2, <2>4 DEF Placed, PlacesInv
  <2>5. CASE abandoned[Head(batch)]
    <3>1. /\ batch' = Tail(batch) /\ gui' \in {"check", "idle"} /\ done' = done
          /\ c = Head(batch) => result'[c] = "empty"
      BY <1>1, <1>3, <2>5 DEF Publish, Discard, NextSlot, TypeOK
    <3> QED
      BY <2>1, <2>2, <2>3, <2>4, <2>5, <3>1 DEF TypeOK, CallerInv, SlotInv, WorkInv,
         Publishing
  <2>6. CASE ~abandoned[Head(batch)] /\ fresh = "final"
    <3>1. /\ batch' = Tail(batch) /\ gui' \in {"check", "idle"}
          /\ c = Head(batch) => result'[c] = "final" /\ done'[c] = TRUE
      BY <1>1, <1>3, <2>6 DEF Publish, Deliver, NextSlot, TypeOK
    <3> QED
      BY <2>1, <2>2, <2>3, <2>4, <2>6, <3>1 DEF TypeOK, CallerInv, SlotInv, WorkInv,
         Publishing
  <2>7. CASE ~abandoned[Head(batch)] /\ fresh = "resume"
    <3>1. /\ batch' = batch /\ gui' = "requeue"
          /\ c = Head(batch) => result'[c] = "resume" /\ done'[c] = FALSE
      BY <1>1, <1>3, <2>7 DEF Publish, Deliver, TypeOK
    <3>2. Placed(c)' <=> Placed(c)
      BY <2>2, <3>1 DEF Placed
    <3> QED
      BY <2>1, <2>2, <2>3, <2>7, <3>1, <3>2 DEF TypeOK, CallerInv, SlotInv, WorkInv,
         Publishing
  <2> QED
    BY <2>2, <2>5, <2>6, <2>7
<1>7. AnswersAreTrue'
  BY <1>1, <1>3, <1>2 DEF TypeOK, AnswersAreTrue, CallerInv, SlotInv, WorkInv, Placed,
     Publishing, Publish, Discard, Deliver, NextSlot, callerVars, slotVars, guiVars,
     historyVars, Answers, Reasons
<1> QED
  BY <1>4, <1>5, <1>6, <1>7 DEF ExecutorInv

(* A pending tool goes back to the queue. *)
LEMMA RequeuePreserves ==
  ASSUME ExecutorInv, Requeue
  PROVE  ExecutorInv'
<1>1. TypeOK /\ PlacesInv /\ AnswersAreTrue
  BY DEF ExecutorInv
<1>2. \A c \in Calls : CallerInv(c) /\ SlotInv(c) /\ WorkInv(c)
  BY DEF ExecutorInv
<1>3. /\ batch # <<>>
      /\ Head(batch) \in Calls /\ Tail(batch) \in Seq(Calls)
      /\ Head(batch) \in Elems(batch) /\ NoRepeat(Tail(batch))
      /\ \A y : y \in Elems(Tail(batch)) <=> y \in Elems(batch) /\ y # Head(batch)
  BY <1>1, TailFacts DEF TypeOK, PlacesInv, Requeue, Reasons
<1>4. /\ Append(queue, Head(batch)) \in Seq(Calls) /\ Append(queue, Head(batch)) # <<>>
      /\ \A y : y \in Elems(Append(queue, Head(batch))) <=> y \in Elems(queue) \/ y = Head(batch)
      /\ NoRepeat(queue) /\ Head(batch) \notin Elems(queue) => NoRepeat(Append(queue, Head(batch)))
  BY <1>1, <1>3, AppendFacts DEF TypeOK
<1>5. TypeOK'
  BY <1>1, <1>3, <1>4 DEF TypeOK, Requeue, NextSlot, callerVars, slotVars, guiVars,
     historyVars, Answers, Reasons
<1>6. PlacesInv'
  BY <1>1, <1>3, <1>4, <1>2 DEF TypeOK, PlacesInv, CallerInv, SlotInv, WorkInv, Placed,
     Publishing, Requeue, NextSlot, callerVars, slotVars, guiVars, historyVars, Reasons
<1>7. ASSUME NEW c \in Calls PROVE (CallerInv(c) /\ SlotInv(c) /\ WorkInv(c))'
  <2>1. CallerInv(c) /\ SlotInv(c) /\ WorkInv(c)
    BY <1>2
  <2>2. /\ UNCHANGED <<caller, answer, done, abandoned, result, fresh, executed, ended, late>>
        /\ gui = "requeue" /\ gui' \in {"check", "idle"}
        /\ batch' = Tail(batch) /\ queue' = Append(queue, Head(batch))
    BY DEF Requeue, NextSlot, callerVars, slotVars, guiVars, historyVars
  <2>3. Placed(c)' <=> Placed(c)
    BY <1>3, <1>4, <2>2 DEF Placed
  <2> QED
    BY <2>1, <2>2, <2>3 DEF CallerInv, SlotInv, WorkInv, Publishing
<1>8. AnswersAreTrue'
  BY <1>1, <1>3, <1>4, <1>2 DEF TypeOK, AnswersAreTrue, CallerInv, SlotInv, WorkInv,
     Placed, Publishing, Requeue, NextSlot, callerVars, slotVars, guiVars, historyVars,
     Answers, Reasons
<1> QED
  BY <1>5, <1>6, <1>7, <1>8 DEF ExecutorInv

(* cancelPending() swaps the queue out. *)
LEMMA CancelBeginPreserves ==
  ASSUME ExecutorInv, CancelBegin
  PROVE  ExecutorInv'
<1>1. TypeOK /\ PlacesInv /\ AnswersAreTrue
  BY DEF ExecutorInv
<1>2. \A c \in Calls : CallerInv(c) /\ SlotInv(c) /\ WorkInv(c)
  BY DEF ExecutorInv
<1>3. NoRepeat(<<>>) /\ \A y : y \notin Elems(<<>>)
  BY EmptyFacts
<1>4. TypeOK'
  BY <1>1, <1>3 DEF TypeOK, CancelBegin, TakeQueue, callerVars, slotVars, guiVars,
     historyVars, Answers, Reasons
<1>5. PlacesInv'
  BY <1>1, <1>3, <1>2 DEF TypeOK, PlacesInv, CallerInv, SlotInv, WorkInv, Placed,
     Publishing, CancelBegin, TakeQueue, callerVars, slotVars, guiVars, historyVars,
     Reasons
<1>6. ASSUME NEW c \in Calls PROVE (CallerInv(c) /\ SlotInv(c) /\ WorkInv(c))'
  <2>1. CallerInv(c)'
    BY <1>1, <1>3, <1>2 DEF TypeOK, PlacesInv, CallerInv, SlotInv, WorkInv, Placed,
       Publishing, CancelBegin, TakeQueue, callerVars, slotVars, guiVars, historyVars,
       Answers, Reasons
  <2>2. SlotInv(c)'
    BY <1>1, <1>3, <1>2 DEF TypeOK, PlacesInv, CallerInv, SlotInv, WorkInv, Placed,
       Publishing, CancelBegin, TakeQueue, callerVars, slotVars, guiVars, historyVars,
       Answers, Reasons
  <2>3. WorkInv(c)'
    BY <1>1, <1>3, <1>2 DEF TypeOK, PlacesInv, CallerInv, SlotInv, WorkInv, Placed,
       Publishing, CancelBegin, TakeQueue, callerVars, slotVars, guiVars, historyVars,
       Answers, Reasons
  <2> QED
    BY <2>1, <2>2, <2>3
<1>7. AnswersAreTrue'
  BY <1>1, <1>3, <1>2 DEF TypeOK, AnswersAreTrue, CallerInv, SlotInv, WorkInv, Placed,
     Publishing, CancelBegin, TakeQueue, callerVars, slotVars, guiVars, historyVars,
     Answers, Reasons
<1> QED
  BY <1>4, <1>5, <1>6, <1>7 DEF ExecutorInv

(* shutdown() raises its flag. *)
LEMMA ShutdownBeginPreserves ==
  ASSUME ExecutorInv, ShutdownBegin
  PROVE  ExecutorInv'
<1>1. TypeOK /\ PlacesInv /\ AnswersAreTrue
  BY DEF ExecutorInv
<1>2. \A c \in Calls : CallerInv(c) /\ SlotInv(c) /\ WorkInv(c)
  BY DEF ExecutorInv
<1>3. TypeOK'
  BY <1>1 DEF TypeOK, ShutdownBegin, callerVars, slotVars, guiVars, historyVars,
     Answers, Reasons
<1>4. PlacesInv'
  BY <1>1, <1>2 DEF TypeOK, PlacesInv, CallerInv, SlotInv, WorkInv, Placed, Publishing,
     ShutdownBegin, callerVars, slotVars, guiVars, historyVars, Reasons
<1>5. ASSUME NEW c \in Calls PROVE (CallerInv(c) /\ SlotInv(c) /\ WorkInv(c))'
  <2>1. CallerInv(c)'
    BY <1>1, <1>2 DEF TypeOK, PlacesInv, CallerInv, SlotInv, WorkInv, Placed,
       Publishing, ShutdownBegin, callerVars, slotVars, guiVars, historyVars, Answers,
       Reasons
  <2>2. SlotInv(c)'
    BY <1>1, <1>2 DEF TypeOK, PlacesInv, CallerInv, SlotInv, WorkInv, Placed,
       Publishing, ShutdownBegin, callerVars, slotVars, guiVars, historyVars, Answers,
       Reasons
  <2>3. WorkInv(c)'
    BY <1>1, <1>2 DEF TypeOK, PlacesInv, CallerInv, SlotInv, WorkInv, Placed,
       Publishing, ShutdownBegin, callerVars, slotVars, guiVars, historyVars, Answers,
       Reasons
  <2> QED
    BY <2>1, <2>2, <2>3
<1>6. AnswersAreTrue'
  BY <1>1, <1>2 DEF TypeOK, AnswersAreTrue, CallerInv, SlotInv, WorkInv, Placed,
     Publishing, ShutdownBegin, callerVars, slotVars, guiVars, historyVars, Answers,
     Reasons
<1> QED
  BY <1>3, <1>4, <1>5, <1>6 DEF ExecutorInv

(* shutdown() cancels what is queued. *)
LEMMA ShutdownCancelsPreserves ==
  ASSUME ExecutorInv, ShutdownCancels
  PROVE  ExecutorInv'
<1>1. TypeOK /\ PlacesInv /\ AnswersAreTrue
  BY DEF ExecutorInv
<1>2. \A c \in Calls : CallerInv(c) /\ SlotInv(c) /\ WorkInv(c)
  BY DEF ExecutorInv
<1>3. NoRepeat(<<>>) /\ \A y : y \notin Elems(<<>>)
  BY EmptyFacts
<1>4. TypeOK'
  BY <1>1, <1>3 DEF TypeOK, ShutdownCancels, TakeQueue, callerVars, slotVars, guiVars,
     historyVars, Answers, Reasons
<1>5. PlacesInv'
  BY <1>1, <1>3, <1>2 DEF TypeOK, PlacesInv, CallerInv, SlotInv, WorkInv, Placed,
     Publishing, ShutdownCancels, TakeQueue, callerVars, slotVars, guiVars, historyVars,
     Reasons
<1>6. ASSUME NEW c \in Calls PROVE (CallerInv(c) /\ SlotInv(c) /\ WorkInv(c))'
  <2>1. CallerInv(c)'
    BY <1>1, <1>3, <1>2 DEF TypeOK, PlacesInv, CallerInv, SlotInv, WorkInv, Placed,
       Publishing, ShutdownCancels, TakeQueue, callerVars, slotVars, guiVars,
       historyVars, Answers, Reasons
  <2>2. SlotInv(c)'
    BY <1>1, <1>3, <1>2 DEF TypeOK, PlacesInv, CallerInv, SlotInv, WorkInv, Placed,
       Publishing, ShutdownCancels, TakeQueue, callerVars, slotVars, guiVars,
       historyVars, Answers, Reasons
  <2>3. WorkInv(c)'
    BY <1>1, <1>3, <1>2 DEF TypeOK, PlacesInv, CallerInv, SlotInv, WorkInv, Placed,
       Publishing, ShutdownCancels, TakeQueue, callerVars, slotVars, guiVars,
       historyVars, Answers, Reasons
  <2> QED
    BY <2>1, <2>2, <2>3
<1>7. AnswersAreTrue'
  BY <1>1, <1>3, <1>2 DEF TypeOK, AnswersAreTrue, CallerInv, SlotInv, WorkInv, Placed,
     Publishing, ShutdownCancels, TakeQueue, callerVars, slotVars, guiVars, historyVars,
     Answers, Reasons
<1> QED
  BY <1>4, <1>5, <1>6, <1>7 DEF ExecutorInv

(* A queued slot is failed. *)
LEMMA CancelSlotPreserves ==
  ASSUME ExecutorInv, CancelSlot
  PROVE  ExecutorInv'
<1>1. TypeOK /\ PlacesInv /\ AnswersAreTrue
  BY DEF ExecutorInv
<1>2. \A c \in Calls : CallerInv(c) /\ SlotInv(c) /\ WorkInv(c)
  BY DEF ExecutorInv
<1>3. /\ batch # <<>>
      /\ Head(batch) \in Calls /\ Tail(batch) \in Seq(Calls)
      /\ Head(batch) \in Elems(batch) /\ NoRepeat(Tail(batch))
      /\ \A y : y \in Elems(Tail(batch)) <=> y \in Elems(batch) /\ y # Head(batch)
  BY <1>1, TailFacts DEF TypeOK, PlacesInv, CancelSlot, Reasons
<1>4. TypeOK'
  BY <1>1, <1>3 DEF TypeOK, CancelSlot, Fail, NextSlot, callerVars, slotVars, guiVars,
     historyVars, Answers, Reasons
<1>5. PlacesInv'
  BY <1>1, <1>3, <1>2 DEF TypeOK, PlacesInv, CallerInv, SlotInv, WorkInv, Placed,
     Publishing, CancelSlot, Fail, NextSlot, callerVars, slotVars, guiVars, historyVars,
     Reasons
<1>6. ASSUME NEW c \in Calls PROVE (CallerInv(c) /\ SlotInv(c) /\ WorkInv(c))'
  <2>1. TypeOK /\ PlacesInv /\ CallerInv(c) /\ SlotInv(c) /\ WorkInv(c)
    BY <1>1, <1>2
  <2>2. /\ UNCHANGED <<caller, answer, abandoned, queue, fresh, executed, ended, late>>
        /\ gui \in Reasons /\ gui' \in {"cancelled", "shutdown", "down", "idle"}
        /\ batch' = Tail(batch)
    BY DEF CancelSlot, Fail, NextSlot, Reasons, callerVars, slotVars, guiVars, historyVars
  <2>3. /\ c # Head(batch) => result'[c] = result[c] /\ done'[c] = done[c]
        /\ c = Head(batch) => result'[c] = gui /\ done'[c] = TRUE
    BY <1>1, <1>3 DEF CancelSlot, Fail, TypeOK
  <2>4. Placed(c)' <=> Placed(c) /\ c # Head(batch)
    BY <1>1, <1>3, <2>2 DEF Placed, PlacesInv
  <2>5. c = Head(batch) => Placed(c) /\ ~Publishing(c)
    BY <1>3, <2>2 DEF Placed, Publishing, Reasons
  <2> QED
    BY <2>1, <2>2, <2>3, <2>4, <2>5 DEF TypeOK, CallerInv, SlotInv, WorkInv,
       Publishing, Reasons
<1>7. AnswersAreTrue'
  BY <1>1, <1>3, <1>2 DEF TypeOK, AnswersAreTrue, CallerInv, SlotInv, WorkInv, Placed,
     Publishing, CancelSlot, Fail, NextSlot, callerVars, slotVars, guiVars, historyVars,
     Answers, Reasons
<1> QED
  BY <1>4, <1>5, <1>6, <1>7 DEF ExecutorInv

(* A new executor satisfies the invariant. *)
LEMMA InitEstablishes == Init => ExecutorInv
<1> SUFFICES ASSUME Init PROVE ExecutorInv
  OBVIOUS
<1>1. NoRepeat(<<>>) /\ \A y : y \notin Elems(<<>>)
  BY EmptyFacts
<1>2. TypeOK
  <2>1. queue \in Seq(Calls) /\ batch \in Seq(Calls)
    BY DEF Init
  <2>2. /\ done \in [Calls -> BOOLEAN] /\ abandoned \in [Calls -> BOOLEAN]
        /\ ended \in [Calls -> BOOLEAN] /\ shuttingDown \in BOOLEAN
    BY DEF Init
  <2>3. /\ executed \in [Calls -> Nat] /\ steps \in [Calls -> Nat] /\ late \in [Calls -> Nat]
    BY DEF Init
  <2>4. /\ caller \in [Calls -> {"idle", "waiting", "returned"}]
        /\ answer \in [Calls -> Answers \cup {"none", "empty", "resume"}]
        /\ result \in [Calls -> {"empty", "resume", "final"} \cup Reasons]
        /\ gui = "idle" /\ fresh = "empty" /\ batch = <<>>
    BY DEF Init
  <2> QED
    BY <2>1, <2>2, <2>3, <2>4 DEF TypeOK
<1>3. PlacesInv /\ AnswersAreTrue
  BY <1>1 DEF Init, PlacesInv, AnswersAreTrue, Reasons
<1>4. ASSUME NEW c \in Calls PROVE CallerInv(c) /\ SlotInv(c) /\ WorkInv(c)
  BY <1>1 DEF Init, CallerInv, SlotInv, WorkInv, Placed, Publishing
<1> QED
  BY <1>2, <1>3, <1>4 DEF ExecutorInv

(* A step of somebody else changes nothing the invariant speaks of. *)
LEMMA StutterPreserves ==
  ASSUME ExecutorInv, UNCHANGED execVars
  PROVE  ExecutorInv'
<1>1. UNCHANGED <<caller, answer, queue, shuttingDown, done, abandoned, result,
                  gui, batch, fresh, executed, steps, ended, late>>
  BY DEF execVars, callerVars, slotVars, guiVars, historyVars
<1>2. TypeOK' /\ PlacesInv' /\ AnswersAreTrue'
  BY <1>1 DEF ExecutorInv, TypeOK, PlacesInv, AnswersAreTrue
<1>3. ASSUME NEW c \in Calls PROVE (CallerInv(c) /\ SlotInv(c) /\ WorkInv(c))'
  BY <1>1 DEF ExecutorInv, CallerInv, SlotInv, WorkInv, Placed, Publishing
<1> QED
  BY <1>2, <1>3 DEF ExecutorInv

(* A slot is in one place at most and its fields agree with that place, for
   every interleaving of callers, drains, cancels and a shutdown. *)
THEOREM ExecutorInvariant == Spec => []ExecutorInv
<1>1. ExecutorInv /\ [Next]_execVars => ExecutorInv'
  <2> SUFFICES ASSUME ExecutorInv, [Next]_execVars PROVE ExecutorInv'
    OBVIOUS
  <2>1. CASE CallerStep
    BY <2>1, SubmitPreserves, ReceivePreserves, TimeOutPreserves DEF CallerStep
  <2>2. CASE Drain
    BY <2>2, DrainBeginPreserves, CheckSlotPreserves, RunStepPreserves, PublishPreserves,
       RequeuePreserves DEF Drain
  <2>3. CASE CancelBegin \/ CancelSlot
    BY <2>3, CancelBeginPreserves, CancelSlotPreserves
  <2>4. CASE Shutdown
    BY <2>4, ShutdownBeginPreserves, ShutdownCancelsPreserves DEF Shutdown
  <2>5. CASE UNCHANGED execVars
    BY <2>5, StutterPreserves
  <2> QED
    BY <2>1, <2>2, <2>3, <2>4, <2>5 DEF Next
<1> QED
  BY <1>1, InitEstablishes, PTL DEF Spec

(* The executor's state keeps the types of the members it models. *)
THEOREM ExecutorTypeCorrect == Spec => []TypeOK
<1>1. ExecutorInv => TypeOK
  BY DEF ExecutorInv
<1> QED
  BY <1>1, ExecutorInvariant, PTL

(* drain() executes a tool at most once, however its continuation is requeued. *)
THEOREM ExecutedOnceHolds == Spec => []ExecutedOnce
<1>1. ExecutorInv => ExecutedOnce
  BY DEF ExecutorInv, WorkInv, ExecutedOnce
<1> QED
  BY <1>1, ExecutorInvariant, PTL

(* What call() returns is what happened to the tool. *)
THEOREM AnswersAreTrueHolds == Spec => []AnswersAreTrue
<1>1. ExecutorInv => AnswersAreTrue
  BY DEF ExecutorInv
<1> QED
  BY <1>1, ExecutorInvariant, PTL

(* After call() has returned, drain() runs at most the step it had already
   chosen, and that one only for a caller that timed out. *)
THEOREM NoWorkAfterAnswerHolds == Spec => []NoWorkAfterAnswer
<1>1. ExecutorInv => NoWorkAfterAnswer
  <2> SUFFICES ASSUME ExecutorInv, NEW c \in Calls
               PROVE  late[c] <= IF answer[c] = "timeout" THEN 1 ELSE 0
    BY DEF NoWorkAfterAnswer
  <2>1. late[c] \in Nat /\ late[c] <= 1
    BY DEF ExecutorInv, TypeOK, WorkInv
  <2>2. late[c] # 0 => answer[c] = "timeout"
    BY DEF ExecutorInv, WorkInv, CallerInv
  <2> QED
    BY <2>1, <2>2
<1> QED
  BY <1>1, ExecutorInvariant, PTL

(* After shutdown() no caller waits for the GUI thread and no slot keeps a
   continuation. *)
THEOREM ShutdownReleasesHolds == Spec => []ShutdownReleases
<1>1. ExecutorInv => ShutdownReleases
  <2> SUFFICES ASSUME ExecutorInv, gui = "down", NEW c \in Calls
               PROVE  (caller[c] = "waiting" => done[c]) /\ result[c] # "resume"
    BY DEF ShutdownReleases
  <2>1. queue = <<>> /\ batch = <<>>
    BY DEF ExecutorInv, TypeOK, PlacesInv
  <2>2. ~Placed(c)
    BY <2>1, EmptyFacts DEF Placed
  <2> QED
    BY <2>2 DEF ExecutorInv, CallerInv, SlotInv
<1> QED
  BY <1>1, ExecutorInvariant, PTL

=============================================================================
