---------------------------- MODULE GuiExecutor ----------------------------
(***************************************************************************)
(* GuiExecutor (toolbox_assistant_agent/src/gui_executor.hpp): marshals    *)
(* tool calls from worker and MCP threads onto the GUI thread.  A caller   *)
(* queues a slot and waits for it, with a timeout; the GUI thread drains   *)
(* the queue on a tick, cancels what is pending, or shuts down.  One       *)
(* action per critical section, so every interleaving of the locks mu_ and *)
(* slot->mu is a behaviour.  A tool may answer with a continuation, which  *)
(* the next drain resumes.                                                 *)
(***************************************************************************)
EXTENDS Naturals, Sequences

CONSTANTS
  Calls,      \* tool calls: each is made once, by some thread
  MaxSteps    \* bound: steps of one tool, the first one included

ASSUME ExecutorAssumption == MaxSteps \in Nat \ {0}

VARIABLES
  caller,        \* "idle", "waiting" or "returned"
  answer,        \* what call() returned
  queue,         \* queue_
  shuttingDown,  \* shutting_down_
  done,          \* slot->done
  abandoned,     \* slot->abandoned
  result,        \* slot->result: "empty", a continuation, or an answer
  gui,           \* where the GUI thread is
  batch,         \* the slots this drain or cancel took
  fresh,         \* the result of the step that just ran
  executed,      \* history: runs of registry.execute
  steps,         \* history: steps of the tool, continuations included
  ended,         \* history: the tool ran to its end
  late           \* history: steps begun after call() had returned

callerVars == <<caller, answer>>
slotVars == <<done, abandoned, result>>
guiVars == <<gui, batch, fresh>>
historyVars == <<executed, steps, ended, late>>
execVars == <<callerVars, slotVars, guiVars, historyVars, queue, shuttingDown>>

Reasons == {"cancelled", "shutdown"}
Answers == {"final", "timeout"} \cup Reasons

(***************************************************************************)
(* call(), on a worker or MCP thread.                                      *)
(***************************************************************************)
Submit(c) ==
  /\ caller[c] = "idle"
  /\ UNCHANGED <<slotVars, guiVars, historyVars, shuttingDown>>
  /\ \/ /\ shuttingDown
        /\ caller' = [caller EXCEPT ![c] = "returned"]
        /\ answer' = [answer EXCEPT ![c] = "shutdown"]
        /\ UNCHANGED queue
     \/ /\ ~shuttingDown
        /\ caller' = [caller EXCEPT ![c] = "waiting"]
        /\ queue' = Append(queue, c)
        /\ UNCHANGED answer

(* Mutant: the caller is woken by the result of its tool only. *)
MutIgnoresCancel(c) ==
  /\ caller[c] = "waiting" /\ done[c] /\ result[c] = "final"
  /\ caller' = [caller EXCEPT ![c] = "returned"]
  /\ answer' = [answer EXCEPT ![c] = result[c]]
  /\ result' = [result EXCEPT ![c] = "empty"]
  /\ UNCHANGED <<done, abandoned, guiVars, historyVars, queue, shuttingDown>>

Receive(c) ==
  /\ caller[c] = "waiting" /\ done[c]
  /\ caller' = [caller EXCEPT ![c] = "returned"]
  /\ answer' = [answer EXCEPT ![c] = result[c]]
  /\ result' = [result EXCEPT ![c] = "empty"]
  /\ UNCHANGED <<done, abandoned, guiVars, historyVars, queue, shuttingDown>>

(* Mutant: the slot is not marked when its caller walks away. *)
MutTimeOutLeavesSlot(c) ==
  /\ caller[c] = "waiting" /\ ~done[c]
  /\ caller' = [caller EXCEPT ![c] = "returned"]
  /\ answer' = [answer EXCEPT ![c] = "timeout"]
  /\ UNCHANGED <<slotVars, guiVars, historyVars, queue, shuttingDown>>

TimeOut(c) ==
  /\ caller[c] = "waiting" /\ ~done[c]
  /\ caller' = [caller EXCEPT ![c] = "returned"]
  /\ answer' = [answer EXCEPT ![c] = "timeout"]
  /\ abandoned' = [abandoned EXCEPT ![c] = TRUE]
  /\ UNCHANGED <<done, result, guiVars, historyVars, queue, shuttingDown>>

(***************************************************************************)
(* drain(), on the GUI thread: swap the queue out, then for every slot     *)
(* look whether somebody still waits, run one step of the tool unlocked,   *)
(* look again and publish.                                                 *)
(***************************************************************************)
TakeQueue(pc) ==
  /\ batch' = queue
  /\ queue' = <<>>
  /\ gui' = pc

(* The loop moves on; where it ends the thread goes to rest. *)
NextSlot(pc, rest) ==
  /\ batch' = Tail(batch)
  /\ gui' = IF Tail(batch) = <<>> THEN rest ELSE pc

DrainBegin ==
  /\ gui = "idle" /\ queue # <<>>
  /\ TakeQueue("check")
  /\ UNCHANGED <<callerVars, slotVars, fresh, historyVars, shuttingDown>>

(* Forget a slot nobody waits for. *)
Discard(c) ==
  /\ result' = [result EXCEPT ![c] = "empty"]
  /\ UNCHANGED done
  /\ NextSlot("check", "idle")

CheckSlot ==
  /\ gui = "check"
  /\ LET c == Head(batch)
     IN  \/ /\ abandoned[c]
            /\ Discard(c)
         \/ /\ ~abandoned[c]
            /\ gui' = "run"
            /\ UNCHANGED <<batch, done, result>>
  /\ UNCHANGED <<abandoned, fresh, callerVars, historyVars, queue, shuttingDown>>

(* The tool itself, or its continuation; a throw is an answer too. *)
RunStep ==
  /\ gui = "run"
  /\ gui' = "publish"
  /\ LET c == Head(batch)
     IN  /\ fresh' \in IF steps[c] + 1 < MaxSteps THEN {"final", "resume"} ELSE {"final"}
         /\ executed' = [executed EXCEPT ![c] = IF result[c] = "resume" THEN @ ELSE @ + 1]
         /\ steps' = [steps EXCEPT ![c] = @ + 1]
         /\ ended' = [ended EXCEPT ![c] = (fresh' = "final")]
         /\ late' = [late EXCEPT ![c] = IF caller[c] = "returned" THEN @ + 1 ELSE @]
  /\ UNCHANGED <<batch, callerVars, slotVars, queue, shuttingDown>>

(* Mutant: a slot is done although its tool asked to be resumed. *)
MutAnswersTooSoon(c) ==
  /\ result' = [result EXCEPT ![c] = fresh]
  /\ done' = [done EXCEPT ![c] = TRUE]
  /\ NextSlot("check", "idle")

(* Mutant: the continuation is not kept. *)
MutForgetsContinuation(c) ==
  /\ result' = [result EXCEPT ![c] = IF fresh = "final" THEN fresh ELSE "empty"]
  /\ done' = [done EXCEPT ![c] = (fresh = "final")]
  /\ IF fresh = "final" THEN NextSlot("check", "idle")
                        ELSE gui' = "requeue" /\ UNCHANGED batch

Deliver(c) ==
  /\ result' = [result EXCEPT ![c] = fresh]
  /\ done' = [done EXCEPT ![c] = (fresh = "final")]
  /\ IF fresh = "final" THEN NextSlot("check", "idle")
                        ELSE gui' = "requeue" /\ UNCHANGED batch

Publish ==
  /\ gui = "publish"
  /\ LET c == Head(batch)
     IN  IF abandoned[c] THEN Discard(c) ELSE Deliver(c)
  /\ UNCHANGED <<abandoned, fresh, callerVars, historyVars, queue, shuttingDown>>

Requeue ==
  /\ gui = "requeue"
  /\ queue' = Append(queue, Head(batch))
  /\ NextSlot("check", "idle")
  /\ UNCHANGED <<fresh, callerVars, slotVars, historyVars, shuttingDown>>

(***************************************************************************)
(* cancelPending() and shutdown(), on the GUI thread.                      *)
(***************************************************************************)
CancelBegin ==
  /\ gui = "idle" /\ queue # <<>>
  /\ TakeQueue("cancelled")
  /\ UNCHANGED <<callerVars, slotVars, fresh, historyVars, shuttingDown>>

(* Mutant: pending calls are cancelled but new ones still accepted. *)
MutStillAccepts ==
  /\ gui = "idle"
  /\ gui' = "flagged"
  /\ UNCHANGED <<batch, fresh, callerVars, slotVars, historyVars, queue, shuttingDown>>

ShutdownBegin ==
  /\ gui = "idle"
  /\ gui' = "flagged"
  /\ shuttingDown' = TRUE
  /\ UNCHANGED <<batch, fresh, callerVars, slotVars, historyVars, queue>>

ShutdownCancels ==
  /\ gui = "flagged"
  /\ TakeQueue(IF queue = <<>> THEN "down" ELSE "shutdown")
  /\ UNCHANGED <<callerVars, slotVars, fresh, historyVars, shuttingDown>>

Fail(c) ==
  /\ done' = [done EXCEPT ![c] = TRUE]
  /\ result' = [result EXCEPT ![c] = gui]

CancelSlot ==
  /\ gui \in Reasons
  /\ Fail(Head(batch))
  /\ NextSlot(gui, IF gui = "shutdown" THEN "down" ELSE "idle")
  /\ UNCHANGED <<abandoned, fresh, callerVars, historyVars, queue, shuttingDown>>

---------------------------------------------------------------------------
Init ==
  /\ caller = [c \in Calls |-> "idle"]
  /\ answer = [c \in Calls |-> "none"]
  /\ queue = <<>> /\ shuttingDown = FALSE
  /\ done = [c \in Calls |-> FALSE]
  /\ abandoned = [c \in Calls |-> FALSE]
  /\ result = [c \in Calls |-> "empty"]
  /\ gui = "idle" /\ batch = <<>> /\ fresh = "empty"
  /\ executed = [c \in Calls |-> 0]
  /\ steps = [c \in Calls |-> 0]
  /\ ended = [c \in Calls |-> FALSE]
  /\ late = [c \in Calls |-> 0]

Drain == DrainBegin \/ CheckSlot \/ RunStep \/ Publish \/ Requeue
Shutdown == ShutdownBegin \/ ShutdownCancels
CallerStep == \E c \in Calls : Submit(c) \/ Receive(c) \/ TimeOut(c)

Next == CallerStep \/ Drain \/ CancelBegin \/ CancelSlot \/ Shutdown

Spec == Init /\ [][Next]_execVars

(* The panel ticks, what it started it finishes, and a woken caller runs.
   Nothing is assumed of timeouts. *)
Fairness ==
  /\ WF_execVars(Drain)
  /\ WF_execVars(CancelSlot \/ ShutdownCancels)
  /\ WF_execVars(\E c \in Calls : Receive(c))

FairSpec == Spec /\ Fairness

---------------------------------------------------------------------------
(* The state has the types of the members it models, and a batch is being
   worked on exactly where the code is inside a loop. *)
TypeOK ==
  /\ caller \in [Calls -> {"idle", "waiting", "returned"}]
  /\ answer \in [Calls -> Answers \cup {"none", "empty", "resume"}]
  /\ queue \in Seq(Calls) /\ batch \in Seq(Calls)
  /\ shuttingDown \in BOOLEAN
  /\ done \in [Calls -> BOOLEAN] /\ abandoned \in [Calls -> BOOLEAN]
  /\ result \in [Calls -> {"empty", "resume", "final"} \cup Reasons]
  /\ gui \in {"idle", "check", "run", "publish", "requeue", "flagged", "down"} \cup Reasons
  /\ fresh \in {"empty", "resume", "final"}
  /\ executed \in [Calls -> Nat] /\ steps \in [Calls -> Nat]
  /\ ended \in [Calls -> BOOLEAN] /\ late \in [Calls -> Nat]
  /\ batch = <<>> <=> gui \in {"idle", "flagged", "down"}

(* A tool is executed at most once, however many ticks its continuation
   takes: what follows the first run is a resume. *)
ExecutedOnce == \A c \in Calls : executed[c] <= 1

(* What call() returned is true: a result is that of a tool that ran to its
   end, and the tool of a cancelled or rejected call never does. *)
AnswersAreTrue ==
  \A c \in Calls :
    /\ answer[c] \in Reasons => ~ended[c]
    /\ answer[c] \notin Reasons \cup {"none", "timeout"} => answer[c] = "final" /\ ended[c]

(* Once a call has returned its tool does not go on: only the one step the
   GUI thread had already chosen when the caller timed out still runs. *)
NoWorkAfterAnswer ==
  \A c \in Calls : late[c] <= IF answer[c] = "timeout" THEN 1 ELSE 0

(* After shutdown nobody is left waiting for the GUI thread, and no slot
   holds a continuation into host services that are going away. *)
ShutdownReleases ==
  gui = "down" =>
    \A c \in Calls : (caller[c] = "waiting" => done[c]) /\ result[c] # "resume"

(***************************************************************************)
(* The invariant the proofs rest on: where a slot is, and what its fields  *)
(* then say.  A slot is placed while it is in queue_ or in the batch the   *)
(* GUI thread works on, and in one place only.                             *)
(***************************************************************************)
Elems(s) == {s[i] : i \in 1..Len(s)}
NoRepeat(s) == \A i, j \in 1..Len(s) : s[i] = s[j] => i = j
Placed(c) == c \in Elems(queue) \/ c \in Elems(batch)
Publishing(c) == gui = "publish" /\ c = Head(batch)

PlacesInv ==
  /\ NoRepeat(queue) /\ NoRepeat(batch)
  /\ \A c \in Calls : ~(c \in Elems(queue) /\ c \in Elems(batch))
  /\ shuttingDown <=> gui \in {"flagged", "shutdown", "down"}
  /\ gui \in {"shutdown", "down"} => queue = <<>>
  /\ gui = "publish" => fresh # "empty"

CallerInv(c) ==
  /\ caller[c] = "returned" <=> answer[c] # "none"
  /\ abandoned[c] <=> answer[c] = "timeout"
  /\ caller[c] = "idle" =>
       ~Placed(c) /\ ~done[c] /\ result[c] = "empty" /\ executed[c] = 0 /\ late[c] = 0 /\ ~ended[c]
  /\ caller[c] = "waiting" => done[c] \/ Placed(c)
  /\ Placed(c) => answer[c] \in {"none", "timeout"}

SlotInv(c) ==
  /\ Placed(c) => ~done[c] /\ result[c] \in {"empty", "resume"}
  /\ result[c] = "resume" => Placed(c)
  /\ caller[c] = "waiting" /\ done[c] =>
       (result[c] = "final" /\ ended[c]) \/ (result[c] \in Reasons /\ ~ended[c])

WorkInv(c) ==
  /\ executed[c] <= 1 /\ late[c] <= 1
  /\ late[c] # 0 => abandoned[c]
  /\ Placed(c) /\ ~Publishing(c) =>
       executed[c] = (IF result[c] = "resume" THEN 1 ELSE 0) /\ ~ended[c] /\ late[c] = 0
  /\ Publishing(c) => executed[c] = 1 /\ (ended[c] <=> fresh = "final")

ExecutorInv ==
  /\ TypeOK /\ PlacesInv /\ AnswersAreTrue
  /\ \A c \in Calls : CallerInv(c) /\ SlotInv(c) /\ WorkInv(c)

(* While the panel ticks, every call returns without help of its timeout. *)
CallsReturn == \A c \in Calls : caller[c] = "waiting" ~> caller[c] = "returned"

===========================================================================
