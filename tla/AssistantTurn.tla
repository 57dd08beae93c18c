--------------------------- MODULE AssistantTurn ---------------------------
(***************************************************************************)
(* A turn of the assistant panel (toolbox_assistant_agent/src/             *)
(* assistant_dialog.cpp, claude_backend.cpp, subprocess.hpp): the GUI      *)
(* thread, the worker thread with its command and event queues, the CLI    *)
(* process a turn runs, and the MCP threads that carry the CLI's tool      *)
(* calls to the GUI thread through a GuiExecutor.  Which conversation the  *)
(* turn belongs to is the subject of AssistantConversations.               *)
(***************************************************************************)
EXTENDS Naturals, Sequences

CONSTANTS
  Calls,      \* tool calls the CLI may make
  MaxSteps,   \* bound: steps of one tool
  MaxTurns,   \* bound: messages the user sends
  MaxProbes   \* bound: settings commits, each of which probes the CLI

ASSUME TurnAssumption ==
  MaxSteps \in Nat \ {0} /\ MaxTurns \in Nat /\ MaxProbes \in Nat

VARIABLES
  caller, answer, queue, shuttingDown, done, abandoned, result, gui, batch,
  fresh, executed, steps, ended, late,      \* GuiExecutor
  panel,     \* the GUI thread: open, tick, cancelling, closing, joining or dead
  busy,      \* session.busy()
  cmds,      \* cmd_queue_
  evts,      \* evt_queue_
  worker,    \* the worker: "wait", "begin", "launch", "run", "probe" or "exited"
  stop,      \* worker_stop_
  cancel,    \* the backend's cancel_
  cli,       \* the CLI process: "none", "running", "dying" or "gone"
  mcp,       \* a CLI has been told of the MCP server, which stays up
  pressed,   \* history: Cancel was clicked after this turn had begun
  sent,      \* history: turns so far
  probes     \* history: probes so far

E == INSTANCE GuiExecutor

execVars == <<caller, answer, queue, shuttingDown, done, abandoned, result, gui,
              batch, fresh, executed, steps, ended, late>>
workerVars == <<worker, cli, mcp>>
historyVars == <<pressed, sent, probes>>
turnVars == <<panel, busy, cmds, evts, workerVars, stop, cancel, historyVars>>
vars == <<execVars, turnVars>>

(***************************************************************************)
(* The GUI thread between two of its entries.                              *)
(***************************************************************************)
Ready == panel = "open" /\ gui = "idle"

postCommand(cmd) == cmds' = Append(cmds, cmd)

sendCurrentInput ==
  /\ Ready /\ ~busy /\ sent < MaxTurns
  /\ busy' = TRUE
  /\ sent' = sent + 1
  /\ postCommand("turn")
  /\ UNCHANGED <<execVars, panel, evts, workerVars, stop, cancel, pressed, probes>>

(* commitSettings ends by probing the backend on the worker thread. *)
commitSettings ==
  /\ Ready /\ probes < MaxProbes
  /\ probes' = probes + 1
  /\ postCommand("probe")
  /\ UNCHANGED <<execVars, panel, busy, evts, workerVars, stop, cancel, pressed, sent>>

(* Mutant: the Cancel button only cancels the pending tool calls. *)
MutCancelsToolsOnly ==
  /\ Ready
  /\ panel' = "cancelling"
  /\ pressed' = (pressed \/ worker \in {"launch", "run"})
  /\ UNCHANGED <<execVars, busy, cmds, evts, workerVars, stop, cancel, sent, probes>>

CancelClicked ==
  /\ Ready
  /\ panel' = "cancelling"
  /\ cancel' = TRUE
  /\ pressed' = (pressed \/ worker \in {"launch", "run"})
  /\ UNCHANGED <<execVars, busy, cmds, evts, workerVars, stop, sent, probes>>

cancelPending ==
  /\ panel = "cancelling"
  /\ panel' = "open"
  /\ \/ E!CancelBegin
     \/ queue = <<>> /\ UNCHANGED execVars
  /\ UNCHANGED <<busy, cmds, evts, workerVars, stop, cancel, historyVars>>

(* onTick: tools first, then the events the worker posted. *)
TickDrains ==
  /\ Ready
  /\ E!DrainBegin
  /\ panel' = "tick"
  /\ UNCHANGED <<busy, cmds, evts, workerVars, stop, cancel, historyVars>>

(* Mutant: a tick that finds no tool to run returns early. *)
MutReturnsEarly ==
  /\ gui = "idle" /\ panel = "tick"
  /\ panel' = "open"
  /\ evts' = <<>>
  /\ busy' = (busy /\ \A i \in 1..Len(evts) : evts[i] # "complete")
  /\ UNCHANGED <<execVars, cmds, workerVars, stop, cancel, historyVars>>

TickEvents ==
  /\ gui = "idle"
  /\ panel = "tick" \/ (panel = "open" /\ queue = <<>> /\ evts # <<>>)
  /\ panel' = "open"
  /\ evts' = <<>>
  /\ busy' = (busy /\ \A i \in 1..Len(evts) : evts[i] # "complete")
  /\ UNCHANGED <<execVars, cmds, workerVars, stop, cancel, historyVars>>

(* The GUI thread inside a drain or a cancel. *)
ExecutorStep ==
  /\ E!CheckSlot \/ E!RunStep \/ E!Publish \/ E!Requeue \/ E!CancelSlot
  /\ UNCHANGED turnVars

(***************************************************************************)
(* ~AssistantDialog: cancel the backend, shut the executor down, stop the  *)
(* worker, join it.                                                        *)
(***************************************************************************)
Destroy ==
  /\ Ready
  /\ panel' = "closing"
  /\ cancel' = TRUE
  /\ UNCHANGED <<execVars, busy, cmds, evts, workerVars, stop, historyVars>>

DestroyShutdown ==
  /\ panel = "closing"
  /\ \/ /\ E!Shutdown
        /\ UNCHANGED <<panel, stop>>
     \/ /\ gui = "down"
        /\ panel' = "joining"
        /\ stop' = TRUE
        /\ UNCHANGED execVars
  /\ UNCHANGED <<busy, cmds, evts, workerVars, cancel, historyVars>>

Join ==
  /\ panel = "joining" /\ worker = "exited"
  /\ panel' = "dead"
  /\ UNCHANGED <<execVars, busy, cmds, evts, workerVars, stop, cancel, historyVars>>

(***************************************************************************)
(* The worker.  sendUserMessage clears the cancel flag, prepares, runs the *)
(* CLI to its end and posts a TurnComplete whatever happened.              *)
(***************************************************************************)
(* Mutant: the worker is not woken to stop. *)
MutMissesStop ==
  /\ worker = "wait"
  /\ cmds # <<>>
  /\ cmds' = Tail(cmds)
  /\ worker' = IF Head(cmds) = "turn" THEN "begin" ELSE "probe"
  /\ UNCHANGED <<execVars, panel, busy, evts, cli, mcp, stop, cancel, historyVars>>

workerLoop ==
  /\ worker = "wait"
  /\ \/ /\ cmds # <<>>
        /\ cmds' = Tail(cmds)
        /\ worker' = IF Head(cmds) = "turn" THEN "begin" ELSE "probe"
     \/ /\ cmds = <<>> /\ stop
        /\ worker' = "exited"
        /\ UNCHANGED cmds
  /\ UNCHANGED <<execVars, panel, busy, evts, cli, mcp, stop, cancel, historyVars>>

BeginTurn ==
  /\ worker = "begin"
  /\ worker' = "launch"
  /\ cancel' = FALSE
  /\ pressed' = FALSE
  /\ UNCHANGED <<execVars, panel, busy, cmds, evts, cli, mcp, stop, sent, probes>>

(* Mutant: a failed preparation reports and goes on. *)
MutFallsThrough ==
  /\ worker = "launch"
  /\ evts' = evts \o <<"error", "complete">>
  /\ worker' = "run"
  /\ cli' = "running"
  /\ UNCHANGED <<execVars, panel, busy, cmds, mcp, stop, cancel, historyVars>>

(* No MCP port, no work directory, no config file, no CLI, or no process:
   error, complete, return. *)
LaunchFails ==
  /\ worker = "launch"
  /\ evts' = evts \o <<"error", "complete">>
  /\ worker' = "wait"
  /\ UNCHANGED <<execVars, panel, busy, cmds, cli, mcp, stop, cancel, historyVars>>

Launch ==
  /\ worker = "launch"
  /\ worker' = "run"
  /\ cli' = "running"
  /\ mcp' = TRUE
  /\ UNCHANGED <<execVars, panel, busy, cmds, evts, stop, cancel, historyVars>>

(* runProcess looks at the flag every 200 ms and sends one SIGTERM. *)
Kill ==
  /\ worker = "run" /\ cli = "running" /\ cancel
  /\ cli' = "dying"
  /\ UNCHANGED <<execVars, panel, busy, cmds, evts, worker, mcp, stop, cancel, historyVars>>

(* Any exit may come with an error event; cancellation always does. *)
FinishTurn ==
  /\ worker = "run" /\ cli = "gone"
  /\ worker' = "wait"
  /\ cli' = "none"
  /\ \/ evts' = evts \o <<"error", "complete">>
     \/ ~cancel /\ evts' = Append(evts, "complete")
  /\ UNCHANGED <<execVars, panel, busy, cmds, mcp, stop, cancel, historyVars>>

testConnection ==
  /\ worker = "probe"
  /\ worker' = "wait"
  /\ evts' = Append(evts, "probe")
  /\ UNCHANGED <<execVars, panel, busy, cmds, cli, mcp, stop, cancel, historyVars>>

(***************************************************************************)
(* The CLI, external.  Its tool calls reach the MCP server, a thread for   *)
(* each; one that is under way when the CLI ends is still handled.         *)
(***************************************************************************)
McpCalls ==
  /\ mcp /\ panel # "dead"
  /\ \E c \in Calls : E!Submit(c)
  /\ UNCHANGED turnVars

McpThreads ==
  /\ \E c \in Calls : E!Receive(c) \/ E!TimeOut(c)
  /\ UNCHANGED turnVars

CliEnds(state) ==
  /\ cli = state
  /\ cli' = "gone"
  /\ UNCHANGED <<execVars, panel, busy, cmds, evts, worker, mcp, stop, cancel, historyVars>>

---------------------------------------------------------------------------
Init ==
  /\ E!Init
  /\ panel = "open" /\ busy = FALSE
  /\ cmds = <<>> /\ evts = <<>>
  /\ worker = "wait" /\ cli = "none" /\ mcp = FALSE
  /\ stop = FALSE /\ cancel = FALSE
  /\ pressed = FALSE /\ sent = 0 /\ probes = 0

onTick == TickDrains \/ TickEvents
GuiRunsOn == ExecutorStep \/ cancelPending
Teardown == DestroyShutdown \/ Join
Worker == workerLoop \/ BeginTurn \/ LaunchFails \/ Launch \/ FinishTurn \/ testConnection
Answered == (\E c \in Calls : E!Receive(c)) /\ UNCHANGED turnVars

Next ==
  \/ sendCurrentInput \/ commitSettings \/ CancelClicked \/ Destroy
  \/ onTick \/ GuiRunsOn \/ Teardown \/ Worker \/ Kill
  \/ McpCalls \/ McpThreads \/ CliEnds("running") \/ CliEnds("dying")

Spec == Init /\ [][Next]_vars

(***************************************************************************)
(* Fairness: the timer ticks at 20 Hz whatever else the GUI thread does,   *)
(* the thread finishes what it began, a destructor runs on, the worker and *)
(* woken threads run, a signalled process ends.  No timeout is ever relied *)
(* upon, and nothing is assumed of a CLI nobody has signalled.             *)
(***************************************************************************)
Fairness ==
  /\ SF_vars(onTick) /\ WF_vars(GuiRunsOn) /\ WF_vars(Teardown)
  /\ WF_vars(Worker) /\ WF_vars(Kill) /\ WF_vars(Answered) /\ WF_vars(CliEnds("dying"))

FairSpec == Spec /\ Fairness

---------------------------------------------------------------------------
(* The state has the types of the members it models, and the destructor joins
   a worker it has told to stop, after the executor is down. *)
TypeOK ==
  /\ E!TypeOK
  /\ panel \in {"open", "tick", "cancelling", "closing", "joining", "dead"}
  /\ busy \in BOOLEAN /\ stop \in BOOLEAN /\ cancel \in BOOLEAN
  /\ cmds \in Seq({"turn", "probe"})
  /\ evts \in Seq({"error", "complete", "probe"})
  /\ worker \in {"wait", "begin", "launch", "run", "probe", "exited"}
  /\ cli \in {"none", "running", "dying", "gone"}
  /\ mcp \in BOOLEAN /\ pressed \in BOOLEAN /\ sent \in 0..MaxTurns /\ probes \in 0..MaxProbes
  /\ panel \in {"joining", "dead"} => stop /\ gui = "down"

Occurrences(s, e) == {i \in 1..Len(s) : s[i] = e}

TurnPlaces ==
  (Occurrences(cmds, "turn") \X {"cmds"})
    \cup (Occurrences(evts, "complete") \X {"evts"})
    \cup (IF worker \in {"begin", "launch", "run"} THEN {<<0, "worker">>} ELSE {})

(* The panel is busy exactly while one turn is queued, running or reported
   and not yet applied: it never unlocks early, never starts a second turn
   and never stays locked for a turn that is over.  A CLI process belongs to
   the running turn and is reaped with it. *)
TurnAccounting ==
  /\ TypeOK
  /\ IF busy THEN \E p \in TurnPlaces : TurnPlaces = {p} ELSE TurnPlaces = {}
  /\ cli # "none" <=> worker = "run"

(* The CLI ends by itself once its tools have answered. *)
PatientCli == WF_vars((\A c \in Calls : caller[c] # "waiting") /\ CliEnds("running"))

(* With such a CLI every turn ends and hands the panel back, unless the panel
   is closed. *)
TurnsEnd ==
  PatientCli => (busy ~> (~busy \/ panel \notin {"open", "tick", "cancelling"}))

(* With such a CLI closing the panel never hangs on the worker, which may be
   waiting for a tool that only the closing thread could run. *)
TeardownEnds == PatientCli => (panel = "closing" ~> panel = "dead")

(* Cancelling a turn that has begun ends it, even if its CLI would never end
   by itself; one the worker has yet to begin is not cancelled. *)
CancelEndsRun == pressed ~> (worker \notin {"launch", "run"})

===========================================================================
