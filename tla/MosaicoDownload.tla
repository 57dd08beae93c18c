--------------------------- MODULE MosaicoDownload ---------------------------
(***************************************************************************)
(* The two callers of one FetchWorker: the dialog (mosaico_dialog.cpp),    *)
(* whose GUI thread starts batches, ticks through the queued callbacks,    *)
(* cancels and is destroyed; and the headless import job                   *)
(* (descriptor_import_provider.cpp), which runs one batch under a byte and *)
(* a time ceiling and maps it to a terminal outcome.                       *)
(***************************************************************************)
EXTENDS MosaicoFetch, FiniteSetsExt

CONSTANTS
  MaxBytes      \* the import's byte ceiling, in batches; 0 for none

ASSUME CeilingAssumption == MaxBytes \in Nat

VARIABLES
  caller,       \* "dialog" or "import"
  gui,          \* the GUI thread: "open", "closing", "joined" or "closed"
  active,       \* fetch_active
  cancelling,   \* state_.cancelling
  done,         \* fetch_done
  failed,       \* topics with topic_fetch_status "Failed"
  importedAny,  \* state_.imported_any
  seen,         \* callbacks the dialog has handled
  revealPending,\* reveal_pending_
  shown,        \* host: what each topic had at the last notifyDataChanged
  job,          \* the import job's place in runToTerminal
  jobCancel,    \* control.isCancelled()
  byteCut,      \* byte_ceiling_exceeded
  timeCut,      \* duration_ceiling_exceeded
  transfer,     \* transfer_in_progress
  watchdog,     \* "off", "armed" or "claimed"
  terminal      \* the outcome the job returned

dialogVars == <<gui, active, cancelling, done, failed, importedAny, seen, revealPending, shown>>
jobVars == <<job, jobCancel, byteCut, timeCut, transfer, watchdog, terminal>>
vars == <<fetchVars, caller, dialogVars, jobVars>>

Total == Cardinality(Topics)

(***************************************************************************)
(* The dialog.  The GUI thread runs one handler at a time.                 *)
(***************************************************************************)
GuiFree == caller = "dialog" /\ gui = "open" /\ Idle(User)

(* The cancel flag is reset on the GUI thread, before the batch is posted. *)
buttonFetch ==
  /\ GuiFree /\ ~active
  /\ active' = TRUE /\ cancelling' = FALSE
  /\ done' = 0 /\ failed' = {} /\ importedAny' = FALSE
  /\ cancel' = FALSE
  /\ pull' = "begin"
  /\ calls' = <<>> /\ seen' = 0
  /\ shown' = Fresh
  /\ UNCHANGED <<batchVars, lockVars, poolVars, poller, canceller, killed, hostVars,
                 caller, gui, revealPending, jobVars>>

(* requestCancel, then the panel's own flag: no callback runs in between.
   Bound: the user does not click again while the panel says "Cancelling". *)
buttonCancel ==
  /\ GuiFree /\ active /\ ~cancelling
  /\ BeginCancel(User, FALSE)
  /\ cancelling' = TRUE
  /\ UNCHANGED <<pull, batchVars, lockVars, poolVars, poller, killed, calls, hostVars,
                 caller, gui, active, done, failed, importedAny, seen, revealPending,
                 shown, jobVars>>

(* onTick swaps the queue out and runs it in order; when it swapped shows in
   nothing, so that each callback is a step. *)
Event == calls[seen + 1]

Handling(call) ==
  /\ GuiFree /\ seen < Len(calls)
  /\ Event.call = call
  /\ seen' = seen + 1

(* Mutant: only the panel's own flag tells a cancelled topic from a failed one. *)
MutTrustsThePanel == cancelling

Interrupted == cancelling \/ cancel

onPullFinished ==
  /\ Handling("finished")
  /\ done' = done + 1
  /\ importedAny' = (importedAny \/ Event.ok)
  /\ failed' = IF Event.ok \/ Interrupted THEN failed ELSE failed \cup {Event.topic}
  /\ revealPending' = (revealPending \/ (Event.ok /\ ~Interrupted /\ done + 1 < Total))
  /\ UNCHANGED <<fetchVars, caller, gui, active, cancelling, shown, jobVars>>

onHostStop ==
  /\ Handling("stop")
  /\ cancelling' = TRUE
  /\ UNCHANGED <<fetchVars, caller, gui, active, done, failed, importedAny,
                 revealPending, shown, jobVars>>

(* Mutant: a cancelled batch is not flushed into the catalog. *)
MutHidesCancelled == importedAny /\ ~cancelling

ShouldNotify == importedAny

onAllFetchesComplete ==
  /\ Handling("complete")
  /\ active' = FALSE /\ cancelling' = FALSE
  /\ revealPending' = FALSE
  /\ shown' = IF ShouldNotify THEN pushed ELSE shown
  /\ UNCHANGED <<fetchVars, caller, gui, done, failed, importedAny, jobVars>>

(* The reveal at the end of a tick, once its throttle allows; none when the
   batch is ending. *)
maybeFireProgressiveReveal ==
  /\ GuiFree /\ revealPending
  /\ revealPending' = FALSE
  /\ shown' = IF active /\ ~cancelling /\ done < Total THEN pushed ELSE shown
  /\ UNCHANGED <<fetchVars, caller, gui, active, cancelling, done, failed, importedAny, seen,
                 jobVars>>

(* ~MosaicoDialog: cancel, stop and join the worker, flush what it knows of;
   callbacks still queued are dropped. *)
Destroy ==
  /\ GuiFree
  /\ gui' = "closing"
  /\ BeginCancel(User, FALSE)
  /\ UNCHANGED <<pull, batchVars, lockVars, poolVars, poller, killed, calls, hostVars,
                 caller, active, cancelling, done, failed, importedAny, seen,
                 revealPending, shown, jobVars>>

(* The worker drains the posted batch before it ends. *)
JoinWorker ==
  /\ gui = "closing" /\ Idle(User) /\ pull = "idle"
  /\ gui' = "closed"
  /\ shown' = IF active /\ importedAny THEN pushed ELSE shown
  /\ UNCHANGED <<fetchVars, caller, active, cancelling, done, failed, importedAny, seen,
                 revealPending, jobVars>>

DialogSteps ==
  \/ onPullFinished \/ onHostStop \/ onAllFetchesComplete
  \/ maybeFireProgressiveReveal \/ JoinWorker

(***************************************************************************)
(* The import job: connect, arm the watchdog, pull, map to a terminal.     *)
(***************************************************************************)
Called(call, ok) == \E i \in DOMAIN calls : calls[i].call = call /\ calls[i].ok = ok

isCancelled == jobCancel \/ Called("stop", FALSE)

Terminate(outcome) == job' = "end" /\ terminal' = outcome

(* A cancel is seen before, between and after the connection attempts. *)
ConnectJob ==
  /\ job = "connect"
  /\ \/ isCancelled /\ Terminate("CANCELLED") /\ UNCHANGED <<transfer, watchdog, pull>>
     \/ ~isCancelled /\ Terminate("FAILED") /\ UNCHANGED <<transfer, watchdog, pull>>
     \/ ~isCancelled
        /\ job' = "pull" /\ transfer' = TRUE /\ watchdog' = "armed" /\ pull' = "begin"
        /\ UNCHANGED terminal
  /\ UNCHANGED <<batchVars, lockVars, poolVars, poller, cancelVars, hostVars, caller,
                 dialogVars, jobCancel, byteCut, timeCut>>

(* The job's cancel hook runs requestCancel on the thread that cancels. *)
CancelJob ==
  /\ caller = "import" /\ job # "end" /\ ~jobCancel /\ Idle(User)
  /\ jobCancel' = TRUE
  /\ BeginCancel(User, FALSE)
  /\ UNCHANGED <<pull, batchVars, lockVars, poolVars, poller, killed, calls, hostVars, caller,
                 dialogVars, job, byteCut, timeCut, transfer, watchdog, terminal>>

Transferred == MapThenSumSet(LAMBDA t : read[t], Topics)

(* A progress tick of a pool thread past the byte ceiling, once. *)
pullProgress(t) ==
  /\ caller = "import" /\ At(t, "read") /\ read[t] > 0
  /\ MaxBytes # 0 /\ Transferred > MaxBytes /\ ~byteCut
  /\ byteCut' = TRUE
  /\ BeginCancel(t, FALSE)
  /\ UNCHANGED <<pull, batchVars, lockVars, poolVars, poller, killed, calls, hostVars, caller,
                 dialogVars, job, jobCancel, timeCut, transfer, watchdog, terminal>>

(* The watchdog claims the transfer, so that a late expiry is inert. *)
claimTransferWatchdogExpiry ==
  /\ watchdog = "armed"
  /\ transfer' = FALSE
  /\ watchdog' = IF transfer THEN "claimed" ELSE "off"
  /\ UNCHANGED <<fetchVars, caller, dialogVars, job, jobCancel, byteCut, timeCut, terminal>>

RecordThenCut ==
  /\ watchdog = "claimed"
  /\ timeCut' = TRUE
  /\ watchdog' = "off"
  /\ BeginCancel(Watchdog, FALSE)

WatchdogFires ==
  /\ RecordThenCut
  /\ UNCHANGED <<pull, batchVars, lockVars, poolVars, poller, killed, calls, hostVars, caller,
                 dialogVars, job, jobCancel, byteCut, transfer, terminal>>

PullEnds ==
  /\ job = "pull" /\ pull = "idle"
  /\ job' = "map"
  /\ transfer' = FALSE
  /\ UNCHANGED <<fetchVars, caller, dialogVars, jobCancel, byteCut, timeCut, watchdog, terminal>>

(* Mutant: a rolled-back dataset still counts. *)
MutForgetsDiscard == dataset # "none"

UsableDataset == dataset = "made"

(* The pinned order: caller cancel of an incomplete batch, ceilings, failures. *)
MapTerminal ==
  LET some == Called("finished", TRUE)
      complete == some /\ ~Called("finished", FALSE)
  IN CASE isCancelled /\ ~complete -> "CANCELLED"
       [] ~(isCancelled /\ ~complete) /\ (byteCut \/ timeCut) -> "FAILED"
       [] ~(isCancelled /\ ~complete) /\ ~(byteCut \/ timeCut) ->
            IF some /\ UsableDataset THEN "SUCCEEDED" ELSE "FAILED"

runToTerminal ==
  /\ job = "map"
  /\ Terminate(MapTerminal)
  /\ UNCHANGED <<fetchVars, caller, dialogVars, jobCancel, byteCut, timeCut, transfer, watchdog>>

JobSteps ==
  \/ ConnectJob \/ PullEnds \/ runToTerminal

WatchdogSteps == claimTransferWatchdogExpiry \/ WatchdogFires

---------------------------------------------------------------------------
Init ==
  /\ FetchInit
  /\ caller \in {"dialog", "import"}
  /\ gui = IF caller = "dialog" THEN "open" ELSE "closed"
  /\ active = FALSE /\ cancelling = FALSE /\ importedAny = FALSE /\ revealPending = FALSE
  /\ done = 0 /\ failed = {} /\ seen = 0
  /\ shown = Fresh
  /\ job = IF caller = "import" THEN "connect" ELSE "end"
  /\ jobCancel = FALSE /\ byteCut = FALSE /\ timeCut = FALSE /\ transfer = FALSE
  /\ watchdog = "off" /\ terminal = None

callerVars == <<caller, dialogVars, jobVars>>

Next ==
  \/ (WorkerSteps \/ CancelSteps(User) \/ Outside) /\ UNCHANGED callerVars
  \/ caller = "dialog" /\ NotConnected /\ UNCHANGED callerVars
  \/ buttonFetch \/ buttonCancel \/ Destroy \/ DialogSteps
  \/ CancelJob \/ JobSteps \/ WatchdogSteps
  \/ \E t \in Topics : pullProgress(t)

(* While a thread of the worker, or the one that cancels, can take a step one of
   them does; the server, the host's queue, the user and the clock may do nothing
   for ever. *)
Fairness == WF_vars(UNCHANGED callerVars /\ (WorkerSteps \/ CancelSteps(User)))

Spec == Init /\ [][Next]_vars /\ Fairness

---------------------------------------------------------------------------
(* The state has the types of the members it models. *)
TypeOK ==
  /\ pull \in {"idle", "begin", "eager", "ready", "pull", "report",
               "retire", "finish"}
  /\ dataset \in {"none", "made", "discarded"}
  /\ {view, stopView, attempted, reported, imported} \subseteq BOOLEAN
  /\ {cancel, rollback, hostStop, told, deadCall} \subseteq BOOLEAN
  /\ hostWrite \in Topics \cup {Puller, None} /\ progress \in Topics \cup {None}
  /\ pool \in [Topics -> {"off", "start", "read", "lock", "push", "parked",
                          "record", "done"}]
  /\ {todo, read, pushed, shown} \subseteq [Topics -> 0 .. MaxBatches]
  /\ bad \in [Topics -> BOOLEAN]
  /\ end \in [Topics -> {"ok", "failed", "cut", None}]
  /\ ledger \in [Topics -> {"ok", "empty", "failed", None}]
  /\ poller \in {"off", "watch"}
  /\ canceller \in [Threads -> [at : {"tell", "interrupt"}, host : BOOLEAN] \cup {None}]
  /\ killed \subseteq Topics
  /\ ctx \in {"none", "live"}
  /\ verdict \in {"COMPLETED", "CANCELLED", "FAILED", None}
  /\ calls \in Seq([call : {"finished", "stop", "complete"}, topic : Topics \cup {None},
                    ok : BOOLEAN])
  /\ caller \in {"dialog", "import"} /\ gui \in {"open", "closing", "closed"}
  /\ {active, cancelling, importedAny, revealPending} \subseteq BOOLEAN
  /\ done \in 0 .. Total /\ failed \subseteq Topics \cup {None}
  /\ seen \in 0 .. Len(calls)
  /\ job \in {"connect", "pull", "map", "end"}
  /\ {jobCancel, byteCut, timeCut, transfer} \subseteq BOOLEAN
  /\ watchdog \in {"off", "armed", "claimed"}
  /\ terminal \in {"CANCELLED", "FAILED", "SUCCEEDED", None}

(* The host is never called through a context it has released: a cancel, a poll
   or a push that is late finds the stop surface and the view retired. *)
NoDeadCall == ~deadCall

(* Every requested row has landed and nobody asked to stop. *)
Whole ==
  /\ \A t \in Topics : end[t] = "ok" /\ ~bad[t] /\ pushed[t] = read[t]
  /\ ~hostStop

Bracket == INSTANCE IngestBracket
  WITH context <- ctx, landed <- imported, attested <- verdict, whole <- Whole

(* Refinement: whatever the order of cancels, stops, failures and pool threads,
   the host sees one well-formed ingest: no push after the attestation, COMPLETED
   only of a whole request, and no dataset with rows in it discarded. *)
BracketKept == Bracket!Spec

Thrown == \E i \in DOMAIN calls : calls[i].call = "finished" /\ calls[i].topic = None

Reports(t) == {i \in DOMAIN calls : calls[i].call = "finished" /\ calls[i].topic = t}

BatchOver == calls # <<>> /\ Last(calls).call = "complete"

(* allFetchesComplete is the last callback of a batch; by then every topic was
   reported exactly once (unless pullTopics threw), and a host Stop at most once. *)
ReportedOnce ==
  /\ TypeOK
  /\ \A i \in DOMAIN calls : calls[i].call = "complete" => i = Len(calls)
  /\ BatchOver /\ ~Thrown => \A t \in Topics : Cardinality(Reports(t)) = 1
  /\ Cardinality({i \in DOMAIN calls : calls[i].call = "stop"}) <= 1

(* A topic that was interrupted by a cancel, from whichever thread and however
   late its event is handled, is never tallied as an error. *)
CutIsNotAnError ==
  caller = "dialog" => \A t \in failed : t = None \/ end[t] # "cut"

(* When the panel goes idle its tally is complete, and every topic that finished
   is in the catalog, cancelled batch or not. *)
FinishedIsShown ==
  caller = "dialog" /\ gui = "open" /\ BatchOver /\ ~active =>
    /\ Thrown \/ done = Total
    /\ \A i \in DOMAIN calls :
         calls[i].call = "finished" /\ calls[i].ok => shown[calls[i].topic] = pushed[calls[i].topic]

(* An import that a ceiling, a Stop or its caller cut short never reports
   success, and a success names a dataset the host still has. *)
SuccessIsUncut ==
  terminal = "SUCCEEDED" => dataset = "made" /\ \A t \in Topics : end[t] # "cut"

(* A batch that somebody stopped ends, though the server is silent, no progress
   tick comes and the host drains nothing: after a Stop on the host's title bar
   on every host, after a cancel of ours on a host that can roll back (on another
   one the context that would carry the news may not be there yet). *)
StopEnds ==
  ((hostStop /\ ctx = "live") \/ (rollback /\ cancel)) /\ pull # "idle" ~> pull = "idle"

===========================================================================
