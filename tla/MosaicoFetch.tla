---------------------------- MODULE MosaicoFetch ----------------------------
(***************************************************************************)
(* One Download of the Mosaico toolbox (toolbox_mosaico/src/               *)
(* fetch_worker.cpp).  The pull thread runs pullTopicsAsync; the SDK's     *)
(* pool runs the callbacks of each topic on a thread of its own; a poller  *)
(* watches the host's Stop flag; and any thread may call requestCancel.    *)
(* They share three mutexes, one ingest context of the host, and the       *)
(* cancel flag.  Sections under stop_mu_ never block and are atomic;       *)
(* host_write_mu_ and progress_mu_ are explicit, because a push may park   *)
(* inside the host while its thread holds both.                            *)
(***************************************************************************)
EXTENDS Naturals, Sequences, FiniteSets, SequencesExt

CONSTANTS
  Topics,       \* the requested topics, one pool thread each
  Unstamped,    \* topics without a timestamp column: buffered until complete
  MaxBatches,   \* bound: record batches of one topic
  Puller, User, Poller, Watchdog,   \* the threads that are not pool threads
  None

Threads == Topics \cup {Puller, User, Poller, Watchdog}

ASSUME FetchAssumption ==
  /\ IsFiniteSet(Topics) /\ Topics # {}
  /\ Unstamped \subseteq Topics
  /\ MaxBatches \in Nat \ {0}
  /\ Puller \notin {User, Poller, Watchdog, None} /\ User \notin {Poller, Watchdog, None}
  /\ Poller \notin {Watchdog, None} /\ Watchdog # None
  /\ Topics \cap {Puller, User, Poller, Watchdog, None} = {}
  /\ None \notin {"ok", "empty", "failed", "cut", "SUCCEEDED"}
  /\ None \notin [at : {"tell", "interrupt"}, host : BOOLEAN]

VARIABLES
  pull,        \* the pull thread's place in pullTopicsAsync
  dataset,     \* fetch_dataset_, and what the host did with it at the end
  view,        \* ingest_progress_ holds the context
  stopView,    \* stop_view_ holds the context
  attempted,   \* ingest_progress_attempted_
  reported,    \* host_stop_reported_
  cancel,      \* cancel_flag_
  hostWrite,   \* holder of host_write_mu_
  progress,    \* holder of progress_mu_
  imported,    \* imported_any
  pool,        \* where each pool thread is
  todo,        \* batches a topic still has to push
  read,        \* batches a topic has received
  pushed,      \* batches the host took from a topic
  bad,         \* PerTopic::error is set
  end,         \* how the topic's stream ended
  ledger,      \* outcome_ledger_
  poller,      \* host_stop_poller
  canceller,   \* each thread's place in requestCancel
  killed,      \* readers the SDK was told to interrupt
  rollback,    \* host: it can discard a provisional dataset
  ctx,         \* host: the ingest context
  hostStop,    \* host: isStopRequested()
  told,        \* host: requestStop() arrived, parked pushes wake
  verdict,     \* host: what completeIngest attested
  calls,       \* the callbacks made to the caller, in order
  deadCall     \* history: the host was called through a dead context

batchVars == <<dataset, view, stopView, attempted, reported, imported>>
lockVars == <<hostWrite, progress>>
poolVars == <<pool, todo, read, pushed, bad, end, ledger>>
cancelVars == <<cancel, canceller, killed, calls>>
hostVars == <<rollback, ctx, hostStop, told, verdict, deadCall>>
fetchVars == <<pull, batchVars, lockVars, poolVars, poller, cancelVars, hostVars>>

(* A call into the host through a copy of the context. *)
CallsHost == deadCall' = (deadCall \/ ctx # "live")

Idle(w) == canceller[w] = None

(* The callbacks a caller installs: pullFinished, hostStopRequested and
   allFetchesComplete.  A pull that threw reports under no topic's name. *)
PullFinished(t, ok) == [call |-> "finished", topic |-> t, ok |-> ok]

HostStopRequested == [call |-> "stop", topic |-> None, ok |-> FALSE]

AllFetchesComplete == [call |-> "complete", topic |-> None, ok |-> TRUE]

(***************************************************************************)
(* requestCancel, on any thread: raise the flag, tell the host through the *)
(* stop surface, interrupt the readers.  requestCancelFromHost wraps it    *)
(* with the once-only exchange and the callback.                           *)
(***************************************************************************)
BeginCancel(w, fromHost) ==
  /\ cancel' = TRUE
  /\ canceller' = [canceller EXCEPT ![w] = [at |-> "tell", host |-> fromHost]]

(* Mutant: the host is told under progress_mu_, which a parked push holds. *)
MutTellsUnderProgressLock(w) ==
  /\ progress = None
  /\ canceller[w] # None /\ canceller[w].at = "tell"
  /\ canceller' = [canceller EXCEPT ![w].at = "interrupt"]
  /\ \/ stopView /\ told' = TRUE /\ CallsHost
     \/ ~stopView /\ UNCHANGED <<told, deadCall>>
  /\ UNCHANGED <<pull, batchVars, lockVars, poolVars, poller, cancel, killed, calls,
                 rollback, ctx, hostStop, verdict>>

TellHost(w) ==
  /\ canceller[w] # None /\ canceller[w].at = "tell"
  /\ canceller' = [canceller EXCEPT ![w].at = "interrupt"]
  /\ \/ stopView /\ told' = TRUE /\ CallsHost
     \/ ~stopView /\ UNCHANGED <<told, deadCall>>
  /\ UNCHANGED <<pull, batchVars, lockVars, poolVars, poller, cancel, killed, calls,
                 rollback, ctx, hostStop, verdict>>

(* A reader is registered with the client from its opening to its end. *)
Registered(t) == pool[t] \notin {"off", "start", "done"} /\ end[t] = None

(* cancelActivePulls: every registered reader is cancelled. *)
cancelActivePulls(w) ==
  /\ canceller[w] # None /\ canceller[w].at = "interrupt"
  /\ killed' = killed \cup {t \in Topics : Registered(t)}
  /\ calls' = IF canceller[w].host THEN Append(calls, HostStopRequested) ELSE calls
  /\ canceller' = [canceller EXCEPT ![w] = None]
  /\ UNCHANGED <<pull, batchVars, lockVars, poolVars, poller, cancel, hostVars>>

(* Mutant: the flag is tested and set in the wrong order. *)
MutReportsEveryStop(w) == BeginCancel(w, TRUE) /\ UNCHANGED <<reported, killed, calls>>

requestCancelFromHost(w) ==
  /\ reported' = TRUE
  /\ \/ reported /\ UNCHANGED cancelVars
     \/ ~reported /\ BeginCancel(w, TRUE) /\ UNCHANGED <<killed, calls>>

(***************************************************************************)
(* datasetForFetch and ensureIngestProgress, under host_write_mu_.         *)
(***************************************************************************)
datasetForFetch(ok) ==
  dataset' = IF dataset = "none" /\ ok THEN "made" ELSE dataset

(* One attempt per Download: the context with its stop surface, the source
   record and the progress bar, whose first update may already say Stop.  The
   host may refuse the context; without the bar there is no update to answer. *)
OpenContext(w) ==
  /\ ctx' = "live"
  /\ view' = TRUE /\ stopView' = TRUE
  /\ hostStop' \in BOOLEAN /\ told' = FALSE
  /\ \/ hostStop' /\ requestCancelFromHost(w)
     \/ UNCHANGED <<reported, cancelVars>>

ensureIngestProgress(w) ==
  /\ progress = None
  /\ attempted' = TRUE
  /\ \/ ~attempted /\ OpenContext(w)
     \/ UNCHANGED <<view, stopView, reported, cancelVars, ctx, hostStop, told>>
  /\ UNCHANGED <<rollback, verdict, deadCall>>

(***************************************************************************)
(* The pool thread of topic t: the SDK's reader and the callbacks on_batch,*)
(* on_progress and on_done.                                                *)
(***************************************************************************)
At(t, place) == pool[t] = place /\ Idle(t)

Goto(t, place) == pool' = [pool EXCEPT ![t] = place]

(* The reader registers itself, then looks at the flag. *)
OpenReader(t) ==
  /\ At(t, "start")
  /\ \/ cancel /\ Goto(t, "record") /\ end' = [end EXCEPT ![t] = "cut"]
     \/ ~cancel /\ Goto(t, "read") /\ UNCHANGED end
  /\ UNCHANGED <<pull, batchVars, lockVars, todo, read, pushed, bad, ledger,
                 poller, cancelVars, hostVars>>

(* A stamped topic pushes each batch at once, an unstamped one keeps them until
   its row count is known; a topic that already failed ignores the batch. *)
on_batch(t) ==
  /\ At(t, "read") /\ ~cancel /\ read[t] < MaxBatches
  /\ read' = [read EXCEPT ![t] = @ + 1]
  /\ \/ bad[t] /\ UNCHANGED <<pool, todo>>
     \/ ~bad[t] /\ todo' = [todo EXCEPT ![t] = @ + 1]
                /\ Goto(t, IF t \in Unstamped THEN "read" ELSE "lock")
  /\ UNCHANGED <<pull, batchVars, lockVars, pushed, bad, end, ledger,
                 poller, cancelVars, hostVars>>

(* A progress tick the host answers with Stop; the answer is acted on after
   progress_mu_ is given back. *)
on_progress(t) ==
  /\ At(t, "read") /\ read[t] > 0 /\ progress = None
  /\ view /\ hostStop /\ ~reported
  /\ CallsHost
  /\ requestCancelFromHost(t)
  /\ UNCHANGED <<pull, dataset, view, stopView, attempted, imported,
                 lockVars, poolVars, poller, rollback, ctx, hostStop, told, verdict>>

(* The stream's result.  Only a complete stream pushes what was kept. *)
EndStream(t, result) ==
  /\ end' = [end EXCEPT ![t] = result]
  /\ todo' = [todo EXCEPT ![t] = IF result = "ok" THEN @ ELSE 0]
  /\ Goto(t, IF result = "ok" /\ todo[t] > 0 /\ ~bad[t] THEN "lock" ELSE "record")
  /\ killed' = killed \ {t}
  /\ UNCHANGED <<pull, batchVars, lockVars, read, pushed, bad, ledger,
                 poller, cancel, canceller, calls, hostVars>>

StreamEnds(t) == At(t, "read") /\ t \notin killed /\ EndStream(t, "ok")

StreamFails(t) == At(t, "read") /\ t \notin killed /\ EndStream(t, "failed")

ReaderInterrupted(t) == At(t, "read") /\ t \in killed /\ EndStream(t, "cut")

(***************************************************************************)
(* push_message: dataset, context and push under host_write_mu_, the push  *)
(* itself under progress_mu_ as well.                                      *)
(***************************************************************************)
AfterPush(t, ok) ==
  /\ pushed' = [pushed EXCEPT ![t] = IF ok THEN @ + 1 ELSE @]
  /\ bad' = [bad EXCEPT ![t] = ~ok]
  /\ todo' = [todo EXCEPT ![t] = IF ok THEN @ - 1 ELSE 0]
  /\ Goto(t, CASE end[t] = None -> "read"
               [] end[t] # None /\ ok /\ todo[t] > 1 -> "lock"
               [] OTHER -> "record")
  /\ imported' = (imported \/ ok)
  /\ hostWrite' = None /\ progress' = None

(* Whoever holds progress_mu_ for long is a parked push, which holds
   host_write_mu_ too: both sections are one step. *)
TakeHostWrite(t) ==
  /\ At(t, "lock") /\ hostWrite = None
  /\ \/ /\ datasetForFetch(TRUE)
        /\ ensureIngestProgress(t)
        /\ hostWrite' = t
        /\ Goto(t, "push")
        /\ UNCHANGED <<progress, todo, pushed, bad, imported>>
     \/ /\ dataset = "none"
        /\ AfterPush(t, FALSE)
        /\ UNCHANGED <<dataset, view, stopView, attempted, reported,
                       cancelVars, hostVars>>
  /\ UNCHANGED <<pull, read, end, ledger, poller>>

(* The push goes through, is refused, or parks in the host's lossless queue. *)
pushMessage(t) ==
  /\ At(t, "push") /\ progress = None
  /\ \/ /\ ~view
        /\ AfterPush(t, FALSE)
        /\ UNCHANGED deadCall
     \/ /\ view
        /\ CallsHost
        /\ \/ \E ok \in BOOLEAN : AfterPush(t, ok)
           \/ /\ progress' = t
              /\ Goto(t, "parked")
              /\ UNCHANGED <<hostWrite, todo, pushed, bad, imported>>
  /\ UNCHANGED <<pull, dataset, view, stopView, attempted, reported,
                 read, end, ledger, poller, cancelVars, rollback, ctx, hostStop,
                 told, verdict>>

(* requestStop wakes a parked push, which the host then takes or refuses. *)
WakePush(t) ==
  /\ At(t, "parked") /\ told
  /\ \E ok \in BOOLEAN : AfterPush(t, ok)
  /\ UNCHANGED <<pull, dataset, view, stopView, attempted, reported,
                 read, end, ledger, poller, cancelVars, hostVars>>

HostDrains(t) ==
  /\ At(t, "parked") /\ ~told
  /\ AfterPush(t, TRUE)
  /\ UNCHANGED <<pull, dataset, view, stopView, attempted, reported,
                 read, end, ledger, poller, cancelVars, hostVars>>

(* Mutant: a topic whose push failed is recorded by its stream alone. *)
MutTrustsTheStream(t) ==
  IF end[t] # "ok" THEN "failed" ELSE IF pushed[t] = 0 THEN "empty" ELSE "ok"

TopicOutcome(t) ==
  IF end[t] # "ok" \/ bad[t] THEN "failed" ELSE IF pushed[t] = 0 THEN "empty" ELSE "ok"

on_done(t) ==
  /\ At(t, "record") /\ progress = None
  /\ ledger' = [ledger EXCEPT ![t] = TopicOutcome(t)]
  /\ calls' = Append(calls, PullFinished(t, TopicOutcome(t) # "failed"))
  /\ Goto(t, "done")
  /\ UNCHANGED <<pull, batchVars, lockVars, todo, read, pushed, bad, end, poller,
                 cancel, canceller, killed, hostVars>>

(***************************************************************************)
(* The poller that keeps Stop alive while the transport is silent.         *)
(***************************************************************************)
isStopRequestedByHost == stopView /\ hostStop

PollerFires ==
  /\ poller = "watch"
  /\ isStopRequestedByHost
  /\ CallsHost
  /\ requestCancelFromHost(Poller)
  /\ poller' = "off"
  /\ UNCHANGED <<pull, dataset, view, stopView, attempted, imported,
                 lockVars, poolVars, rollback, ctx, hostStop, told, verdict>>

(***************************************************************************)
(* pullTopicsAsync.                                                        *)
(***************************************************************************)
Fresh == [t \in Topics |-> 0]

AllFailed == calls \o SetToSeq({PullFinished(t, FALSE) : t \in Topics})

(* The PerTopic records are local to the call. *)
FreshLocals ==
  /\ todo' = Fresh /\ read' = Fresh /\ pushed' = Fresh
  /\ bad' = [t \in Topics |-> FALSE]
  /\ end' = [t \in Topics |-> None]

(* No client: every topic fails and the batch is over. *)
NotConnected ==
  /\ pull = "begin"
  /\ pull' = "idle"
  /\ calls' = Append(AllFailed, AllFetchesComplete)
  /\ FreshLocals
  /\ UNCHANGED <<batchVars, lockVars, pool, ledger, poller, cancel, canceller, killed, hostVars>>

(* The flag is not reset: the caller did when it asked for this batch. *)
KeepCancel == UNCHANGED cancel

(* The state of the batch before is dropped. *)
ResetBatch ==
  /\ pull = "begin"
  /\ pull' = IF rollback THEN "eager" ELSE "ready"
  /\ dataset' = "none" /\ view' = FALSE
  /\ attempted' = FALSE /\ reported' = FALSE
  /\ imported' = FALSE
  /\ ledger' = [t \in Topics |-> None]
  /\ FreshLocals
  /\ KeepCancel
  /\ UNCHANGED <<stopView, lockVars, pool, poller, canceller, killed, calls, hostVars>>

(* A host that can roll back gets its dataset before the first byte. *)
CreateEagerly ==
  /\ pull = "eager" /\ hostWrite = None
  /\ \/ /\ datasetForFetch(TRUE)
        /\ ensureIngestProgress(Puller)
        /\ hostWrite' = Puller
        /\ pull' = "ready"
     \/ /\ calls' = AllFailed
        /\ pull' = "retire"
        /\ UNCHANGED <<dataset, view, stopView, attempted, reported,
                       hostWrite, cancel, canceller, killed, hostVars>>
  /\ UNCHANGED <<imported, progress, poolVars, poller>>

(* The poller and the pool start. *)
pullTopics ==
  /\ pull = "ready" /\ Idle(Puller)
  /\ hostWrite' = IF hostWrite = Puller THEN None ELSE hostWrite
  /\ poller' = "watch"
  /\ pool' = [t \in Topics |-> "start"]
  /\ pull' = "pull"
  /\ UNCHANGED <<batchVars, progress, todo, read, pushed, bad, end, ledger,
                 cancelVars, hostVars>>

PollerJoined == Idle(Poller)

(* It returns when every topic is done, or throws before any reader opened; the
   poller's destructor stops and joins it. *)
PullReturns ==
  /\ pull = "pull" /\ PollerJoined
  /\ \/ /\ \A t \in Topics : pool[t] = "done" /\ Idle(t)
        /\ UNCHANGED calls
     \/ /\ \A t \in Topics : pool[t] = "start"
        /\ calls' = Append(calls, PullFinished(None, FALSE))
  /\ pool' = [t \in Topics |-> "off"]
  /\ poller' = "off"
  /\ pull' = "report"
  /\ UNCHANGED <<batchVars, lockVars, todo, read, pushed, bad, end, ledger,
                 cancel, canceller, killed, hostVars>>

computeCompletion(cancelled) ==
  IF cancelled THEN "CANCELLED"
  ELSE IF \A t \in Topics : ledger[t] \in {"ok", "empty"} THEN "COMPLETED" ELSE "FAILED"

reportIngestCompletion ==
  /\ pull = "report" /\ progress = None
  /\ pull' = "retire"
  /\ \/ view /\ CallsHost /\ verdict' = computeCompletion(cancel \/ hostStop)
     \/ UNCHANGED <<verdict, deadCall>>       \* no context, or no source record to attest
  /\ UNCHANGED <<batchVars, lockVars, poolVars, poller, cancelVars, rollback, ctx, hostStop, told>>

(* finishIngestProgress: retire the stop surface, then finish the bar, then
   discard a dataset nothing went into, or release the context. *)
(* Mutant: the stop surface outlives the context. *)
MutNeverRetires == UNCHANGED stopView

RetireStopSurface == stopView' = FALSE

BeginFinish ==
  /\ pull = "retire"
  /\ pull' = "finish"
  /\ RetireStopSurface
  /\ UNCHANGED <<dataset, view, attempted, reported, imported,
                 lockVars, poolVars, poller, cancelVars, hostVars>>

DiscardProvisional == ~imported

finishIngestProgress ==
  /\ pull = "finish" /\ progress = None
  /\ pull' = "idle"
  /\ calls' = Append(calls, AllFetchesComplete)
  /\ view' = FALSE
  /\ deadCall' = (deadCall \/ (view /\ ctx # "live"))
  /\ ctx' = "none" /\ hostStop' = FALSE /\ told' = FALSE /\ verdict' = None
  /\ \/ /\ DiscardProvisional /\ dataset = "made" /\ rollback
        /\ dataset' = "discarded"
     \/ UNCHANGED dataset      \* kept, or the host refused the discard
  /\ UNCHANGED <<stopView, attempted, reported, imported, lockVars,
                 poolVars, poller, cancel, canceller, killed, rollback>>

(***************************************************************************)
(* The host's user presses Stop while the context is up.                   *)
(***************************************************************************)
HostStops ==
  /\ ctx = "live" /\ ~hostStop
  /\ hostStop' = TRUE
  /\ UNCHANGED <<pull, batchVars, lockVars, poolVars, poller, cancelVars, rollback, ctx, told,
                 verdict, deadCall>>

---------------------------------------------------------------------------
FetchInit ==
  /\ pull = "idle"
  /\ dataset = "none" /\ view = FALSE /\ stopView = FALSE
  /\ attempted = FALSE
  /\ reported = FALSE /\ imported = FALSE
  /\ hostWrite = None /\ progress = None
  /\ pool = [t \in Topics |-> "off"]
  /\ todo = Fresh /\ read = Fresh /\ pushed = Fresh
  /\ bad = [t \in Topics |-> FALSE]
  /\ end = [t \in Topics |-> None] /\ ledger = [t \in Topics |-> None]
  /\ poller = "off"
  /\ cancel = FALSE /\ canceller = [w \in Threads |-> None] /\ killed = {}
  /\ calls = <<>>
  /\ rollback \in BOOLEAN
  /\ ctx = "none" /\ hostStop = FALSE /\ told = FALSE /\ verdict = None /\ deadCall = FALSE

(* What a thread of the worker does on its own. *)
PoolSteps(t) ==
  \/ OpenReader(t) \/ ReaderInterrupted(t)
  \/ TakeHostWrite(t) \/ pushMessage(t) \/ WakePush(t) \/ on_done(t)

CancelSteps(w) == TellHost(w) \/ cancelActivePulls(w)

PullSteps ==
  \/ ResetBatch \/ CreateEagerly \/ pullTopics
  \/ PullReturns \/ reportIngestCompletion \/ BeginFinish \/ finishIngestProgress

(* What the server and the host do, or leave undone. *)
Outside ==
  \/ \E t \in Topics : on_batch(t) \/ on_progress(t) \/ StreamEnds(t) \/ StreamFails(t) \/ HostDrains(t)
  \/ HostStops

WorkerSteps ==
  \/ \E t \in Topics : PoolSteps(t)
  \/ \E w \in Threads \ {User} : CancelSteps(w)
  \/ PollerFires \/ PullSteps
===========================================================================
