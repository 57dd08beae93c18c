------------------------ MODULE MosaicoDownloadProofs ------------------------
(***************************************************************************)
(* The safety properties of a Mosaico download, and its refinement of the  *)
(* host's ingest bracket, for every set of topics and every number of      *)
(* batches, whatever the caller and the order of the threads.              *)
(***************************************************************************)
EXTENDS MosaicoDownload, FiniteSetTheorems, SequenceTheorems, TLAPS

Places == {"off", "start", "read", "lock", "push", "parked", "record", "done"}

Calls == [call : {"finished", "stop", "complete"}, topic : Topics \cup {None}, ok : BOOLEAN]

Cancels == [at : {"tell", "interrupt"}, host : BOOLEAN]

(* The types of what the argument counts and indexes. *)
PoolTyped ==
  /\ pull \in {"idle", "begin", "eager", "ready", "pull", "report", "retire", "finish"}
  /\ pool \in [Topics -> Places]
  /\ todo \in [Topics -> Nat] /\ read \in [Topics -> Nat] /\ pushed \in [Topics -> Nat]
  /\ bad \in [Topics -> BOOLEAN]
  /\ end \in [Topics -> {"ok", "failed", "cut", None}]
  /\ ledger \in [Topics -> {"ok", "empty", "failed", None}]

CallTyped ==
  /\ canceller \in [Threads -> Cancels \cup {None}]
  /\ calls \in Seq(Calls) /\ seen \in Nat

(* What is open in the host follows from how far the batch is. *)
BatchInv ==
  /\ imported \in BOOLEAN
  /\ view \/ stopView => ctx = "live"
  /\ pull \in {"idle", "begin"} => ~view /\ ~stopView /\ ctx = "none"
  /\ pull \notin {"retire", "finish"} => verdict = None
  /\ pull = "finish" => ~stopView
  /\ pull = "eager" => ~attempted
  /\ pull \notin {"idle", "begin"} /\ attempted => dataset = "made"
  /\ pull \notin {"idle", "begin"} /\ ~attempted => dataset = "none" /\ ctx = "none" /\ ~imported
  /\ pull \notin {"idle", "begin"} /\ imported => view

(* The pool runs only inside pullTopics, and a parked push holds the context. *)
PoolInv ==
  /\ pull # "pull" => \A t \in Topics : pool[t] = "off"
  /\ \A t \in Topics : pool[t] = "parked" => view

(* Batches received are pushed or still to push, unless the topic failed. *)
TopicOf(t) ==
  /\ ~bad[t] /\ end[t] \in {None, "ok"} => read[t] = pushed[t] + todo[t]
  /\ pull \in {"eager", "ready"} \/ pool[t] = "start" => end[t] = None /\ ledger[t] = None
  /\ pool[t] = "read" => end[t] = None
  /\ pool[t] = "record" => end[t] # None
  /\ pool[t] \in {"lock", "push", "parked"} => todo[t] > 0 /\ ~bad[t] /\ end[t] \in {None, "ok"}
  /\ pool[t] \in {"record", "done"} /\ end[t] = "ok" /\ ~bad[t] => todo[t] = 0

TopicInv == \A t \in Topics : TopicOf(t)

(* A topic is recorded as good only when all of it landed. *)
LedgerInv ==
  pull \notin {"idle", "begin"} =>
    \A t \in Topics :
      ledger[t] \in {"ok", "empty"} =>
        end[t] = "ok" /\ ~bad[t] /\ pushed[t] = read[t] /\ pool[t] \in {"done", "off"}

(* A batch runs only while its caller waits for it. *)
CallerInv ==
  /\ caller \in {"dialog", "import"}
  /\ pull # "idle" => (caller = "dialog" /\ active) \/ (caller = "import" /\ job = "pull")
  /\ caller = "dialog" => job = "end" /\ watchdog = "off" /\ terminal = None
  /\ caller = "import" => gui = "closed" /\ failed = {}
  /\ caller = "dialog" /\ pull # "idle" => \A c \in Range(calls) : c.call # "complete"

(* A thread cancels only a batch that runs, and every cut goes back to one. *)
CancelInv ==
  /\ \A w \in Threads : canceller[w] # None => cancel
  /\ \A t \in Topics : canceller[t] # None => pool[t] \in {"read", "push"}
  /\ canceller[Puller] # None => pull = "ready"
  /\ canceller[Poller] # None => pull = "pull"
  /\ poller = "watch" => pull = "pull"
  /\ canceller[Watchdog] # None => caller = "import"
  /\ killed \subseteq Topics
  /\ \A t \in killed : cancel /\ end[t] = None /\ pool[t] \in {"read", "lock", "push", "parked"}

(* What was reported in this batch is over. *)
DoneInv ==
  \A c \in Range(calls) : c.call = "finished" =>
    /\ pull \notin {"begin", "eager", "ready"} /\ job # "connect"
    /\ c.topic \in Topics => pool[c.topic] \in {"done", "off"}

(* What was cut was cancelled. *)
CutInv ==
  \A t \in Topics :
    end[t] = "cut" => cancel \/ (pull = "begin" /\ failed = {} /\ Range(calls) = {})

(* What the panel tallied as failed is over, and was not cut. *)
FailedInv ==
  /\ failed \subseteq Topics \cup {None}
  /\ \A t \in failed : t \in Topics => pool[t] \in {"done", "off"} /\ end[t] # "cut"
  /\ pull \in {"begin", "eager", "ready"} => failed = {}

(* Who cancelled an import is known by the time it maps its outcome. *)
CauseInv ==
  caller = "import" /\ cancel =>
    \/ jobCancel \/ byteCut \/ timeCut \/ HostStopRequested \in Range(calls)
    \/ \E w \in Topics \cup {Puller, Poller} : canceller[w] # None /\ canceller[w].host

(* A topic of an import that was cut is reported as failed. *)
ReportInv ==
  caller = "import" =>
    \A t \in Topics : end[t] = "cut" /\ pool[t] \in {"done", "off"} =>
      \E c \in Range(calls) : c.call = "finished" /\ c.ok = FALSE

SuccessInv == (terminal = "SUCCEEDED" => job = "end") /\ SuccessIsUncut

DownloadInv ==
  /\ PoolTyped /\ CallTyped
  /\ BatchInv /\ PoolInv /\ TopicInv /\ LedgerInv
  /\ CallerInv /\ CancelInv /\ DoneInv /\ CutInv /\ FailedInv /\ CauseInv /\ ReportInv
  /\ SuccessInv
  /\ NoDeadCall

(* The callbacks of a set of topics, in some order. *)
LEMMA SetToSeqRange ==
  ASSUME NEW S, IsFiniteSet(S)
  PROVE  SetToSeq(S) \in Seq(S) /\ Range(SetToSeq(S)) \subseteq S
<1>1. Cardinality(S) \in Nat /\ ExistsBijection(1 .. Cardinality(S), S)
  BY FS_CardinalityType
<1>2. \E f \in [1 .. Cardinality(S) -> S] : IsInjective(f)
  BY <1>1 DEF ExistsBijection, Bijection, Injection
<1>3. SetToSeq(S) \in [1 .. Cardinality(S) -> S]
  BY <1>2 DEF SetToSeq
<1> QED
  BY <1>1, <1>3, SeqDef DEF Range

(* One more callback. *)
LEMMA AppendRange ==
  ASSUME NEW S, NEW s \in Seq(S), NEW e \in S
  PROVE  /\ Append(s, e) \in Seq(S)
         /\ Range(Append(s, e)) = Range(s) \cup {e}
<1>1. Append(s, e) \in Seq(S) /\ DOMAIN Append(s, e) = 1 .. Len(s) + 1 /\ DOMAIN s = 1 .. Len(s)
  OBVIOUS
<1>2. \A i \in 1 .. Len(s) : Append(s, e)[i] = s[i]
  OBVIOUS
<1>3. Append(s, e)[Len(s) + 1] = e
  OBVIOUS
<1>4. Len(s) \in Nat
  OBVIOUS
<1> QED
  BY <1>1, <1>2, <1>3, <1>4 DEF Range

(* Every topic reported as failed, after what was reported before. *)
LEMMA AllFailedRange ==
  ASSUME calls \in Seq(Calls)
  PROVE  /\ AllFailed \in Seq(Calls)
         /\ Range(calls) \subseteq Range(AllFailed)
         /\ \A c \in Range(AllFailed) :
              c \in Range(calls) \/ (c.call = "finished" /\ c.topic \in Topics)
<1> DEFINE F == {PullFinished(t, FALSE) : t \in Topics}
<1>1. IsFiniteSet(F)
  <2> DEFINE f == [t \in Topics |-> PullFinished(t, FALSE)]
  <2>1. f \in [Topics -> F] /\ \A y \in F : \E t \in Topics : f[t] = y
    OBVIOUS
  <2>2. f \in Surjection(Topics, F)
    BY <2>1 DEF Surjection
  <2> HIDE DEF F, f
  <2> QED
    BY <2>2, FetchAssumption, FS_Surjection
<1>2. F \subseteq Calls
  <2> SUFFICES ASSUME NEW t \in Topics PROVE PullFinished(t, FALSE) \in Calls
    OBVIOUS
  <2> QED
    BY DEF PullFinished, Calls
<1>3. AllFailed = calls \o SetToSeq(F)
  BY DEF AllFailed
<1> HIDE DEF F
<1>4. SetToSeq(F) \in Seq(F) /\ Range(SetToSeq(F)) \subseteq F
  BY <1>1, SetToSeqRange
<1>5. SetToSeq(F) \in Seq(Calls)
  BY <1>2, <1>4, SeqMonotonic
<1>6. AllFailed \in Seq(Calls) /\ Range(AllFailed) = Range(calls) \cup Range(SetToSeq(F))
  BY <1>3, <1>5, RangeConcatenation, ConcatProperties
<1>7. \A c \in F : c.call = "finished" /\ c.topic \in Topics
  BY DEF F, PullFinished
<1> QED
  BY <1>4, <1>6, <1>7

(* A pool thread runs only inside pullTopics. *)
LEMMA PoolRuns ==
  ASSUME PoolInv, NEW t \in Topics, pool[t] # "off"
  PROVE  pull = "pull"
BY DEF PoolInv

(* An import has no outcome while its batch runs. *)
LEMMA Unsettled ==
  ASSUME CallerInv, SuccessInv, pull # "idle"
  PROVE  terminal # "SUCCEEDED"
BY FetchAssumption DEF CallerInv, SuccessInv

(* What raising the cancel flag does. *)
LEMMA BeginCancelFacts ==
  ASSUME CallTyped, NEW w \in Threads, NEW h \in BOOLEAN, BeginCancel(w, h)
  PROVE  /\ cancel'
         /\ canceller' \in [Threads -> Cancels \cup {None}]
         /\ canceller'[w] # None /\ canceller'[w].host = h
         /\ \A v \in Threads \ {w} : canceller'[v] = canceller[v]
<1> DEFINE r == [at |-> "tell", host |-> h]
<1>1. r \in Cancels /\ r.host = h
  BY DEF Cancels
<1>2. r # None
  BY <1>1, FetchAssumption DEF Cancels
<1> HIDE DEF r
<1>3. canceller' = [canceller EXCEPT ![w] = r] /\ cancel'
  BY DEF BeginCancel, r
<1>4. canceller \in [Threads -> Cancels \cup {None}]
  BY DEF CallTyped
<1> QED
  BY <1>1, <1>2, <1>3, <1>4

(* Whoever cancels an import leaves a trace of it. *)
LEMMA CauseLeft ==
  ASSUME CallTyped, NEW w \in Threads, NEW h \in BOOLEAN, BeginCancel(w, h),
         (h /\ w \in Topics \cup {Puller, Poller}) \/ jobCancel' \/ byteCut' \/ timeCut'
  PROVE  CauseInv'
BY BeginCancelFacts DEF CauseInv

(* A Stop of the host's cancels once. *)
LEMMA FromHostFacts ==
  ASSUME CallTyped, NEW w \in Threads, requestCancelFromHost(w)
  PROVE  /\ UNCHANGED <<killed, calls>>
         /\ BeginCancel(w, TRUE) \/ UNCHANGED <<cancel, canceller>>
BY DEF requestCancelFromHost, cancelVars

(* The one attempt to open a context. *)
LEMMA EnsureFacts ==
  ASSUME BatchInv, CallTyped, NEW w \in Threads, pull \in {"eager", "pull"},
         datasetForFetch(TRUE), ensureIngestProgress(w)
  PROVE  /\ attempted' /\ dataset' = "made"
         /\ view' \/ stopView' => ctx' = "live"
         /\ view => view'
         /\ UNCHANGED <<verdict, deadCall, killed, calls>>
         /\ BeginCancel(w, TRUE) \/ UNCHANGED <<cancel, canceller>>
<1>1. attempted' /\ UNCHANGED <<verdict, deadCall>>
  BY DEF ensureIngestProgress
<1>2. dataset' = "made"
  BY DEF datasetForFetch, BatchInv
<1>3. CASE OpenContext(w)
  BY <1>1, <1>2, <1>3, FromHostFacts DEF OpenContext, cancelVars
<1>4. CASE UNCHANGED <<view, stopView, reported, cancelVars, ctx, hostStop, told>>
  BY <1>1, <1>2, <1>4 DEF BatchInv, cancelVars
<1> QED
  BY <1>3, <1>4 DEF ensureIngestProgress

(* A callback is queued. *)
LEMMA Appended ==
  ASSUME CallTyped, NEW e \in Calls, calls' = Append(calls, e)
  PROVE  calls' \in Seq(Calls) /\ Range(calls') = Range(calls) \cup {e}
BY AppendRange DEF CallTyped

(* What was called is in the queue. *)
LEMMA CalledRange ==
  ASSUME NEW call, NEW ok
  PROVE  Called(call, ok) <=> \E c \in Range(calls) : c.call = call /\ c.ok = ok
BY DEF Called, Range

(* A step that leaves alone what a part of the invariant speaks of keeps it. *)
LEMMA Frames ==
  /\ PoolTyped /\ UNCHANGED <<pull, pool, todo, read, pushed, bad, end, ledger>> => PoolTyped'
  /\ CallTyped /\ UNCHANGED <<canceller, calls, seen>> => CallTyped'
  /\ BatchInv /\ UNCHANGED <<pull, view, stopView, ctx, verdict, attempted, dataset,
                             imported>> => BatchInv'
  /\ PoolInv /\ UNCHANGED <<pull, pool, view>> => PoolInv'
  /\ TopicInv /\ UNCHANGED <<pull, pool, todo, read, pushed, bad, end, ledger>> => TopicInv'
  /\ LedgerInv /\ UNCHANGED <<pull, pool, read, pushed, bad, end, ledger>> => LedgerInv'
  /\ CallerInv /\ UNCHANGED <<pull, caller, active, job, watchdog, terminal, gui, calls,
                              failed>> => CallerInv'
  /\ CancelInv /\ UNCHANGED <<canceller, cancel, pool, pull, poller, caller, killed,
                              end>> => CancelInv'
  /\ DoneInv /\ UNCHANGED <<calls, pull, job, pool>> => DoneInv'
  /\ CutInv /\ UNCHANGED <<calls, pull, end, cancel, failed>> => CutInv'
  /\ FailedInv /\ UNCHANGED <<failed, pool, end, pull>> => FailedInv'
  /\ CauseInv /\ UNCHANGED <<caller, cancel, jobCancel, byteCut, timeCut, calls,
                             canceller>> => CauseInv'
  /\ ReportInv /\ UNCHANGED <<caller, end, pool, calls>> => ReportInv'
  /\ SuccessInv /\ UNCHANGED <<terminal, job, dataset, end>> => SuccessInv'
  /\ NoDeadCall /\ UNCHANGED <<deadCall>> => NoDeadCall'
<1>1. PoolTyped /\ UNCHANGED <<pull, pool, todo, read, pushed, bad, end, ledger>> => PoolTyped'
  BY DEF PoolTyped
<1>2. CallTyped /\ UNCHANGED <<canceller, calls, seen>> => CallTyped'
  BY DEF CallTyped
<1>3. BatchInv /\ UNCHANGED <<pull, view, stopView, ctx, verdict, attempted, dataset,
                              imported>> => BatchInv'
  BY DEF BatchInv
<1>4. PoolInv /\ UNCHANGED <<pull, pool, view>> => PoolInv'
  BY DEF PoolInv
<1>5. TopicInv /\ UNCHANGED <<pull, pool, todo, read, pushed, bad, end, ledger>> => TopicInv'
  BY DEF TopicInv, TopicOf
<1>6. LedgerInv /\ UNCHANGED <<pull, pool, read, pushed, bad, end, ledger>> => LedgerInv'
  BY DEF LedgerInv
<1>7. CallerInv /\ UNCHANGED <<pull, caller, active, job, watchdog, terminal, gui, calls,
                               failed>> => CallerInv'
  BY DEF CallerInv
<1>8. CancelInv /\ UNCHANGED <<canceller, cancel, pool, pull, poller, caller, killed,
                               end>> => CancelInv'
  BY DEF CancelInv, Threads
<1>9. DoneInv /\ UNCHANGED <<calls, pull, job, pool>> => DoneInv'
  BY DEF DoneInv
<1>10. CutInv /\ UNCHANGED <<calls, pull, end, cancel, failed>> => CutInv'
  BY DEF CutInv
<1>11. FailedInv /\ UNCHANGED <<failed, pool, end, pull>> => FailedInv'
  BY DEF FailedInv
<1>12. CauseInv /\ UNCHANGED <<caller, cancel, jobCancel, byteCut, timeCut, calls,
                               canceller>> => CauseInv'
  BY DEF CauseInv
<1>13. ReportInv /\ UNCHANGED <<caller, end, pool, calls>> => ReportInv'
  BY DEF ReportInv
<1>14. SuccessInv /\ UNCHANGED <<terminal, job, dataset, end>> => SuccessInv'
  BY DEF SuccessInv, SuccessIsUncut
<1>15. NoDeadCall /\ UNCHANGED <<deadCall>> => NoDeadCall'
  BY DEF NoDeadCall
<1> QED
  BY <1>1, <1>2, <1>3, <1>4, <1>5, <1>6, <1>7, <1>8, <1>9, <1>10, <1>11, <1>12, <1>13, <1>14, <1>15

(* A reader opens, or finds the batch cancelled. *)
LEMMA OpenReaderPreserves ==
  ASSUME NEW t \in Topics, DownloadInv, OpenReader(t), UNCHANGED callerVars
  PROVE  DownloadInv'
<1> USE FetchAssumption
<1> USE DEF DownloadInv, fetchVars, batchVars, lockVars, poolVars, cancelVars, hostVars,
      callerVars, dialogVars, jobVars, OpenReader, At, Goto, Idle
<1>1. CallTyped' /\ BatchInv' /\ CallerInv' /\ CauseInv' /\ NoDeadCall'
  BY Frames
<1>2. PoolTyped'
  BY DEF PoolTyped, Places, TopicInv, TopicOf
<1>3. PoolInv'
  BY DEF PoolInv, PoolTyped, BatchInv
<1>4. TopicInv'
  BY DEF TopicInv, TopicOf, PoolTyped, PoolInv
<1>5. LedgerInv'
  BY DEF LedgerInv, TopicInv, TopicOf, PoolTyped, PoolInv
<1>6. CancelInv'
  BY DEF CancelInv, Threads, PoolTyped, CallTyped, Cancels, PoolInv, CallerInv, TopicInv,
      TopicOf
<1>7. DoneInv'
  BY DEF DoneInv, PoolTyped, PoolInv, CallerInv
<1>8. CutInv'
  BY DEF CutInv, PoolTyped, PoolInv, CancelInv, TopicInv, TopicOf, CallerInv
<1>9. FailedInv'
  BY DEF FailedInv, PoolTyped, PoolInv, CallerInv, TopicInv, TopicOf, DoneInv
<1>10. ReportInv'
  <2>1. \A s \in Topics : end'[s] = "cut" /\ pool'[s] \in {"done", "off"} =>
          end[s] = "cut" /\ pool[s] \in {"done", "off"}
    BY DEF PoolTyped
  <2> QED
    BY <2>1 DEF ReportInv
<1>11. SuccessInv'
  <2>1. terminal # "SUCCEEDED"
    BY PoolRuns, Unsettled
  <2> QED
    BY <2>1 DEF SuccessInv, SuccessIsUncut
<1> QED
  BY <1>1, <1>2, <1>3, <1>4, <1>5, <1>6, <1>7, <1>8, <1>9, <1>10, <1>11

(* A batch arrives. *)
LEMMA on_batchPreserves ==
  ASSUME NEW t \in Topics, DownloadInv, on_batch(t), UNCHANGED callerVars
  PROVE  DownloadInv'
<1> USE FetchAssumption
<1> USE DEF DownloadInv, fetchVars, batchVars, lockVars, poolVars, cancelVars, hostVars,
      callerVars, dialogVars, jobVars, on_batch, At, Goto, Idle
<1>1. CallTyped' /\ BatchInv' /\ CallerInv' /\ CutInv' /\ CauseInv' /\ SuccessInv' /\
       NoDeadCall'
  BY Frames
<1>2. PoolTyped'
  BY DEF PoolTyped, Places, TopicInv, TopicOf
<1>3. PoolInv'
  BY DEF PoolInv, PoolTyped, BatchInv
<1>4. TopicInv'
  BY DEF TopicInv, TopicOf, PoolTyped, PoolInv
<1>5. LedgerInv'
  BY DEF LedgerInv, TopicInv, TopicOf, PoolTyped, PoolInv
<1>6. CancelInv'
  BY DEF CancelInv, Threads, PoolTyped, CallTyped, Cancels, PoolInv, CallerInv, TopicInv,
      TopicOf
<1>7. DoneInv'
  BY DEF DoneInv, PoolTyped, PoolInv, CallerInv
<1>8. FailedInv'
  BY DEF FailedInv, PoolTyped, PoolInv, CallerInv, TopicInv, TopicOf, DoneInv
<1>9. ReportInv'
  BY DEF ReportInv, PoolTyped
<1> QED
  BY <1>1, <1>2, <1>3, <1>4, <1>5, <1>6, <1>7, <1>8, <1>9

(* The host answers a progress tick with Stop. *)
LEMMA on_progressPreserves ==
  ASSUME NEW t \in Topics, DownloadInv, on_progress(t), UNCHANGED callerVars
  PROVE  DownloadInv'
<1> USE FetchAssumption
<1> USE DEF DownloadInv, fetchVars, batchVars, lockVars, poolVars, cancelVars, hostVars,
      callerVars, dialogVars, jobVars, on_progress, At, Idle, CallsHost,
      requestCancelFromHost, BeginCancel
<1>1. t \in Threads
  BY DEF Threads
<1>2. BeginCancel(t, TRUE) \/ UNCHANGED <<cancel, canceller>>
  BY <1>1, FromHostFacts
<1>3. UNCHANGED calls
  BY <1>1, FromHostFacts
<1>4. PoolTyped' /\ BatchInv' /\ PoolInv' /\ TopicInv' /\ LedgerInv' /\ CallerInv' /\
       DoneInv' /\ FailedInv' /\ ReportInv' /\ SuccessInv'
  BY Frames
<1>5. CallTyped'
  BY <1>1, <1>2, <1>3, BeginCancelFacts DEF CallTyped
<1>6. CancelInv'
  BY DEF CancelInv, Threads, PoolTyped, CallTyped, Cancels, PoolInv, CallerInv, TopicInv,
      TopicOf
<1>7. CutInv'
  BY DEF CutInv, PoolTyped, PoolInv, CancelInv, TopicInv, TopicOf, CallerInv
<1>8. CauseInv'
  <2>1. CASE BeginCancel(t, TRUE)
    BY <1>1, <2>1, CauseLeft
  <2>2. CASE UNCHANGED <<cancel, canceller>>
    BY <1>3, <2>2 DEF CauseInv
  <2> QED
    BY <1>2, <2>1, <2>2
<1>9. NoDeadCall'
  BY DEF NoDeadCall, BatchInv
<1> QED
  BY <1>4, <1>5, <1>6, <1>7, <1>8, <1>9

(* A stream ends, fails or is interrupted. *)
LEMMA EndStreamPreserves ==
  ASSUME NEW t \in Topics, NEW r \in {"ok", "failed", "cut"}, DownloadInv, At(t, "read"),
         r = "cut" => t \in killed, EndStream(t, r), UNCHANGED callerVars
  PROVE  DownloadInv'
<1> USE FetchAssumption
<1> USE DEF DownloadInv, fetchVars, batchVars, lockVars, poolVars, cancelVars, hostVars,
      callerVars, dialogVars, jobVars, EndStream, At, Goto, Idle
<1>1. /\ pool'[t] = IF r = "ok" /\ todo[t] > 0 /\ ~bad[t] THEN "lock" ELSE "record"
      /\ \A s \in Topics \ {t} : pool'[s] = pool[s] /\ end'[s] = end[s] /\ todo'[s] = todo[s]
      /\ end'[t] = r /\ todo'[t] = IF r = "ok" THEN todo[t] ELSE 0
  BY DEF PoolTyped
<1>2. CallTyped' /\ BatchInv' /\ CallerInv' /\ CauseInv' /\ NoDeadCall'
  BY Frames
<1>3. PoolTyped'
  BY DEF PoolTyped, Places, TopicInv, TopicOf
<1>4. PoolInv'
  BY DEF PoolInv, PoolTyped, BatchInv
<1>5. TopicInv'
  <2> SUFFICES ASSUME NEW s \in Topics PROVE TopicOf(s)'
    BY DEF TopicInv
  <2>1. TopicOf(s)
    BY DEF TopicInv
  <2>2. pull = "pull"
    BY PoolRuns
  <2>3. CASE s # t
    BY <1>1, <2>1, <2>3 DEF TopicOf
  <2>4. CASE s = t
    <3>1. todo[t] \in Nat /\ read[t] \in Nat /\ pushed[t] \in Nat
      BY DEF PoolTyped
    <3>2. ~bad[t] => read[t] = pushed[t] + todo[t]
      BY <2>1, <2>4 DEF TopicOf
    <3>3. CASE r = "ok"
      BY <1>1, <2>2, <2>4, <3>1, <3>2, <3>3 DEF TopicOf
    <3>4. CASE r # "ok"
      BY <1>1, <2>2, <2>4, <3>4 DEF TopicOf
    <3> QED
      BY <3>3, <3>4
  <2> QED
    BY <2>3, <2>4
<1>6. LedgerInv'
  BY DEF LedgerInv, TopicInv, TopicOf, PoolTyped, PoolInv
<1>7. CancelInv'
  BY DEF CancelInv, Threads, PoolTyped, CallTyped, Cancels, PoolInv, CallerInv, TopicInv,
      TopicOf
<1>8. DoneInv'
  BY DEF DoneInv, PoolTyped, PoolInv, CallerInv
<1>9. CutInv'
  BY DEF CutInv, PoolTyped, PoolInv, CancelInv, TopicInv, TopicOf, CallerInv
<1>10. FailedInv'
  BY DEF FailedInv, PoolTyped, PoolInv, CallerInv, TopicInv, TopicOf, DoneInv
<1>11. ReportInv'
  <2>1. \A s \in Topics : end'[s] = "cut" /\ pool'[s] \in {"done", "off"} =>
          end[s] = "cut" /\ pool[s] \in {"done", "off"}
    BY <1>1 DEF PoolTyped
  <2> QED
    BY <2>1 DEF ReportInv
<1>12. SuccessInv'
  <2>1. terminal # "SUCCEEDED"
    BY PoolRuns, Unsettled
  <2> QED
    BY <2>1 DEF SuccessInv, SuccessIsUncut
<1> QED
  BY <1>2, <1>3, <1>4, <1>5, <1>6, <1>7, <1>8, <1>9, <1>10, <1>11, <1>12

(* A push was taken or refused. *)
LEMMA AfterPushPreserves ==
  ASSUME NEW t \in Topics, NEW ok \in BOOLEAN, DownloadInv,
         pool[t] \in {"lock", "push", "parked"}, Idle(t), ok => view, AfterPush(t, ok),
         ~deadCall',
         UNCHANGED <<pull, dataset, view, stopView, attempted, reported, read, end, ledger,
                     poller, cancelVars, ctx, verdict>>,
         UNCHANGED callerVars
  PROVE  DownloadInv'
<1> USE FetchAssumption
<1> USE DEF DownloadInv, fetchVars, batchVars, lockVars, poolVars, cancelVars, hostVars,
      callerVars, dialogVars, jobVars, AfterPush, Goto, Idle
<1>1. /\ todo[t] \in Nat /\ todo[t] > 0 /\ read[t] \in Nat /\ pushed[t] \in Nat
      /\ ~bad[t] /\ end[t] \in {None, "ok"} /\ read[t] = pushed[t] + todo[t]
  BY DEF PoolTyped, TopicInv, TopicOf
<1>2. pull = "pull"
  BY PoolRuns
<1>3. pool \in [Topics -> Places] /\ todo \in [Topics -> Nat] /\ pushed \in [Topics -> Nat]
      /\ bad \in [Topics -> BOOLEAN]
  BY DEF PoolTyped
<1>4. /\ pool'[t] = CASE end[t] = None -> "read"
                    [] end[t] # None /\ ok /\ todo[t] > 1 -> "lock"
                    [] OTHER -> "record"
      /\ todo'[t] = (IF ok THEN todo[t] - 1 ELSE 0) /\ bad'[t] = ~ok
      /\ pushed'[t] = IF ok THEN pushed[t] + 1 ELSE pushed[t]
      /\ \A s \in Topics \ {t} : /\ pool'[s] = pool[s] /\ todo'[s] = todo[s]
                                 /\ bad'[s] = bad[s] /\ pushed'[s] = pushed[s]
  BY <1>3, Zenon
<1>5. /\ pool'[t] \in {"read", "lock", "record"} /\ (pool'[t] = "read" <=> end[t] = None)
      /\ pool'[t] = "lock" => ok /\ todo[t] > 1
      /\ pool'[t] = "record" => ~ok \/ ~(todo[t] > 1)
  <2>1. CASE end[t] = None
    BY <1>4, <2>1
  <2>2. CASE end[t] # None /\ ok /\ todo[t] > 1
    BY <1>4, <2>2
  <2>3. CASE end[t] # None /\ ~(ok /\ todo[t] > 1)
    BY <1>4, <2>3
  <2> QED
    BY <2>1, <2>2, <2>3
<1>6. CallTyped' /\ CallerInv' /\ CutInv' /\ CauseInv' /\ SuccessInv'
  BY Frames
<1>7. PoolTyped'
  <2>1. pool' \in [Topics -> Places]
    BY <1>3, <1>5 DEF Places
  <2>2. todo' \in [Topics -> Nat]
    BY <1>3, <1>1
  <2>3. pushed' \in [Topics -> Nat]
    BY <1>3, <1>1
  <2>4. bad' \in [Topics -> BOOLEAN]
    BY <1>3
  <2> QED
    BY <2>1, <2>2, <2>3, <2>4 DEF PoolTyped
<1>8. BatchInv'
  <2>1. imported' = (imported \/ ok)
    OBVIOUS
  <2> QED
    BY <2>1, <1>2 DEF BatchInv
<1>9. PoolInv'
  BY <1>2, <1>4, <1>5 DEF PoolInv
<1>10. TopicInv'
  <2> SUFFICES ASSUME NEW s \in Topics PROVE TopicOf(s)'
    BY DEF TopicInv
  <2>1. CASE s # t
    BY <1>4, <2>1 DEF TopicInv, TopicOf
  <2>2. CASE s = t
    <3>1. CASE ok
      <4>1. todo'[t] = todo[t] - 1 /\ pushed'[t] = pushed[t] + 1 /\ ~bad'[t]
        BY <1>4, <3>1
      <4>2. read[t] = pushed'[t] + todo'[t]
        BY <1>1, <4>1
      <4>3. pool'[t] = "lock" => todo'[t] > 0
        BY <1>1, <1>5, <4>1
      <4>4. pool'[t] = "record" => todo'[t] = 0
        BY <1>1, <1>5, <3>1, <4>1
      <4> QED
        BY <1>1, <1>2, <1>5, <2>2, <4>1, <4>2, <4>3, <4>4 DEF TopicOf
    <3>2. CASE ~ok
      BY <1>1, <1>2, <1>4, <1>5, <2>2, <3>2 DEF TopicOf
    <3> QED
      BY <3>1, <3>2
  <2> QED
    BY <2>1, <2>2
<1>11. LedgerInv'
  BY <1>2, <1>4, <1>5 DEF LedgerInv
<1>12. CancelInv'
  BY <1>2, <1>4, <1>5 DEF CancelInv, Threads
<1>13. DoneInv'
  BY <1>2, <1>4, <1>5 DEF DoneInv
<1>14. FailedInv'
  BY <1>2, <1>4, <1>5 DEF FailedInv
<1>15. ReportInv'
  BY <1>2, <1>4, <1>5 DEF ReportInv
<1>16. NoDeadCall'
  BY DEF NoDeadCall
<1> QED
  BY <1>6, <1>7, <1>8, <1>9, <1>10, <1>11, <1>12, <1>13, <1>14, <1>15, <1>16

(* A push parks in the host. *)
LEMMA ParksPreserves ==
  ASSUME NEW t \in Topics, DownloadInv, At(t, "push"), view, Goto(t, "parked"), ~deadCall',
         UNCHANGED <<pull, batchVars, todo, read, pushed, bad, end, ledger, poller, cancelVars,
                     ctx, verdict>>,
         UNCHANGED callerVars
  PROVE  DownloadInv'
<1> USE FetchAssumption
<1> USE DEF DownloadInv, fetchVars, batchVars, lockVars, poolVars, cancelVars, hostVars,
      callerVars, dialogVars, jobVars, At, Idle, Goto
<1>1. CallTyped' /\ BatchInv' /\ CallerInv' /\ CutInv' /\ CauseInv' /\ SuccessInv'
  BY Frames
<1>2. PoolTyped'
  BY DEF PoolTyped, Places, TopicInv, TopicOf
<1>3. PoolInv'
  BY DEF PoolInv, PoolTyped, BatchInv
<1>4. TopicInv'
  BY DEF TopicInv, TopicOf, PoolTyped, PoolInv
<1>5. LedgerInv'
  BY DEF LedgerInv, TopicInv, TopicOf, PoolTyped, PoolInv
<1>6. CancelInv'
  BY DEF CancelInv, Threads, PoolTyped, CallTyped, Cancels, PoolInv, CallerInv, TopicInv,
      TopicOf
<1>7. DoneInv'
  BY DEF DoneInv, PoolTyped, PoolInv, CallerInv
<1>8. FailedInv'
  BY DEF FailedInv, PoolTyped, PoolInv, CallerInv, TopicInv, TopicOf, DoneInv
<1>9. ReportInv'
  BY DEF ReportInv, PoolTyped
<1>10. NoDeadCall'
  BY DEF NoDeadCall
<1> QED
  BY <1>1, <1>2, <1>3, <1>4, <1>5, <1>6, <1>7, <1>8, <1>9, <1>10

(* A pool thread enters with a dataset and, if the host gave one, a context. *)
LEMMA EntersPreserves ==
  ASSUME NEW t \in Topics, DownloadInv, At(t, "lock"), datasetForFetch(TRUE),
         ensureIngestProgress(t), Goto(t, "push"),
         UNCHANGED <<pull, todo, read, pushed, bad, end, ledger, poller, imported>>,
         UNCHANGED callerVars
  PROVE  DownloadInv'
<1> USE FetchAssumption
<1> USE DEF DownloadInv, fetchVars, batchVars, lockVars, poolVars, cancelVars, hostVars,
      callerVars, dialogVars, jobVars, At, Idle, Goto
<1>1. pull = "pull"
  BY PoolRuns
<1>2. t \in Threads
  BY DEF Threads
<1>3. /\ attempted' /\ dataset' = "made"
      /\ view' \/ stopView' => ctx' = "live"
      /\ view => view'
      /\ UNCHANGED <<verdict, deadCall, killed, calls>>
      /\ BeginCancel(t, TRUE) \/ UNCHANGED <<cancel, canceller>>
  BY <1>1, <1>2, EnsureFacts
<1>4. pool'[t] = "push" /\ \A s \in Topics \ {t} : pool'[s] = pool[s]
  BY DEF PoolTyped
<1>5. (cancel => cancel') /\ (\A v \in Threads \ {t} : canceller'[v] = canceller[v])
      /\ (canceller'[t] # None => cancel')
  <2>1. CASE BeginCancel(t, TRUE)
    BY <1>2, <2>1, BeginCancelFacts
  <2>2. CASE UNCHANGED <<cancel, canceller>>
    BY <2>2
  <2> QED
    BY <1>3, <2>1, <2>2
<1>6. CallerInv' /\ NoDeadCall'
  BY <1>3, Frames
<1>7. PoolTyped'
  BY DEF PoolTyped, Places, TopicInv, TopicOf
<1>8. CallTyped'
  BY <1>2, <1>3, BeginCancelFacts DEF CallTyped
<1>9. BatchInv'
  BY <1>1, <1>3 DEF BatchInv
<1>10. PoolInv'
  BY <1>1, <1>3, <1>4 DEF PoolInv
<1>11. TopicInv'
  BY <1>1, <1>4 DEF TopicInv, TopicOf
<1>12. LedgerInv'
  BY <1>1, <1>4 DEF LedgerInv
<1>13. CancelInv'
  <2>1. \A v \in Threads : canceller'[v] # None => cancel'
    BY <1>5 DEF CancelInv
  <2>2. \A s \in Topics : canceller'[s] # None => pool'[s] \in {"read", "push"}
    BY <1>5, <1>4 DEF CancelInv, Threads
  <2>3. UNCHANGED <<canceller[Puller], canceller[Poller], canceller[Watchdog]>>
    BY <1>5 DEF Threads
  <2>4. \A s \in killed' : cancel' /\ end'[s] = None /\ pool'[s] \in {"read", "lock", "push", "parked"}
    BY <1>5, <1>3, <1>4 DEF CancelInv
  <2> QED
    BY <1>3, <2>1, <2>2, <2>3, <2>4 DEF CancelInv
<1>14. DoneInv'
  BY <1>1, <1>3, <1>4 DEF DoneInv
<1>15. CutInv'
  BY <1>1, <1>5 DEF CutInv
<1>16. FailedInv'
  BY <1>1, <1>4 DEF FailedInv
<1>17. CauseInv'
  <2>1. CASE BeginCancel(t, TRUE)
    BY <1>2, <2>1, CauseLeft
  <2>2. CASE UNCHANGED <<cancel, canceller>>
    BY <1>3, <2>2 DEF CauseInv
  <2> QED
    BY <1>3, <2>1, <2>2
<1>18. ReportInv'
  BY <1>3, <1>4 DEF ReportInv
<1>19. SuccessInv'
  <2>1. terminal # "SUCCEEDED"
    BY PoolRuns, Unsettled
  <2> QED
    BY <2>1 DEF SuccessInv, SuccessIsUncut
<1> QED
  BY <1>6, <1>7, <1>8, <1>9, <1>10, <1>11, <1>12, <1>13, <1>14, <1>15, <1>16, <1>17, <1>18,
      <1>19

(* A topic is recorded and reported. *)
LEMMA on_donePreserves ==
  ASSUME NEW t \in Topics, DownloadInv, on_done(t), UNCHANGED callerVars
  PROVE  DownloadInv'
<1> USE FetchAssumption
<1> USE DEF DownloadInv, fetchVars, batchVars, lockVars, poolVars, cancelVars, hostVars,
      callerVars, dialogVars, jobVars, on_done, At, Goto, Idle
<1>1. pull = "pull"
  BY PoolRuns
<1>2. /\ TopicOutcome(t) \in {"ok", "empty", "failed"}
      /\ TopicOutcome(t) # "failed" => end[t] = "ok" /\ ~bad[t]
  BY DEF TopicOutcome
<1>3. /\ calls' \in Seq(Calls)
      /\ Range(calls') = Range(calls) \cup {PullFinished(t, TopicOutcome(t) # "failed")}
  <2>1. PullFinished(t, TopicOutcome(t) # "failed") \in Calls
    BY DEF PullFinished, Calls
  <2> QED
    BY <2>1, AppendRange DEF CallTyped
<1>4. pool'[t] = "done" /\ \A s \in Topics \ {t} : pool'[s] = pool[s] /\ ledger'[s] = ledger[s]
  BY DEF PoolTyped
<1>5. BatchInv' /\ SuccessInv' /\ NoDeadCall'
  BY Frames
<1>6. PoolTyped'
  BY <1>2 DEF PoolTyped, Places
<1>7. CallTyped'
  BY <1>3 DEF CallTyped
<1>8. PoolInv'
  BY DEF PoolInv, PoolTyped, BatchInv
<1>9. TopicInv'
  BY DEF TopicInv, TopicOf, PoolTyped, PoolInv
<1>10. LedgerInv'
  <2>1. ledger'[t] = TopicOutcome(t)
    BY DEF PoolTyped
  <2>2. end[t] = "ok" /\ ~bad[t] => pushed[t] = read[t]
    BY DEF TopicInv, TopicOf, PoolTyped
  <2> QED
    BY <1>1, <1>2, <1>4, <2>1, <2>2 DEF LedgerInv
<1>11. CallerInv'
  BY <1>3 DEF CallerInv, PullFinished
<1>12. CancelInv'
  BY DEF CancelInv, Threads, PoolTyped, CallTyped, Cancels, PoolInv, CallerInv, TopicInv,
      TopicOf
<1>13. DoneInv'
  BY <1>1, <1>3, <1>4 DEF DoneInv, PullFinished, CallerInv
<1>14. CutInv'
  BY <1>1 DEF CutInv
<1>15. FailedInv'
  BY DEF FailedInv, PoolTyped, PoolInv, CallerInv, TopicInv, TopicOf, DoneInv
<1>16. CauseInv'
  BY <1>3 DEF CauseInv
<1>17. ReportInv'
  <2>1. end[t] = "cut" => PullFinished(t, TopicOutcome(t) # "failed").ok = FALSE
    BY <1>2 DEF PullFinished
  <2>2. PullFinished(t, TopicOutcome(t) # "failed").call = "finished"
    BY DEF PullFinished
  <2> QED
    BY <1>3, <1>4, <2>1, <2>2 DEF ReportInv
<1> QED
  BY <1>5, <1>6, <1>7, <1>8, <1>9, <1>10, <1>11, <1>12, <1>13, <1>14, <1>15, <1>16, <1>17

(* A thread that cancels tells the host. *)
LEMMA TellHostPreserves ==
  ASSUME NEW w \in Threads, DownloadInv, TellHost(w), UNCHANGED callerVars
  PROVE  DownloadInv'
<1> USE FetchAssumption
<1> USE DEF DownloadInv, fetchVars, batchVars, lockVars, poolVars, cancelVars, hostVars,
      callerVars, dialogVars, jobVars, TellHost, CallsHost
<1>1. /\ canceller' \in [Threads -> Cancels \cup {None}]
      /\ canceller'[w] # None /\ canceller'[w].host = canceller[w].host
      /\ \A v \in Threads \ {w} : canceller'[v] = canceller[v]
  <2> DEFINE r == [canceller[w] EXCEPT !.at = "interrupt"]
  <2>1. canceller \in [Threads -> Cancels \cup {None}] /\ canceller[w] \in Cancels
    BY DEF CallTyped
  <2>2. r \in Cancels /\ r.host = canceller[w].host
    BY <2>1 DEF Cancels
  <2>3. r # None
    BY <2>2 DEF Cancels
  <2>4. canceller' = [canceller EXCEPT ![w] = r]
    OBVIOUS
  <2> HIDE DEF r
  <2> QED
    BY <2>1, <2>2, <2>3, <2>4
<1>2. PoolTyped' /\ BatchInv' /\ PoolInv' /\ TopicInv' /\ LedgerInv' /\ CallerInv' /\
       DoneInv' /\ CutInv' /\ FailedInv' /\ ReportInv' /\ SuccessInv'
  BY Frames
<1>3. CallTyped'
  BY <1>1 DEF CallTyped
<1>4. CancelInv'
  BY <1>1 DEF CancelInv, Threads
<1>5. CauseInv'
  <2>1. \A v \in Topics \cup {Puller, Poller} : canceller[v] # None /\ canceller[v].host =>
          canceller'[v] # None /\ canceller'[v].host
    BY <1>1 DEF Threads
  <2> QED
    BY <2>1 DEF CauseInv
<1>6. NoDeadCall'
  BY DEF NoDeadCall, BatchInv
<1> QED
  BY <1>2, <1>3, <1>4, <1>5, <1>6

(* It interrupts the readers, and reports a Stop of the host's. *)
LEMMA cancelActivePullsPreserves ==
  ASSUME NEW w \in Threads, DownloadInv, cancelActivePulls(w), UNCHANGED callerVars
  PROVE  DownloadInv'
<1> USE FetchAssumption
<1> USE DEF DownloadInv, fetchVars, batchVars, lockVars, poolVars, cancelVars, hostVars,
      callerVars, dialogVars, jobVars, cancelActivePulls, Registered
<1>1. /\ canceller' \in [Threads -> Cancels \cup {None}]
      /\ canceller'[w] = None /\ canceller[w] \in Cancels
      /\ \A v \in Threads \ {w} : canceller'[v] = canceller[v]
  BY DEF CallTyped
<1>2. /\ calls' \in Seq(Calls)
      /\ Range(calls') = IF canceller[w].host THEN Range(calls) \cup {HostStopRequested} ELSE Range(calls)
  <2>1. HostStopRequested \in Calls
    BY DEF HostStopRequested, Calls
  <2>2. canceller[w].host \in BOOLEAN
    BY <1>1 DEF Cancels
  <2>3. CASE canceller[w].host
    BY <2>1, <2>3, AppendRange DEF CallTyped
  <2>4. CASE ~canceller[w].host
    BY <2>4 DEF CallTyped
  <2> QED
    BY <2>2, <2>3, <2>4
<1>3. HostStopRequested.call = "stop"
  BY DEF HostStopRequested
<1>4. PoolTyped' /\ BatchInv' /\ PoolInv' /\ TopicInv' /\ LedgerInv' /\ FailedInv' /\
       SuccessInv' /\ NoDeadCall'
  BY Frames
<1>5. CallTyped'
  BY <1>1, <1>2 DEF CallTyped
<1>6. CallerInv'
  BY <1>2, <1>3 DEF CallerInv
<1>7. CancelInv'
  <2>1. \A v \in Threads : canceller'[v] # None => canceller[v] # None
    BY <1>1
  <2>2. \A s \in killed' : cancel /\ end[s] = None /\ pool[s] \in {"read", "lock", "push", "parked"}
    <3>1. cancel
      BY DEF CancelInv
    <3>2. \A s \in Topics : Registered(s) => pool[s] \in {"read", "lock", "push", "parked"}
      BY DEF PoolTyped, Places, TopicInv, TopicOf
    <3> QED
      BY <3>1, <3>2 DEF CancelInv
  <2>3. Puller \in Threads /\ Poller \in Threads /\ Watchdog \in Threads /\ Topics \subseteq Threads
    BY DEF Threads
  <2> QED
    BY <2>1, <2>2, <2>3 DEF CancelInv
<1>8. DoneInv'
  BY <1>2, <1>3 DEF DoneInv
<1>9. CutInv'
  <2>1. cancel
    BY DEF CancelInv
  <2> QED
    BY <2>1 DEF CutInv
<1>10. CauseInv'
  <2>1. CASE canceller[w].host
    BY <1>2, <2>1 DEF CauseInv
  <2>2. CASE ~canceller[w].host
    <3>1. \A v \in Topics \cup {Puller, Poller} : canceller[v] # None /\ canceller[v].host =>
            canceller'[v] = canceller[v]
      BY <1>1, <2>2 DEF Threads
    <3> QED
      BY <1>2, <2>2, <3>1 DEF CauseInv
  <2> QED
    BY <2>1, <2>2
<1>11. ReportInv'
  BY <1>2 DEF ReportInv
<1> QED
  BY <1>4, <1>5, <1>6, <1>7, <1>8, <1>9, <1>10, <1>11

(* The poller sees the host's Stop. *)
LEMMA PollerFiresPreserves ==
  ASSUME DownloadInv, PollerFires, UNCHANGED callerVars
  PROVE  DownloadInv'
<1> USE FetchAssumption
<1> USE DEF DownloadInv, fetchVars, batchVars, lockVars, poolVars, cancelVars, hostVars,
      callerVars, dialogVars, jobVars, PollerFires, isStopRequestedByHost, CallsHost,
      requestCancelFromHost, BeginCancel
<1>1. Poller \in Threads
  BY DEF Threads
<1>2. BeginCancel(Poller, TRUE) \/ UNCHANGED <<cancel, canceller>>
  BY <1>1, FromHostFacts
<1>3. UNCHANGED calls
  BY <1>1, FromHostFacts
<1>4. PoolTyped' /\ BatchInv' /\ PoolInv' /\ TopicInv' /\ LedgerInv' /\ CallerInv' /\
       DoneInv' /\ FailedInv' /\ ReportInv' /\ SuccessInv'
  BY Frames
<1>5. CallTyped'
  BY <1>1, <1>2, <1>3, BeginCancelFacts DEF CallTyped
<1>6. CancelInv'
  BY DEF CancelInv, Threads, PoolTyped, CallTyped, Cancels, PoolInv, CallerInv, TopicInv,
      TopicOf
<1>7. CutInv'
  BY DEF CutInv, PoolTyped, PoolInv, CancelInv, TopicInv, TopicOf, CallerInv
<1>8. CauseInv'
  <2>1. CASE BeginCancel(Poller, TRUE)
    BY <1>1, <2>1, CauseLeft
  <2>2. CASE UNCHANGED <<cancel, canceller>>
    BY <1>3, <2>2 DEF CauseInv
  <2> QED
    BY <1>2, <2>1, <2>2
<1>9. NoDeadCall'
  BY DEF NoDeadCall, BatchInv
<1> QED
  BY <1>4, <1>5, <1>6, <1>7, <1>8, <1>9

(* A batch without a client fails as a whole. *)
LEMMA NotConnectedPreserves ==
  ASSUME DownloadInv, NotConnected, caller = "dialog", UNCHANGED callerVars
  PROVE  DownloadInv'
<1> USE FetchAssumption
<1> USE DEF DownloadInv, fetchVars, batchVars, lockVars, poolVars, cancelVars, hostVars,
      callerVars, dialogVars, jobVars, NotConnected, FreshLocals, Fresh
<1>1. /\ calls' \in Seq(Calls)
      /\ \A c \in Range(calls') : \/ c \in Range(calls) \/ c.call = "complete"
                                  \/ c.topic \in Topics
  <2>1. AllFetchesComplete \in Calls /\ AllFetchesComplete.call = "complete"
    BY DEF AllFetchesComplete, Calls
  <2>2. AllFailed \in Seq(Calls)
    BY AllFailedRange DEF CallTyped
  <2>3. calls' \in Seq(Calls) /\ Range(calls') = Range(AllFailed) \cup {AllFetchesComplete}
    BY <2>1, <2>2, AppendRange
  <2>4. \A c \in Range(AllFailed) : c \in Range(calls) \/ c.topic \in Topics
    BY AllFailedRange DEF CallTyped
  <2> QED
    BY <2>1, <2>3, <2>4, Zenon
<1>2. \A t \in Topics : pool[t] = "off" /\ end'[t] = None
  BY DEF PoolInv
<1>3. NoDeadCall'
  BY Frames
<1>4. PoolTyped'
  BY DEF PoolTyped, Places, TopicInv, TopicOf
<1>5. CallTyped'
  BY <1>1 DEF CallTyped
<1>6. BatchInv'
  BY DEF BatchInv, PoolInv, PoolTyped, CallTyped
<1>7. PoolInv'
  BY DEF PoolInv, PoolTyped, BatchInv
<1>8. TopicInv'
  BY DEF TopicInv, TopicOf, PoolTyped, PoolInv
<1>9. LedgerInv'
  BY DEF LedgerInv, TopicInv, TopicOf, PoolTyped, PoolInv
<1>10. CallerInv'
  BY DEF CallerInv, PoolTyped
<1>11. CancelInv'
  BY DEF CancelInv, Threads, PoolTyped, CallTyped, Cancels, PoolInv, CallerInv, TopicInv,
      TopicOf
<1>12. DoneInv'
  BY <1>1, <1>2 DEF DoneInv, CallerInv
<1>13. CutInv'
  BY <1>2 DEF CutInv
<1>14. FailedInv'
  BY DEF FailedInv, PoolTyped, PoolInv, CallerInv, TopicInv, TopicOf, DoneInv
<1>15. CauseInv'
  BY DEF CauseInv, CallTyped
<1>16. ReportInv'
  BY DEF ReportInv, PoolTyped
<1>17. SuccessInv'
  BY DEF SuccessInv, SuccessIsUncut, PoolInv, PoolTyped, CallerInv, BatchInv
<1> QED
  BY <1>3, <1>4, <1>5, <1>6, <1>7, <1>8, <1>9, <1>10, <1>11, <1>12, <1>13, <1>14, <1>15,
      <1>16, <1>17

(* The state of the batch before is dropped. *)
LEMMA ResetBatchPreserves ==
  ASSUME DownloadInv, ResetBatch, UNCHANGED callerVars
  PROVE  DownloadInv'
<1> USE FetchAssumption
<1> USE DEF DownloadInv, fetchVars, batchVars, lockVars, poolVars, cancelVars, hostVars,
      callerVars, dialogVars, jobVars, ResetBatch, FreshLocals, Fresh, KeepCancel
<1>1. \A t \in Topics : pool[t] = "off" /\ end'[t] = None /\ ledger'[t] = None
  BY DEF PoolInv
<1>2. pull' \in {"eager", "ready"}
  OBVIOUS
<1>3. CallTyped' /\ CauseInv' /\ NoDeadCall'
  BY Frames
<1>4. PoolTyped'
  BY DEF PoolTyped, Places, TopicInv, TopicOf
<1>5. BatchInv'
  BY DEF BatchInv, PoolInv, PoolTyped, CallTyped
<1>6. PoolInv'
  BY DEF PoolInv, PoolTyped, BatchInv
<1>7. TopicInv'
  BY DEF TopicInv, TopicOf, PoolTyped, PoolInv
<1>8. LedgerInv'
  BY <1>1 DEF LedgerInv
<1>9. CallerInv'
  BY DEF CallerInv, PoolTyped
<1>10. CancelInv'
  BY DEF CancelInv, Threads, PoolTyped, CallTyped, Cancels, PoolInv, CallerInv, TopicInv,
      TopicOf
<1>11. DoneInv'
  BY <1>2 DEF DoneInv
<1>12. CutInv'
  BY <1>1 DEF CutInv
<1>13. FailedInv'
  BY <1>1, <1>2 DEF FailedInv
<1>14. ReportInv'
  BY <1>1 DEF ReportInv
<1>15. SuccessInv'
  <2>1. terminal # "SUCCEEDED"
    BY Unsettled
  <2> QED
    BY <2>1 DEF SuccessInv, SuccessIsUncut
<1> QED
  BY <1>3, <1>4, <1>5, <1>6, <1>7, <1>8, <1>9, <1>10, <1>11, <1>12, <1>13, <1>14, <1>15

(* The dataset and the context are made before the first byte. *)
LEMMA CreateEagerlyPreserves ==
  ASSUME DownloadInv, CreateEagerly, UNCHANGED callerVars
  PROVE  DownloadInv'
<1> USE FetchAssumption
<1> USE DEF DownloadInv, fetchVars, batchVars, lockVars, poolVars, cancelVars, hostVars,
      callerVars, dialogVars, jobVars, CreateEagerly
<1>1. \A t \in Topics : pool[t] = "off"
  BY DEF PoolInv
<1>2. Puller \in Threads
  BY DEF Threads
<1>3. \/ /\ datasetForFetch(TRUE) /\ ensureIngestProgress(Puller) /\ pull' = "ready"
      \/ /\ calls' = AllFailed /\ pull' = "retire"
         /\ UNCHANGED <<dataset, view, stopView, attempted, cancel, canceller, killed, ctx,
                        verdict, deadCall>>
  OBVIOUS
<1>4. pull' = "ready" =>
        /\ attempted' /\ dataset' = "made"
        /\ view' \/ stopView' => ctx' = "live"
        /\ UNCHANGED <<verdict, deadCall, killed, calls>>
        /\ BeginCancel(Puller, TRUE) \/ UNCHANGED <<cancel, canceller>>
  BY <1>2, <1>3, EnsureFacts
<1>5. /\ canceller' \in [Threads -> Cancels \cup {None}]
      /\ (cancel => cancel') /\ (\A v \in Threads \ {Puller} : canceller'[v] = canceller[v])
      /\ (canceller'[Puller] # None => cancel' /\ pull' = "ready")
  <2>1. CASE BeginCancel(Puller, TRUE) /\ pull' = "ready"
    BY <1>2, <2>1, BeginCancelFacts
  <2>2. CASE UNCHANGED <<cancel, canceller>>
    BY <2>2, <1>2 DEF CallTyped, CancelInv
  <2> QED
    BY <1>3, <1>4, <2>1, <2>2
<1>6. /\ calls' \in Seq(Calls)
      /\ \A c \in Range(calls') : \/ c \in Range(calls)
                                  \/ pull' = "retire" /\ c.call = "finished" /\ c.topic \in Topics
  <2>1. calls \in Seq(Calls)
    BY DEF CallTyped
  <2>2. CASE calls' = AllFailed /\ pull' = "retire"
    BY <2>1, <2>2, AllFailedRange, Zenon
  <2>3. CASE pull' = "ready"
    BY <1>4, <2>3 DEF CallTyped
  <2> QED
    BY <1>3, <2>2, <2>3
<1>7. Range(calls) \subseteq Range(calls')
  <2>1. CASE calls' = AllFailed
    <3>1. calls \in Seq(Calls)
      BY DEF CallTyped
    <3> QED
      BY <2>1, <3>1, AllFailedRange
  <2>2. CASE pull' = "ready"
    BY <1>4, <2>2
  <2> QED
    BY <1>3, <2>1, <2>2
<1>8. NoDeadCall'
  BY <1>3, <1>4, Frames
<1>9. PoolTyped'
  BY <1>3 DEF PoolTyped
<1>10. CallTyped'
  BY <1>5, <1>6 DEF CallTyped
<1>11. BatchInv'
  <2>1. CASE pull' = "ready"
    BY <1>4, <2>1 DEF BatchInv
  <2>2. CASE pull' = "retire"
    BY <1>3, <2>2 DEF BatchInv
  <2> QED
    BY <1>3, <2>1, <2>2
<1>12. PoolInv'
  BY <1>1, <1>3 DEF PoolInv
<1>13. TopicInv'
  BY <1>1, <1>3 DEF TopicInv, TopicOf
<1>14. LedgerInv'
  BY <1>3 DEF LedgerInv
<1>15. CallerInv'
  BY <1>3, <1>6 DEF CallerInv
<1>16. CancelInv'
  <2>1. \A v \in Threads : canceller'[v] # None => cancel'
    BY <1>5 DEF CancelInv
  <2>2. \A s \in Topics : canceller'[s] = canceller[s]
    BY <1>5 DEF Threads
  <2>3. UNCHANGED <<canceller[Poller], canceller[Watchdog]>>
    BY <1>5 DEF Threads
  <2>4. killed' = killed
    BY <1>3, <1>4
  <2> QED
    BY <1>1, <1>5, <2>1, <2>2, <2>3, <2>4 DEF CancelInv
<1>17. DoneInv'
  BY <1>1, <1>3, <1>6 DEF DoneInv, CallerInv
<1>18. CutInv'
  BY <1>5 DEF CutInv
<1>19. FailedInv'
  BY <1>1, <1>3 DEF FailedInv
<1>20. CauseInv'
  <2>1. CASE BeginCancel(Puller, TRUE)
    BY <1>2, <2>1, CauseLeft
  <2>2. CASE UNCHANGED <<cancel, canceller>>
    BY <1>7, <2>2 DEF CauseInv
  <2> QED
    BY <1>3, <1>4, <2>1, <2>2
<1>21. ReportInv'
  BY <1>7 DEF ReportInv
<1>22. SuccessInv'
  <2>1. terminal # "SUCCEEDED"
    BY Unsettled
  <2> QED
    BY <2>1 DEF SuccessInv, SuccessIsUncut
<1> QED
  BY <1>8, <1>9, <1>10, <1>11, <1>12, <1>13, <1>14, <1>15, <1>16, <1>17, <1>18, <1>19,
      <1>20, <1>21, <1>22

(* The pool and the poller start. *)
LEMMA pullTopicsPreserves ==
  ASSUME DownloadInv, pullTopics, UNCHANGED callerVars
  PROVE  DownloadInv'
<1> USE FetchAssumption
<1> USE DEF DownloadInv, fetchVars, batchVars, lockVars, poolVars, cancelVars, hostVars,
      callerVars, dialogVars, jobVars, pullTopics, Idle
<1>1. \A t \in Topics : end[t] = None /\ ledger[t] = None /\ pool'[t] = "start"
  BY DEF TopicInv, TopicOf
<1>2. CallTyped' /\ CauseInv' /\ SuccessInv' /\ NoDeadCall'
  BY Frames
<1>3. PoolTyped'
  BY DEF PoolTyped, Places, TopicInv, TopicOf
<1>4. BatchInv'
  BY DEF BatchInv, PoolInv, PoolTyped, CallTyped
<1>5. PoolInv'
  BY DEF PoolInv, PoolTyped, BatchInv
<1>6. TopicInv'
  BY DEF TopicInv, TopicOf, PoolTyped, PoolInv
<1>7. LedgerInv'
  BY <1>1 DEF LedgerInv
<1>8. CallerInv'
  BY DEF CallerInv, PoolTyped
<1>9. CancelInv'
  BY DEF CancelInv, Threads, PoolTyped, CallTyped, Cancels, PoolInv, CallerInv, TopicInv,
      TopicOf
<1>10. DoneInv'
  BY DEF DoneInv, PoolTyped, PoolInv, CallerInv
<1>11. CutInv'
  BY DEF CutInv, PoolTyped, PoolInv, CancelInv, TopicInv, TopicOf, CallerInv
<1>12. FailedInv'
  BY DEF FailedInv, PoolTyped, PoolInv, CallerInv, TopicInv, TopicOf, DoneInv
<1>13. ReportInv'
  BY DEF ReportInv, PoolTyped
<1> QED
  BY <1>2, <1>3, <1>4, <1>5, <1>6, <1>7, <1>8, <1>9, <1>10, <1>11, <1>12, <1>13

(* Every pool thread is done, or none began. *)
LEMMA PullReturnsPreserves ==
  ASSUME DownloadInv, PullReturns, UNCHANGED callerVars
  PROVE  DownloadInv'
<1> USE FetchAssumption
<1> USE DEF DownloadInv, fetchVars, batchVars, lockVars, poolVars, cancelVars, hostVars,
      callerVars, dialogVars, jobVars, PullReturns, PollerJoined, Idle
<1>1. /\ calls' \in Seq(Calls) /\ Range(calls) \subseteq Range(calls')
      /\ \A c \in Range(calls') : c \in Range(calls) \/ c = PullFinished(None, FALSE)
  <2>1. PullFinished(None, FALSE) \in Calls
    BY DEF PullFinished, Calls
  <2>2. CASE calls' = Append(calls, PullFinished(None, FALSE))
    <3>1. calls' \in Seq(Calls) /\ Range(calls') = Range(calls) \cup {PullFinished(None, FALSE)}
      BY <2>1, <2>2, Appended, Zenon
    <3> QED
      BY <3>1, Zenon
  <2>3. CASE calls' = calls
    BY <2>3 DEF CallTyped
  <2> QED
    BY <2>2, <2>3
<1>2. PullFinished(None, FALSE).call = "finished" /\ PullFinished(None, FALSE).topic = None
  BY DEF PullFinished
<1>3. \A t \in Topics : pool'[t] = "off" /\ (pool[t] = "done" \/ (pool[t] = "start" /\ end[t] = None))
  BY DEF TopicInv, TopicOf
<1>4. SuccessInv' /\ NoDeadCall'
  BY Frames
<1>5. PoolTyped'
  BY DEF PoolTyped, Places, TopicInv, TopicOf
<1>6. CallTyped'
  BY <1>1 DEF CallTyped
<1>7. BatchInv'
  BY DEF BatchInv, PoolInv, PoolTyped, CallTyped
<1>8. PoolInv'
  BY DEF PoolInv, PoolTyped, BatchInv
<1>9. TopicInv'
  BY DEF TopicInv, TopicOf, PoolTyped, PoolInv
<1>10. LedgerInv'
  BY DEF LedgerInv, TopicInv, TopicOf, PoolTyped, PoolInv
<1>11. CallerInv'
  BY <1>1, <1>2 DEF CallerInv
<1>12. CancelInv'
  BY DEF CancelInv, Threads, PoolTyped, CallTyped, Cancels, PoolInv, CallerInv, TopicInv,
      TopicOf
<1>13. DoneInv'
  BY <1>1, <1>2, <1>3 DEF DoneInv, CallerInv
<1>14. CutInv'
  BY DEF CutInv
<1>15. FailedInv'
  BY DEF FailedInv, PoolTyped, PoolInv, CallerInv, TopicInv, TopicOf, DoneInv
<1>16. CauseInv'
  BY <1>1 DEF CauseInv
<1>17. ReportInv'
  BY <1>1, <1>3 DEF ReportInv
<1> QED
  BY <1>4, <1>5, <1>6, <1>7, <1>8, <1>9, <1>10, <1>11, <1>12, <1>13, <1>14, <1>15, <1>16,
      <1>17

(* The batch is attested. *)
LEMMA reportIngestCompletionPreserves ==
  ASSUME DownloadInv, reportIngestCompletion, UNCHANGED callerVars
  PROVE  DownloadInv'
<1> USE FetchAssumption
<1> USE DEF DownloadInv, fetchVars, batchVars, lockVars, poolVars, cancelVars, hostVars,
      callerVars, dialogVars, jobVars, reportIngestCompletion, CallsHost
<1>1. CallTyped' /\ CauseInv' /\ ReportInv' /\ SuccessInv'
  BY Frames
<1>2. PoolTyped'
  BY DEF PoolTyped, Places, TopicInv, TopicOf
<1>3. BatchInv'
  BY DEF BatchInv, PoolInv, PoolTyped, CallTyped
<1>4. PoolInv'
  BY DEF PoolInv, PoolTyped, BatchInv
<1>5. TopicInv'
  BY DEF TopicInv, TopicOf, PoolTyped, PoolInv
<1>6. LedgerInv'
  BY DEF LedgerInv, TopicInv, TopicOf, PoolTyped, PoolInv
<1>7. CallerInv'
  BY DEF CallerInv, PoolTyped
<1>8. CancelInv'
  BY DEF CancelInv, Threads, PoolTyped, CallTyped, Cancels, PoolInv, CallerInv, TopicInv,
      TopicOf
<1>9. DoneInv'
  BY DEF DoneInv, PoolTyped, PoolInv, CallerInv
<1>10. CutInv'
  BY DEF CutInv, PoolTyped, PoolInv, CancelInv, TopicInv, TopicOf, CallerInv
<1>11. FailedInv'
  BY DEF FailedInv, PoolTyped, PoolInv, CallerInv, TopicInv, TopicOf, DoneInv
<1>12. NoDeadCall'
  BY DEF NoDeadCall, BatchInv
<1> QED
  BY <1>1, <1>2, <1>3, <1>4, <1>5, <1>6, <1>7, <1>8, <1>9, <1>10, <1>11, <1>12

(* The stop surface is retired. *)
LEMMA BeginFinishPreserves ==
  ASSUME DownloadInv, BeginFinish, UNCHANGED callerVars
  PROVE  DownloadInv'
<1> USE FetchAssumption
<1> USE DEF DownloadInv, fetchVars, batchVars, lockVars, poolVars, cancelVars, hostVars,
      callerVars, dialogVars, jobVars, BeginFinish, RetireStopSurface
<1>1. CallTyped' /\ CauseInv' /\ ReportInv' /\ SuccessInv' /\ NoDeadCall'
  BY Frames
<1>2. PoolTyped'
  BY DEF PoolTyped, Places, TopicInv, TopicOf
<1>3. BatchInv'
  BY DEF BatchInv, PoolInv, PoolTyped, CallTyped
<1>4. PoolInv'
  BY DEF PoolInv, PoolTyped, BatchInv
<1>5. TopicInv'
  BY DEF TopicInv, TopicOf, PoolTyped, PoolInv
<1>6. LedgerInv'
  BY DEF LedgerInv, TopicInv, TopicOf, PoolTyped, PoolInv
<1>7. CallerInv'
  BY DEF CallerInv, PoolTyped
<1>8. CancelInv'
  BY DEF CancelInv, Threads, PoolTyped, CallTyped, Cancels, PoolInv, CallerInv, TopicInv,
      TopicOf
<1>9. DoneInv'
  BY DEF DoneInv, PoolTyped, PoolInv, CallerInv
<1>10. CutInv'
  BY DEF CutInv, PoolTyped, PoolInv, CancelInv, TopicInv, TopicOf, CallerInv
<1>11. FailedInv'
  BY DEF FailedInv, PoolTyped, PoolInv, CallerInv, TopicInv, TopicOf, DoneInv
<1> QED
  BY <1>1, <1>2, <1>3, <1>4, <1>5, <1>6, <1>7, <1>8, <1>9, <1>10, <1>11

(* The context is released. *)
LEMMA finishIngestProgressPreserves ==
  ASSUME DownloadInv, finishIngestProgress, UNCHANGED callerVars
  PROVE  DownloadInv'
<1> USE FetchAssumption
<1> USE DEF DownloadInv, fetchVars, batchVars, lockVars, poolVars, cancelVars, hostVars,
      callerVars, dialogVars, jobVars, finishIngestProgress
<1>1. /\ calls' \in Seq(Calls) /\ Range(calls) \subseteq Range(calls')
      /\ \A c \in Range(calls') : c \in Range(calls) \/ c.call = "complete"
  <2>1. AllFetchesComplete \in Calls /\ AllFetchesComplete.call = "complete"
    BY DEF AllFetchesComplete, Calls
  <2> QED
    BY <2>1, AppendRange DEF CallTyped
<1>2. PoolTyped'
  BY DEF PoolTyped, Places, TopicInv, TopicOf
<1>3. CallTyped'
  BY <1>1 DEF CallTyped
<1>4. BatchInv'
  BY DEF BatchInv, PoolInv, PoolTyped, CallTyped
<1>5. PoolInv'
  BY DEF PoolInv, PoolTyped, BatchInv
<1>6. TopicInv'
  BY DEF TopicInv, TopicOf, PoolTyped, PoolInv
<1>7. LedgerInv'
  BY DEF LedgerInv, TopicInv, TopicOf, PoolTyped, PoolInv
<1>8. CallerInv'
  BY DEF CallerInv, PoolTyped
<1>9. CancelInv'
  BY DEF CancelInv, Threads, PoolTyped, CallTyped, Cancels, PoolInv, CallerInv, TopicInv,
      TopicOf
<1>10. DoneInv'
  BY <1>1 DEF DoneInv, CallerInv, PoolInv
<1>11. CutInv'
  BY DEF CutInv, PoolTyped, PoolInv, CancelInv, TopicInv, TopicOf, CallerInv
<1>12. FailedInv'
  BY DEF FailedInv, PoolTyped, PoolInv, CallerInv, TopicInv, TopicOf, DoneInv
<1>13. CauseInv'
  BY <1>1 DEF CauseInv
<1>14. ReportInv'
  BY <1>1 DEF ReportInv
<1>15. SuccessInv'
  <2>1. terminal # "SUCCEEDED"
    BY Unsettled
  <2> QED
    BY <2>1 DEF SuccessInv, SuccessIsUncut
<1>16. NoDeadCall'
  BY DEF NoDeadCall, BatchInv
<1> QED
  BY <1>2, <1>3, <1>4, <1>5, <1>6, <1>7, <1>8, <1>9, <1>10, <1>11, <1>12, <1>13, <1>14,
      <1>15, <1>16

(* The host's user presses Stop. *)
LEMMA HostStopsPreserves ==
  ASSUME DownloadInv, HostStops, UNCHANGED callerVars
  PROVE  DownloadInv'
<1> USE FetchAssumption
<1> USE DEF DownloadInv, fetchVars, batchVars, lockVars, poolVars, cancelVars, hostVars,
      callerVars, dialogVars, jobVars, HostStops
<1>1. PoolTyped' /\ CallTyped' /\ BatchInv' /\ PoolInv' /\ TopicInv' /\ LedgerInv' /\
       CallerInv' /\ CancelInv' /\ DoneInv' /\ CutInv' /\ FailedInv' /\ CauseInv' /\
       ReportInv' /\ SuccessInv' /\ NoDeadCall'
  BY Frames
<1> QED
  BY <1>1

(* The user starts a batch. *)
LEMMA buttonFetchPreserves ==
  ASSUME DownloadInv, buttonFetch
  PROVE  DownloadInv'
<1> USE FetchAssumption
<1> USE DEF DownloadInv, fetchVars, batchVars, lockVars, poolVars, cancelVars, hostVars,
      callerVars, dialogVars, jobVars, buttonFetch, GuiFree, Idle
<1>1. caller = "dialog" /\ pull = "idle" /\ job = "end"
  BY DEF CallerInv
<1>2. \A t \in Topics : pool[t] = "off"
  BY <1>1 DEF PoolInv
<1>3. calls' \in Seq(Calls) /\ Range(calls') = {} /\ seen' = 0 /\ failed' = {}
  BY DEF Range
<1>4. \A w \in Threads : canceller[w] = None
  <2>1. \A t \in Topics : canceller[t] = None
    BY <1>2 DEF CancelInv
  <2> QED
    BY <1>1, <2>1 DEF CancelInv, Threads
<1>5. SuccessInv' /\ NoDeadCall'
  BY Frames
<1>6. PoolTyped'
  BY DEF PoolTyped, Places, TopicInv, TopicOf
<1>7. CallTyped'
  BY <1>3 DEF CallTyped
<1>8. BatchInv'
  BY <1>1 DEF BatchInv
<1>9. PoolInv'
  BY <1>2, <1>1 DEF PoolInv
<1>10. TopicInv'
  BY DEF TopicInv, TopicOf, PoolTyped, PoolInv
<1>11. LedgerInv'
  BY DEF LedgerInv, TopicInv, TopicOf, PoolTyped, PoolInv
<1>12. CallerInv'
  BY <1>1, <1>3 DEF CallerInv
<1>13. CancelInv'
  BY <1>2, <1>1, <1>4 DEF CancelInv, Threads
<1>14. DoneInv'
  BY <1>3 DEF DoneInv
<1>15. CutInv'
  BY <1>3 DEF CutInv
<1>16. FailedInv'
  BY <1>3 DEF FailedInv
<1>17. CauseInv'
  BY <1>1 DEF CauseInv
<1>18. ReportInv'
  BY <1>1 DEF ReportInv
<1> QED
  BY <1>5, <1>6, <1>7, <1>8, <1>9, <1>10, <1>11, <1>12, <1>13, <1>14, <1>15, <1>16, <1>17,
      <1>18

(* The user cancels. *)
LEMMA buttonCancelPreserves ==
  ASSUME DownloadInv, buttonCancel
  PROVE  DownloadInv'
<1> USE FetchAssumption
<1> USE DEF DownloadInv, fetchVars, batchVars, lockVars, poolVars, cancelVars, hostVars,
      callerVars, dialogVars, jobVars, buttonCancel, GuiFree, Idle, BeginCancel
<1>1. PoolTyped' /\ BatchInv' /\ PoolInv' /\ TopicInv' /\ LedgerInv' /\ CallerInv' /\
       DoneInv' /\ FailedInv' /\ ReportInv' /\ SuccessInv' /\ NoDeadCall'
  BY Frames
<1>2. CallTyped'
  BY DEF CallTyped, Calls, Cancels, Threads
<1>3. CancelInv'
  BY DEF CancelInv, Threads, PoolTyped, CallTyped, Cancels, PoolInv, CallerInv, TopicInv,
      TopicOf
<1>4. CutInv'
  BY DEF CutInv, PoolTyped, PoolInv, CancelInv, TopicInv, TopicOf, CallerInv
<1>5. CauseInv'
  BY DEF CauseInv, CallTyped
<1> QED
  BY <1>1, <1>2, <1>3, <1>4, <1>5

(* The dialog is destroyed. *)
LEMMA DestroyPreserves ==
  ASSUME DownloadInv, Destroy
  PROVE  DownloadInv'
<1> USE FetchAssumption
<1> USE DEF DownloadInv, fetchVars, batchVars, lockVars, poolVars, cancelVars, hostVars,
      callerVars, dialogVars, jobVars, Destroy, GuiFree, Idle, BeginCancel
<1>1. PoolTyped' /\ BatchInv' /\ PoolInv' /\ TopicInv' /\ LedgerInv' /\ DoneInv' /\
       FailedInv' /\ ReportInv' /\ SuccessInv' /\ NoDeadCall'
  BY Frames
<1>2. CallTyped'
  BY DEF CallTyped, Calls, Cancels, Threads
<1>3. CallerInv'
  BY DEF CallerInv, PoolTyped
<1>4. CancelInv'
  BY DEF CancelInv, Threads, PoolTyped, CallTyped, Cancels, PoolInv, CallerInv, TopicInv,
      TopicOf
<1>5. CutInv'
  BY DEF CutInv, PoolTyped, PoolInv, CancelInv, TopicInv, TopicOf, CallerInv
<1>6. CauseInv'
  BY DEF CauseInv, CallTyped
<1> QED
  BY <1>1, <1>2, <1>3, <1>4, <1>5, <1>6

(* The dialog tallies a topic. *)
LEMMA onPullFinishedPreserves ==
  ASSUME DownloadInv, onPullFinished
  PROVE  DownloadInv'
<1> USE FetchAssumption
<1> USE DEF DownloadInv, fetchVars, batchVars, lockVars, poolVars, cancelVars, hostVars,
      callerVars, dialogVars, jobVars, onPullFinished, Handling, GuiFree, Idle, Event,
      Interrupted
<1>1. Event \in Range(calls) /\ Event.call = "finished"
  BY DEF CallTyped, Range
<1>2. /\ pull \notin {"begin", "eager", "ready"}
      /\ Event.topic \in Topics => pool[Event.topic] \in {"done", "off"}
  BY <1>1 DEF DoneInv
<1>3. failed' = failed \/ (~cancel /\ failed' = failed \cup {Event.topic})
  OBVIOUS
<1>4. Event \in Calls
  BY DEF CallTyped
<1>5. Event.topic \in Topics \cup {None}
  BY <1>4 DEF Calls
<1>6. PoolTyped' /\ BatchInv' /\ PoolInv' /\ TopicInv' /\ LedgerInv' /\ CancelInv' /\
       DoneInv' /\ CauseInv' /\ ReportInv' /\ SuccessInv' /\ NoDeadCall'
  BY Frames
<1>7. CallTyped'
  BY DEF CallTyped, Calls, Cancels, Threads
<1>8. CallerInv'
  BY DEF CallerInv, PoolTyped
<1>9. CutInv'
  BY <1>2 DEF CutInv
<1>10. FailedInv'
  <2>1. ~cancel => \A t \in Topics : end[t] # "cut"
    BY <1>2 DEF CutInv
  <2> QED
    BY <1>2, <1>3, <1>5, <2>1 DEF FailedInv
<1> QED
  BY <1>6, <1>7, <1>8, <1>9, <1>10

(* The dialog learns of the host's Stop. *)
LEMMA onHostStopPreserves ==
  ASSUME DownloadInv, onHostStop
  PROVE  DownloadInv'
<1> USE FetchAssumption
<1> USE DEF DownloadInv, fetchVars, batchVars, lockVars, poolVars, cancelVars, hostVars,
      callerVars, dialogVars, jobVars, onHostStop, Handling, GuiFree, Event
<1>1. PoolTyped' /\ BatchInv' /\ PoolInv' /\ TopicInv' /\ LedgerInv' /\ CallerInv' /\
       CancelInv' /\ DoneInv' /\ CutInv' /\ FailedInv' /\ CauseInv' /\ ReportInv' /\
       SuccessInv' /\ NoDeadCall'
  BY Frames
<1>2. CallTyped'
  BY DEF CallTyped, Calls, Cancels, Threads
<1> QED
  BY <1>1, <1>2

(* The panel goes idle. *)
LEMMA onAllFetchesCompletePreserves ==
  ASSUME DownloadInv, onAllFetchesComplete
  PROVE  DownloadInv'
<1> USE FetchAssumption
<1> USE DEF DownloadInv, fetchVars, batchVars, lockVars, poolVars, cancelVars, hostVars,
      callerVars, dialogVars, jobVars, onAllFetchesComplete, Handling, GuiFree, Event
<1>1. Event \in Range(calls) /\ Event.call = "complete" /\ caller = "dialog"
  BY DEF CallTyped, Range
<1>2. PoolTyped' /\ BatchInv' /\ PoolInv' /\ TopicInv' /\ LedgerInv' /\ CancelInv' /\
       DoneInv' /\ CutInv' /\ FailedInv' /\ CauseInv' /\ ReportInv' /\ SuccessInv' /\
       NoDeadCall'
  BY Frames
<1>3. CallTyped'
  BY DEF CallTyped, Calls, Cancels, Threads
<1>4. CallerInv'
  BY <1>1 DEF CallerInv
<1> QED
  BY <1>2, <1>3, <1>4

(* The catalog is refreshed. *)
LEMMA maybeFireProgressiveRevealPreserves ==
  ASSUME DownloadInv, maybeFireProgressiveReveal
  PROVE  DownloadInv'
<1> USE FetchAssumption
<1> USE DEF DownloadInv, fetchVars, batchVars, lockVars, poolVars, cancelVars, hostVars,
      callerVars, dialogVars, jobVars, maybeFireProgressiveReveal
<1>1. PoolTyped' /\ CallTyped' /\ BatchInv' /\ PoolInv' /\ TopicInv' /\ LedgerInv' /\
       CallerInv' /\ CancelInv' /\ DoneInv' /\ CutInv' /\ FailedInv' /\ CauseInv' /\
       ReportInv' /\ SuccessInv' /\ NoDeadCall'
  BY Frames
<1> QED
  BY <1>1

(* The worker has ended. *)
LEMMA JoinWorkerPreserves ==
  ASSUME DownloadInv, JoinWorker
  PROVE  DownloadInv'
<1> USE FetchAssumption
<1> USE DEF DownloadInv, fetchVars, batchVars, lockVars, poolVars, cancelVars, hostVars,
      callerVars, dialogVars, jobVars, JoinWorker
<1>1. PoolTyped' /\ CallTyped' /\ BatchInv' /\ PoolInv' /\ TopicInv' /\ LedgerInv' /\
       CancelInv' /\ DoneInv' /\ CutInv' /\ FailedInv' /\ CauseInv' /\ ReportInv' /\
       SuccessInv' /\ NoDeadCall'
  BY Frames
<1>2. CallerInv'
  BY DEF CallerInv, PoolTyped
<1> QED
  BY <1>1, <1>2

(* The import connects, or ends. *)
LEMMA ConnectJobPreserves ==
  ASSUME DownloadInv, ConnectJob
  PROVE  DownloadInv'
<1> USE FetchAssumption
<1> USE DEF DownloadInv, fetchVars, batchVars, lockVars, poolVars, cancelVars, hostVars,
      callerVars, dialogVars, jobVars, ConnectJob, Terminate, isCancelled
<1>1. \/ pull' = pull /\ job' = "end" /\ terminal' \in {"CANCELLED", "FAILED"} /\ watchdog' = watchdog
      \/ pull' = "begin" /\ job' = "pull" /\ terminal' = terminal
  OBVIOUS
<1>2. pull = "idle" /\ caller # "dialog" /\ terminal # "SUCCEEDED"
  BY DEF CallerInv, SuccessInv
<1>3. CallTyped' /\ CauseInv' /\ ReportInv' /\ NoDeadCall'
  BY Frames
<1>4. PoolTyped'
  BY DEF PoolTyped, Places, TopicInv, TopicOf
<1>5. BatchInv'
  BY <1>1, <1>2 DEF BatchInv
<1>6. PoolInv'
  BY <1>1, <1>2 DEF PoolInv
<1>7. TopicInv'
  BY DEF TopicInv, TopicOf, PoolTyped, PoolInv
<1>8. LedgerInv'
  BY DEF LedgerInv, TopicInv, TopicOf, PoolTyped, PoolInv
<1>9. CallerInv'
  BY <1>1, <1>2 DEF CallerInv
<1>10. CancelInv'
  BY DEF CancelInv, Threads, PoolTyped, CallTyped, Cancels, PoolInv, CallerInv, TopicInv,
      TopicOf
<1>11. DoneInv'
  BY DEF DoneInv, PoolTyped, PoolInv, CallerInv
<1>12. CutInv'
  <2>1. pull' = "begin" /\ ~cancel => \A t \in Topics : end[t] # "cut"
    BY <1>2 DEF CutInv
  <2> QED
    BY <1>2, <1>1, <2>1 DEF CutInv
<1>13. FailedInv'
  BY <1>1, <1>2 DEF FailedInv, CallerInv
<1>14. SuccessInv'
  BY <1>1, <1>2 DEF SuccessInv, SuccessIsUncut
<1> QED
  BY <1>3, <1>4, <1>5, <1>6, <1>7, <1>8, <1>9, <1>10, <1>11, <1>12, <1>13, <1>14

(* The import's caller cancels. *)
LEMMA CancelJobPreserves ==
  ASSUME DownloadInv, CancelJob
  PROVE  DownloadInv'
<1> USE FetchAssumption
<1> USE DEF DownloadInv, fetchVars, batchVars, lockVars, poolVars, cancelVars, hostVars,
      callerVars, dialogVars, jobVars, CancelJob, BeginCancel, Idle
<1>1. PoolTyped' /\ BatchInv' /\ PoolInv' /\ TopicInv' /\ LedgerInv' /\ CallerInv' /\
       DoneInv' /\ FailedInv' /\ ReportInv' /\ SuccessInv' /\ NoDeadCall'
  BY Frames
<1>2. CallTyped'
  BY DEF CallTyped, Calls, Cancels, Threads
<1>3. CancelInv'
  BY DEF CancelInv, Threads, PoolTyped, CallTyped, Cancels, PoolInv, CallerInv, TopicInv,
      TopicOf
<1>4. CutInv'
  BY DEF CutInv, PoolTyped, PoolInv, CancelInv, TopicInv, TopicOf, CallerInv
<1>5. CauseInv'
  BY DEF CauseInv, CallTyped
<1> QED
  BY <1>1, <1>2, <1>3, <1>4, <1>5

(* The byte ceiling cuts the import. *)
LEMMA pullProgressPreserves ==
  ASSUME NEW t \in Topics, DownloadInv, pullProgress(t)
  PROVE  DownloadInv'
<1> USE FetchAssumption
<1> USE DEF DownloadInv, fetchVars, batchVars, lockVars, poolVars, cancelVars, hostVars,
      callerVars, dialogVars, jobVars, pullProgress, BeginCancel, At, Idle
<1>1. PoolTyped' /\ BatchInv' /\ PoolInv' /\ TopicInv' /\ LedgerInv' /\ CallerInv' /\
       DoneInv' /\ FailedInv' /\ ReportInv' /\ SuccessInv' /\ NoDeadCall'
  BY Frames
<1>2. CallTyped'
  BY DEF CallTyped, Calls, Cancels, Threads
<1>3. CancelInv'
  BY DEF CancelInv, Threads, PoolTyped, CallTyped, Cancels, PoolInv, CallerInv, TopicInv,
      TopicOf
<1>4. CutInv'
  BY DEF CutInv, PoolTyped, PoolInv, CancelInv, TopicInv, TopicOf, CallerInv
<1>5. CauseInv'
  BY DEF CauseInv, CallTyped
<1> QED
  BY <1>1, <1>2, <1>3, <1>4, <1>5

(* The watchdog claims the transfer. *)
LEMMA claimTransferWatchdogExpiryPreserves ==
  ASSUME DownloadInv, claimTransferWatchdogExpiry
  PROVE  DownloadInv'
<1> USE FetchAssumption
<1> USE DEF DownloadInv, fetchVars, batchVars, lockVars, poolVars, cancelVars, hostVars,
      callerVars, dialogVars, jobVars, claimTransferWatchdogExpiry
<1>1. PoolTyped' /\ CallTyped' /\ BatchInv' /\ PoolInv' /\ TopicInv' /\ LedgerInv' /\
       CancelInv' /\ DoneInv' /\ CutInv' /\ FailedInv' /\ CauseInv' /\ ReportInv' /\
       SuccessInv' /\ NoDeadCall'
  BY Frames
<1>2. CallerInv'
  BY DEF CallerInv, PoolTyped
<1> QED
  BY <1>1, <1>2

(* The time ceiling cuts the import. *)
LEMMA WatchdogFiresPreserves ==
  ASSUME DownloadInv, WatchdogFires
  PROVE  DownloadInv'
<1> USE FetchAssumption
<1> USE DEF DownloadInv, fetchVars, batchVars, lockVars, poolVars, cancelVars, hostVars,
      callerVars, dialogVars, jobVars, WatchdogFires, RecordThenCut, BeginCancel
<1>1. caller = "import"
  BY DEF CallerInv
<1>2. Watchdog \in Threads
  BY DEF Threads
<1>3. cancel' /\ \A v \in Threads \ {Watchdog} : canceller'[v] = canceller[v]
  BY <1>2, BeginCancelFacts
<1>4. PoolTyped' /\ BatchInv' /\ PoolInv' /\ TopicInv' /\ LedgerInv' /\ DoneInv' /\
       FailedInv' /\ ReportInv' /\ SuccessInv' /\ NoDeadCall'
  BY Frames
<1>5. CallTyped'
  BY DEF CallTyped, Calls, Cancels, Threads
<1>6. CallerInv'
  BY DEF CallerInv, PoolTyped
<1>7. CancelInv'
  BY <1>1, <1>2, <1>3 DEF CancelInv, Threads
<1>8. CutInv'
  BY DEF CutInv, PoolTyped, PoolInv, CancelInv, TopicInv, TopicOf, CallerInv
<1>9. CauseInv'
  BY DEF CauseInv, CallTyped
<1> QED
  BY <1>4, <1>5, <1>6, <1>7, <1>8, <1>9

(* The import's batch is over. *)
LEMMA PullEndsPreserves ==
  ASSUME DownloadInv, PullEnds
  PROVE  DownloadInv'
<1> USE FetchAssumption
<1> USE DEF DownloadInv, fetchVars, batchVars, lockVars, poolVars, cancelVars, hostVars,
      callerVars, dialogVars, jobVars, PullEnds
<1>1. PoolTyped' /\ CallTyped' /\ BatchInv' /\ PoolInv' /\ TopicInv' /\ LedgerInv' /\
       CancelInv' /\ CutInv' /\ FailedInv' /\ CauseInv' /\ ReportInv' /\ NoDeadCall'
  BY Frames
<1>2. CallerInv'
  BY DEF CallerInv, PoolTyped
<1>3. DoneInv'
  BY DEF DoneInv, PoolTyped, PoolInv, CallerInv
<1>4. SuccessInv'
  BY DEF SuccessInv, SuccessIsUncut, PoolInv, PoolTyped, CallerInv, BatchInv
<1> QED
  BY <1>1, <1>2, <1>3, <1>4

(* The import maps its outcome. *)
LEMMA runToTerminalPreserves ==
  ASSUME DownloadInv, runToTerminal
  PROVE  DownloadInv'
<1> USE FetchAssumption
<1> USE DEF DownloadInv, fetchVars, batchVars, lockVars, poolVars, cancelVars, hostVars,
      callerVars, dialogVars, jobVars, runToTerminal, Terminate
<1>1. caller = "import" /\ pull = "idle" /\ \A t \in Topics : pool[t] = "off"
  BY DEF CallerInv, PoolInv
<1>2. \A w \in Topics \cup {Puller, Poller} : canceller[w] = None
  BY <1>1 DEF CancelInv
<1>3. MapTerminal = "SUCCEEDED" =>
        /\ UsableDataset /\ ~byteCut /\ ~timeCut
        /\ isCancelled => ~Called("finished", FALSE)
  BY DEF MapTerminal
<1>4. \A t \in Topics : end[t] = "cut" =>
        (byteCut \/ timeCut \/ isCancelled) /\ Called("finished", FALSE)
  <2> SUFFICES ASSUME NEW t \in Topics, end[t] = "cut"
               PROVE  (byteCut \/ timeCut \/ isCancelled) /\ Called("finished", FALSE)
    OBVIOUS
  <2>1. cancel
    BY <1>1 DEF CutInv
  <2>2. byteCut \/ timeCut \/ jobCancel \/ HostStopRequested \in Range(calls)
    BY <1>1, <1>2, <2>1 DEF CauseInv
  <2>3. HostStopRequested.call = "stop" /\ HostStopRequested.ok = FALSE
    BY DEF HostStopRequested
  <2>4. byteCut \/ timeCut \/ isCancelled
    BY <2>2, <2>3, CalledRange DEF isCancelled
  <2>5. Called("finished", FALSE)
    BY <1>1, CalledRange DEF ReportInv
  <2> QED
    BY <2>4, <2>5
<1>5. PoolTyped' /\ CallTyped' /\ BatchInv' /\ PoolInv' /\ TopicInv' /\ LedgerInv' /\
       CancelInv' /\ CutInv' /\ FailedInv' /\ CauseInv' /\ ReportInv' /\ NoDeadCall'
  BY Frames
<1>6. CallerInv'
  BY DEF CallerInv, PoolTyped
<1>7. DoneInv'
  BY DEF DoneInv, PoolTyped, PoolInv, CallerInv
<1>8. SuccessInv'
  <2>1. terminal' = MapTerminal /\ job' = "end" /\ UNCHANGED <<dataset, end>>
    OBVIOUS
  <2> QED
    BY <1>3, <1>4, <2>1 DEF SuccessInv, SuccessIsUncut, UsableDataset
<1> QED
  BY <1>5, <1>6, <1>7, <1>8

(* How a stream ends. *)
LEMMA StreamPreserves ==
  ASSUME NEW t \in Topics, DownloadInv, StreamEnds(t) \/ StreamFails(t) \/ ReaderInterrupted(t),
         UNCHANGED callerVars
  PROVE  DownloadInv'
<1>1. CASE StreamEnds(t)
  BY <1>1, EndStreamPreserves DEF StreamEnds
<1>2. CASE StreamFails(t)
  BY <1>2, EndStreamPreserves DEF StreamFails
<1>3. CASE ReaderInterrupted(t)
  BY <1>3, EndStreamPreserves DEF ReaderInterrupted
<1> QED
  BY <1>1, <1>2, <1>3

(* A pool thread takes host_write_mu_, or finds no dataset can be made. *)
LEMMA TakeHostWritePreserves ==
  ASSUME NEW t \in Topics, DownloadInv, TakeHostWrite(t), UNCHANGED callerVars
  PROVE  DownloadInv'
<1>1. CASE /\ datasetForFetch(TRUE) /\ ensureIngestProgress(t) /\ Goto(t, "push")
           /\ UNCHANGED <<todo, pushed, bad, imported>>
  BY <1>1, EntersPreserves DEF TakeHostWrite
<1>2. CASE /\ AfterPush(t, FALSE)
           /\ UNCHANGED <<dataset, view, stopView, attempted, reported, cancelVars, hostVars>>
  <2>1. ~deadCall'
    BY <1>2 DEF hostVars, DownloadInv, NoDeadCall
  <2> QED
    BY <1>2, <2>1, AfterPushPreserves DEF TakeHostWrite, At, hostVars
<1> QED
  BY <1>1, <1>2 DEF TakeHostWrite

(* The host is called through the context the view keeps. *)
LEMMA CalledAlive ==
  ASSUME DownloadInv, view, CallsHost
  PROVE  ~deadCall'
BY DEF DownloadInv, BatchInv, NoDeadCall, CallsHost

(* A push goes through, is refused, or parks. *)
LEMMA pushMessagePreserves ==
  ASSUME NEW t \in Topics, DownloadInv, pushMessage(t), UNCHANGED callerVars
  PROVE  DownloadInv'
<1>1. CASE ~view /\ AfterPush(t, FALSE) /\ UNCHANGED deadCall
  <2>1. ~deadCall'
    BY <1>1 DEF DownloadInv, NoDeadCall
  <2> QED
    BY <1>1, <2>1, AfterPushPreserves DEF pushMessage, At
<1>2. ASSUME view, CallsHost, NEW ok \in BOOLEAN, AfterPush(t, ok)
      PROVE  DownloadInv'
  BY <1>2, CalledAlive, AfterPushPreserves DEF pushMessage, At
<1>3. CASE view /\ CallsHost /\ Goto(t, "parked") /\ UNCHANGED <<todo, pushed, bad, imported>>
  <2>1. UNCHANGED batchVars
    BY <1>3 DEF pushMessage, batchVars
  <2> QED
    BY <1>3, <2>1, CalledAlive, ParksPreserves DEF pushMessage
<1> QED
  BY <1>1, <1>2, <1>3 DEF pushMessage

(* A parked push comes back. *)
LEMMA UnparkPreserves ==
  ASSUME NEW t \in Topics, DownloadInv, WakePush(t) \/ HostDrains(t), UNCHANGED callerVars
  PROVE  DownloadInv'
<1>1. PICK ok \in BOOLEAN : AfterPush(t, ok)
  BY DEF WakePush, HostDrains
<1>2. /\ At(t, "parked")
      /\ UNCHANGED <<pull, dataset, view, stopView, attempted, reported, read, end, ledger,
                     poller, cancelVars, ctx, verdict, deadCall>>
  BY DEF WakePush, HostDrains, hostVars
<1>3. view /\ ~deadCall'
  BY <1>2 DEF DownloadInv, PoolInv, At, NoDeadCall
<1> QED
  BY <1>1, <1>2, <1>3, AfterPushPreserves DEF At

(* Nothing has begun. *)
LEMMA InitEstablishes == Init => DownloadInv
<1> SUFFICES ASSUME Init PROVE DownloadInv
  OBVIOUS
<1> USE FetchAssumption DEF Init, FetchInit, Fresh
<1>1. PoolTyped
  BY DEF PoolTyped, Places
<1>2. CallTyped /\ Range(calls) = {}
  BY DEF CallTyped, Range
<1>3. BatchInv /\ PoolInv /\ NoDeadCall
  BY DEF BatchInv, PoolInv, NoDeadCall
<1>4. TopicInv /\ LedgerInv
  BY DEF TopicInv, TopicOf, LedgerInv
<1>5. CallerInv
  BY <1>2 DEF CallerInv
<1>6. CancelInv
  BY DEF CancelInv, Threads
<1>7. DoneInv /\ CutInv /\ FailedInv /\ CauseInv /\ ReportInv /\ SuccessInv
  BY <1>2 DEF DoneInv, CutInv, FailedInv, CauseInv, ReportInv, SuccessInv, SuccessIsUncut
<1> QED
  BY <1>1, <1>2, <1>3, <1>4, <1>5, <1>6, <1>7 DEF DownloadInv

(* Every step of the pool, the poller, the pull thread, the host, the dialog and
   the import keeps the invariant. *)
LEMMA NextPreserves ==
  ASSUME DownloadInv, [Next]_vars
  PROVE  DownloadInv'
<1>1. ASSUME NEW t \in Topics, PoolSteps(t), UNCHANGED callerVars
      PROVE  DownloadInv'
  BY <1>1, OpenReaderPreserves, StreamPreserves, TakeHostWritePreserves, pushMessagePreserves,
     UnparkPreserves, on_donePreserves DEF PoolSteps
<1>2. ASSUME NEW w \in Threads, CancelSteps(w), UNCHANGED callerVars
      PROVE  DownloadInv'
  BY <1>2, TellHostPreserves, cancelActivePullsPreserves DEF CancelSteps
<1>3. CASE PullSteps /\ UNCHANGED callerVars
  BY <1>3, ResetBatchPreserves, CreateEagerlyPreserves, pullTopicsPreserves,
     PullReturnsPreserves, reportIngestCompletionPreserves, BeginFinishPreserves,
     finishIngestProgressPreserves DEF PullSteps
<1>4. CASE Outside /\ UNCHANGED callerVars
  BY <1>4, on_batchPreserves, on_progressPreserves, StreamPreserves, UnparkPreserves,
     HostStopsPreserves DEF Outside
<1>5. CASE (WorkerSteps \/ CancelSteps(User)) /\ UNCHANGED callerVars
  <2>1. User \in Threads
    BY DEF Threads
  <2> QED
    BY <1>1, <1>2, <1>3, <1>5, <2>1, PollerFiresPreserves DEF WorkerSteps
<1>6. CASE caller = "dialog" /\ NotConnected /\ UNCHANGED callerVars
  BY <1>6, NotConnectedPreserves
<1>7. CASE buttonFetch \/ buttonCancel \/ Destroy \/ DialogSteps
  BY <1>7, buttonFetchPreserves, buttonCancelPreserves, DestroyPreserves,
     onPullFinishedPreserves, onHostStopPreserves, onAllFetchesCompletePreserves,
     maybeFireProgressiveRevealPreserves, JoinWorkerPreserves DEF DialogSteps
<1>8. CASE CancelJob \/ JobSteps \/ WatchdogSteps
  BY <1>8, CancelJobPreserves, ConnectJobPreserves, PullEndsPreserves, runToTerminalPreserves,
     claimTransferWatchdogExpiryPreserves, WatchdogFiresPreserves DEF JobSteps, WatchdogSteps
<1>9. CASE \E t \in Topics : pullProgress(t)
  BY <1>9, pullProgressPreserves
<1>10. CASE UNCHANGED vars
  BY <1>10, Frames DEF DownloadInv, vars, fetchVars, batchVars, lockVars, poolVars, cancelVars,
     hostVars, dialogVars, jobVars
<1> QED
  BY <1>4, <1>5, <1>6, <1>7, <1>8, <1>9, <1>10 DEF Next

(* The invariant holds of every download, whoever asked for it. *)
THEOREM DownloadInvariant == Spec => []DownloadInv
<1>1. DownloadInv /\ [Next]_vars => DownloadInv'
  BY NextPreserves
<1> QED
  BY <1>1, InitEstablishes, PTL DEF Spec

(* The host is never called through a context it has released. *)
THEOREM NoDeadCallHolds == Spec => []NoDeadCall
<1>1. DownloadInv => NoDeadCall
  BY DEF DownloadInv
<1> QED
  BY <1>1, DownloadInvariant, PTL

(* An interrupted topic is never tallied as an error. *)
THEOREM CutIsNotAnErrorHolds == Spec => []CutIsNotAnError
<1>1. DownloadInv => CutIsNotAnError
  <2> SUFFICES ASSUME DownloadInv, NEW t \in failed, t # None PROVE end[t] # "cut"
    BY DEF CutIsNotAnError
  <2>1. t \in Topics
    BY DEF DownloadInv, FailedInv
  <2> QED
    BY <2>1 DEF DownloadInv, FailedInv
<1> QED
  BY <1>1, DownloadInvariant, PTL

(* An import that was cut short never reports success. *)
THEOREM SuccessIsUncutHolds == Spec => []SuccessIsUncut
<1>1. DownloadInv => SuccessIsUncut
  BY DEF DownloadInv, SuccessInv
<1> QED
  BY <1>1, DownloadInvariant, PTL

---------------------------------------------------------------------------
(***************************************************************************)
(* The refinement of the host's ingest bracket.                            *)
(***************************************************************************)
(* A step that shows the host nothing. *)
LEMMA BracketStutters ==
  ASSUME UNCHANGED <<dataset, ctx, imported, verdict>>
  PROVE  Bracket!Next
<1>1. Whole' \in BOOLEAN
  BY DEF Whole
<1> QED
  BY <1>1 DEF Bracket!Next

(* A push that was taken or refused. *)
LEMMA BracketPushes ==
  ASSUME DownloadInv, NEW t \in Topics, NEW ok \in BOOLEAN, AfterPush(t, ok), pool[t] # "off",
         ok => view, UNCHANGED <<dataset, ctx, verdict>>
  PROVE  Bracket!Next
<1>1. imported' = (imported \/ ok) /\ imported \in BOOLEAN
  BY DEF AfterPush, DownloadInv, BatchInv
<1>2. pull = "pull"
  BY PoolRuns DEF DownloadInv
<1>3. CASE ok
  <2>1. ctx = "live" /\ verdict = None /\ imported' = TRUE
    BY <1>1, <1>2, <1>3 DEF DownloadInv, BatchInv
  <2>2. Bracket!Push
    BY <2>1 DEF Bracket!Push
  <2>3. Whole' \in BOOLEAN
    BY DEF Whole
  <2> QED
    BY <2>2, <2>3 DEF Bracket!Next
<1>4. CASE ~ok
  <2>1. imported' = imported
    BY <1>1, <1>4
  <2> QED
    BY <2>1, BracketStutters
<1> QED
  BY <1>3, <1>4

(* The dataset is made, and the context opened on it if the host gives one. *)
LEMMA BracketOpens ==
  ASSUME DownloadInv, NEW w \in Threads, pull \in {"eager", "pull"}, datasetForFetch(TRUE),
         ensureIngestProgress(w), UNCHANGED imported
  PROVE  Bracket!Next
<1>1. Whole' \in BOOLEAN
  BY DEF Whole
<1>2. dataset' = "made" /\ verdict' = verdict
  BY EnsureFacts DEF DownloadInv
<1>3. CASE ~attempted /\ OpenContext(w)
  <2>1. dataset = "none" /\ ctx = "none" /\ ~imported /\ ctx' = "live"
    BY <1>3 DEF DownloadInv, BatchInv, OpenContext
  <2>2. Bracket!Open
    BY <1>2, <2>1 DEF Bracket!Open
  <2> QED
    BY <1>1, <2>2 DEF Bracket!Next
<1>4. CASE ctx' = ctx
  <2>1. CASE attempted
    <3>1. dataset = "made"
      BY <2>1 DEF DownloadInv, BatchInv
    <3> QED
      BY <1>2, <1>4, <3>1, BracketStutters
  <2>2. CASE ~attempted
    <3>1. dataset = "none" /\ ctx = "none"
      BY <2>2 DEF DownloadInv, BatchInv
    <3>2. Bracket!Create
      BY <1>2, <1>4, <3>1 DEF Bracket!Create
    <3> QED
      BY <1>1, <3>2 DEF Bracket!Next
  <2> QED
    BY <2>1, <2>2
<1> QED
  BY <1>3, <1>4 DEF ensureIngestProgress

(* A topic that is recorded as good landed whole. *)
LEMMA BracketAttests ==
  ASSUME DownloadInv, reportIngestCompletion
  PROVE  Bracket!Next
<1>1. UNCHANGED <<dataset, ctx, imported>>
  BY DEF reportIngestCompletion, batchVars
<1>2. CASE view /\ verdict' = computeCompletion(cancel \/ hostStop)
  <2>1. ctx = "live" /\ verdict = None
    BY <1>2 DEF DownloadInv, BatchInv, reportIngestCompletion
  <2>2. verdict' \in {"COMPLETED", "CANCELLED", "FAILED"}
    BY <1>2 DEF computeCompletion
  <2>3. verdict' = "COMPLETED" => Whole
    <3> SUFFICES ASSUME verdict' = "COMPLETED" PROVE Whole
      OBVIOUS
    <3>1. ~hostStop /\ \A t \in Topics : ledger[t] \in {"ok", "empty"}
      BY <1>2 DEF computeCompletion
    <3> QED
      BY <3>1 DEF DownloadInv, LedgerInv, Whole, reportIngestCompletion
  <2>4. Bracket!Attest(verdict')
    BY <1>1, <2>1, <2>3 DEF Bracket!Attest
  <2>5. Whole' \in BOOLEAN
    BY DEF Whole
  <2> QED
    BY <2>2, <2>4, <2>5 DEF Bracket!Next
<1>3. CASE UNCHANGED verdict
  BY <1>1, <1>3, BracketStutters
<1> QED
  BY <1>2, <1>3 DEF reportIngestCompletion

(* The steps of the pull thread. *)
LEMMA BracketPulls ==
  ASSUME DownloadInv, PullSteps
  PROVE  Bracket!Next
<1>1. CASE ResetBatch
  <2>1. ctx = "none" /\ dataset' = "none" /\ imported' = FALSE /\ UNCHANGED <<ctx, verdict>>
    BY <1>1 DEF ResetBatch, hostVars, DownloadInv, BatchInv
  <2>2. Bracket!Begin
    BY <2>1 DEF Bracket!Begin
  <2>3. Whole' \in BOOLEAN
    BY DEF Whole
  <2> QED
    BY <2>2, <2>3 DEF Bracket!Next
<1>2. CASE CreateEagerly
  <2>1. Puller \in Threads /\ UNCHANGED imported /\ pull = "eager"
    BY <1>2 DEF Threads, CreateEagerly
  <2>2. CASE datasetForFetch(TRUE) /\ ensureIngestProgress(Puller)
    BY <2>1, <2>2, BracketOpens
  <2>3. CASE UNCHANGED <<dataset, hostVars>>
    BY <2>1, <2>3, BracketStutters DEF hostVars
  <2> QED
    BY <1>2, <2>2, <2>3 DEF CreateEagerly
<1>3. CASE pullTopics \/ PullReturns \/ BeginFinish
  BY <1>3, BracketStutters DEF pullTopics, PullReturns, BeginFinish, batchVars, hostVars
<1>4. CASE reportIngestCompletion
  BY <1>4, BracketAttests
<1>5. CASE finishIngestProgress
  <2>1. ctx' = "none" /\ verdict' = None /\ UNCHANGED imported
    BY <1>5 DEF finishIngestProgress
  <2>2. UNCHANGED dataset \/ (dataset = "made" /\ ~imported /\ dataset' = "discarded")
    BY <1>5 DEF finishIngestProgress, DiscardProvisional
  <2>3. Bracket!Close
    BY <2>1, <2>2 DEF Bracket!Close
  <2>4. Whole' \in BOOLEAN
    BY DEF Whole
  <2> QED
    BY <2>3, <2>4 DEF Bracket!Next
<1> QED
  BY <1>1, <1>2, <1>3, <1>4, <1>5 DEF PullSteps

(* The steps of a pool thread. *)
LEMMA BracketPools ==
  ASSUME DownloadInv, NEW t \in Topics,
         PoolSteps(t) \/ on_batch(t) \/ on_progress(t) \/ StreamEnds(t) \/ StreamFails(t)
           \/ HostDrains(t)
  PROVE  Bracket!Next
<1>1. CASE \/ OpenReader(t) \/ ReaderInterrupted(t) \/ StreamEnds(t) \/ StreamFails(t)
           \/ on_done(t) \/ on_batch(t) \/ on_progress(t)
  BY <1>1, BracketStutters DEF OpenReader, ReaderInterrupted, StreamEnds, StreamFails, EndStream,
     on_done, on_batch, on_progress, batchVars, hostVars
<1>2. CASE TakeHostWrite(t)
  <2>1. t \in Threads /\ pool[t] = "lock"
    BY <1>2 DEF Threads, TakeHostWrite, At
  <2>2. pull = "pull"
    BY <2>1, PoolRuns DEF DownloadInv
  <2>3. CASE datasetForFetch(TRUE) /\ ensureIngestProgress(t) /\ UNCHANGED imported
    BY <2>1, <2>2, <2>3, BracketOpens
  <2>4. CASE AfterPush(t, FALSE) /\ UNCHANGED <<dataset, hostVars>>
    BY <2>1, <2>4, BracketPushes DEF hostVars
  <2> QED
    BY <1>2, <2>3, <2>4 DEF TakeHostWrite
<1>3. CASE pushMessage(t)
  <2>1. pool[t] # "off" /\ UNCHANGED <<dataset, ctx, verdict>>
    BY <1>3 DEF pushMessage, At
  <2>2. ASSUME NEW ok \in BOOLEAN, AfterPush(t, ok), ok => view PROVE Bracket!Next
    BY <2>1, <2>2, BracketPushes
  <2>3. CASE UNCHANGED imported
    BY <2>1, <2>3, BracketStutters
  <2> QED
    BY <1>3, <2>2, <2>3 DEF pushMessage
<1>4. CASE WakePush(t) \/ HostDrains(t)
  <2>1. PICK ok \in BOOLEAN : AfterPush(t, ok)
    BY <1>4 DEF WakePush, HostDrains
  <2>2. pool[t] = "parked" /\ UNCHANGED <<dataset, ctx, verdict>>
    BY <1>4 DEF WakePush, HostDrains, At, hostVars
  <2>3. view
    BY <2>2 DEF DownloadInv, PoolInv
  <2> QED
    BY <2>1, <2>2, <2>3, BracketPushes
<1> QED
  BY <1>1, <1>2, <1>3, <1>4 DEF PoolSteps

(* Every step is one of the bracket's, or shows the host nothing. *)
LEMMA BracketStep ==
  ASSUME DownloadInv, [Next]_vars
  PROVE  [Bracket!Next]_(Bracket!bracketVars)
<1>1. CASE WorkerSteps \/ CancelSteps(User) \/ Outside
  <2>1. ASSUME NEW w, CancelSteps(w) PROVE Bracket!Next
    BY <2>1, BracketStutters DEF CancelSteps, TellHost, cancelActivePulls, batchVars, hostVars
  <2>2. CASE PollerFires \/ HostStops
    BY <2>2, BracketStutters DEF PollerFires, HostStops, batchVars
  <2> QED
    BY <1>1, <2>1, <2>2, BracketPools, BracketPulls DEF WorkerSteps, Outside
<1>2. CASE NotConnected
  BY <1>2, BracketStutters DEF NotConnected, batchVars, hostVars
<1>3. CASE buttonFetch \/ buttonCancel \/ Destroy \/ DialogSteps
  BY <1>3, BracketStutters DEF buttonFetch, buttonCancel, Destroy, DialogSteps, onPullFinished,
     onHostStop, onAllFetchesComplete, maybeFireProgressiveReveal, JoinWorker, fetchVars,
     batchVars, hostVars
<1>4. CASE CancelJob \/ JobSteps \/ WatchdogSteps \/ \E t \in Topics : pullProgress(t)
  BY <1>4, BracketStutters DEF CancelJob, JobSteps, ConnectJob, PullEnds, runToTerminal,
     WatchdogSteps, claimTransferWatchdogExpiry, WatchdogFires, pullProgress, fetchVars,
     batchVars, hostVars
<1>5. CASE UNCHANGED vars
  BY <1>5, BracketStutters DEF vars, fetchVars, batchVars, hostVars
<1> QED
  BY <1>1, <1>2, <1>3, <1>4, <1>5 DEF Next

(* Whatever the order of cancels, stops, failures and pool threads, the host sees
   one well-formed ingest. *)
THEOREM BracketRefined == Spec => BracketKept
<1>1. Init => Bracket!Init
  BY DEF Init, FetchInit, Bracket!Init, Whole
<1>2. DownloadInv /\ [Next]_vars => [Bracket!Next]_(Bracket!bracketVars)
  BY BracketStep
<1> QED
  BY <1>1, <1>2, DownloadInvariant, PTL DEF Spec, BracketKept, Bracket!Spec

---------------------------------------------------------------------------
(***************************************************************************)
(* The callbacks of a batch, counted.                                      *)
(***************************************************************************)
(* The types of the rest of the state. *)
FlagTyped ==
  /\ dataset \in {"none", "made", "discarded"}
  /\ view \in BOOLEAN /\ stopView \in BOOLEAN /\ attempted \in BOOLEAN /\ reported \in BOOLEAN
  /\ cancel \in BOOLEAN /\ rollback \in BOOLEAN /\ hostStop \in BOOLEAN /\ told \in BOOLEAN
  /\ deadCall \in BOOLEAN
  /\ hostWrite \in Topics \cup {Puller, None} /\ progress \in Topics \cup {None}
  /\ poller \in {"off", "watch"} /\ ctx \in {"none", "live"}
  /\ verdict \in {"COMPLETED", "CANCELLED", "FAILED", None}

CallerTyped ==
  /\ gui \in {"open", "closing", "closed"}
  /\ active \in BOOLEAN /\ cancelling \in BOOLEAN /\ importedAny \in BOOLEAN /\ revealPending \in BOOLEAN
  /\ job \in {"connect", "pull", "map", "end"}
  /\ jobCancel \in BOOLEAN /\ byteCut \in BOOLEAN /\ timeCut \in BOOLEAN /\ transfer \in BOOLEAN
  /\ watchdog \in {"off", "armed", "claimed"}
  /\ terminal \in {"CANCELLED", "FAILED", "SUCCEEDED", None}

(* Batches pushed and to push were received, and no more than there are. *)
BatchBound ==
  /\ \A t \in Topics : pushed[t] + todo[t] <= read[t] /\ read[t] <= MaxBatches
  /\ shown \in [Topics -> 0 .. MaxBatches]

(* What the batch has called back so far; a pull that threw says None. *)
Said(t) == \E c \in Range(calls) : c.call = "finished" /\ c.topic = t

Stopped == \E c \in Range(calls) : c.call = "stop"

Ended == \E c \in Range(calls) : c.call = "complete"

(* A topic is reported once, and alone if it stands for a pull that threw. *)
OnceIn(q) ==
  /\ \A i \in 1..Len(q) : q[i].call = "complete" => i = Len(q)
  /\ \A i, j \in 1..Len(q) :
       q[i].call = "finished" /\ q[j].call = "finished" /\ q[i].topic \in {q[j].topic, None} => i = j
  /\ \A i, j \in 1..Len(q) : q[i].call = "stop" /\ q[j].call = "stop" => i = j

QueueInv ==
  /\ OnceIn(calls)
  /\ pull \in {"begin", "eager"} \/ job = "connect" => calls = <<>>
  /\ pull # "idle" => ~Ended
  /\ pull = "pull" => ~Said(None)

(* By the time the pull thread reports, every topic was. *)
SaidInv ==
  \A t \in Topics :
    /\ pull = "pull" /\ pool[t] = "done" => Said(t)
    /\ pull \in {"report", "retire", "finish"} \/ Ended => Said(t) \/ Said(None)

(* The thread that won the once-only exchange, until it has called back. *)
Answering(w) == canceller[w] # None /\ canceller[w].host

StopInv ==
  /\ Stopped => reported
  /\ \A w \in Threads : Answering(w) => reported /\ ~Stopped /\ w \in Topics \cup {Puller, Poller}
  /\ \A w, v \in Threads : Answering(w) /\ Answering(v) => w = v

(* The panel's tally is of the callbacks it has handled. *)
FinishedUpTo(q, n) == {i \in 1..n : q[i].call = "finished"}

TallyInv ==
  /\ seen <= Len(calls)
  /\ done = Cardinality(FinishedUpTo(calls, seen))

(* What the panel shows once it is idle. *)
PanelInv ==
  caller = "dialog" =>
    /\ \A i \in 1..seen : calls[i].call = "finished" /\ calls[i].ok => importedAny
    /\ ~active => /\ seen = Len(calls)
                  /\ \A i \in 1..Len(calls) : calls[i].call = "finished" /\ calls[i].ok =>
                       shown[calls[i].topic] = pushed[calls[i].topic]

CountInv ==
  /\ FlagTyped /\ CallerTyped /\ BatchBound
  /\ QueueInv /\ SaidInv /\ StopInv /\ TallyInv /\ PanelInv

(* A step that leaves the flags alone keeps their types. *)
LEMMA FlagFrame ==
  ASSUME FlagTyped,
         UNCHANGED <<dataset, view, stopView, attempted, reported, rollback, hostStop, told,
                     deadCall, hostWrite, progress, poller, ctx, verdict>>,
         cancel' \in BOOLEAN
  PROVE  FlagTyped'
BY DEF FlagTyped

(* What a cancel of the host's changes. *)
LEMMA HostCancelTyped ==
  ASSUME NEW w, FlagTyped, requestCancelFromHost(w)
  PROVE  reported' \in BOOLEAN /\ cancel' \in BOOLEAN
BY DEF requestCancelFromHost, BeginCancel, cancelVars, FlagTyped

(* What the one attempt to open a context changes. *)
LEMMA EnsureTyped ==
  ASSUME NEW w, FlagTyped, ensureIngestProgress(w)
  PROVE  /\ view' \in BOOLEAN /\ stopView' \in BOOLEAN /\ attempted' \in BOOLEAN
         /\ reported' \in BOOLEAN /\ cancel' \in BOOLEAN /\ hostStop' \in BOOLEAN
         /\ told' \in BOOLEAN /\ ctx' \in {"none", "live"}
         /\ UNCHANGED <<rollback, verdict, deadCall>>
<1>1. attempted' = TRUE /\ UNCHANGED <<rollback, verdict, deadCall>>
  BY DEF ensureIngestProgress
<1>2. CASE OpenContext(w)
  <2>1. CASE requestCancelFromHost(w)
    BY <1>1, <1>2, <2>1, HostCancelTyped DEF OpenContext
  <2>2. CASE UNCHANGED <<reported, cancelVars>>
    BY <1>1, <1>2, <2>2 DEF OpenContext, cancelVars, FlagTyped
  <2> QED
    BY <1>2, <2>1, <2>2 DEF OpenContext
<1>3. CASE UNCHANGED <<view, stopView, reported, cancelVars, ctx, hostStop, told>>
  BY <1>1, <1>3 DEF cancelVars, FlagTyped
<1> QED
  BY <1>2, <1>3 DEF ensureIngestProgress

(* What a push changes. *)
LEMMA PushTyped ==
  ASSUME NEW t \in Topics, NEW ok, FlagTyped, AfterPush(t, ok)
  PROVE  hostWrite' \in Topics \cup {Puller, None} /\ progress' \in Topics \cup {None}
BY DEF AfterPush

(* The flags keep their types: the steps of the pool threads. *)
LEMMA PoolFlags ==
  ASSUME NEW t \in Topics, FlagTyped,
         PoolSteps(t) \/ on_batch(t) \/ on_progress(t) \/ StreamEnds(t) \/ StreamFails(t)
           \/ HostDrains(t)
  PROVE  FlagTyped'
<1> USE DEF batchVars, lockVars, poolVars, cancelVars, hostVars
<1>1. CASE OpenReader(t) \/ on_batch(t) \/ on_done(t)
  BY <1>1 DEF FlagTyped, OpenReader, on_batch, on_done
<1>2. CASE ReaderInterrupted(t) \/ StreamEnds(t) \/ StreamFails(t)
  BY <1>2 DEF FlagTyped, ReaderInterrupted, StreamEnds, StreamFails, EndStream
<1>3. CASE on_progress(t)
  <2>1. reported' \in BOOLEAN /\ cancel' \in BOOLEAN
    BY <1>3, HostCancelTyped DEF on_progress
  <2>2. deadCall' \in BOOLEAN
    BY <1>3 DEF on_progress, CallsHost, FlagTyped
  <2> QED
    BY <1>3, <2>1, <2>2 DEF on_progress, FlagTyped
<1>4. CASE TakeHostWrite(t)
  <2>1. CASE datasetForFetch(TRUE) /\ ensureIngestProgress(t) /\ hostWrite' = t /\ UNCHANGED progress
    <3>1. dataset' \in {"none", "made", "discarded"}
      BY <2>1 DEF datasetForFetch, FlagTyped
    <3> QED
      BY <1>4, <2>1, <3>1, EnsureTyped DEF TakeHostWrite, FlagTyped
  <2>2. CASE AfterPush(t, FALSE) /\ UNCHANGED <<dataset, view, stopView, attempted, reported,
                                                cancelVars, hostVars>>
    <3>1. hostWrite' \in Topics \cup {Puller, None} /\ progress' \in Topics \cup {None}
      BY <2>2, PushTyped
    <3>2. UNCHANGED <<dataset, view, stopView, attempted, reported, cancel, rollback, hostStop, told,
                      deadCall, poller, ctx, verdict>>
      BY <1>4, <2>2 DEF TakeHostWrite
    <3> QED
      BY <3>1, <3>2 DEF FlagTyped
  <2> QED
    BY <1>4, <2>1, <2>2 DEF TakeHostWrite
<1>5. CASE pushMessage(t)
  <2>1. hostWrite' \in Topics \cup {Puller, None} /\ progress' \in Topics \cup {None}
    BY <1>5, PushTyped DEF pushMessage, FlagTyped
  <2>2. deadCall' \in BOOLEAN
    BY <1>5 DEF pushMessage, CallsHost, FlagTyped
  <2> QED
    BY <1>5, <2>1, <2>2 DEF pushMessage, FlagTyped
<1>6. CASE WakePush(t) \/ HostDrains(t)
  <2>1. hostWrite' \in Topics \cup {Puller, None} /\ progress' \in Topics \cup {None}
    BY <1>6, PushTyped DEF WakePush, HostDrains
  <2> QED
    <3>1. UNCHANGED <<dataset, view, stopView, attempted, reported, cancel, rollback, hostStop, told,
                      deadCall, poller, ctx, verdict>>
      BY <1>6 DEF WakePush, HostDrains
    <3> QED
      BY <2>1, <3>1 DEF FlagTyped
<1> QED
  BY <1>1, <1>2, <1>3, <1>4, <1>5, <1>6 DEF PoolSteps

(* The flags keep their types: the steps of the pull thread. *)
LEMMA PullFlags ==
  ASSUME FlagTyped, PullSteps
  PROVE  FlagTyped'
<1> USE DEF batchVars, lockVars, poolVars, cancelVars, hostVars
<1>1. CASE ResetBatch
  BY <1>1 DEF ResetBatch, KeepCancel, FlagTyped
<1>2. CASE CreateEagerly
  <2>1. CASE datasetForFetch(TRUE) /\ ensureIngestProgress(Puller) /\ hostWrite' = Puller
    <3>1. dataset' \in {"none", "made", "discarded"}
      BY <2>1 DEF datasetForFetch, FlagTyped
    <3> QED
      BY <1>2, <2>1, <3>1, EnsureTyped DEF CreateEagerly, FlagTyped
  <2>2. CASE UNCHANGED <<dataset, view, stopView, attempted, reported, hostWrite, cancel, hostVars>>
    BY <1>2, <2>2 DEF CreateEagerly, FlagTyped
  <2> QED
    BY <1>2, <2>1, <2>2 DEF CreateEagerly
<1>3. CASE pullTopics \/ PullReturns
  <2>1. UNCHANGED <<dataset, view, stopView, attempted, reported, cancel, rollback, hostStop, told,
                    deadCall, progress, ctx, verdict>>
    BY <1>3 DEF pullTopics, PullReturns
  <2>2. hostWrite' \in {hostWrite, None} /\ poller' \in {"off", "watch"}
    BY <1>3 DEF pullTopics, PullReturns
  <2> QED
    BY <2>1, <2>2 DEF FlagTyped
<1>4. CASE reportIngestCompletion
  <2>1. verdict' \in {"COMPLETED", "CANCELLED", "FAILED", None}
    BY <1>4 DEF reportIngestCompletion, computeCompletion, FlagTyped
  <2>2. deadCall' \in BOOLEAN
    BY <1>4 DEF reportIngestCompletion, CallsHost, FlagTyped
  <2> QED
    BY <1>4, <2>1, <2>2 DEF reportIngestCompletion, FlagTyped
<1>5. CASE BeginFinish
  <2>1. UNCHANGED <<dataset, view, attempted, reported, cancel, rollback, hostStop, told,
                    deadCall, hostWrite, progress, poller, ctx, verdict>>
    BY <1>5 DEF BeginFinish
  <2>2. stopView' \in BOOLEAN
    BY <1>5 DEF BeginFinish, RetireStopSurface
  <2> QED
    BY <2>1, <2>2 DEF FlagTyped
<1>6. CASE finishIngestProgress
  BY <1>6 DEF finishIngestProgress, FlagTyped
<1> QED
  BY <1>1, <1>2, <1>3, <1>4, <1>5, <1>6 DEF PullSteps

(* The flags keep their types. *)
LEMMA FlagsStay ==
  ASSUME FlagTyped, [Next]_vars
  PROVE  FlagTyped'
<1> USE DEF batchVars, lockVars, poolVars, cancelVars, hostVars
<1>1. ASSUME NEW w, CancelSteps(w)
      PROVE  FlagTyped'
  <2>1. deadCall' \in BOOLEAN /\ told' \in BOOLEAN
    BY <1>1 DEF CancelSteps, TellHost, cancelActivePulls, CallsHost, FlagTyped
  <2> QED
    BY <1>1, <2>1 DEF CancelSteps, TellHost, cancelActivePulls, FlagTyped
<1>2. CASE PollerFires
  <2>1. reported' \in BOOLEAN /\ cancel' \in BOOLEAN
    BY <1>2, HostCancelTyped DEF PollerFires
  <2>2. deadCall' \in BOOLEAN
    BY <1>2 DEF PollerFires, CallsHost, FlagTyped
  <2> QED
    BY <1>2, <2>1, <2>2 DEF PollerFires, FlagTyped
<1>3. CASE HostStops
  BY <1>3 DEF HostStops, FlagTyped
<1>4. CASE NotConnected \/ buttonFetch \/ buttonCancel \/ Destroy
  <2>1. UNCHANGED <<dataset, view, stopView, attempted, reported, rollback, hostStop, told,
                    deadCall, hostWrite, progress, poller, ctx, verdict>>
    BY <1>4 DEF NotConnected, buttonFetch, buttonCancel, Destroy
  <2>2. cancel' \in BOOLEAN
    BY <1>4 DEF NotConnected, buttonFetch, buttonCancel, Destroy, BeginCancel, FlagTyped
  <2> QED
    BY <2>1, <2>2, FlagFrame
<1>5. CASE DialogSteps
  BY <1>5 DEF DialogSteps, onPullFinished, onHostStop, onAllFetchesComplete,
     maybeFireProgressiveReveal, JoinWorker, fetchVars, FlagTyped
<1>6. CASE JobSteps \/ claimTransferWatchdogExpiry
  BY <1>6 DEF JobSteps, ConnectJob, PullEnds, runToTerminal, claimTransferWatchdogExpiry,
     fetchVars, FlagTyped
<1>7. CASE CancelJob \/ WatchdogFires \/ \E t \in Topics : pullProgress(t)
  <2>1. UNCHANGED <<dataset, view, stopView, attempted, reported, rollback, hostStop, told,
                    deadCall, hostWrite, progress, poller, ctx, verdict>>
    BY <1>7 DEF CancelJob, WatchdogFires, pullProgress
  <2>2. cancel' \in BOOLEAN
    BY <1>7 DEF CancelJob, WatchdogFires, RecordThenCut, pullProgress, BeginCancel, FlagTyped
  <2> QED
    BY <2>1, <2>2, FlagFrame
<1>8. CASE UNCHANGED vars
  BY <1>8 DEF vars, fetchVars, FlagTyped
<1> QED
  BY <1>1, <1>2, <1>3, <1>4, <1>5, <1>6, <1>7, <1>8, PoolFlags, PullFlags
     DEF Next, WorkerSteps, Outside, WatchdogSteps

(* The callers' flags keep their types. *)
LEMMA CallersStay ==
  ASSUME CallerTyped, [Next]_vars
  PROVE  CallerTyped'
<1> USE DEF dialogVars, jobVars
<1>1. CASE UNCHANGED callerVars
  BY <1>1 DEF callerVars, CallerTyped
<1>2. CASE buttonFetch
  BY <1>2 DEF buttonFetch, CallerTyped
<1>10. CASE buttonCancel
  BY <1>10 DEF buttonCancel, CallerTyped
<1>11. CASE Destroy
  BY <1>11 DEF Destroy, CallerTyped
<1>3. CASE onPullFinished
  BY <1>3 DEF onPullFinished, CallerTyped
<1>4. CASE onHostStop
  BY <1>4 DEF onHostStop, CallerTyped
<1>12. CASE onAllFetchesComplete
  BY <1>12 DEF onAllFetchesComplete, CallerTyped
<1>13. CASE maybeFireProgressiveReveal
  <2>1. revealPending' \in BOOLEAN
    BY <1>13 DEF maybeFireProgressiveReveal
  <2>2. UNCHANGED <<gui, active, cancelling, importedAny, jobVars>>
    BY <1>13 DEF maybeFireProgressiveReveal
  <2> QED
    BY <2>1, <2>2 DEF CallerTyped
<1>14. CASE JoinWorker
  BY <1>14 DEF JoinWorker, CallerTyped
<1>5. CASE ConnectJob \/ PullEnds
  BY <1>5 DEF ConnectJob, PullEnds, Terminate, CallerTyped
<1>6. CASE runToTerminal
  <2>1. MapTerminal \in {"CANCELLED", "FAILED", "SUCCEEDED"}
    BY DEF MapTerminal
  <2> QED
    BY <1>6, <2>1 DEF runToTerminal, Terminate, CallerTyped
<1>7. CASE claimTransferWatchdogExpiry
  <2>1. watchdog' \in {"off", "claimed"} /\ transfer' \in BOOLEAN
    BY <1>7 DEF claimTransferWatchdogExpiry
  <2>2. UNCHANGED <<dialogVars, job, jobCancel, byteCut, timeCut, terminal>>
    BY <1>7 DEF claimTransferWatchdogExpiry
  <2> QED
    BY <2>1, <2>2 DEF CallerTyped
<1>8. CASE CancelJob
  BY <1>8 DEF CancelJob, CallerTyped
<1>15. CASE WatchdogFires
  BY <1>15 DEF WatchdogFires, RecordThenCut, CallerTyped
<1>16. CASE \E t \in Topics : pullProgress(t)
  BY <1>16 DEF pullProgress, CallerTyped
<1>9. CASE UNCHANGED vars
  BY <1>9 DEF vars, CallerTyped
<1> QED
  BY <1>1, <1>2, <1>3, <1>4, <1>5, <1>6, <1>7, <1>8, <1>9, <1>10, <1>11, <1>12, <1>13, <1>14,
     <1>15, <1>16 DEF Next, DialogSteps, JobSteps, WatchdogSteps

(* Batches pushed and to push were received: the steps of a pool thread. *)
LEMMA PushBound ==
  ASSUME NEW t \in Topics, NEW ok \in BOOLEAN, DownloadInv, BatchBound, AfterPush(t, ok),
         pool[t] \in {"lock", "push", "parked"}, UNCHANGED <<read, shown>>
  PROVE  BatchBound'
<1>1. /\ todo \in [Topics -> Nat] /\ read \in [Topics -> Nat] /\ pushed \in [Topics -> Nat]
      /\ todo[t] > 0
  BY DEF DownloadInv, PoolTyped, TopicInv, TopicOf
<1>2. /\ pushed' = [pushed EXCEPT ![t] = IF ok THEN @ + 1 ELSE @]
      /\ todo' = [todo EXCEPT ![t] = IF ok THEN @ - 1 ELSE 0]
  BY DEF AfterPush
<1>3. \A s \in Topics : pushed'[s] + todo'[s] <= pushed[s] + todo[s]
  <2> SUFFICES ASSUME NEW s \in Topics PROVE pushed'[s] + todo'[s] <= pushed[s] + todo[s]
    OBVIOUS
  <2>1. CASE s # t
    BY <1>1, <1>2, <2>1
  <2>2. CASE s = t /\ ok
    BY <1>1, <1>2, <2>2
  <2>3. CASE s = t /\ ~ok
    BY <1>1, <1>2, <2>3
  <2> QED
    BY <2>1, <2>2, <2>3
<1>4. \A s \in Topics : pushed'[s] \in Nat /\ todo'[s] \in Nat
  BY <1>1, <1>2
<1> QED
  BY <1>1, <1>3, <1>4, FetchAssumption DEF BatchBound

(* A stream's batches: received, kept or dropped. *)
LEMMA StreamBound ==
  ASSUME NEW t \in Topics, DownloadInv, BatchBound, UNCHANGED <<shown, pushed>>,
         \/ on_batch(t)
         \/ \E r \in {"ok", "failed", "cut"} : EndStream(t, r)
  PROVE  BatchBound'
<1>1. /\ todo \in [Topics -> Nat] /\ read \in [Topics -> Nat] /\ pushed \in [Topics -> Nat]
  BY DEF DownloadInv, PoolTyped
<1>2. CASE on_batch(t)
  <2>1. /\ read[t] < MaxBatches /\ read' = [read EXCEPT ![t] = @ + 1]
        /\ UNCHANGED todo \/ todo' = [todo EXCEPT ![t] = @ + 1]
    BY <1>2 DEF on_batch
  <2> QED
    BY <1>1, <2>1, FetchAssumption DEF BatchBound
<1>3. ASSUME NEW r \in {"ok", "failed", "cut"}, EndStream(t, r) PROVE BatchBound'
  <2>1. todo' = [todo EXCEPT ![t] = IF r = "ok" THEN @ ELSE 0] /\ UNCHANGED read
    BY <1>3 DEF EndStream
  <2> QED
    BY <1>1, <2>1, FetchAssumption DEF BatchBound
<1> QED
  BY <1>2, <1>3

(* A batch begins with nothing received. *)
LEMMA FreshBound ==
  ASSUME BatchBound, FreshLocals, UNCHANGED shown
  PROVE  BatchBound'
BY FetchAssumption DEF BatchBound, FreshLocals, Fresh

(* What was pushed can be shown. *)
LEMMA ShownBound ==
  ASSUME DownloadInv, BatchBound, UNCHANGED <<pushed, todo, read>>, shown' \in {shown, pushed, Fresh}
  PROVE  BatchBound'
<1>1. /\ todo \in [Topics -> Nat] /\ read \in [Topics -> Nat] /\ pushed \in [Topics -> Nat]
  BY DEF DownloadInv, PoolTyped
<1>2. pushed \in [Topics -> 0 .. MaxBatches]
  BY <1>1, FetchAssumption DEF BatchBound
<1>3. Fresh \in [Topics -> 0 .. MaxBatches]
  BY FetchAssumption DEF Fresh
<1> QED
  BY <1>2, <1>3 DEF BatchBound

(* No topic pushes more than it received, nor receives more than there is. *)
LEMMA BoundsStay ==
  ASSUME DownloadInv, BatchBound, [Next]_vars
  PROVE  BatchBound'
<1> USE DEF batchVars, lockVars, poolVars, cancelVars, hostVars, dialogVars
<1>1. CASE UNCHANGED <<pushed, todo, read>> /\ shown' \in {shown, pushed, Fresh}
  BY <1>1, ShownBound
<1>2. ASSUME NEW t \in Topics, UNCHANGED callerVars,
             PoolSteps(t) \/ on_batch(t) \/ on_progress(t) \/ StreamEnds(t) \/ StreamFails(t)
               \/ HostDrains(t)
      PROVE  BatchBound'
  <2>1. UNCHANGED shown
    BY <1>2 DEF callerVars
  <2>2. CASE OpenReader(t) \/ on_progress(t) \/ on_done(t)
    BY <1>1, <2>1, <2>2 DEF OpenReader, on_progress, on_done
  <2>3. CASE on_batch(t)
    BY <2>1, <2>3, StreamBound DEF on_batch
  <2>4. CASE ReaderInterrupted(t) \/ StreamEnds(t) \/ StreamFails(t)
    <3>1. \E r \in {"ok", "failed", "cut"} : EndStream(t, r)
      BY <2>4 DEF ReaderInterrupted, StreamEnds, StreamFails
    <3>2. UNCHANGED pushed
      BY <3>1 DEF EndStream
    <3> QED
      BY <2>1, <3>1, <3>2, StreamBound
  <2>5. CASE TakeHostWrite(t)
    BY <1>1, <2>1, <2>5, PushBound DEF TakeHostWrite, At
  <2>6. CASE pushMessage(t)
    BY <1>1, <2>1, <2>6, PushBound DEF pushMessage, At
  <2>7. CASE WakePush(t) \/ HostDrains(t)
    BY <2>1, <2>7, PushBound DEF WakePush, HostDrains, At
  <2> QED
    BY <1>2, <2>2, <2>3, <2>4, <2>5, <2>6, <2>7 DEF PoolSteps
<1>3. CASE PullSteps /\ UNCHANGED callerVars
  <2>1. CASE ResetBatch
    BY <1>3, <2>1, FreshBound DEF ResetBatch, callerVars
  <2>2. CASE CreateEagerly \/ pullTopics \/ PullReturns \/ reportIngestCompletion
    BY <1>1, <1>3, <2>2 DEF CreateEagerly, pullTopics, PullReturns, reportIngestCompletion, callerVars
  <2>3. CASE BeginFinish \/ finishIngestProgress
    BY <1>1, <1>3, <2>3 DEF BeginFinish, finishIngestProgress, callerVars
  <2> QED
    BY <1>3, <2>1, <2>2, <2>3 DEF PullSteps
<1>4. ASSUME NEW w, CancelSteps(w), UNCHANGED callerVars PROVE BatchBound'
  BY <1>1, <1>4 DEF CancelSteps, TellHost, cancelActivePulls, callerVars
<1>5. CASE (PollerFires \/ HostStops) /\ UNCHANGED callerVars
  BY <1>1, <1>5 DEF PollerFires, HostStops, callerVars
<1>6. CASE NotConnected /\ UNCHANGED callerVars
  BY <1>6, FreshBound DEF NotConnected, callerVars
<1>7. CASE buttonFetch \/ buttonCancel \/ Destroy
  BY <1>1, <1>7 DEF buttonFetch, buttonCancel, Destroy
<1>8. CASE DialogSteps
  BY <1>1, <1>8 DEF DialogSteps, onPullFinished, onHostStop, onAllFetchesComplete,
     maybeFireProgressiveReveal, JoinWorker, fetchVars
<1>9. CASE JobSteps \/ WatchdogSteps
  BY <1>1, <1>9 DEF JobSteps, ConnectJob, PullEnds, runToTerminal, WatchdogSteps,
     claimTransferWatchdogExpiry, WatchdogFires, fetchVars
<1>10. CASE CancelJob \/ \E t \in Topics : pullProgress(t)
  BY <1>1, <1>10 DEF CancelJob, pullProgress
<1>11. CASE UNCHANGED vars
  BY <1>1, <1>11 DEF vars, fetchVars
<1>12. CASE Outside /\ UNCHANGED callerVars
  BY <1>2, <1>5, <1>12 DEF Outside
<1>13. CASE (WorkerSteps \/ CancelSteps(User)) /\ UNCHANGED callerVars
  BY <1>2, <1>3, <1>4, <1>5, <1>13 DEF WorkerSteps
<1> QED
  BY <1>6, <1>7, <1>8, <1>9, <1>10, <1>11, <1>12, <1>13 DEF Next

(* One more callback, by its place. *)
LEMMA AppendPlaces ==
  ASSUME NEW S, NEW q \in Seq(S), NEW e \in S
  PROVE  /\ Len(Append(q, e)) = Len(q) + 1 /\ Len(q) \in Nat
         /\ Append(q, e)[Len(q) + 1] = e
         /\ \A i \in 1..Len(q) : Append(q, e)[i] = q[i]
OBVIOUS

(* A callback that was not made before can be made. *)
LEMMA OnceAppended ==
  ASSUME CallTyped, OnceIn(calls), ~Ended, NEW e \in Calls,
         e.call = "stop" => ~Stopped,
         e.call = "finished" => ~Said(e.topic) /\ ~Said(None),
         e.call = "finished" /\ e.topic = None => \A t \in Topics : ~Said(t)
  PROVE  OnceIn(Append(calls, e))
<1>1. PICK q : q = Append(calls, e)
  OBVIOUS
<1>2. calls \in Seq(Calls) /\ Len(calls) \in Nat /\ DOMAIN calls = 1..Len(calls)
  BY DEF CallTyped
<1>3. Len(q) = Len(calls) + 1 /\ q[Len(calls) + 1] = e /\ \A i \in 1..Len(calls) : q[i] = calls[i]
  BY <1>1, <1>2, AppendPlaces
<1>4. \A i \in 1..Len(calls) : calls[i] \in Range(calls) /\ calls[i] \in Calls
  BY <1>2 DEF Range
<1>5. \A i \in 1..Len(calls) : calls[i].topic \in Topics \cup {None}
  BY <1>4 DEF Calls
<1>6. \A i \in 1..Len(q) : i \in 1..Len(calls) \/ i = Len(calls) + 1
  BY <1>2, <1>3
<1>7. \A i \in 1..Len(q) : q[i].call = "complete" => i = Len(q)
  BY <1>2, <1>3, <1>4, <1>6 DEF Ended
<1>8. \A i, j \in 1..Len(q) : q[i].call = "stop" /\ q[j].call = "stop" => i = j
  <2> SUFFICES ASSUME NEW i \in 1..Len(q), NEW j \in 1..Len(q), q[i].call = "stop", q[j].call = "stop"
               PROVE  i = j
    OBVIOUS
  <2>1. CASE i \in 1..Len(calls) /\ j \in 1..Len(calls)
    BY <1>3, <2>1 DEF OnceIn
  <2>2. CASE e.call # "stop"
    BY <1>3, <1>6, <2>1, <2>2
  <2>3. CASE e.call = "stop"
    BY <1>3, <1>4, <1>6, <2>1, <2>3 DEF Stopped
  <2> QED
    BY <2>2, <2>3
<1>9. \A i, j \in 1..Len(q) :
        q[i].call = "finished" /\ q[j].call = "finished" /\ q[i].topic \in {q[j].topic, None} => i = j
  <2> SUFFICES ASSUME NEW i \in 1..Len(q), NEW j \in 1..Len(q), q[i].call = "finished",
                      q[j].call = "finished", q[i].topic \in {q[j].topic, None}
               PROVE  i = j
    OBVIOUS
  <2>1. CASE i \in 1..Len(calls) /\ j \in 1..Len(calls)
    BY <1>3, <2>1 DEF OnceIn
  <2>2. CASE i \in 1..Len(calls) /\ j = Len(calls) + 1
    BY <1>3, <1>4, <2>2 DEF Said
  <2>3. CASE i = Len(calls) + 1 /\ j \in 1..Len(calls)
    <3>1. CASE e.topic = calls[j].topic
      BY <1>3, <1>4, <2>3, <3>1 DEF Said
    <3>2. CASE e.topic = None
      <4>1. Said(calls[j].topic)
        BY <1>3, <1>4, <2>3 DEF Said
      <4> QED
        BY <1>3, <1>5, <2>3, <3>2, <4>1
    <3> QED
      BY <1>3, <2>3, <3>1, <3>2
  <2> QED
    BY <1>6, <2>1, <2>2, <2>3
<1> QED
  BY <1>1, <1>7, <1>8, <1>9 DEF OnceIn

(* A step that calls nothing back, seen from the callbacks. *)
Quiet ==
  /\ UNCHANGED calls
  /\ pull' \in {"begin", "eager"} \/ job' = "connect" => pull \in {"begin", "eager"} \/ job = "connect"
  /\ pull' # "idle" => pull # "idle" \/ job = "connect"
  /\ pull' = "pull" => pull \in {"ready", "pull"}
  /\ \A t \in Topics : pull' = "pull" /\ pool'[t] = "done" => pull = "pull" /\ pool[t] = "done"
  /\ pull' \in {"report", "retire", "finish"} =>
       pull \in {"report", "retire", "finish"} \/ (pull = "pull" /\ \A t \in Topics : pool[t] = "done")

(* A step inside a batch that ends no topic. *)
LEMMA QuietInside ==
  ASSUME UNCHANGED <<calls, pull, job>>, \A t \in Topics : pool'[t] = "done" => pool[t] = "done"
  PROVE  Quiet
BY DEF Quiet

(* A step that calls something back. *)
Loud ==
  \/ \E w \in Threads : cancelActivePulls(w) /\ Answering(w)
  \/ \E t \in Topics : on_done(t)
  \/ NotConnected
  \/ CreateEagerly /\ calls' = AllFailed /\ pull' = "retire"
  \/ PullReturns /\ (\A t \in Topics : pool[t] = "start")
       /\ calls' = Append(calls, PullFinished(None, FALSE))
  \/ finishIngestProgress

(* A pool thread calls back only when its topic is done. *)
LEMMA PoolSounds ==
  ASSUME NEW t \in Topics, DownloadInv, UNCHANGED callerVars,
         PoolSteps(t) \/ on_batch(t) \/ on_progress(t) \/ StreamEnds(t) \/ StreamFails(t)
           \/ HostDrains(t)
  PROVE  Quiet \/ Loud
<1> USE DEF callerVars, jobVars, batchVars, lockVars, poolVars, cancelVars, hostVars
<1>1. pool \in [Topics -> Places] /\ t \in Threads /\ CallTyped
  BY DEF DownloadInv, PoolTyped, Threads
<1>2. ASSUME NEW p, Goto(t, p), p # "done"
      PROVE  \A s \in Topics : pool'[s] = "done" => pool[s] = "done"
  BY <1>1, <1>2 DEF Goto
<1>3. CASE OpenReader(t)
  BY <1>2, <1>3, QuietInside DEF OpenReader
<1>4. CASE on_batch(t)
  <2>1. UNCHANGED pool \/ Goto(t, "read") \/ Goto(t, "lock")
    BY <1>4 DEF on_batch
  <2> QED
    BY <1>2, <1>4, <2>1, QuietInside DEF on_batch
<1>5. CASE on_progress(t)
  <2>1. UNCHANGED calls
    BY <1>1, <1>5, FromHostFacts DEF on_progress
  <2> QED
    BY <1>5, <2>1, QuietInside DEF on_progress
<1>6. CASE ReaderInterrupted(t) \/ StreamEnds(t) \/ StreamFails(t)
  <2>1. PICK r \in {"ok", "failed", "cut"} : EndStream(t, r)
    BY <1>6 DEF ReaderInterrupted, StreamEnds, StreamFails
  <2>2. Goto(t, "lock") \/ Goto(t, "record")
    BY <2>1 DEF EndStream
  <2> QED
    BY <1>2, <2>1, <2>2, QuietInside DEF EndStream
<1>7. ASSUME NEW ok, AfterPush(t, ok)
      PROVE  \A s \in Topics : pool'[s] = "done" => pool[s] = "done"
  <2>1. PICK p \in {"read", "lock", "record"} : Goto(t, p)
    <3>1. CASE end[t] = None
      BY <1>7, <3>1, Zenon DEF AfterPush
    <3>2. CASE end[t] # None /\ ok /\ todo[t] > 1
      BY <1>7, <3>2, Zenon DEF AfterPush
    <3>3. CASE ~(end[t] = None) /\ ~(end[t] # None /\ ok /\ todo[t] > 1)
      BY <1>7, <3>3, Zenon DEF AfterPush
    <3> QED
      BY <3>1, <3>2, <3>3
  <2> QED
    BY <1>2, <2>1
<1>8. CASE TakeHostWrite(t)
  <2>1. CASE ensureIngestProgress(t) /\ datasetForFetch(TRUE) /\ Goto(t, "push")
    <3>1. pull = "pull"
      BY <1>8, PoolRuns DEF TakeHostWrite, At, DownloadInv
    <3>2. UNCHANGED calls
      BY <1>1, <2>1, <3>1, EnsureFacts DEF DownloadInv
    <3> QED
      BY <1>2, <1>8, <2>1, <3>2, QuietInside DEF TakeHostWrite
  <2>2. CASE AfterPush(t, FALSE) /\ UNCHANGED cancelVars
    BY <1>7, <1>8, <2>2, QuietInside DEF TakeHostWrite
  <2> QED
    BY <1>8, <2>1, <2>2 DEF TakeHostWrite
<1>9. CASE pushMessage(t)
  <2>1. \A s \in Topics : pool'[s] = "done" => pool[s] = "done"
    BY <1>2, <1>7, <1>9 DEF pushMessage
  <2> QED
    BY <1>9, <2>1, QuietInside DEF pushMessage
<1>10. CASE WakePush(t) \/ HostDrains(t)
  <2>1. \A s \in Topics : pool'[s] = "done" => pool[s] = "done"
    BY <1>7, <1>10 DEF WakePush, HostDrains
  <2> QED
    BY <1>10, <2>1, QuietInside DEF WakePush, HostDrains
<1>11. CASE on_done(t)
  BY <1>11 DEF Loud
<1> QED
  BY <1>3, <1>4, <1>5, <1>6, <1>8, <1>9, <1>10, <1>11 DEF PoolSteps

(* The pull thread calls back when it fails early, when it throws and at the end. *)
LEMMA PullSounds ==
  ASSUME DownloadInv, UNCHANGED callerVars, PullSteps
  PROVE  Quiet \/ Loud
<1> USE DEF callerVars, jobVars, batchVars, lockVars, poolVars, cancelVars, hostVars
<1>1. Puller \in Threads /\ CallTyped /\ BatchInv
  BY DEF DownloadInv, Threads
<1>2. CASE ResetBatch
  BY <1>2 DEF ResetBatch, Quiet
<1>3. CASE CreateEagerly
  <2>1. CASE ensureIngestProgress(Puller) /\ datasetForFetch(TRUE) /\ pull' = "ready"
    <3>1. UNCHANGED calls
      BY <1>1, <1>3, <2>1, EnsureFacts DEF CreateEagerly
    <3> QED
      BY <1>3, <2>1, <3>1 DEF CreateEagerly, Quiet
  <2>2. CASE calls' = AllFailed /\ pull' = "retire"
    BY <1>3, <2>2 DEF Loud
  <2> QED
    BY <1>3, <2>1, <2>2 DEF CreateEagerly
<1>4. CASE pullTopics
  BY <1>4 DEF pullTopics, Quiet
<1>5. CASE PullReturns
  <2>1. CASE (\A t \in Topics : pool[t] = "done" /\ Idle(t)) /\ UNCHANGED calls
    BY <1>5, <2>1 DEF PullReturns, Quiet
  <2>2. CASE (\A t \in Topics : pool[t] = "start") /\ calls' = Append(calls, PullFinished(None, FALSE))
    BY <1>5, <2>2 DEF Loud
  <2> QED
    BY <1>5, <2>1, <2>2 DEF PullReturns
<1>6. CASE reportIngestCompletion \/ BeginFinish
  BY <1>6 DEF reportIngestCompletion, BeginFinish, Quiet
<1>7. CASE finishIngestProgress
  BY <1>7 DEF Loud
<1> QED
  BY <1>2, <1>3, <1>4, <1>5, <1>6, <1>7 DEF PullSteps

(* Every step is quiet, calls something back, or starts a batch. *)
LEMMA Sounds ==
  ASSUME DownloadInv, [Next]_vars
  PROVE  Quiet \/ (Loud /\ UNCHANGED callerVars) \/ buttonFetch
<1> USE DEF batchVars, lockVars, poolVars, cancelVars, hostVars, dialogVars, jobVars
<1>1. ASSUME NEW w \in Threads, CancelSteps(w), UNCHANGED callerVars
      PROVE  Quiet \/ Loud
  <2>1. CASE TellHost(w)
    BY <1>1, <2>1, QuietInside DEF TellHost, callerVars
  <2>2. CASE cancelActivePulls(w) /\ canceller[w].host
    BY <2>2 DEF Loud, Answering, cancelActivePulls
  <2>3. CASE cancelActivePulls(w) /\ ~canceller[w].host
    BY <1>1, <2>3, QuietInside DEF cancelActivePulls, callerVars
  <2> QED
    BY <1>1, <2>1, <2>2, <2>3 DEF CancelSteps
<1>2. CASE (PollerFires \/ HostStops) /\ UNCHANGED callerVars
  <2>1. UNCHANGED calls
    BY <1>2, FromHostFacts DEF PollerFires, HostStops, DownloadInv, Threads
  <2> QED
    BY <1>2, <2>1, QuietInside DEF PollerFires, HostStops, callerVars
<1>3. CASE NotConnected /\ UNCHANGED callerVars
  BY <1>3 DEF Loud
<1>4. CASE buttonCancel \/ Destroy
  BY <1>4, QuietInside DEF buttonCancel, Destroy
<1>5. CASE DialogSteps
  BY <1>5, QuietInside DEF DialogSteps, onPullFinished, onHostStop, onAllFetchesComplete,
     maybeFireProgressiveReveal, JoinWorker, fetchVars
<1>6. CASE ConnectJob
  BY <1>6 DEF ConnectJob, Terminate, Quiet
<1>7. CASE PullEnds \/ runToTerminal
  BY <1>7 DEF PullEnds, runToTerminal, Terminate, fetchVars, Quiet
<1>8. CASE WatchdogSteps
  BY <1>8, QuietInside DEF WatchdogSteps, claimTransferWatchdogExpiry, WatchdogFires, fetchVars
<1>9. CASE CancelJob \/ \E t \in Topics : pullProgress(t)
  BY <1>9, QuietInside DEF CancelJob, pullProgress
<1>10. CASE UNCHANGED vars
  BY <1>10, QuietInside DEF vars, fetchVars
<1>11. CASE Outside /\ UNCHANGED callerVars
  BY <1>2, <1>11, PoolSounds DEF Outside
<1>12. CASE (WorkerSteps \/ CancelSteps(User)) /\ UNCHANGED callerVars
  <2>1. User \in Threads
    BY DEF Threads
  <2> QED
    BY <1>1, <1>2, <1>12, <2>1, PoolSounds, PullSounds DEF WorkerSteps
<1> QED
  BY <1>3, <1>4, <1>5, <1>6, <1>7, <1>8, <1>9, <1>10, <1>11, <1>12 DEF Next, JobSteps

(* The callbacks of a set of topics: each once, and every one. *)
LEMMA SetToSeqOnce ==
  ASSUME NEW S, IsFiniteSet(S)
  PROVE  /\ Len(SetToSeq(S)) = Cardinality(S) /\ Cardinality(S) \in Nat
         /\ \A i, j \in 1..Len(SetToSeq(S)) : SetToSeq(S)[i] = SetToSeq(S)[j] => i = j
         /\ \A x \in S : \E i \in 1..Len(SetToSeq(S)) : SetToSeq(S)[i] = x
<1>1. Cardinality(S) \in Nat /\ ExistsBijection(1 .. Cardinality(S), S)
  BY FS_CardinalityType
<1>2. \E f \in [1 .. Cardinality(S) -> S] : IsInjective(f)
  BY <1>1 DEF ExistsBijection, Bijection, Injection
<1>3. SetToSeq(S) \in [1 .. Cardinality(S) -> S] /\ IsInjective(SetToSeq(S))
  BY <1>2 DEF SetToSeq
<1>4. SetToSeq(S) \in Injection(1 .. Cardinality(S), S)
  BY <1>3 DEF Injection
<1>5. IsFiniteSet(1 .. Cardinality(S)) /\ Cardinality(1 .. Cardinality(S)) = Cardinality(S)
  BY <1>1, FS_Interval
<1>6. SetToSeq(S) \in Surjection(1 .. Cardinality(S), S)
  BY <1>4, <1>5, FS_Injection
<1>7. Len(SetToSeq(S)) = Cardinality(S) /\ DOMAIN SetToSeq(S) = 1..Cardinality(S)
  BY <1>1, <1>3
<1>8. \A x \in S : \E i \in 1..Cardinality(S) : SetToSeq(S)[i] = x
  BY <1>6 DEF Surjection
<1> QED
  BY <1>1, <1>3, <1>7, <1>8 DEF IsInjective

(* Every topic reported as failed, once, when nothing was reported before. *)
LEMMA AllFailedOnce ==
  ASSUME calls = <<>>
  PROVE  /\ AllFailed \in Seq(Calls)
         /\ \A i \in 1..Len(AllFailed) : AllFailed[i].call = "finished" /\ AllFailed[i].topic \in Topics
         /\ \A i, j \in 1..Len(AllFailed) : AllFailed[i].topic = AllFailed[j].topic => i = j
         /\ \A t \in Topics : \E i \in 1..Len(AllFailed) : AllFailed[i].topic = t
<1> DEFINE F == {PullFinished(t, FALSE) : t \in Topics}
<1>1. IsFiniteSet(F)
  <2> DEFINE f == [t \in Topics |-> PullFinished(t, FALSE)]
  <2>1. f \in [Topics -> F] /\ \A y \in F : \E t \in Topics : f[t] = y
    OBVIOUS
  <2>2. f \in Surjection(Topics, F)
    BY <2>1 DEF Surjection
  <2> HIDE DEF F, f
  <2> QED
    BY <2>2, FetchAssumption, FS_Surjection
<1>2. \A c \in F : c.call = "finished" /\ c.topic \in Topics /\ c = PullFinished(c.topic, FALSE)
  BY DEF PullFinished
<1>3. \A t \in Topics : PullFinished(t, FALSE) \in F /\ PullFinished(t, FALSE).topic = t
  BY DEF PullFinished
<1>4. F \subseteq Calls
  <2> SUFFICES ASSUME NEW t \in Topics PROVE PullFinished(t, FALSE) \in Calls
    OBVIOUS
  <2> QED
    BY DEF PullFinished, Calls
<1>5. AllFailed = <<>> \o SetToSeq(F)
  BY DEF AllFailed
<1> HIDE DEF F
<1>6. SetToSeq(F) \in Seq(F)
  BY <1>1, SetToSeqRange
<1>7. AllFailed = SetToSeq(F)
  BY <1>5, <1>6, ConcatEmptySeq
<1>8. AllFailed \in Seq(Calls) /\ AllFailed \in Seq(F)
  BY <1>4, <1>6, <1>7, SeqMonotonic
<1>9. \A i \in 1..Len(AllFailed) : AllFailed[i] \in F
  BY <1>8
<1>10. \A i, j \in 1..Len(AllFailed) : AllFailed[i] = AllFailed[j] => i = j
  BY <1>1, <1>7, SetToSeqOnce
<1>11. \A x \in F : \E i \in 1..Len(AllFailed) : AllFailed[i] = x
  BY <1>1, <1>7, SetToSeqOnce
<1>12. \A i \in 1..Len(AllFailed) : AllFailed[i].call = "finished" /\ AllFailed[i].topic \in Topics
  BY <1>2, <1>9
<1>13. \A i, j \in 1..Len(AllFailed) : AllFailed[i].topic = AllFailed[j].topic => i = j
  <2> SUFFICES ASSUME NEW i \in 1..Len(AllFailed), NEW j \in 1..Len(AllFailed),
                      AllFailed[i].topic = AllFailed[j].topic
               PROVE  i = j
    OBVIOUS
  <2>1. AllFailed[i] = PullFinished(AllFailed[i].topic, FALSE)
    BY <1>2, <1>9
  <2>2. AllFailed[j] = PullFinished(AllFailed[j].topic, FALSE)
    BY <1>2, <1>9
  <2> QED
    BY <2>1, <2>2, <1>10
<1>14. \A t \in Topics : \E i \in 1..Len(AllFailed) : AllFailed[i].topic = t
  BY <1>3, <1>11
<1> QED
  BY <1>8, <1>12, <1>13, <1>14

(* What a step that calls nothing back leaves of the queue. *)
LEMMA QuietQueue ==
  ASSUME DownloadInv, QueueInv, SaidInv, Quiet
  PROVE  QueueInv' /\ SaidInv'
<1>1. UNCHANGED calls
  BY DEF Quiet
<1>2. (Ended' <=> Ended) /\ (\A t : Said(t)' <=> Said(t)) /\ OnceIn(calls)'
  BY <1>1 DEF Ended, Said, QueueInv, OnceIn
<1>3. calls = <<>> => ~Ended /\ ~Said(None)
  BY DEF Ended, Said, Range
<1>4. pull = "ready" => ~Said(None)
  BY DEF DownloadInv, DoneInv, Said
<1>5. QueueInv'
  BY <1>1, <1>2, <1>3, <1>4 DEF QueueInv, Quiet
<1>6. SaidInv'
  BY <1>2 DEF SaidInv, Quiet
<1> QED
  BY <1>5, <1>6

(* The queue grows by one callback. *)
LEMMA Grows ==
  ASSUME DownloadInv, NEW e \in Calls, calls' = Append(calls, e)
  PROVE  /\ Stopped' <=> Stopped \/ e.call = "stop"
         /\ Ended' <=> Ended \/ e.call = "complete"
         /\ \A t : Said(t)' <=> Said(t) \/ (e.call = "finished" /\ e.topic = t)
<1>1. Range(calls') = Range(calls) \cup {e}
  BY Appended DEF DownloadInv
<1> QED
  BY <1>1 DEF Stopped, Ended, Said

(* A queue of failures. *)
LEMMA FailedQueue ==
  ASSUME calls = <<>>
  PROVE  /\ OnceIn(AllFailed)
         /\ \A c \in Range(AllFailed) : c.call = "finished" /\ c.topic \in Topics
         /\ \A t \in Topics : \E c \in Range(AllFailed) : c.call = "finished" /\ c.topic = t
<1>1. AllFailed \in Seq(Calls) /\ DOMAIN AllFailed = 1..Len(AllFailed)
  BY AllFailedOnce
<1>2. OnceIn(AllFailed)
  BY AllFailedOnce, FetchAssumption DEF OnceIn
<1>3. \A c \in Range(AllFailed) : c.call = "finished" /\ c.topic \in Topics
  BY <1>1, AllFailedOnce DEF Range
<1>4. \A t \in Topics : \E c \in Range(AllFailed) : c.call = "finished" /\ c.topic = t
  BY <1>1, AllFailedOnce DEF Range
<1> QED
  BY <1>2, <1>3, <1>4

(* An empty queue says nothing. *)
LEMMA Silent ==
  ASSUME calls = <<>>
  PROVE  ~Stopped /\ ~Ended /\ \A t : ~Said(t)
BY DEF Stopped, Ended, Said, Range

(* A thread that answers the host's Stop does so inside the batch. *)
LEMMA AnswersInside ==
  ASSUME DownloadInv, StopInv, NEW w \in Threads, Answering(w)
  PROVE  pull \in {"ready", "pull"} /\ job # "connect"
<1>1. w \in Topics \cup {Puller, Poller} /\ canceller[w] # None
  BY DEF StopInv, Answering
<1>2. pull \in {"ready", "pull"}
  <2>1. CASE w \in Topics
    <3>1. pool[w] # "off"
      BY <1>1, <2>1 DEF DownloadInv, CancelInv
    <3> QED
      BY <2>1, <3>1, PoolRuns DEF DownloadInv
  <2>2. CASE w = Puller \/ w = Poller
    BY <1>1, <2>2 DEF DownloadInv, CancelInv
  <2> QED
    BY <1>1, <2>1, <2>2
<1> QED
  BY <1>2 DEF DownloadInv, CallerInv

(* Every callback is made once, and the completion last. *)
LEMMA LoudQueue ==
  ASSUME DownloadInv, QueueInv, SaidInv, StopInv, Loud, UNCHANGED callerVars
  PROVE  QueueInv' /\ SaidInv'
<1>1. CallTyped /\ OnceIn(calls) /\ UNCHANGED job
  BY DEF DownloadInv, QueueInv, callerVars, jobVars
<1>2. ASSUME NEW w \in Threads, cancelActivePulls(w), Answering(w)
      PROVE  QueueInv' /\ SaidInv'
  <2>1. pull \in {"ready", "pull"} /\ job # "connect"
    BY <1>2, AnswersInside
  <2>2. PICK e : e = HostStopRequested
    OBVIOUS
  <2>3. e \in Calls /\ e.call = "stop"
    BY <2>2 DEF HostStopRequested, Calls
  <2>4. calls' = Append(calls, e) /\ UNCHANGED <<pull, pool>>
    BY <1>2, <2>2 DEF cancelActivePulls, Answering, poolVars
  <2>5. ~Stopped /\ ~Ended
    BY <1>2, <2>1 DEF StopInv, QueueInv
  <2>6. OnceIn(calls')
    BY <1>1, <2>3, <2>4, <2>5, OnceAppended
  <2>7. (Ended' <=> Ended) /\ \A t : Said(t)' <=> Said(t)
    BY <2>3, <2>4, Grows
  <2>8. QueueInv'
    BY <1>1, <2>1, <2>4, <2>6, <2>7 DEF QueueInv
  <2>9. SaidInv'
    BY <2>4, <2>7 DEF SaidInv
  <2> QED
    BY <2>8, <2>9
<1>3. ASSUME NEW t \in Topics, on_done(t)
      PROVE  QueueInv' /\ SaidInv'
  <2>1. pool[t] = "record" /\ pull = "pull" /\ UNCHANGED pull
    BY <1>3, PoolRuns DEF on_done, At, DownloadInv
  <2>2. PICK e : e = PullFinished(t, TopicOutcome(t) # "failed")
    OBVIOUS
  <2>3. e \in Calls /\ e.call = "finished" /\ e.topic = t
    BY <2>2 DEF PullFinished, Calls
  <2>4. calls' = Append(calls, e) /\ pool' = [pool EXCEPT ![t] = "done"]
    BY <1>3, <2>2 DEF on_done, Goto
  <2>5. ~Said(t) /\ ~Said(None) /\ ~Ended /\ job # "connect"
    BY <2>1 DEF DownloadInv, DoneInv, CallerInv, QueueInv, Said
  <2>6. OnceIn(calls')
    BY <1>1, <2>3, <2>4, <2>5, OnceAppended, FetchAssumption
  <2>7. (Ended' <=> Ended) /\ \A s : Said(s)' <=> Said(s) \/ s = t
    BY <2>3, <2>4, Grows
  <2>8. t # None
    BY FetchAssumption
  <2>9. QueueInv'
    BY <1>1, <2>1, <2>5, <2>6, <2>7, <2>8 DEF QueueInv
  <2>10. \A s \in Topics : pool'[s] = "done" => pool[s] = "done" \/ s = t
    BY <2>4 DEF DownloadInv, PoolTyped
  <2>11. SaidInv'
    BY <2>1, <2>5, <2>7, <2>10 DEF SaidInv
  <2> QED
    BY <2>9, <2>11
<1>4. CASE NotConnected
  <2>1. calls = <<>> /\ pull' = "idle" /\ job # "connect" /\ calls' = Append(AllFailed, AllFetchesComplete)
    BY <1>4 DEF NotConnected, QueueInv, DownloadInv, CallerInv
  <2>2. PICK q, e : q = AllFailed /\ e = AllFetchesComplete
    OBVIOUS
  <2>3. /\ q \in Seq(Calls) /\ DOMAIN q = 1..Len(q) /\ Len(q) \in Nat
        /\ e \in Calls /\ e.call = "complete"
    BY <2>1, <2>2, AllFailedOnce DEF AllFetchesComplete, Calls
  <2>4. Range(calls') = Range(q) \cup {e}
    BY <2>1, <2>2, <2>3, AppendRange
  <2>5. Len(calls') = Len(q) + 1 /\ calls'[Len(q) + 1] = e /\ \A i \in 1..Len(q) : calls'[i] = q[i]
    BY <2>1, <2>2, <2>3, AppendPlaces
  <2>6. /\ OnceIn(q) /\ \A c \in Range(q) : c.call = "finished" /\ c.topic \in Topics
        /\ \A t \in Topics : \E c \in Range(q) : c.call = "finished" /\ c.topic = t
    BY <2>1, <2>2, FailedQueue
  <2>7. \A i \in 1..Len(q) : q[i].call = "finished"
    BY <2>3, <2>6 DEF Range
  <2>8. \A i \in 1..Len(calls') : i \in 1..Len(q) \/ i = Len(q) + 1
    BY <2>3, <2>5
  <2>9. OnceIn(calls')
    BY <2>3, <2>5, <2>6, <2>7, <2>8 DEF OnceIn
  <2>10. QueueInv'
    BY <1>1, <2>1, <2>9 DEF QueueInv
  <2>11. \A t \in Topics : Said(t)'
    BY <2>4, <2>6 DEF Said
  <2>12. SaidInv'
    BY <2>1, <2>11 DEF SaidInv
  <2> QED
    BY <2>10, <2>12
<1>5. CASE CreateEagerly /\ calls' = AllFailed /\ pull' = "retire"
  <2>1. calls = <<>> /\ job # "connect"
    BY <1>5 DEF CreateEagerly, QueueInv, DownloadInv, CallerInv
  <2>2. /\ OnceIn(calls') /\ \A c \in Range(calls') : c.call = "finished" /\ c.topic \in Topics
        /\ \A t \in Topics : \E c \in Range(calls') : c.call = "finished" /\ c.topic = t
    BY <1>5, <2>1, FailedQueue
  <2>3. ~Ended' /\ \A t \in Topics : Said(t)'
    BY <2>2 DEF Ended, Said
  <2> QED
    BY <1>1, <1>5, <2>1, <2>2, <2>3 DEF QueueInv, SaidInv
<1>6. CASE PullReturns /\ (\A t \in Topics : pool[t] = "start")
             /\ calls' = Append(calls, PullFinished(None, FALSE))
  <2>1. pull = "pull" /\ pull' = "report" /\ job # "connect"
    BY <1>6 DEF PullReturns, DownloadInv, CallerInv
  <2>2. PICK e : e = PullFinished(None, FALSE)
    OBVIOUS
  <2>3. e \in Calls /\ e.call = "finished" /\ e.topic = None
    BY <2>2 DEF PullFinished, Calls
  <2>4. ~Ended /\ ~Said(None) /\ \A t \in Topics : ~Said(t)
    BY <1>6, <2>1 DEF QueueInv, DownloadInv, DoneInv, Said
  <2>5. OnceIn(calls')
    BY <1>1, <1>6, <2>2, <2>3, <2>4, OnceAppended
  <2>6. (Ended' <=> Ended) /\ Said(None)'
    BY <1>6, <2>2, <2>3, Grows
  <2>7. QueueInv'
    BY <1>1, <2>1, <2>4, <2>5, <2>6 DEF QueueInv
  <2>8. SaidInv'
    BY <2>1, <2>6 DEF SaidInv
  <2> QED
    BY <2>7, <2>8
<1>7. CASE finishIngestProgress
  <2>1. pull = "finish" /\ pull' = "idle" /\ job # "connect"
    BY <1>7 DEF finishIngestProgress, DownloadInv, CallerInv
  <2>2. PICK e : e = AllFetchesComplete
    OBVIOUS
  <2>3. e \in Calls /\ e.call = "complete" /\ calls' = Append(calls, e)
    BY <1>7, <2>2 DEF AllFetchesComplete, Calls, finishIngestProgress
  <2>4. ~Ended
    BY <2>1 DEF QueueInv
  <2>5. OnceIn(calls')
    BY <1>1, <2>3, <2>4, OnceAppended
  <2>6. \A t : Said(t)' <=> Said(t)
    BY <2>3, Grows
  <2>7. QueueInv'
    BY <1>1, <2>1, <2>5 DEF QueueInv
  <2>8. SaidInv'
    BY <2>1, <2>6 DEF SaidInv
  <2> QED
    BY <2>7, <2>8
<1> QED
  BY <1>2, <1>3, <1>4, <1>5, <1>6, <1>7 DEF Loud

(* The queue and what it says, over every step. *)
LEMMA QueueStays ==
  ASSUME DownloadInv, QueueInv, SaidInv, StopInv, [Next]_vars
  PROVE  QueueInv' /\ SaidInv'
<1>1. CASE buttonFetch
  <2>1. calls' = <<>> /\ pull' = "begin"
    BY <1>1 DEF buttonFetch
  <2>2. ~Ended' /\ OnceIn(calls')
    BY <2>1 DEF Ended, Range, OnceIn
  <2> QED
    BY <2>1, <2>2 DEF QueueInv, SaidInv
<1> QED
  BY <1>1, Sounds, QuietQueue, LoudQueue

(* The host's Stop is answered by one thread, once. *)
LEMMA StopKept ==
  ASSUME StopInv, reported' = reported, Stopped' => Stopped,
         \A w \in Threads : Answering(w)' => Answering(w)
  PROVE  StopInv'
BY DEF StopInv

(* Whoever wins the exchange answers. *)
LEMMA StopBegins ==
  ASSUME DownloadInv, FlagTyped, StopInv, NEW w \in Topics \cup {Puller, Poller},
         requestCancelFromHost(w)
  PROVE  StopInv'
<1>1. CallTyped /\ w \in Threads /\ reported' = TRUE /\ UNCHANGED calls
  BY FromHostFacts DEF DownloadInv, Threads, requestCancelFromHost
<1>2. Stopped' <=> Stopped
  BY <1>1 DEF Stopped
<1>3. CASE reported /\ UNCHANGED cancelVars
  <2>1. \A v \in Threads : Answering(v)' => Answering(v)
    BY <1>3 DEF cancelVars, Answering
  <2>2. reported' = reported
    BY <1>1, <1>3 DEF FlagTyped
  <2> QED
    BY <1>2, <2>1, <2>2, StopKept
<1>4. CASE ~reported /\ BeginCancel(w, TRUE)
  <2>1. \A v \in Threads \ {w} : canceller'[v] = canceller[v]
    BY <1>1, <1>4, BeginCancelFacts
  <2>2. \A v \in Threads : ~Answering(v)
    BY <1>4 DEF StopInv
  <2>3. \A v \in Threads : Answering(v)' => v = w
    BY <2>1, <2>2 DEF Answering
  <2>4. ~Stopped'
    BY <1>2, <1>4 DEF StopInv
  <2> QED
    BY <1>1, <2>3, <2>4 DEF StopInv
<1> QED
  BY <1>3, <1>4 DEF requestCancelFromHost

(* A cancel of ours answers nobody. *)
LEMMA StopPassed ==
  ASSUME DownloadInv, StopInv, NEW w \in Threads, BeginCancel(w, FALSE), UNCHANGED <<reported, calls>>
  PROVE  StopInv'
<1>1. \A v \in Threads \ {w} : canceller'[v] = canceller[v]
  BY BeginCancelFacts DEF DownloadInv
<1>2. canceller'[w].host = FALSE
  BY BeginCancelFacts DEF DownloadInv
<1>3. \A v \in Threads : Answering(v)' => Answering(v)
  BY <1>1, <1>2 DEF Answering
<1> QED
  BY <1>3, StopKept DEF Stopped

(* A step that touches neither the exchange nor the threads that cancel. *)
LEMMA StopFrame ==
  ASSUME StopInv, UNCHANGED <<reported, canceller>>, Stopped' => Stopped
  PROVE  StopInv'
BY DEF StopInv, Answering

(* Opening the context may find the host's Stop. *)
LEMMA StopOpens ==
  ASSUME DownloadInv, FlagTyped, StopInv, NEW w \in Topics \cup {Puller, Poller},
         ensureIngestProgress(w)
  PROVE  StopInv'
<1>1. CASE requestCancelFromHost(w)
  BY <1>1, StopBegins
<1>2. CASE UNCHANGED <<reported, cancelVars>>
  BY <1>2, StopFrame DEF cancelVars, Stopped
<1> QED
  BY <1>1, <1>2 DEF ensureIngestProgress, OpenContext

(* The host's Stop: the steps of a pool thread. *)
LEMMA PoolStops ==
  ASSUME NEW t \in Topics, DownloadInv, FlagTyped, StopInv,
         PoolSteps(t) \/ on_batch(t) \/ on_progress(t) \/ StreamEnds(t) \/ StreamFails(t)
           \/ HostDrains(t)
  PROVE  StopInv'
<1> USE DEF batchVars, cancelVars
<1>1. CASE UNCHANGED <<reported, canceller, calls>>
  BY <1>1, StopFrame DEF Stopped
<1>2. CASE OpenReader(t) \/ on_batch(t)
  BY <1>1, <1>2 DEF OpenReader, on_batch
<1>3. CASE ReaderInterrupted(t) \/ StreamEnds(t) \/ StreamFails(t)
  BY <1>1, <1>3 DEF ReaderInterrupted, StreamEnds, StreamFails, EndStream
<1>4. CASE on_progress(t)
  BY <1>4, StopBegins DEF on_progress
<1>5. CASE TakeHostWrite(t)
  BY <1>1, <1>5, StopOpens DEF TakeHostWrite
<1>6. CASE pushMessage(t) \/ WakePush(t) \/ HostDrains(t)
  BY <1>1, <1>6 DEF pushMessage, WakePush, HostDrains
<1>7. CASE on_done(t)
  <2>1. PICK e : e = PullFinished(t, TopicOutcome(t) # "failed")
    OBVIOUS
  <2>2. e \in Calls /\ e.call = "finished" /\ calls' = Append(calls, e)
    BY <1>7, <2>1 DEF PullFinished, Calls, on_done
  <2>3. Stopped' <=> Stopped
    BY <2>2, Grows
  <2> QED
    BY <1>7, <2>3, StopFrame DEF on_done
<1> QED
  BY <1>2, <1>3, <1>4, <1>5, <1>6, <1>7 DEF PoolSteps

(* The host's Stop: the steps of the pull thread. *)
LEMMA PullStops ==
  ASSUME DownloadInv, FlagTyped, QueueInv, StopInv, PullSteps
  PROVE  StopInv'
<1> USE DEF batchVars, cancelVars
<1>1. CASE ResetBatch
  <2>1. calls' = <<>> /\ UNCHANGED canceller
    BY <1>1 DEF ResetBatch, QueueInv
  <2>2. \A w \in Threads : ~Answering(w)
    BY <1>1, AnswersInside DEF ResetBatch
  <2>3. ~Stopped'
    BY <2>1 DEF Stopped, Range
  <2> QED
    BY <2>1, <2>2, <2>3 DEF StopInv, Answering
<1>2. CASE CreateEagerly
  <2>1. CASE ensureIngestProgress(Puller)
    BY <2>1, StopOpens
  <2>2. CASE calls' = AllFailed /\ UNCHANGED <<reported, canceller>>
    <3>1. calls = <<>>
      BY <1>2 DEF CreateEagerly, QueueInv
    <3>2. ~Stopped'
      BY <2>2, <3>1, FailedQueue DEF Stopped
    <3> QED
      BY <2>2, <3>2, StopFrame
  <2> QED
    BY <1>2, <2>1, <2>2 DEF CreateEagerly
<1>3. CASE pullTopics \/ reportIngestCompletion \/ BeginFinish
  BY <1>3, StopFrame DEF pullTopics, reportIngestCompletion, BeginFinish, Stopped
<1>4. CASE PullReturns
  <2>1. CASE UNCHANGED calls
    BY <1>4, <2>1, StopFrame DEF PullReturns, Stopped
  <2>2. CASE calls' = Append(calls, PullFinished(None, FALSE))
    <3>1. PICK e : e = PullFinished(None, FALSE)
      OBVIOUS
    <3>2. e \in Calls /\ e.call = "finished" /\ calls' = Append(calls, e)
      BY <2>2, <3>1 DEF PullFinished, Calls
    <3>3. Stopped' <=> Stopped
      BY <3>2, Grows
    <3> QED
      BY <1>4, <3>3, StopFrame DEF PullReturns
  <2> QED
    BY <1>4, <2>1, <2>2 DEF PullReturns
<1>5. CASE finishIngestProgress
  <2>1. PICK e : e = AllFetchesComplete
    OBVIOUS
  <2>2. e \in Calls /\ e.call = "complete" /\ calls' = Append(calls, e)
    BY <1>5, <2>1 DEF AllFetchesComplete, Calls, finishIngestProgress
  <2>3. Stopped' <=> Stopped
    BY <2>2, Grows
  <2> QED
    BY <1>5, <2>3, StopFrame DEF finishIngestProgress
<1> QED
  BY <1>1, <1>2, <1>3, <1>4, <1>5 DEF PullSteps

(* The host's Stop: a thread inside requestCancel. *)
LEMMA CancelStops ==
  ASSUME DownloadInv, StopInv, NEW w \in Threads, CancelSteps(w)
  PROVE  StopInv'
<1> USE DEF batchVars, cancelVars
<1>1. canceller \in [Threads -> Cancels \cup {None}] /\ canceller[w] # None
  BY DEF DownloadInv, CallTyped, CancelSteps, TellHost, cancelActivePulls
<1>2. CASE TellHost(w)
  <2>1. PICK r : r = [canceller[w] EXCEPT !.at = "interrupt"]
    OBVIOUS
  <2>2. canceller[w] \in Cancels
    BY <1>1
  <2>3. r.host = canceller[w].host
    BY <2>1, <2>2 DEF Cancels
  <2>4. canceller' = [canceller EXCEPT ![w] = r] /\ UNCHANGED <<reported, calls>>
    BY <1>2, <2>1 DEF TellHost
  <2>5. \A v \in Threads : Answering(v)' => Answering(v)
    BY <1>1, <2>3, <2>4 DEF Answering
  <2> QED
    BY <2>4, <2>5, StopKept DEF Stopped
<1>3. CASE cancelActivePulls(w)
  <2>1. canceller' = [canceller EXCEPT ![w] = None] /\ UNCHANGED reported
    BY <1>3 DEF cancelActivePulls
  <2>2. \A v \in Threads : Answering(v)' => Answering(v) /\ v # w
    BY <1>1, <2>1 DEF Answering
  <2>3. CASE ~canceller[w].host
    <3>1. UNCHANGED calls
      BY <1>3, <2>3 DEF cancelActivePulls
    <3> QED
      BY <2>1, <2>2, <3>1, StopKept DEF Stopped
  <2>4. CASE canceller[w].host
    <3>1. Answering(w)
      BY <1>1, <2>4 DEF Answering
    <3>2. reported /\ \A v \in Threads : ~Answering(v)'
      BY <2>2, <3>1 DEF StopInv
    <3> QED
      BY <2>1, <3>2 DEF StopInv
  <2> QED
    BY <2>3, <2>4
<1> QED
  BY <1>2, <1>3 DEF CancelSteps

(* The host's Stop, over every step. *)
LEMMA StopsStay ==
  ASSUME DownloadInv, FlagTyped, QueueInv, StopInv, [Next]_vars
  PROVE  StopInv'
<1> USE DEF batchVars, cancelVars
<1>1. User \in Threads /\ Watchdog \in Threads /\ Topics \subseteq Threads
  BY DEF Threads
<1>2. CASE UNCHANGED <<reported, canceller, calls>>
  BY <1>2, StopFrame DEF Stopped
<1>3. CASE PollerFires
  BY <1>3, StopBegins DEF PollerFires
<1>4. CASE HostStops
  BY <1>2, <1>4 DEF HostStops
<1>5. CASE NotConnected
  <2>1. calls = <<>> /\ calls' = Append(AllFailed, AllFetchesComplete)
    BY <1>5 DEF NotConnected, QueueInv
  <2>2. AllFailed \in Seq(Calls) /\ AllFetchesComplete \in Calls /\ AllFetchesComplete.call = "complete"
    BY <2>1, AllFailedOnce DEF AllFetchesComplete, Calls
  <2>3. Range(calls') = Range(AllFailed) \cup {AllFetchesComplete}
    BY <2>1, <2>2, AppendRange
  <2>4. ~Stopped'
    BY <2>1, <2>2, <2>3, FailedQueue DEF Stopped
  <2> QED
    BY <1>5, <2>4, StopFrame DEF NotConnected
<1>6. CASE buttonFetch
  <2>1. ~Stopped'
    BY <1>6 DEF buttonFetch, Stopped, Range
  <2> QED
    BY <1>6, <2>1, StopFrame DEF buttonFetch
<1>7. CASE buttonCancel \/ Destroy \/ CancelJob
  BY <1>1, <1>7, StopPassed DEF buttonCancel, Destroy, CancelJob
<1>8. CASE DialogSteps
  BY <1>2, <1>8 DEF DialogSteps, onPullFinished, onHostStop, onAllFetchesComplete,
     maybeFireProgressiveReveal, JoinWorker, fetchVars
<1>9. CASE JobSteps \/ claimTransferWatchdogExpiry
  BY <1>2, <1>9 DEF JobSteps, ConnectJob, PullEnds, runToTerminal, claimTransferWatchdogExpiry,
     fetchVars
<1>10. CASE WatchdogFires
  BY <1>1, <1>10, StopPassed DEF WatchdogFires, RecordThenCut
<1>11. CASE \E t \in Topics : pullProgress(t)
  BY <1>1, <1>11, StopPassed DEF pullProgress
<1>12. CASE UNCHANGED vars
  BY <1>2, <1>12 DEF vars, fetchVars
<1> QED
  BY <1>1, <1>3, <1>4, <1>5, <1>6, <1>7, <1>8, <1>9, <1>10, <1>11, <1>12, PoolStops, PullStops,
     CancelStops DEF Next, WorkerSteps, Outside, WatchdogSteps

(* What was called back stays where it is. *)
LEMMA LoudExtends ==
  ASSUME DownloadInv, QueueInv, StopInv, Loud
  PROVE  /\ calls \in Seq(Calls) /\ Len(calls) \in Nat /\ Len(calls') \in Nat
         /\ Len(calls) <= Len(calls')
         /\ \A i \in 1..Len(calls) : calls'[i] = calls[i]
         /\ pull # "idle"
<1>1. calls \in Seq(Calls) /\ Len(calls) \in Nat
  BY DEF DownloadInv, CallTyped
<1>2. ASSUME NEW e \in Calls, calls' = Append(calls, e)
      PROVE  /\ Len(calls') \in Nat /\ Len(calls) <= Len(calls')
             /\ \A i \in 1..Len(calls) : calls'[i] = calls[i]
  BY <1>1, <1>2, AppendPlaces
<1>3. ASSUME NEW w \in Threads, cancelActivePulls(w), Answering(w)
      PROVE  HostStopRequested \in Calls /\ calls' = Append(calls, HostStopRequested) /\ pull # "idle"
  BY <1>3, AnswersInside DEF cancelActivePulls, Answering, HostStopRequested, Calls
<1>4. ASSUME NEW t \in Topics, on_done(t)
      PROVE  (\E e \in Calls : calls' = Append(calls, e)) /\ pull # "idle"
  <2>1. PullFinished(t, TopicOutcome(t) # "failed") \in Calls
    BY DEF PullFinished, Calls
  <2>2. pull = "pull"
    BY <1>4, PoolRuns DEF on_done, At, DownloadInv
  <2> QED
    BY <1>4, <2>1, <2>2 DEF on_done
<1>5. CASE NotConnected
  <2>1. calls = <<>> /\ calls' = Append(AllFailed, AllFetchesComplete) /\ pull # "idle"
    BY <1>5 DEF NotConnected, QueueInv
  <2>2. AllFailed \in Seq(Calls) /\ AllFetchesComplete \in Calls
    BY <2>1, AllFailedOnce DEF AllFetchesComplete, Calls
  <2>3. Len(calls) = 0 /\ Len(calls') \in Nat
    BY <2>1, <2>2
  <2> QED
    BY <1>1, <2>1, <2>3
<1>6. CASE CreateEagerly /\ calls' = AllFailed
  <2>1. calls = <<>> /\ pull # "idle"
    BY <1>6 DEF CreateEagerly, QueueInv
  <2>2. AllFailed \in Seq(Calls)
    BY <2>1, AllFailedOnce
  <2>3. Len(calls) = 0 /\ Len(calls') \in Nat
    BY <1>6, <2>1, <2>2
  <2> QED
    BY <1>1, <2>1, <2>3
<1>7. CASE PullReturns /\ calls' = Append(calls, PullFinished(None, FALSE))
  <2>1. PullFinished(None, FALSE) \in Calls
    BY DEF PullFinished, Calls
  <2> QED
    BY <1>1, <1>2, <1>7, <2>1 DEF PullReturns
<1>8. CASE finishIngestProgress
  <2>1. AllFetchesComplete \in Calls
    BY DEF AllFetchesComplete, Calls
  <2> QED
    BY <1>1, <1>2, <1>8, <2>1 DEF finishIngestProgress
<1> QED
  BY <1>1, <1>2, <1>3, <1>4, <1>5, <1>6, <1>7, <1>8 DEF Loud

(* The callbacks handled so far are finitely many. *)
LEMMA FinishedFinite ==
  ASSUME NEW q, NEW n \in Nat
  PROVE  IsFiniteSet(FinishedUpTo(q, n)) /\ Cardinality(FinishedUpTo(q, n)) \in Nat
<1>1. FinishedUpTo(q, n) \in SUBSET (1..n) /\ IsFiniteSet(1..n)
  BY FS_Interval DEF FinishedUpTo
<1>2. IsFiniteSet(FinishedUpTo(q, n))
  BY <1>1, FS_Subset
<1> QED
  BY <1>2, FS_CardinalityType

(* The tally does not move while the panel handles nothing. *)
LEMMA TallyFrame ==
  ASSUME DownloadInv, TallyInv, UNCHANGED <<seen, done>>, Len(calls') \in Nat,
         Len(calls) <= Len(calls'), \A i \in 1..Len(calls) : calls'[i] = calls[i]
  PROVE  TallyInv'
<1>1. seen \in Nat /\ Len(calls) \in Nat /\ seen <= Len(calls)
  BY DEF DownloadInv, CallTyped, TallyInv
<1>2. \A i \in 1..seen : calls'[i] = calls[i]
  BY <1>1
<1>3. FinishedUpTo(calls', seen) = FinishedUpTo(calls, seen)
  BY <1>2 DEF FinishedUpTo
<1> QED
  BY <1>1, <1>3 DEF TallyInv

(* One callback handled. *)
LEMMA TallyHandles ==
  ASSUME DownloadInv, TallyInv, NEW call, Handling(call), UNCHANGED calls,
         done' = IF call = "finished" THEN done + 1 ELSE done
  PROVE  TallyInv'
<1>1. seen \in Nat /\ Len(calls) \in Nat /\ seen < Len(calls) /\ seen' = seen + 1
      /\ calls[seen + 1].call = call
  BY DEF DownloadInv, CallTyped, Handling, Event
<1>2. PICK F : F = FinishedUpTo(calls, seen)
  OBVIOUS
<1>3. IsFiniteSet(F) /\ Cardinality(F) \in Nat
  BY <1>1, <1>2, FinishedFinite
<1>7. seen + 1 \notin F
  BY <1>1, <1>2 DEF FinishedUpTo
<1>4. 1..(seen + 1) = 1..seen \cup {seen + 1}
  BY <1>1
<1>5. CASE call = "finished"
  <2>1. FinishedUpTo(calls, seen + 1) = F \cup {seen + 1}
    BY <1>1, <1>2, <1>4, <1>5 DEF FinishedUpTo
  <2>2. Cardinality(F \cup {seen + 1}) = Cardinality(F) + 1
    BY <1>3, <1>7, FS_AddElement
  <2>3. done' = Cardinality(F) + 1
    BY <1>2, <1>5 DEF TallyInv
  <2>4. FinishedUpTo(calls', seen') = F \cup {seen + 1} /\ seen' <= Len(calls')
    BY <1>1, <2>1
  <2>5. done' = Cardinality(FinishedUpTo(calls', seen'))
    BY <2>2, <2>3, <2>4
  <2> QED
    BY <2>4, <2>5 DEF TallyInv
<1>6. CASE call # "finished"
  <2>1. FinishedUpTo(calls, seen + 1) = F
    BY <1>1, <1>2, <1>4, <1>6 DEF FinishedUpTo
  <2> QED
    BY <1>1, <1>2, <1>6, <2>1 DEF TallyInv
<1> QED
  BY <1>5, <1>6

(* Nothing is pushed while no batch runs. *)
LEMMA IdlePushes ==
  ASSUME DownloadInv, pull = "idle", [Next]_vars
  PROVE  UNCHANGED pushed
<1> USE DEF poolVars
<1>1. \A t \in Topics : pool[t] = "off"
  BY DEF DownloadInv, PoolInv
<1>2. ASSUME NEW t \in Topics, PoolSteps(t) \/ on_batch(t) \/ on_progress(t) \/ StreamEnds(t)
                                 \/ StreamFails(t) \/ HostDrains(t)
      PROVE  FALSE
  BY <1>1, <1>2 DEF PoolSteps, OpenReader, ReaderInterrupted, TakeHostWrite, pushMessage, WakePush,
     on_done, on_batch, on_progress, StreamEnds, StreamFails, HostDrains, At
<1>3. ~PullSteps /\ ~NotConnected
  BY DEF PullSteps, ResetBatch, CreateEagerly, pullTopics, PullReturns, reportIngestCompletion,
     BeginFinish, finishIngestProgress, NotConnected
<1>4. ASSUME NEW w, CancelSteps(w) PROVE UNCHANGED pushed
  BY <1>4 DEF CancelSteps, TellHost, cancelActivePulls
<1>5. CASE PollerFires \/ HostStops
  BY <1>5 DEF PollerFires, HostStops
<1>6. CASE buttonFetch \/ buttonCancel \/ Destroy \/ DialogSteps
  BY <1>6 DEF buttonFetch, buttonCancel, Destroy, DialogSteps, onPullFinished,
     onHostStop, onAllFetchesComplete, maybeFireProgressiveReveal, JoinWorker, fetchVars
<1>7. CASE CancelJob \/ JobSteps \/ WatchdogSteps \/ \E t \in Topics : pullProgress(t)
  BY <1>7 DEF CancelJob, JobSteps, ConnectJob, PullEnds, runToTerminal,
     WatchdogSteps, claimTransferWatchdogExpiry, WatchdogFires, pullProgress, fetchVars
<1>8. CASE UNCHANGED vars
  BY <1>8 DEF vars, fetchVars
<1> QED
  BY <1>2, <1>3, <1>4, <1>5, <1>6, <1>7, <1>8 DEF Next, WorkerSteps, Outside

(* The panel while no callback comes or is handled. *)
LEMMA PanelFrame ==
  ASSUME DownloadInv, PanelInv, [Next]_vars,
         UNCHANGED <<calls, caller, active, importedAny, seen>>,
         caller = "dialog" /\ ~active => UNCHANGED shown
  PROVE  PanelInv'
<1>1. caller = "dialog" /\ ~active => UNCHANGED pushed
  BY IdlePushes DEF DownloadInv, CallerInv
<1> QED
  BY <1>1 DEF PanelInv

(* The tally and the panel, over every step. *)
LEMMA PanelStays ==
  ASSUME DownloadInv, CallerTyped, QueueInv, StopInv, TallyInv, PanelInv, [Next]_vars
  PROVE  TallyInv' /\ PanelInv'
<1> USE DEF dialogVars, cancelVars
<1>1. seen \in Nat /\ Len(calls) \in Nat /\ seen <= Len(calls) /\ calls \in Seq(Calls)
  BY DEF DownloadInv, CallTyped, TallyInv
<1>2. CASE UNCHANGED <<calls, caller, active, importedAny, seen, done>>
           /\ (caller = "dialog" /\ ~active => UNCHANGED shown)
  <2>1. TallyInv'
    BY <1>1, <1>2, TallyFrame
  <2> QED
    BY <1>2, <2>1, PanelFrame
<1>3. CASE Loud /\ UNCHANGED callerVars
  <2>1. /\ Len(calls') \in Nat /\ Len(calls) <= Len(calls') /\ pull # "idle"
        /\ \A i \in 1..Len(calls) : calls'[i] = calls[i]
    BY <1>3, LoudExtends
  <2>2. UNCHANGED <<caller, active, importedAny, seen, done, shown>>
    BY <1>3 DEF callerVars
  <2>3. TallyInv'
    BY <2>1, <2>2, TallyFrame
  <2>4. caller = "dialog" => active
    BY <2>1 DEF DownloadInv, CallerInv
  <2>5. \A i \in 1..seen : calls'[i] = calls[i]
    BY <1>1, <2>1
  <2>6. PanelInv'
    BY <2>2, <2>4, <2>5 DEF PanelInv
  <2> QED
    BY <2>3, <2>6
<1>4. CASE buttonFetch
  <2>1. calls' = <<>> /\ seen' = 0 /\ done' = 0 /\ active'
    BY <1>4 DEF buttonFetch
  <2>2. FinishedUpTo(calls', 0) = {} /\ Len(calls') = 0 /\ 1..0 = {}
    BY <2>1 DEF FinishedUpTo
  <2>3. TallyInv'
    BY <2>1, <2>2, FS_EmptySet DEF TallyInv
  <2> QED
    BY <2>1, <2>2, <2>3 DEF PanelInv
<1>5. CASE onPullFinished
  <2>1. /\ Handling("finished") /\ done' = done + 1 /\ importedAny' = (importedAny \/ Event.ok)
        /\ UNCHANGED <<calls, caller, active, shown, pushed>>
    BY <1>5 DEF onPullFinished, fetchVars, poolVars
  <2>2. TallyInv'
    BY <2>1, TallyHandles
  <2>3. caller = "dialog" /\ seen < Len(calls) /\ seen' = seen + 1 /\ Event = calls[seen + 1]
    BY <2>1 DEF Handling, GuiFree, Event
  <2>4. active
    BY <1>1, <2>3 DEF PanelInv
  <2>5. \A i \in 1..seen' : i \in 1..seen \/ i = seen + 1
    BY <1>1, <2>3
  <2>6. \A i \in 1..seen' : calls[i].call = "finished" /\ calls[i].ok => importedAny'
    BY <2>1, <2>3, <2>5 DEF PanelInv
  <2> QED
    BY <2>1, <2>2, <2>4, <2>6 DEF PanelInv
<1>6. CASE onHostStop
  <2>1. /\ Handling("stop") /\ done' = done
        /\ UNCHANGED <<calls, caller, active, importedAny, shown, pushed>>
    BY <1>6 DEF onHostStop, fetchVars, poolVars
  <2>2. TallyInv'
    BY <2>1, TallyHandles
  <2>3. caller = "dialog" /\ seen < Len(calls) /\ seen' = seen + 1 /\ calls[seen + 1].call = "stop"
    BY <2>1 DEF Handling, GuiFree, Event
  <2>4. active
    BY <1>1, <2>3 DEF PanelInv
  <2>5. \A i \in 1..seen' : i \in 1..seen \/ i = seen + 1
    BY <1>1, <2>3
  <2>6. \A i \in 1..seen' : calls[i].call = "finished" /\ calls[i].ok => importedAny'
    BY <2>1, <2>3, <2>5 DEF PanelInv
  <2> QED
    BY <2>1, <2>2, <2>4, <2>6 DEF PanelInv
<1>7. CASE onAllFetchesComplete
  <2>1. /\ Handling("complete") /\ done' = done
        /\ shown' = IF importedAny THEN pushed ELSE shown
        /\ UNCHANGED <<calls, caller, importedAny, pushed>>
    BY <1>7 DEF onAllFetchesComplete, ShouldNotify, fetchVars, poolVars
  <2>2. TallyInv'
    BY <2>1, TallyHandles
  <2>3. caller = "dialog" /\ seen < Len(calls) /\ seen' = seen + 1 /\ calls[seen + 1].call = "complete"
    BY <2>1 DEF Handling, GuiFree, Event
  <2>4. seen' = Len(calls)
    BY <1>1, <2>3 DEF QueueInv, OnceIn
  <2>5. \A i \in 1..seen' : i \in 1..seen \/ i = seen + 1
    BY <1>1, <2>3
  <2>6. \A i \in 1..seen' : calls[i].call = "finished" /\ calls[i].ok => importedAny
    BY <2>3, <2>5 DEF PanelInv
  <2>7. \A i \in 1..Len(calls) : calls[i].call = "finished" /\ calls[i].ok => shown' = pushed
    BY <2>1, <2>4, <2>6
  <2> QED
    BY <2>1, <2>2, <2>4, <2>6, <2>7 DEF PanelInv
<1>8. CASE maybeFireProgressiveReveal \/ JoinWorker \/ buttonCancel \/ Destroy
  BY <1>2, <1>8 DEF maybeFireProgressiveReveal, JoinWorker, buttonCancel, Destroy, fetchVars
<1>9. CASE CancelJob \/ JobSteps \/ WatchdogSteps \/ \E t \in Topics : pullProgress(t)
  BY <1>2, <1>9 DEF CancelJob, JobSteps, ConnectJob, PullEnds, runToTerminal, WatchdogSteps,
     claimTransferWatchdogExpiry, WatchdogFires, pullProgress, fetchVars
<1>10. CASE UNCHANGED vars
  BY <1>2, <1>10 DEF vars, fetchVars
<1>11. CASE Quiet /\ UNCHANGED callerVars
  BY <1>2, <1>11 DEF Quiet, callerVars
<1> QED
  BY <1>3, <1>4, <1>5, <1>6, <1>7, <1>8, <1>9, <1>10, <1>11, Sounds DEF Next, DialogSteps

(* Nothing has been called back. *)
LEMMA InitCounts ==
  ASSUME Init
  PROVE  CountInv
<1> USE FetchAssumption DEF Init, FetchInit
<1>1. FlagTyped
  BY DEF FlagTyped
<1>2. CallerTyped
  BY DEF CallerTyped
<1>3. BatchBound
  BY DEF BatchBound, Fresh
<1>4. calls = <<>> /\ pull = "idle" /\ seen = 0 /\ done = 0 /\ Len(calls) = 0
  OBVIOUS
<1>5. ~Stopped /\ ~Ended /\ \A t : ~Said(t)
  BY <1>4, Silent
<1>6. QueueInv /\ SaidInv
  BY <1>4, <1>5 DEF QueueInv, SaidInv, OnceIn
<1>7. StopInv
  BY <1>5 DEF StopInv, Answering
<1>8. FinishedUpTo(calls, 0) = {}
  BY DEF FinishedUpTo
<1>9. TallyInv
  <2>1. FinishedUpTo(calls, seen) = {} /\ seen <= Len(calls)
    BY <1>4, <1>8
  <2>2. done = Cardinality(FinishedUpTo(calls, seen))
    BY <1>4, <2>1, FS_EmptySet
  <2> QED
    BY <2>1, <2>2 DEF TallyInv
<1>10. PanelInv
  BY <1>4 DEF PanelInv
<1> QED
  BY <1>1, <1>2, <1>3, <1>6, <1>7, <1>9, <1>10 DEF CountInv

(* The callbacks of every batch are counted, whoever asked for it. *)
THEOREM CountInvariant == Spec => []CountInv
<1>1. DownloadInv /\ CountInv /\ [Next]_vars => CountInv'
  <2> SUFFICES ASSUME DownloadInv, CountInv, [Next]_vars PROVE CountInv'
    OBVIOUS
  <2>1. FlagTyped /\ CallerTyped /\ BatchBound /\ QueueInv /\ SaidInv /\ StopInv /\ TallyInv /\ PanelInv
    BY DEF CountInv
  <2> QED
    BY <2>1, FlagsStay, CallersStay, BoundsStay, QueueStays, StopsStay, PanelStays DEF CountInv
<1>2. Init => CountInv
  BY InitCounts
<1> QED
  BY <1>1, <1>2, DownloadInvariant, PTL DEF Spec

(* The tally by topic: each topic handled at most once, unless the pull threw. *)
LEMMA TallyByTopic ==
  ASSUME DownloadInv, CountInv, ~Thrown
  PROVE  /\ done <= Total /\ done \in Nat /\ Total \in Nat
         /\ (seen = Len(calls) /\ (\A t \in Topics : Said(t))) => done = Total
<1>1. seen \in Nat /\ Len(calls) \in Nat /\ seen <= Len(calls) /\ DOMAIN calls = 1..Len(calls)
  BY DEF DownloadInv, CallTyped, CountInv, TallyInv
<1>2. \A i \in 1..Len(calls) : calls[i] \in Calls
  BY DEF DownloadInv, CallTyped
<1>3. PICK F : F = FinishedUpTo(calls, seen)
  OBVIOUS
<1>4. \A i \in F : i \in 1..Len(calls) /\ calls[i].call = "finished" /\ i \in 1..seen
  BY <1>1, <1>3 DEF FinishedUpTo
<1>5. \A i \in F : calls[i].topic \in Topics
  BY <1>1, <1>2, <1>4 DEF Thrown, Calls
<1>6. PICK f : f = [i \in F |-> calls[i].topic]
  OBVIOUS
<1>7. f \in [F -> Topics]
  BY <1>5, <1>6
<1>8. \A i, j \in F : f[i] = f[j] => i = j
  BY <1>4, <1>6 DEF CountInv, QueueInv, OnceIn
<1>9. f \in Injection(F, Topics)
  BY <1>7, <1>8 DEF Injection, IsInjective
<1>10. IsFiniteSet(Topics) /\ IsFiniteSet(F) /\ done = Cardinality(F)
  BY <1>1, <1>3, FinishedFinite, FetchAssumption DEF CountInv, TallyInv
<1>11. done \in Nat /\ Total \in Nat
  BY <1>10, FS_CardinalityType DEF Total
<1>12. done <= Total
  BY <1>9, <1>10, FS_Injection DEF Total
<1>13. ASSUME seen = Len(calls), \A t \in Topics : Said(t)
       PROVE  done = Total
  <2>1. \A t \in Topics : \E i \in F : f[i] = t
    <3> SUFFICES ASSUME NEW t \in Topics PROVE \E i \in F : f[i] = t
      OBVIOUS
    <3>1. PICK i \in 1..Len(calls) : calls[i].call = "finished" /\ calls[i].topic = t
      BY <1>1, <1>13 DEF Said, Range
    <3>2. i \in F
      BY <1>3, <1>13, <3>1 DEF FinishedUpTo
    <3> QED
      BY <1>6, <3>1, <3>2
  <2>2. f \in Surjection(F, Topics)
    BY <1>7, <2>1 DEF Surjection
  <2> QED
    BY <1>9, <1>10, <2>2, FS_Injection DEF Total
<1> QED
  BY <1>11, <1>12, <1>13

(* A pull that threw reports once. *)
LEMMA TallyThrown ==
  ASSUME DownloadInv, CountInv, Thrown
  PROVE  done \in 0..Total
<1>1. seen \in Nat /\ Len(calls) \in Nat /\ seen <= Len(calls) /\ DOMAIN calls = 1..Len(calls)
  BY DEF DownloadInv, CallTyped, CountInv, TallyInv
<1>2. PICK k \in 1..Len(calls) : calls[k].call = "finished" /\ calls[k].topic = None
  BY <1>1 DEF Thrown
<1>3. PICK F : F = FinishedUpTo(calls, seen)
  OBVIOUS
<1>4. \A i \in F : i \in 1..Len(calls) /\ calls[i].call = "finished"
  BY <1>1, <1>3 DEF FinishedUpTo
<1>5. F \in SUBSET {k}
  BY <1>2, <1>4 DEF CountInv, QueueInv, OnceIn
<1>6. IsFiniteSet({k}) /\ Cardinality({k}) = 1
  BY FS_Singleton
<1>7. IsFiniteSet(F) /\ Cardinality(F) <= 1
  BY <1>5, <1>6, FS_Subset
<1>8. Cardinality(F) \in Nat /\ done = Cardinality(F)
  BY <1>3, <1>7, FS_CardinalityType DEF CountInv, TallyInv
<1>9. Total \in Nat /\ Total # 0
  BY FetchAssumption, FS_CardinalityType, FS_EmptySet DEF Total
<1> QED
  BY <1>7, <1>8, <1>9

(* The state has the types of the members it models. *)
LEMMA CountedTyped ==
  ASSUME DownloadInv, CountInv
  PROVE  TypeOK
<1>1. done \in 0..Total
  <2>1. CASE Thrown
    BY <2>1, TallyThrown
  <2>2. CASE ~Thrown
    BY <2>2, TallyByTopic
  <2> QED
    BY <2>1, <2>2
<1>2. seen \in 0..Len(calls)
  BY DEF DownloadInv, CallTyped, CountInv, TallyInv
<1>3. {todo, read, pushed, shown} \subseteq [Topics -> 0 .. MaxBatches]
  <2>1. todo \in [Topics -> Nat] /\ read \in [Topics -> Nat] /\ pushed \in [Topics -> Nat]
    BY DEF DownloadInv, PoolTyped
  <2>2. \A t \in Topics : pushed[t] + todo[t] <= read[t] /\ read[t] <= MaxBatches
    BY DEF CountInv, BatchBound
  <2>3. \A t \in Topics : todo[t] \in 0..MaxBatches /\ read[t] \in 0..MaxBatches /\ pushed[t] \in 0..MaxBatches
    BY <2>1, <2>2, FetchAssumption
  <2>4. todo \in [Topics -> 0 .. MaxBatches] /\ read \in [Topics -> 0 .. MaxBatches]
        /\ pushed \in [Topics -> 0 .. MaxBatches] /\ shown \in [Topics -> 0 .. MaxBatches]
    BY <2>1, <2>3 DEF CountInv, BatchBound
  <2> QED
    BY <2>4
<1>4. {view, stopView, attempted, reported, imported} \subseteq BOOLEAN
  BY DEF CountInv, FlagTyped, DownloadInv, BatchInv
<1>5. {cancel, rollback, hostStop, told, deadCall} \subseteq BOOLEAN
  BY DEF CountInv, FlagTyped
<1>6. {active, cancelling, importedAny, revealPending} \subseteq BOOLEAN
      /\ {jobCancel, byteCut, timeCut, transfer} \subseteq BOOLEAN
  BY DEF CountInv, CallerTyped
<1>7. /\ pull \in {"idle", "begin", "eager", "ready", "pull", "report", "retire", "finish"}
      /\ pool \in [Topics -> {"off", "start", "read", "lock", "push", "parked", "record", "done"}]
      /\ bad \in [Topics -> BOOLEAN]
      /\ end \in [Topics -> {"ok", "failed", "cut", None}]
      /\ ledger \in [Topics -> {"ok", "empty", "failed", None}]
  BY DEF DownloadInv, PoolTyped, Places
<1>8. /\ canceller \in [Threads -> [at : {"tell", "interrupt"}, host : BOOLEAN] \cup {None}]
      /\ calls \in Seq([call : {"finished", "stop", "complete"}, topic : Topics \cup {None},
                        ok : BOOLEAN])
  BY DEF DownloadInv, CallTyped, Cancels, Calls
<1>9. killed \subseteq Topics /\ failed \subseteq Topics \cup {None} /\ caller \in {"dialog", "import"}
  BY DEF DownloadInv, CancelInv, FailedInv, CallerInv
<1>10. /\ dataset \in {"none", "made", "discarded"}
       /\ hostWrite \in Topics \cup {Puller, None} /\ progress \in Topics \cup {None}
       /\ poller \in {"off", "watch"} /\ ctx \in {"none", "live"}
       /\ verdict \in {"COMPLETED", "CANCELLED", "FAILED", None}
  BY DEF CountInv, FlagTyped
<1>11. /\ gui \in {"open", "closing", "closed"}
       /\ job \in {"connect", "pull", "map", "end"}
       /\ watchdog \in {"off", "armed", "claimed"}
       /\ terminal \in {"CANCELLED", "FAILED", "SUCCEEDED", None}
  BY DEF CountInv, CallerTyped
<1> QED
  BY <1>1, <1>2, <1>3, <1>4, <1>5, <1>6, <1>7, <1>8, <1>9, <1>10, <1>11 DEF TypeOK

(* A batch that is over has said its last word. *)
LEMMA OverEnded ==
  ASSUME DownloadInv, BatchOver
  PROVE  Ended
<1>1. calls \in Seq(Calls) /\ Len(calls) \in Nat /\ Len(calls) # 0 /\ DOMAIN calls = 1..Len(calls)
  BY DEF DownloadInv, CallTyped, BatchOver
<1>2. calls[Len(calls)].call = "complete" /\ Len(calls) \in DOMAIN calls
  BY <1>1 DEF BatchOver, Last
<1> QED
  BY <1>2 DEF Ended, Range

(* allFetchesComplete is the last callback of a batch; by then every topic was
   reported exactly once, unless pullTopics threw, and a host Stop at most once. *)
THEOREM ReportedOnceHolds == Spec => []ReportedOnce
<1>1. DownloadInv /\ CountInv => ReportedOnce
  <2> SUFFICES ASSUME DownloadInv, CountInv PROVE ReportedOnce
    OBVIOUS
  <2>1. TypeOK
    BY CountedTyped
  <2>2. Len(calls) \in Nat /\ DOMAIN calls = 1..Len(calls)
    BY DEF DownloadInv, CallTyped
  <2>3. OnceIn(calls)
    BY DEF CountInv, QueueInv
  <2>4. \A i \in DOMAIN calls : calls[i].call = "complete" => i = Len(calls)
    BY <2>2, <2>3 DEF OnceIn
  <2>5. ASSUME BatchOver, ~Thrown, NEW t \in Topics
        PROVE  Cardinality(Reports(t)) = 1
    <3>1. ~Said(None)
      BY <2>5 DEF Thrown, Said, Range
    <3>2. Said(t)
      BY <2>5, <3>1, OverEnded DEF CountInv, SaidInv
    <3>3. PICK i \in DOMAIN calls : calls[i].call = "finished" /\ calls[i].topic = t
      BY <3>2 DEF Said, Range
    <3>4. \A j \in DOMAIN calls : calls[j].call = "finished" /\ calls[j].topic = t => j = i
      BY <2>2, <2>3, <3>3 DEF OnceIn
    <3>5. Reports(t) = {i}
      BY <3>3, <3>4 DEF Reports
    <3> QED
      BY <3>5, FS_Singleton
  <2>6. Cardinality({i \in DOMAIN calls : calls[i].call = "stop"}) <= 1
    <3>1. PICK S : S = {i \in DOMAIN calls : calls[i].call = "stop"}
      OBVIOUS
    <3>2. CASE S = {}
      BY <3>1, <3>2, FS_EmptySet
    <3>3. ASSUME NEW i \in S PROVE Cardinality(S) <= 1
      <4>1. S = {i}
        BY <2>2, <2>3, <3>1, <3>3 DEF OnceIn
      <4>2. Cardinality({i}) = 1
        BY FS_Singleton
      <4> QED
        BY <4>1, <4>2
    <3> QED
      BY <3>1, <3>2, <3>3
  <2> QED
    BY <2>1, <2>4, <2>5, <2>6 DEF ReportedOnce
<1> QED
  BY <1>1, DownloadInvariant, CountInvariant, PTL

(* When the panel goes idle its tally is complete, and every topic that finished
   is in the catalog, cancelled batch or not. *)
THEOREM FinishedIsShownHolds == Spec => []FinishedIsShown
<1>1. DownloadInv /\ CountInv => FinishedIsShown
  <2> SUFFICES ASSUME DownloadInv, CountInv, caller = "dialog", BatchOver, ~active
               PROVE  /\ Thrown \/ done = Total
                      /\ \A i \in DOMAIN calls : calls[i].call = "finished" /\ calls[i].ok =>
                           shown[calls[i].topic] = pushed[calls[i].topic]
    BY DEF FinishedIsShown
  <2>1. DOMAIN calls = 1..Len(calls)
    BY DEF DownloadInv, CallTyped
  <2>2. /\ seen = Len(calls)
        /\ \A i \in 1..Len(calls) : calls[i].call = "finished" /\ calls[i].ok =>
             shown[calls[i].topic] = pushed[calls[i].topic]
    BY DEF CountInv, PanelInv
  <2>3. ASSUME ~Thrown PROVE done = Total
    <3>1. ~Said(None)
      BY <2>3 DEF Thrown, Said, Range
    <3>2. \A t \in Topics : Said(t)
      BY <3>1, OverEnded DEF CountInv, SaidInv
    <3> QED
      BY <2>2, <2>3, <3>2, TallyByTopic
  <2> QED
    BY <2>1, <2>2, <2>3
<1> QED
  BY <1>1, DownloadInvariant, CountInvariant, PTL
=============================================================================
