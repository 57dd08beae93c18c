--------------------------- MODULE PjBridgeSource ---------------------------
(***************************************************************************)
(* The PJ bridge streaming source (data_stream_pj_bridge/                  *)
(* pj_bridge_source.cpp) over one BridgeSession.  Three threads of the     *)
(* program meet here: the host's GUI thread (start, stop, pause, resume,   *)
(* set_active_topics, and the dialog before start), the poll thread        *)
(* (onPoll, one action per drained event and per step of its tail) and the *)
(* transport with the server behind it.                                    *)
(***************************************************************************)
EXTENDS BridgeSession

CONSTANTS
  HostModes,    \* subset of BOOLEAN: does the host accept notify_available_topics?
  Selections,   \* saved topic selections the dialog may hand over
  HostSets,     \* active-topic sets the host asks for
  PauseOps,     \* subset of {"pause", "resume"}
  Refusable     \* topics for which the host's ensureParserBinding may fail

VARIABLES
  dlg,           \* the dialog's link: "idle", "connecting" or "connected"
  dlgTopics,     \* topics the dialog discovered
  running,       \* between onStart and onStop
  pc,            \* the poll thread: "idle", "pump", "pause", "desired"
  batch,         \* what is left of the events this poll drained
  phase,         \* phase_
  expired,       \* the current phase's deadline has passed
  demand,        \* demand_mode_
  selected,      \* names of selected_topics_
  advertised,    \* advertised_topics_
  listed,        \* topics last advertised to the host
  dirty,         \* advertise_dirty_
  applied,       \* applied_
  bindings,      \* bindings_: the type each bound parser decodes
  lastSubId,     \* last_subscribe_id_by_topic_, 0 for none
  lastDesired,   \* last_applied_desired_
  slot,          \* desired_topics_slot_
  subResponse,   \* subscribe_response_received_
  paused,        \* paused_
  fatal,         \* fatal_error_
  nextId,        \* generateRequestId, for subscribe requests
  wanted,        \* history: the host's latest set of this session
  unparsed,      \* history: topics whose latest ensureParserBinding failed
  retyped,       \* history: topics dropped as retyped and not unsubscribed since
  overtaken      \* history: the host's latest resume fell into beginDiscovery's gap

dialogVars == <<dlg, dlgTopics>>
controlVars == <<advertised, listed, dirty, applied, bindings, lastSubId, lastDesired, nextId,
                 unparsed, retyped>>
linkVars == <<phase, expired, demand, selected, subResponse, fatal>>
hostVars == <<running, slot, paused, wanted, overtaken>>
vars == <<sessionVars, dialogVars, controlVars, linkVars, hostVars, pc, batch>>

(* A parser binding: the schema of the subscribe response under the type
   name resolved from the catalog. *)
Binding == [schema : Types, name : Types \cup {None}]

Failure == [what : {"connect", "lost", "upgrade"},
            why : {"timed out", "closed", "error", "newer"}]

ASSUME SourceAssumption ==
  /\ HostModes \subseteq BOOLEAN
  /\ Selections \subseteq SUBSET Topics
  /\ HostSets \subseteq SUBSET Topics
  /\ PauseOps \subseteq {"pause", "resume"}
  /\ Refusable \subseteq Topics
  /\ \A S \in SUBSET Topics : S # None
  /\ None \notin TopicInfo /\ None \notin Failure /\ None \notin Binding

Erase(f, S, none) == [t \in Topics |-> IF t \in S THEN none ELSE f[t]]

(***************************************************************************)
(* Pure helpers of pj_bridge_topic_subscription.hpp.                       *)
(***************************************************************************)
passesAdvertiseFilter(t, selection) == selection = {} \/ t \in selection

filteredAdvertisedTopics(adv, selection) ==
  {t \in Topics : adv[t] # None /\ passesAdvertiseFilter(t, selection)}

(* Mutant: a topic the host dropped stays as long as it is advertised. *)
MutKeepsUndesired(appl, adv, des) == {t \in appl : t \notin adv}

to_unsubscribe(appl, adv, des) == {t \in appl : t \notin des \/ t \notin adv}

to_subscribe(appl, adv, des) == {t \in adv : t \in des /\ t \notin appl}

retypedTopics(before, after, appl) ==
  {t \in appl : before[t] # None /\ after[t] # None /\ before[t] # after[t]}

(* Mutant: no request id is compared. *)
MutNeverStale(ids, t, responseId) == FALSE

failureIsStale(ids, t, responseId) == ids[t] # 0 /\ ids[t] # responseId

(* The catalog after a topics_changed delta: upsert added, erase removed. *)
applyAdvertiseDelta(adv, added, removed) ==
  [t \in Topics |-> IF t \in removed THEN None
                    ELSE IF added[t] # None THEN added[t] ELSE adv[t]]

resolveSchemaName(t) == IF advertised[t] # None THEN advertised[t].ty ELSE None

(***************************************************************************)
(* The dialog, which owns the connection until the stream starts.  It      *)
(* asks for topics WITHOUT schemas, on open and once a second.             *)
(***************************************************************************)
DialogConnect ==
  /\ ~running /\ dlg = "idle"
  /\ dlg' = "connecting"
  /\ SocketStart
  /\ UNCHANGED <<dlgTopics, controlVars, linkVars, hostVars, pc, batch>>

requestTopics == sendText(<<[c |-> "get_topics", full |-> FALSE]>>)

DialogTick ==
  /\ ~running /\ dlg # "idle" /\ inbox # <<>>
  /\ LET e == Head(inbox)
     IN  \/ /\ e.k = "open"
            /\ dlg' = "connected"
            /\ requestTopics
            /\ inbox' = Tail(inbox)
            /\ UNCHANGED <<dlgTopics, conn, srvCatalog, srvVars, budget>>
         \/ /\ e.k = "topics"
            /\ dlgTopics' = e.topics
            /\ inbox' = Tail(inbox)
            /\ UNCHANGED <<dlg, conn, toServer, srvCatalog, srvVars, budget>>
         \/ /\ e.k = "newer"
            /\ inbox' = Tail(inbox)
            /\ UNCHANGED <<dialogVars, conn, toServer, srvCatalog, srvVars, budget>>
         \/ /\ e.k \in {"closed", "error"}
            /\ dlg' = "idle"
            /\ dlgTopics' = NoCatalog
            /\ SocketStop
  /\ UNCHANGED <<controlVars, linkVars, hostVars, pc, batch>>

DialogRefresh ==
  /\ ~running /\ dlg = "connected"
  /\ Spend("get")
  /\ requestTopics
  /\ UNCHANGED <<conn, inbox, srvCatalog, srvVars, dialogVars, controlVars,
                 linkVars, hostVars, pc, batch>>

(***************************************************************************)
(* beginDiscovery, in two steps: the requests, then the pause that was     *)
(* remembered while connecting.                                            *)
(***************************************************************************)
(* Mutant: the snapshot is requested before the opt-in. *)
MutSnapshotFirst(dem, sel, id) ==
  IF dem THEN <<[c |-> "get_topics", full |-> TRUE], [c |-> "updates"]>>
         ELSE <<[c |-> "subscribe", id |-> id, topics |-> sel]>>

DiscoveryRequests(dem, sel, id) ==
  IF dem THEN <<[c |-> "updates"], [c |-> "get_topics", full |-> TRUE]>>
         ELSE <<[c |-> "subscribe", id |-> id, topics |-> sel]>>

(* Where the poll goes after the requests: paused_ is read here and acted on
   in a step of its own. *)
(* Mutant: a pause made while connecting is forgotten. *)
MutForgetsPause == "pump"

AfterRequests == IF paused THEN "pause" ELSE "pump"

(* onStart, on the host's thread.  An open dialog connection is adopted,
   anything else is dropped for a fresh attempt. *)
onStart ==
  /\ ~running
  /\ running' = TRUE
  /\ dlg' = "idle"
  /\ \E dem \in HostModes, sel \in Selections :
       /\ demand' = dem
       /\ selected' = sel
       /\ \/ /\ dlg # "idle" /\ isOpen
             /\ advertised' = IF dem THEN dlgTopics ELSE NoCatalog
             /\ phase' = "discovery"
             /\ subResponse' = IF dem THEN subResponse ELSE FALSE
             /\ nextId' = nextId + 1
             /\ sendText(DiscoveryRequests(dem, sel, nextId)
                           \o IF paused THEN <<[c |-> "pause"]>> ELSE <<>>)
             /\ UNCHANGED <<conn, inbox, srvCatalog, srvVars, budget>>
          \/ /\ ~(dlg # "idle" /\ isOpen)
             /\ phase' = "connecting"
             /\ SocketStart
             /\ UNCHANGED <<advertised, subResponse, nextId>>
       /\ listed' = IF dem THEN filteredAdvertisedTopics(advertised', sel) ELSE {}
  /\ expired' = FALSE
  /\ UNCHANGED <<dlgTopics, dirty, applied, bindings, lastSubId, lastDesired, unparsed,
                 retyped, slot, paused, wanted, overtaken, fatal, pc, batch>>

(* Mutant: the host's pending command survives the stop. *)
MutKeepsSlot == UNCHANGED slot

DropPendingCommand == slot' = None

onStop ==
  /\ running /\ pc = "idle"
  /\ running' = FALSE
  /\ SocketStop
  /\ phase' = "connecting"
  /\ bindings' = [t \in Topics |-> None]
  /\ selected' = {}
  /\ advertised' = NoCatalog
  /\ listed' = {}
  /\ applied' = {}
  /\ lastSubId' = [t \in Topics |-> 0]
  /\ lastDesired' = {}
  /\ demand' = FALSE
  /\ dirty' = FALSE
  /\ fatal' = None
  /\ paused' = FALSE
  /\ DropPendingCommand
  /\ wanted' = {} /\ unparsed' = {} /\ retyped' = {} /\ overtaken' = FALSE
  /\ UNCHANGED <<dialogVars, expired, subResponse, nextId, pc, batch>>

(***************************************************************************)
(* The other host calls, on the GUI thread, at any point of a poll.        *)
(***************************************************************************)
setActiveTopics ==
  /\ running /\ demand
  /\ Spend("host")
  /\ \E S \in HostSets : slot' = S /\ wanted' = S
  /\ UNCHANGED <<conn, inbox, toServer, srvCatalog, srvVars, dialogVars,
                 controlVars, linkVars, running, paused, overtaken, pc, batch>>

PauseResume(op) ==
  /\ running /\ op \in PauseOps
  /\ Spend("pause")
  /\ paused' = (op = "pause")
  /\ overtaken' = (op = "resume" /\ pc = "pause")
  /\ sendText(<<[c |-> op]>>)
  /\ UNCHANGED <<conn, inbox, srvCatalog, srvVars, dialogVars, controlVars,
                 linkVars, running, slot, wanted, pc, batch>>

(* The clock reaches connect_deadline_ or, in legacy mode, subscribe_deadline_;
   no other phase looks at a deadline. *)
DeadlinePasses ==
  /\ running /\ ~expired
  /\ phase = "connecting" \/ (phase = "discovery" /\ ~demand)
  /\ expired' = TRUE
  /\ UNCHANGED <<sessionVars, dialogVars, controlVars, hostVars, phase, demand,
                 selected, subResponse, fatal, pc, batch>>

(***************************************************************************)
(* onPoll.  pumpEvents drains the queue and handles one event per step.    *)
(***************************************************************************)
PollBegin ==
  /\ running /\ pc = "idle"
  /\ pc' = "pump"
  /\ batch' = inbox
  /\ inbox' = <<>>
  /\ UNCHANGED <<conn, toServer, srvCatalog, srvVars, budget, dialogVars,
                 controlVars, linkVars, hostVars>>

Handles(kind) ==
  /\ pc = "pump" /\ batch # <<>>
  /\ Head(batch).k = kind
  /\ batch' = Tail(batch)

(* The first stream-stopping failure wins. *)
fail(f) == fatal' = IF fatal = None THEN f ELSE fatal

(* Mutant: a close while streaming is not a failure. *)
MutIgnoresLostConnection(why) ==
  IF phase = "connecting" THEN fail([what |-> "connect", why |-> why]) ELSE UNCHANGED fatal

failConnection(why) ==
  fail([what |-> IF phase = "connecting" THEN "connect" ELSE "lost", why |-> why])

HandleOpen ==
  /\ Handles("open")
  /\ \/ /\ phase = "connecting"
        /\ phase' = "discovery"
        /\ expired' = FALSE
        /\ subResponse' = IF demand THEN subResponse ELSE FALSE
        /\ nextId' = nextId + 1
        /\ sendText(DiscoveryRequests(demand, selected, nextId))
        /\ pc' = AfterRequests
     \/ /\ phase # "connecting"
        /\ UNCHANGED <<phase, expired, subResponse, nextId, toServer, pc>>
  /\ UNCHANGED <<conn, inbox, srvCatalog, srvVars, budget, dialogVars, advertised,
                 listed, dirty, applied, bindings, lastSubId, lastDesired, unparsed, retyped,
                 demand, selected, fatal, hostVars>>

(* The tail of beginDiscovery: paused_ was read as true. *)
SendRememberedPause ==
  /\ pc = "pause"
  /\ pc' = "pump"
  /\ sendText(<<[c |-> "pause"]>>)
  /\ UNCHANGED <<conn, inbox, srvCatalog, srvVars, budget, dialogVars,
                 controlVars, linkVars, hostVars, batch>>

(* kClosed, kError, and any response of a newer protocol. *)
HandleFailure ==
  /\ \/ Handles("closed") /\ failConnection("closed")
     \/ Handles("error") /\ failConnection("error")
     \/ Handles("newer") /\ fail([what |-> "upgrade", why |-> "newer"])
  /\ UNCHANGED <<sessionVars, dialogVars, controlVars, phase, expired, demand,
                 selected, subResponse, hostVars, pc>>

(* Which schemas of a response bind, and which failures strip applied_. *)
(* Mutant: a late response binds whatever it names. *)
MutBindsAll(t) == TRUE

(* Mutant: nothing is bound while a catalog change waits to be worked off. *)
MutBindsWhenClean(t) == demand => t \in applied /\ ~dirty

mayBind(t) == demand => t \in applied

Rejected(e) == {t \in e.failures : ~failureIsStale(lastSubId, t, e.id)}

(* A topic whose parser the host refuses keeps the binding it had. *)
handleSubscribeResponse ==
  /\ Handles("schemas")
  /\ LET e == Head(batch)
         named == {t \in Topics : e.schemas[t] # None /\ mayBind(t)}
     IN  /\ \E refused \in SUBSET (named \cap Refusable) :
              /\ bindings' = [t \in Topics |->
                                IF t \in named \ refused
                                THEN [schema |-> e.schemas[t], name |-> resolveSchemaName(t)]
                                ELSE bindings[t]]
              /\ unparsed' = (unparsed \ named) \cup refused
         /\ applied' = applied \ Rejected(e)
  /\ subResponse' = TRUE
  /\ UNCHANGED <<sessionVars, dialogVars, advertised, listed, dirty, lastSubId,
                 lastDesired, nextId, retyped, phase, expired, demand, selected, fatal,
                 hostVars, pc>>

(***************************************************************************)
(* A changed catalog drops the applied topics it retyped and arms the      *)
(* re-advertise of the poll's tail.                                        *)
(***************************************************************************)
(* Mutant: a retyped topic keeps its subscription and its binding. *)
MutIgnoresRetype(dropped) == UNCHANGED <<applied, bindings, lastSubId, unparsed, retyped>>

dropRetypedApplied(dropped) ==
  /\ applied' = applied \ dropped
  /\ bindings' = Erase(bindings, dropped, None)
  /\ lastSubId' = Erase(lastSubId, dropped, 0)
  /\ unparsed' = unparsed \ dropped
  /\ retyped' = retyped \cup dropped

NewCatalog(after) ==
  /\ advertised' = after
  /\ \/ /\ after = advertised
        /\ UNCHANGED <<dirty, applied, bindings, lastSubId, unparsed, retyped>>
     \/ /\ after # advertised
        /\ dropRetypedApplied(retypedTopics(advertised, after, applied))
        /\ dirty' = TRUE

handleTopicsChanged ==
  /\ Handles("changed")
  /\ NewCatalog(applyAdvertiseDelta(advertised, Head(batch).added, Head(batch).removed))
  /\ UNCHANGED <<sessionVars, dialogVars, linkVars, hostVars, listed, lastDesired, nextId, pc>>

handleGetTopicsResponse ==
  /\ Handles("topics")
  /\ NewCatalog(Head(batch).topics)
  /\ UNCHANGED <<sessionVars, dialogVars, linkVars, hostVars, listed, lastDesired, nextId, pc>>

(* onBinaryFrame: a message is pushed to its topic's parser if one is bound,
   and changes nothing here; see ParsedAsSent. *)
onBinaryFrame ==
  /\ Handles("data")
  /\ UNCHANGED <<sessionVars, dialogVars, controlVars, linkVars, hostVars, pc>>

(***************************************************************************)
(* The tail of onPoll.                                                     *)
(***************************************************************************)
(* One unsubscribe for what fell out of the target, one additive subscribe
   for what is new in it. *)
reconcileSubscriptions(des) ==
  LET adv == filteredAdvertisedTopics(advertised, selected)
      drop == to_unsubscribe(applied, adv, des)
      add == to_subscribe(applied, adv, des)
  IN  /\ applied' = (applied \ drop) \cup add
      /\ bindings' = Erase(bindings, drop, None)
      /\ unparsed' = unparsed \ drop /\ retyped' = retyped \ drop
      /\ lastSubId' = [t \in Topics |-> IF t \in add THEN nextId
                                        ELSE IF t \in drop THEN 0 ELSE lastSubId[t]]
      /\ nextId' = IF add = {} THEN nextId ELSE nextId + 1
      /\ sendText((IF drop = {} THEN <<>> ELSE <<[c |-> "unsubscribe", topics |-> drop]>>)
                    \o (IF add = {} THEN <<>>
                        ELSE <<[c |-> "subscribe", id |-> nextId, topics |-> add]>>))

(* Mutant: the change stays armed after it was worked off. *)
MutStaysDirty ==
  /\ dirty' = TRUE
  /\ listed' = filteredAdvertisedTopics(advertised, selected)
  /\ reconcileSubscriptions(lastDesired)

Readvertise ==
  /\ dirty' = FALSE
  /\ listed' = filteredAdvertisedTopics(advertised, selected)
  /\ reconcileSubscriptions(lastDesired)

(* What a poll that gets no further than its connection checks changes. *)
PollReturns ==
  /\ pc' = "idle"
  /\ UNCHANGED <<sessionVars, controlVars, expired, demand, selected, subResponse>>

PollTail ==
  /\ pc = "pump" /\ batch = <<>>
  /\ UNCHANGED <<dialogVars, hostVars, batch>>
  /\ \/ /\ phase = "connecting" /\ expired
        /\ failConnection("timed out")
        /\ PollReturns
        /\ UNCHANGED phase
     \/ /\ ~(phase = "connecting" /\ expired)
        /\ fatal # None \/ phase = "connecting"
        /\ PollReturns
        /\ UNCHANGED <<phase, fatal>>
     \/ /\ fatal = None /\ phase # "connecting" /\ ~demand
        /\ phase' = IF phase = "discovery" /\ (subResponse \/ expired)
                    THEN "streaming" ELSE phase
        /\ PollReturns
        /\ UNCHANGED fatal
     \/ /\ fatal = None /\ phase # "connecting" /\ demand
        /\ pc' = "desired"
        /\ UNCHANGED <<conn, inbox, srvCatalog, srvVars, budget, linkVars,
                       advertised, lastDesired>>
        /\ \/ /\ dirty
              /\ Readvertise
           \/ /\ ~dirty
              /\ UNCHANGED <<dirty, listed, applied, bindings, lastSubId, nextId, unparsed,
                             retyped, toServer>>

applyDesiredTopics ==
  /\ pc = "desired"
  /\ pc' = "idle"
  /\ UNCHANGED <<conn, inbox, srvCatalog, srvVars, budget, dialogVars, linkVars,
                 advertised, listed, dirty, running, paused, wanted, overtaken, batch>>
  /\ \/ /\ slot = None
        /\ UNCHANGED <<slot, lastDesired, applied, bindings, lastSubId, nextId, unparsed,
                       retyped, toServer>>
     \/ /\ slot # None
        /\ slot' = None
        /\ lastDesired' = slot
        /\ reconcileSubscriptions(slot)

---------------------------------------------------------------------------
Init ==
  /\ SessionInit
  /\ dlg = "idle" /\ dlgTopics = NoCatalog
  /\ running = FALSE /\ pc = "idle" /\ batch = <<>>
  /\ phase = "connecting" /\ expired = FALSE
  /\ demand = FALSE /\ selected = {} /\ subResponse = FALSE /\ fatal = None
  /\ advertised = NoCatalog /\ listed = {} /\ dirty = FALSE
  /\ applied = {} /\ lastDesired = {}
  /\ bindings = [t \in Topics |-> None]
  /\ lastSubId = [t \in Topics |-> 0] /\ nextId = 1
  /\ slot = None /\ paused = FALSE /\ wanted = {}
  /\ unparsed = {} /\ retyped = {} /\ overtaken = FALSE

Environment ==
  SessionNext /\ UNCHANGED <<dialogVars, controlVars, linkVars, hostVars, pc, batch>>

Host ==
  \/ DialogConnect \/ DialogTick \/ DialogRefresh
  \/ onStart \/ onStop \/ setActiveTopics
  \/ \E op \in {"pause", "resume"} : PauseResume(op)

HandleEvent ==
  \/ HandleOpen \/ HandleFailure \/ handleSubscribeResponse
  \/ handleTopicsChanged \/ handleGetTopicsResponse \/ onBinaryFrame

onPoll == PollBegin \/ HandleEvent \/ SendRememberedPause \/ PollTail \/ applyDesiredTopics

Next == Environment \/ Host \/ DeadlinePasses \/ onPoll

Spec == Init /\ [][Next]_vars

(***************************************************************************)
(* Fairness: the host polls a running stream every 33 ms, the clock moves, *)
(* an attempt to connect ends, and the server answers.                     *)
(***************************************************************************)
Fairness ==
  /\ WF_vars(onPoll)
  /\ WF_vars(DeadlinePasses)
  /\ WF_vars(Environment /\ (ConnOpen \/ on_message))

FairSpec == Spec /\ Fairness

---------------------------------------------------------------------------
DialogTypeOK == dlg \in {"idle", "connecting", "connected"} /\ dlgTopics \in Catalog

ControlTypeOK ==
  /\ advertised \in Catalog
  /\ listed \subseteq Topics /\ applied \subseteq Topics /\ lastDesired \subseteq Topics
  /\ dirty \in BOOLEAN
  /\ bindings \in [Topics -> Binding \cup {None}]
  /\ lastSubId \in [Topics -> Nat] /\ nextId \in Nat \ {0}
  /\ unparsed \subseteq Topics /\ retyped \subseteq Topics

LinkTypeOK ==
  /\ phase \in {"connecting", "discovery", "streaming"}
  /\ expired \in BOOLEAN /\ demand \in BOOLEAN /\ subResponse \in BOOLEAN
  /\ selected \subseteq Topics
  /\ fatal \in Failure \cup {None}

HostTypeOK ==
  /\ running \in BOOLEAN /\ paused \in BOOLEAN /\ overtaken \in BOOLEAN
  /\ wanted \subseteq Topics
  /\ slot \in (SUBSET Topics) \cup {None}

PollTypeOK == pc \in {"idle", "pump", "pause", "desired"} /\ batch \in Seq(Event)

(* The state has the types of the members it models. *)
TypeOK ==
  SessionTypeOK /\ DialogTypeOK /\ ControlTypeOK /\ LinkTypeOK /\ HostTypeOK /\ PollTypeOK

(* What the source subscribes is what the host asked for and, once the
   catalog change of this poll is folded in, only what it listed to the
   host: advertise and subscribe apply one filter.  Legacy mode never
   touches the demand-driven set. *)
AppliedWithinTarget ==
  /\ applied \subseteq lastDesired
  /\ ~dirty => applied \subseteq listed
  /\ ~demand => applied = {}

(* The set being applied is the latest one of THIS session: a set_active_topics
   overwrites the one before it and a stop discards it. *)
DesiredIsLatest ==
  /\ slot # None => slot = wanted
  /\ slot = None => lastDesired = wanted

(* The strengthening that makes the two above inductive: what a stop leaves
   behind, when the poll may be in its last step, and that a clean catalog is
   the one the host was told. *)
ControlInv ==
  /\ AppliedWithinTarget
  /\ DesiredIsLatest
  /\ ~running => /\ pc = "idle" /\ ~dirty /\ slot = None
                 /\ applied = {} /\ lastDesired = {} /\ advertised = NoCatalog
  /\ pc = "desired" => demand /\ ~dirty
  /\ demand /\ ~dirty => listed = filteredAdvertisedTopics(advertised, selected)

Ingests(t) ==
  /\ pc = "pump" /\ batch # <<>>
  /\ Head(batch).k = "data" /\ Head(batch).topic = t
  /\ bindings[t] # None

(* No frame reaches the parser of a topic the host has paused, however late
   a subscribe response or a data frame arrives. *)
IngestOnlyActive == demand => \A t \in Topics : Ingests(t) => t \in applied

(* A frame is decoded with the schema and the type name it was sent under, unless
   the host refused the topic's latest parser: then the code keeps the one before. *)
ParsedAsSent ==
  demand => \A t \in Topics \ unparsed :
    Ingests(t) => bindings[t] = [schema |-> Head(batch).ty, name |-> Head(batch).ty]

(* Everything sent was handled, everything received was applied. *)
Quiet ==
  /\ running /\ isOpen /\ phase # "connecting" /\ fatal = None
  /\ pc = "idle" /\ inbox = <<>> /\ toServer = <<>>

Settled == Quiet /\ demand /\ ~dirty /\ slot = None

(* At rest the source's catalog is the server's: the opt-in precedes the
   snapshot, so no topic falls into the gap between the two. *)
CatalogAgrees ==
  Settled => \A t \in Topics : advertised[t] = InfoOf(t, TRUE)

(* At rest the server streams exactly the advertised topics the host wants. *)
SubscriptionsAgree ==
  Settled => /\ srvSubs = applied
             /\ applied = wanted \cap filteredAdvertisedTopics(advertised, selected)

(* At rest a subscribed topic is without a parser for one of two reasons only: the
   host refused it, or the topic was dropped as retyped while the server streamed
   it, and the server echoes no schema when it is subscribed again. *)
AppliedAreBound ==
  Settled => \A t \in applied : bindings[t] # None \/ t \in unparsed \/ t \in retyped

(* What dropRetypedApplied says of the second reason: the fresh subscribe of a
   retyped topic gets it bound again. *)
RetypedRebinds ==
  Settled => \A t \in applied \cap retyped : bindings[t] # None \/ t \in unparsed

(* At rest the server's session is paused when the host paused it, also when the
   pause came while connecting, and it is paused against the host's will only when
   the host's latest call was a resume between beginDiscovery's read of paused_ and
   the request that follows it. *)
PauseAgrees ==
  Quiet => /\ paused => srvPaused
           /\ srvPaused => paused \/ overtaken

(* What the host asks for last is what the server does, at rest. *)
ResumeReachesServer == Quiet => (srvPaused => paused)

(* One of the last two promises is kept: RetypedRebinds, of a comment, and
   ResumeReachesServer, of a test. *)
BridgePromiseStands == RetypedRebinds \/ ResumeReachesServer

(* The first stream-stopping failure is latched until stop. *)
FirstFailureWins == [][fatal # None /\ running' => fatal' = fatal]_vars

(* A start ends in an open connection or in an error, and a lost connection
   is reported: neither hangs. *)
StartResolves ==
  /\ (running /\ phase = "connecting") ~> (phase # "connecting" \/ fatal # None \/ ~running)
  /\ (running /\ conn = "closed") ~> (fatal # None \/ ~running)

(* With a live server every host command and every catalog change is worked
   off: the source comes to rest. *)
ComesToRest ==
  (running /\ demand /\ isOpen) ~> (Settled \/ fatal # None \/ ~running \/ ~isOpen)

===========================================================================
