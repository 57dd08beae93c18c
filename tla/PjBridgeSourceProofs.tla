------------------------ MODULE PjBridgeSourceProofs ------------------------
(***************************************************************************)
(* Proofs about PjBridgeSource for every set of topics and types, every    *)
(* host, every server and every bound.                                     *)
(***************************************************************************)
EXTENDS PjBridgeSource, TLAPS

(***************************************************************************)
(* Type correctness.                                                       *)
(***************************************************************************)
LEMMA EmptySeqs == <<>> \in Seq(Event) /\ <<>> \in Seq(Command)
OBVIOUS

LEMMA SpendType ==
  ASSUME NEW kind \in BudgetKinds, budget \in [BudgetKinds -> Nat], Spend(kind)
  PROVE  budget' \in [BudgetKinds -> Nat]
BY DEF Spend

LEMMA SendType ==
  ASSUME toServer \in Seq(Command), NEW frames \in Seq(Command), sendText(frames)
  PROVE  toServer' \in Seq(Command)
BY DEF sendText

LEMMA ReplyType ==
  ASSUME inbox \in Seq(Event), NEW e \in Event, Reply(e)
  PROVE  inbox' \in Seq(Event)
<1>1. [k |-> "newer"] \in Event
  BY DEF Event
<1>2. QED
  BY <1>1 DEF Reply

LEMMA AcknowledgeType ==
  ASSUME inbox \in Seq(Event), Acknowledge
  PROVE  inbox' \in Seq(Event)
<1>1. [k |-> "newer"] \in Event
  BY DEF Event
<1>2. QED
  BY <1>1 DEF Acknowledge

LEMMA SocketType ==
  ASSUME SessionTypeOK, SocketStart \/ SocketStop
  PROVE  SessionTypeOK'
<1>1. budget' \in [BudgetKinds -> Nat]
  BY SpendType DEF SocketStart, SocketStop, SessionTypeOK, BudgetKinds
<1>2. srvNewer' \in BOOLEAN
  BY SessionAssumption DEF SocketStart, SocketStop, SessionTypeOK
<1>3. inbox' \in Seq(Event) /\ toServer' \in Seq(Command)
  BY EmptySeqs DEF SocketStart, SocketStop
<1>4. QED
  BY <1>1, <1>2, <1>3 DEF SocketStart, SocketStop, NewSession, SessionTypeOK

LEMMA SessionTypeInit == SessionInit => SessionTypeOK
BY SessionAssumption, EmptySeqs DEF SessionInit, SessionTypeOK

LEMMA SessionTypeStep ==
  ASSUME SessionTypeOK, SessionNext
  PROVE  SessionTypeOK'
<1> USE DEF SessionTypeOK
<1>1. CASE ConnOpen \/ ConnError \/ ConnClose
  <2>1. [k |-> "open"] \in Event /\ [k |-> "error"] \in Event /\ [k |-> "closed"] \in Event
    BY DEF Event
  <2>2. budget' \in [BudgetKinds -> Nat]
    BY <1>1, SpendType DEF ConnOpen, ConnError, ConnClose, BudgetKinds
  <2>3. \A e \in Event : Append(inbox, e) \in Seq(Event)
    OBVIOUS
  <2>4. inbox' \in Seq(Event) /\ toServer' \in Seq(Command)
    BY <1>1, <2>1, <2>3, EmptySeqs DEF ConnOpen, ConnError, ConnClose
  <2>5. QED
    BY <1>1, <2>2, <2>4 DEF ConnOpen, ConnError, ConnClose, NewSession, srvVars
<1>2. CASE on_message
  <2> DEFINE cmd == Head(toServer)
  <2>1. cmd \in Command /\ toServer' \in Seq(Command)
    BY <1>2 DEF on_message
  <2>2. UNCHANGED <<conn, srvCatalog, srvNewer, budget>>
    BY <1>2 DEF on_message
  <2>3. CASE /\ cmd.c = "get_topics"
             /\ Reply([k |-> "topics", topics |-> [t \in Topics |-> InfoOf(t, cmd.full)]])
             /\ UNCHANGED <<srvSubs, srvUpdates, srvPaused>>
    <3>1. \A t \in Topics : InfoOf(t, cmd.full) \in TopicInfo \cup {None}
      BY <2>1, <2>3 DEF InfoOf, TopicInfo, Command
    <3>2. [k |-> "topics", topics |-> [t \in Topics |-> InfoOf(t, cmd.full)]] \in Event
      BY <3>1 DEF Event, Catalog
    <3>3. QED
      BY <2>1, <2>2, <2>3, <3>2, ReplyType
  <2>4. CASE /\ cmd.c = "subscribe"
             /\ build_subscribe_response(cmd)
             /\ UNCHANGED <<srvUpdates, srvPaused>>
    <3>1. cmd.id \in Nat /\ cmd.topics \subseteq Topics
      BY <2>1, <2>4 DEF Command
    <3> DEFINE fresh == {t \in cmd.topics \ srvSubs : srvCatalog[t] # None}
               e == [k |-> "schemas", id |-> cmd.id,
                     schemas |-> [t \in Topics |-> IF t \in fresh THEN srvCatalog[t] ELSE None],
                     failures |-> {t \in cmd.topics \ srvSubs : srvCatalog[t] = None}]
    <3>2. e \in Event
      BY <3>1 DEF Event
    <3>3. srvSubs' \subseteq Topics
      BY <2>4, <3>1 DEF build_subscribe_response
    <3>4. inbox' \in Seq(Event)
      BY <2>4, <3>2, ReplyType DEF build_subscribe_response
    <3>5. QED
      BY <2>1, <2>2, <2>4, <3>3, <3>4
  <2>5. CASE /\ Acknowledge
             /\ srvSubs' \in {srvSubs, srvSubs \ cmd.topics}
             /\ srvUpdates' \in BOOLEAN /\ srvPaused' \in BOOLEAN
    BY <2>1, <2>2, <2>5, AcknowledgeType
  <2>6. QED
    BY <1>2, <2>3, <2>4, <2>5 DEF on_message
<1>3. CASE CatalogChange
  <2>1. PICK t \in Topics, ty \in Types \cup {None} :
          /\ Spend("change")
          /\ srvCatalog' = [srvCatalog EXCEPT ![t] = ty]
          /\ LET note == [k |-> "changed",
                          added |-> [u \in Topics |->
                                       IF u = t /\ ty # None
                                       THEN [ty |-> ty, full |-> ServerSchemas] ELSE None],
                          removed |-> IF ty = None THEN {t} ELSE {}]
             IN  IF conn = "open" /\ srvUpdates THEN Reply(note) ELSE UNCHANGED inbox
          /\ UNCHANGED <<conn, toServer, srvVars>>
    BY <1>3 DEF CatalogChange
  <2> DEFINE note == [k |-> "changed",
                      added |-> [u \in Topics |->
                                   IF u = t /\ ty # None
                                   THEN [ty |-> ty, full |-> ServerSchemas] ELSE None],
                      removed |-> IF ty = None THEN {t} ELSE {}]
  <2>2. note.added \in Catalog
    BY SessionAssumption DEF Catalog, TopicInfo
  <2>3. note \in Event
    BY <2>2 DEF Event
  <2>4. inbox' \in Seq(Event)
    BY <2>1, <2>3, ReplyType
  <2>5. budget' \in [BudgetKinds -> Nat]
    BY <2>1, SpendType DEF BudgetKinds
  <2>6. QED
    BY <2>1, <2>4, <2>5 DEF srvVars
<1>4. CASE emit_loop
  <2>1. PICK t \in srvSubs :
          /\ srvCatalog[t] # None
          /\ Spend("data")
          /\ inbox' = Append(inbox, [k |-> "data", topic |-> t, ty |-> srvCatalog[t]])
    BY <1>4 DEF emit_loop
  <2>2. [k |-> "data", topic |-> t, ty |-> srvCatalog[t]] \in Event
    BY <2>1 DEF Event
  <2>3. budget' \in [BudgetKinds -> Nat]
    BY <2>1, SpendType DEF BudgetKinds
  <2>4. QED
    BY <1>4, <2>1, <2>2, <2>3 DEF emit_loop, srvVars
<1> QED
  BY <1>1, <1>2, <1>3, <1>4 DEF SessionNext

LEMMA CommandTypes ==
  ASSUME NEW S \in SUBSET Topics, NEW id \in Nat, NEW full \in BOOLEAN
  PROVE  /\ [c |-> "pause"] \in Command /\ [c |-> "resume"] \in Command
         /\ [c |-> "updates"] \in Command
         /\ [c |-> "get_topics", full |-> full] \in Command
         /\ [c |-> "subscribe", id |-> id, topics |-> S] \in Command
         /\ [c |-> "unsubscribe", topics |-> S] \in Command
BY DEF Command

LEMMA DiscoveryType ==
  ASSUME NEW dem \in BOOLEAN, NEW sel \in SUBSET Topics, NEW id \in Nat
  PROVE  DiscoveryRequests(dem, sel, id) \in Seq(Command)
<1> DEFINE updates == [c |-> "updates"]
           get == [c |-> "get_topics", full |-> TRUE]
           subscribe == [c |-> "subscribe", id |-> id, topics |-> sel]
<1>1. updates \in Command /\ get \in Command /\ subscribe \in Command
  BY DEF Command
<1>2. DiscoveryRequests(dem, sel, id) = IF dem THEN <<updates, get>> ELSE <<subscribe>>
  BY DEF DiscoveryRequests
<1> HIDE DEF updates, get, subscribe
<1>3. QED
  BY <1>1, <1>2

LEMMA FilterType ==
  ASSUME NEW adv, NEW sel
  PROVE  filteredAdvertisedTopics(adv, sel) \subseteq Topics
BY DEF filteredAdvertisedTopics

LEMMA SentOnlyType ==
  ASSUME SessionTypeOK, toServer' \in Seq(Command),
         UNCHANGED <<conn, inbox, srvCatalog, srvVars, budget>>
  PROVE  SessionTypeOK'
BY DEF SessionTypeOK, srvVars

LEMMA FailType ==
  ASSUME fatal \in Failure \cup {None},
         NEW why \in {"timed out", "closed", "error", "newer"}, failConnection(why)
  PROVE  fatal' \in Failure \cup {None}
BY DEF failConnection, fail, Failure

LEMMA ReconcileType ==
  ASSUME TypeOK, NEW des \in SUBSET Topics, reconcileSubscriptions(des)
  PROVE  /\ applied' \subseteq Topics
         /\ bindings' \in [Topics -> Binding \cup {None}]
         /\ lastSubId' \in [Topics -> Nat]
         /\ nextId' \in Nat \ {0}
         /\ toServer' \in Seq(Command)
         /\ unparsed' \subseteq Topics /\ retyped' \subseteq Topics
<1> USE DEF TypeOK, ControlTypeOK
<1> DEFINE adv == filteredAdvertisedTopics(advertised, selected)
           drop == to_unsubscribe(applied, adv, des)
           add == to_subscribe(applied, adv, des)
           frames == (IF drop = {} THEN <<>> ELSE <<[c |-> "unsubscribe", topics |-> drop]>>)
                       \o (IF add = {} THEN <<>>
                           ELSE <<[c |-> "subscribe", id |-> nextId, topics |-> add]>>)
<1>1. drop \in SUBSET Topics /\ add \in SUBSET Topics
  BY FilterType DEF to_unsubscribe, to_subscribe
<1>2. nextId \in Nat
  OBVIOUS
<1>3. [c |-> "unsubscribe", topics |-> drop] \in Command
  BY <1>1 DEF Command
<1>4. [c |-> "subscribe", id |-> nextId, topics |-> add] \in Command
  BY <1>1, <1>2 DEF Command
<1>5. frames \in Seq(Command)
  <2> HIDE DEF drop, add
  <2> QED
    BY <1>3, <1>4
<1>6. sendText(frames) /\ toServer \in Seq(Command)
  BY DEF reconcileSubscriptions, SessionTypeOK
<1>7. toServer' \in Seq(Command)
  BY <1>5, <1>6, SendType
<1>8. applied' \subseteq Topics /\ nextId' \in Nat \ {0}
  BY <1>1 DEF reconcileSubscriptions
<1>9. bindings' \in [Topics -> Binding \cup {None}] /\ lastSubId' \in [Topics -> Nat]
  BY DEF reconcileSubscriptions, Erase
<1>10. unparsed' \subseteq Topics /\ retyped' \subseteq Topics
  BY DEF reconcileSubscriptions
<1>11. QED
  BY <1>7, <1>8, <1>9, <1>10

LEMMA NoCatalogType == NoCatalog \in Catalog
BY DEF NoCatalog, Catalog

LEMMA TypeInit == Init => TypeOK
<1> SUFFICES ASSUME Init PROVE TypeOK
  OBVIOUS
<1>1. SessionTypeOK
  BY SessionTypeInit DEF Init
<1>2. DialogTypeOK /\ PollTypeOK
  BY NoCatalogType, EmptySeqs DEF Init, DialogTypeOK, PollTypeOK
<1>3. /\ [t \in Topics |-> None] \in [Topics -> Binding \cup {None}]
      /\ [t \in Topics |-> 0] \in [Topics -> Nat]
  OBVIOUS
<1>4. ControlTypeOK
  <2>1. /\ advertised \in Catalog
        /\ bindings \in [Topics -> Binding \cup {None}] /\ lastSubId \in [Topics -> Nat]
    BY <1>3, NoCatalogType DEF Init
  <2>2. /\ listed \subseteq Topics /\ applied \subseteq Topics /\ lastDesired \subseteq Topics
        /\ unparsed \subseteq Topics /\ retyped \subseteq Topics
    BY DEF Init
  <2>3. dirty \in BOOLEAN
    BY DEF Init
  <2>4. nextId \in Nat \ {0}
    BY DEF Init
  <2>5. QED
    BY <2>1, <2>2, <2>3, <2>4 DEF ControlTypeOK
<1>5. LinkTypeOK /\ HostTypeOK
  BY DEF Init, LinkTypeOK, HostTypeOK
<1>6. QED
  BY <1>1, <1>2, <1>4, <1>5 DEF TypeOK

(* A group of variables no action changed keeps its type. *)
LEMMA UnchangedTypes ==
  ASSUME TypeOK
  PROVE  /\ UNCHANGED sessionVars => SessionTypeOK'
         /\ UNCHANGED dialogVars => DialogTypeOK'
         /\ UNCHANGED controlVars => ControlTypeOK'
         /\ UNCHANGED linkVars => LinkTypeOK'
         /\ UNCHANGED hostVars => HostTypeOK'
         /\ UNCHANGED <<pc, batch>> => PollTypeOK'
<1> USE DEF TypeOK
<1>1. UNCHANGED sessionVars => SessionTypeOK'
  BY DEF sessionVars, SessionTypeOK
<1>2. (UNCHANGED dialogVars => DialogTypeOK') /\ (UNCHANGED <<pc, batch>> => PollTypeOK')
  BY DEF dialogVars, DialogTypeOK, PollTypeOK
<1>3. UNCHANGED controlVars => ControlTypeOK'
  BY DEF controlVars, ControlTypeOK
<1>4. (UNCHANGED linkVars => LinkTypeOK') /\ (UNCHANGED hostVars => HostTypeOK')
  BY DEF linkVars, LinkTypeOK, hostVars, HostTypeOK
<1>5. QED
  BY <1>1, <1>2, <1>3, <1>4

(* An event handler pops the batch and leaves the poll where it was. *)
LEMMA HandlesType ==
  ASSUME TypeOK, NEW kind, Handles(kind), pc' = pc \/ pc' = AfterRequests
  PROVE  PollTypeOK' /\ Head(batch) \in Event /\ Head(batch).k = kind
<1>1. batch \in Seq(Event) /\ batch # <<>> /\ batch' = Tail(batch)
  BY DEF TypeOK, PollTypeOK, Handles
<1>2. Head(batch) \in Event /\ batch' \in Seq(Event)
  BY <1>1
<1>3. pc' \in {"idle", "pump", "pause", "desired"}
  BY DEF TypeOK, PollTypeOK, AfterRequests
<1>4. QED
  BY <1>2, <1>3 DEF PollTypeOK, Handles

LEMMA DialogTypeStep ==
  ASSUME TypeOK, DialogConnect \/ DialogTick \/ DialogRefresh
  PROVE  TypeOK'
<1>1. ControlTypeOK' /\ LinkTypeOK' /\ HostTypeOK' /\ PollTypeOK'
  BY UnchangedTypes DEF DialogConnect, DialogTick, DialogRefresh
<1>2. [c |-> "get_topics", full |-> FALSE] \in Command
  BY DEF Command
<1>3. requestTopics => toServer' \in Seq(Command)
  <2> DEFINE get == [c |-> "get_topics", full |-> FALSE]
  <2>1. requestTopics => sendText(<<get>>)
    BY DEF requestTopics
  <2> HIDE DEF get
  <2>2. <<get>> \in Seq(Command)
    BY <1>2 DEF get
  <2>3. QED
    BY <2>1, <2>2, SendType DEF TypeOK, SessionTypeOK
<1>4. CASE DialogConnect
  <2>1. SessionTypeOK'
    BY <1>4, SocketType DEF DialogConnect, TypeOK
  <2>2. DialogTypeOK'
    BY <1>4 DEF DialogConnect, TypeOK, DialogTypeOK
  <2>3. QED
    BY <1>1, <2>1, <2>2 DEF TypeOK
<1>5. CASE DialogRefresh
  <2>1. budget' \in [BudgetKinds -> Nat]
    BY <1>5, SpendType DEF DialogRefresh, TypeOK, SessionTypeOK, BudgetKinds
  <2>2. SessionTypeOK'
    BY <1>3, <1>5, <2>1 DEF DialogRefresh, TypeOK, SessionTypeOK, srvVars
  <2>3. QED
    BY <1>1, <1>5, <2>2, UnchangedTypes DEF DialogRefresh, TypeOK
<1>6. CASE DialogTick
  <2>1. Head(inbox) \in Event /\ Tail(inbox) \in Seq(Event)
    BY <1>6 DEF DialogTick, TypeOK, SessionTypeOK
  <2>2. CASE Head(inbox).k = "open" /\ dlg' = "connected" /\ requestTopics
               /\ inbox' = Tail(inbox)
               /\ UNCHANGED <<dlgTopics, conn, srvCatalog, srvVars, budget>>
    BY <1>1, <1>3, <2>1, <2>2 DEF TypeOK, SessionTypeOK, DialogTypeOK, srvVars
  <2>3. CASE Head(inbox).k = "topics" /\ dlgTopics' = Head(inbox).topics
               /\ inbox' = Tail(inbox)
               /\ UNCHANGED <<dlg, conn, toServer, srvCatalog, srvVars, budget>>
    <3>1. Head(inbox).topics \in Catalog
      BY <2>1, <2>3 DEF Event
    <3>2. QED
      BY <1>1, <2>1, <2>3, <3>1 DEF TypeOK, SessionTypeOK, DialogTypeOK, srvVars
  <2>4. CASE inbox' = Tail(inbox)
               /\ UNCHANGED <<dialogVars, conn, toServer, srvCatalog, srvVars, budget>>
    BY <1>1, <2>1, <2>4 DEF TypeOK, SessionTypeOK, DialogTypeOK, srvVars, dialogVars
  <2>5. CASE dlg' = "idle" /\ dlgTopics' = NoCatalog /\ SocketStop
    BY <1>1, <2>5, SocketType, NoCatalogType DEF TypeOK, DialogTypeOK
  <2>6. QED
    BY <1>6, <2>2, <2>3, <2>4, <2>5 DEF DialogTick
<1>7. QED
  BY <1>4, <1>5, <1>6

LEMMA StartStopTypeStep ==
  ASSUME TypeOK, onStart \/ onStop
  PROVE  TypeOK'
<1>1. CASE onStop
  <2>1. SessionTypeOK'
    BY <1>1, SocketType DEF onStop, TypeOK
  <2>2. ControlTypeOK'
    <3>1. /\ [t \in Topics |-> None] \in [Topics -> Binding \cup {None}]
          /\ [t \in Topics |-> 0] \in [Topics -> Nat]
      OBVIOUS
    <3>2. QED
      BY <1>1, <3>1, NoCatalogType DEF onStop, TypeOK, ControlTypeOK
  <2>3. LinkTypeOK' /\ HostTypeOK'
    BY <1>1 DEF onStop, DropPendingCommand, TypeOK, LinkTypeOK, HostTypeOK
  <2>4. QED
    BY <1>1, <2>1, <2>2, <2>3, UnchangedTypes DEF onStop, TypeOK
<1>2. CASE onStart
  <2>1. PICK dem \in HostModes, sel \in Selections :
          /\ demand' = dem /\ selected' = sel
          /\ \/ /\ advertised' = IF dem THEN dlgTopics ELSE NoCatalog
                /\ phase' = "discovery"
                /\ subResponse' = IF dem THEN subResponse ELSE FALSE
                /\ nextId' = nextId + 1
                /\ sendText(DiscoveryRequests(dem, sel, nextId)
                              \o IF paused THEN <<[c |-> "pause"]>> ELSE <<>>)
                /\ UNCHANGED <<conn, inbox, srvCatalog, srvVars, budget>>
             \/ /\ phase' = "connecting"
                /\ SocketStart
                /\ UNCHANGED <<advertised, subResponse, nextId>>
          /\ listed' = IF dem THEN filteredAdvertisedTopics(advertised', sel) ELSE {}
    BY <1>2 DEF onStart
  <2>2. dem \in BOOLEAN /\ sel \in SUBSET Topics /\ nextId \in Nat
    BY SourceAssumption DEF TypeOK, ControlTypeOK
  <2>3. (DiscoveryRequests(dem, sel, nextId)
           \o IF paused THEN <<[c |-> "pause"]>> ELSE <<>>) \in Seq(Command)
    <3>1. [c |-> "pause"] \in Command
      BY DEF Command
    <3>2. (IF paused THEN <<[c |-> "pause"]>> ELSE <<>>) \in Seq(Command)
      BY <3>1
    <3>3. QED
      BY <2>2, <3>2, DiscoveryType
  <2>4. SessionTypeOK'
    <3>1. SessionTypeOK /\ toServer \in Seq(Command)
      BY DEF TypeOK, SessionTypeOK
    <3>2. CASE SocketStart
      BY <3>1, <3>2, SocketType
    <3>3. CASE /\ sendText(DiscoveryRequests(dem, sel, nextId)
                              \o IF paused THEN <<[c |-> "pause"]>> ELSE <<>>)
               /\ UNCHANGED <<conn, inbox, srvCatalog, srvVars, budget>>
      <4>1. toServer' \in Seq(Command)
        BY <2>3, <3>1, <3>3, SendType
      <4>2. QED
        BY <3>1, <3>3, <4>1, SentOnlyType
    <3>4. QED
      BY <2>1, <3>2, <3>3
  <2>5. listed' \subseteq Topics
    BY <2>1, FilterType
  <2>6. ControlTypeOK'
    <3>1. UNCHANGED <<dirty, applied, bindings, lastSubId, lastDesired, unparsed, retyped>>
      BY <1>2 DEF onStart
    <3>2. advertised' \in Catalog
      BY <2>1, NoCatalogType DEF TypeOK, ControlTypeOK, DialogTypeOK
    <3>3. nextId' = nextId \/ nextId' = nextId + 1
      BY <2>1
    <3>4. nextId' \in Nat \ {0}
      BY <3>3 DEF TypeOK, ControlTypeOK
    <3>5. QED
      BY <2>5, <3>1, <3>2, <3>4 DEF TypeOK, ControlTypeOK
  <2>7. LinkTypeOK'
    BY <1>2, <2>1, <2>2 DEF onStart, TypeOK, LinkTypeOK
  <2>8. DialogTypeOK' /\ HostTypeOK' /\ PollTypeOK'
    BY <1>2, UnchangedTypes DEF onStart, TypeOK, DialogTypeOK, HostTypeOK
  <2>9. QED
    BY <2>4, <2>6, <2>7, <2>8 DEF TypeOK
<1>3. QED
  BY <1>1, <1>2

LEMMA HostTypeStep ==
  ASSUME TypeOK,
         setActiveTopics \/ (\E op \in {"pause", "resume"} : PauseResume(op)) \/ DeadlinePasses
  PROVE  TypeOK'
<1>1. CASE setActiveTopics
  <2>1. budget' \in [BudgetKinds -> Nat]
    BY <1>1, SpendType DEF setActiveTopics, TypeOK, SessionTypeOK, BudgetKinds
  <2>2. SessionTypeOK'
    BY <1>1, <2>1 DEF setActiveTopics, TypeOK, SessionTypeOK, srvVars
  <2>3. HostTypeOK'
    BY <1>1, SourceAssumption DEF setActiveTopics, TypeOK, HostTypeOK
  <2>4. QED
    BY <1>1, <2>2, <2>3, UnchangedTypes DEF setActiveTopics, TypeOK
<1>2. CASE \E op \in {"pause", "resume"} : PauseResume(op)
  <2>1. PICK op \in {"pause", "resume"} : PauseResume(op)
    BY <1>2
  <2>2. budget' \in [BudgetKinds -> Nat]
    BY <2>1, SpendType DEF PauseResume, TypeOK, SessionTypeOK, BudgetKinds
  <2>3. toServer' \in Seq(Command)
    <3>1. [c |-> op] \in Command
      BY DEF Command
    <3>2. <<[c |-> op]>> \in Seq(Command)
      BY <3>1
    <3>3. QED
      BY <2>1, <3>2, SendType DEF PauseResume, TypeOK, SessionTypeOK
  <2>4. SessionTypeOK'
    BY <2>1, <2>2, <2>3 DEF PauseResume, TypeOK, SessionTypeOK, srvVars
  <2>5. HostTypeOK'
    BY <2>1 DEF PauseResume, TypeOK, HostTypeOK
  <2>6. QED
    BY <2>1, <2>4, <2>5, UnchangedTypes DEF PauseResume, TypeOK
<1>3. CASE DeadlinePasses
  <2>1. LinkTypeOK'
    BY <1>3 DEF DeadlinePasses, TypeOK, LinkTypeOK
  <2>2. QED
    BY <1>3, <2>1, UnchangedTypes DEF DeadlinePasses, TypeOK
<1>4. QED
  BY <1>1, <1>2, <1>3

LEMMA PollStepTypeStep ==
  ASSUME TypeOK, PollBegin \/ SendRememberedPause
  PROVE  TypeOK'
<1>1. DialogTypeOK' /\ ControlTypeOK' /\ LinkTypeOK' /\ HostTypeOK'
  BY UnchangedTypes DEF PollBegin, SendRememberedPause
<1>2. CASE PollBegin
  <2>1. SessionTypeOK'
    BY <1>2, EmptySeqs DEF PollBegin, TypeOK, SessionTypeOK, srvVars
  <2>2. PollTypeOK'
    BY <1>2 DEF PollBegin, TypeOK, SessionTypeOK, PollTypeOK
  <2>3. QED
    BY <1>1, <2>1, <2>2 DEF TypeOK
<1>3. CASE SendRememberedPause
  <2>1. toServer' \in Seq(Command)
    <3>1. [c |-> "pause"] \in Command
      BY DEF Command
    <3>2. <<[c |-> "pause"]>> \in Seq(Command)
      BY <3>1
    <3>3. QED
      BY <1>3, <3>2, SendType DEF SendRememberedPause, TypeOK, SessionTypeOK
  <2>2. SessionTypeOK'
    BY <1>3, <2>1, SentOnlyType DEF SendRememberedPause, TypeOK
  <2>3. PollTypeOK'
    BY <1>3 DEF SendRememberedPause, TypeOK, PollTypeOK
  <2>4. QED
    BY <1>1, <2>2, <2>3 DEF TypeOK
<1>4. QED
  BY <1>2, <1>3

LEMMA OpenTypeStep ==
  ASSUME TypeOK, HandleOpen
  PROVE  TypeOK'
<1>1. PollTypeOK'
  <2>1. Handles("open") /\ (pc' = pc \/ pc' = AfterRequests)
    BY DEF HandleOpen
  <2>2. QED
    BY <2>1, HandlesType
<1>2. DialogTypeOK' /\ HostTypeOK'
  BY UnchangedTypes DEF HandleOpen
<1>3. LinkTypeOK'
  BY DEF HandleOpen, TypeOK, LinkTypeOK
<1>4. ControlTypeOK'
  <2>1. UNCHANGED <<advertised, listed, dirty, applied, bindings, lastSubId, lastDesired,
                    unparsed, retyped>>
    BY DEF HandleOpen
  <2>2. nextId' = nextId \/ nextId' = nextId + 1
    BY DEF HandleOpen
  <2>3. nextId' \in Nat \ {0}
    BY <2>2 DEF TypeOK, ControlTypeOK
  <2>4. QED
    BY <2>1, <2>3 DEF TypeOK, ControlTypeOK
<1>5. toServer' \in Seq(Command)
  <2>1. demand \in BOOLEAN /\ selected \in SUBSET Topics /\ nextId \in Nat
    BY DEF TypeOK, LinkTypeOK, ControlTypeOK
  <2>2. toServer' = toServer \/ sendText(DiscoveryRequests(demand, selected, nextId))
    BY DEF HandleOpen
  <2>3. toServer \in Seq(Command)
    BY DEF TypeOK, SessionTypeOK
  <2>4. QED
    BY <2>1, <2>2, <2>3, DiscoveryType, SendType
<1>6. SessionTypeOK'
  BY <1>5, SentOnlyType DEF HandleOpen, TypeOK
<1>7. QED
  BY <1>1, <1>2, <1>3, <1>4, <1>6 DEF TypeOK

LEMMA FailureTypeStep ==
  ASSUME TypeOK, HandleFailure \/ onBinaryFrame
  PROVE  TypeOK'
<1>1. SessionTypeOK' /\ DialogTypeOK' /\ ControlTypeOK' /\ HostTypeOK'
  BY UnchangedTypes DEF HandleFailure, onBinaryFrame
<1>2. PollTypeOK'
  BY HandlesType DEF HandleFailure, onBinaryFrame
<1>3. LinkTypeOK'
  <2>1. CASE onBinaryFrame
    BY <2>1, UnchangedTypes DEF onBinaryFrame
  <2>2. CASE HandleFailure
    <3>1. fatal \in Failure \cup {None}
      BY DEF TypeOK, LinkTypeOK
    <3>2. fatal' \in Failure \cup {None}
      <4>1. CASE failConnection("closed") \/ failConnection("error")
        BY <3>1, <4>1, FailType
      <4>2. CASE fail([what |-> "upgrade", why |-> "newer"])
        BY <3>1, <4>2 DEF fail, Failure
      <4>3. QED
        BY <2>2, <4>1, <4>2 DEF HandleFailure
    <3>3. QED
      BY <2>2, <3>2 DEF HandleFailure, TypeOK, LinkTypeOK
  <2>3. QED
    BY <2>1, <2>2
<1>4. QED
  BY <1>1, <1>2, <1>3 DEF TypeOK

LEMMA ResponseTypeStep ==
  ASSUME TypeOK, handleSubscribeResponse
  PROVE  TypeOK'
<1>1. SessionTypeOK' /\ DialogTypeOK' /\ HostTypeOK'
  BY UnchangedTypes DEF handleSubscribeResponse
<1>2. Handles("schemas") /\ pc' = pc
  BY DEF handleSubscribeResponse
<1>3. PollTypeOK' /\ Head(batch) \in Event /\ Head(batch).k = "schemas"
  BY <1>2, HandlesType
<1>4. Head(batch).schemas \in [Topics -> Types \cup {None}]
  BY <1>3 DEF Event
<1>5. LinkTypeOK'
  BY DEF handleSubscribeResponse, TypeOK, LinkTypeOK
<1>6. PICK refused \in SUBSET Topics :
        /\ \A t \in Topics : \/ bindings'[t] = bindings[t]
                             \/ /\ Head(batch).schemas[t] # None
                                /\ bindings'[t] = [schema |-> Head(batch).schemas[t],
                                                   name |-> resolveSchemaName(t)]
        /\ bindings' = [t \in Topics |-> bindings'[t]]
        /\ unparsed' \subseteq unparsed \cup refused
  BY DEF handleSubscribeResponse
<1>7. bindings' \in [Topics -> Binding \cup {None}]
  <2>1. \A t \in Topics : resolveSchemaName(t) \in Types \cup {None}
    BY DEF TypeOK, ControlTypeOK, Catalog, TopicInfo, resolveSchemaName
  <2>2. \A t \in Topics : Head(batch).schemas[t] # None =>
          [schema |-> Head(batch).schemas[t], name |-> resolveSchemaName(t)] \in Binding
    BY <1>4, <2>1 DEF Binding
  <2>3. QED
    <3>1. bindings \in [Topics -> Binding \cup {None}]
      BY DEF TypeOK, ControlTypeOK
    <3>2. \A t \in Topics : bindings'[t] \in Binding \cup {None}
      BY <1>6, <2>2, <3>1
    <3>3. QED
      BY <1>6, <3>2
<1>8. applied' \subseteq Topics /\ unparsed' \subseteq Topics
  BY <1>6 DEF handleSubscribeResponse, TypeOK, ControlTypeOK
<1>9. UNCHANGED <<advertised, listed, dirty, lastSubId, lastDesired, nextId, retyped>>
  BY DEF handleSubscribeResponse
<1>10. ControlTypeOK'
  BY <1>7, <1>8, <1>9 DEF TypeOK, ControlTypeOK
<1>11. QED
  BY <1>1, <1>3, <1>5, <1>10 DEF TypeOK

LEMMA CatalogTypeStep ==
  ASSUME TypeOK, handleTopicsChanged \/ handleGetTopicsResponse
  PROVE  TypeOK'
<1>1. SessionTypeOK' /\ DialogTypeOK' /\ LinkTypeOK' /\ HostTypeOK'
  BY UnchangedTypes DEF handleTopicsChanged, handleGetTopicsResponse
<1>2. PollTypeOK' /\ Head(batch) \in Event
  BY HandlesType DEF handleTopicsChanged, handleGetTopicsResponse
<1>3. PICK after \in Catalog : NewCatalog(after)
  <2>1. CASE handleGetTopicsResponse
    <3>1. Head(batch).topics \in Catalog
      BY <1>2, <2>1 DEF handleGetTopicsResponse, Handles, Event
    <3>2. QED
      BY <2>1, <3>1 DEF handleGetTopicsResponse
  <2>2. CASE handleTopicsChanged
    <3>1. Head(batch).added \in Catalog
      BY <1>2, <2>2 DEF handleTopicsChanged, Handles, Event
    <3>2. advertised \in Catalog
      BY DEF TypeOK, ControlTypeOK
    <3>3. applyAdvertiseDelta(advertised, Head(batch).added, Head(batch).removed) \in Catalog
      BY <3>1, <3>2 DEF applyAdvertiseDelta, Catalog
    <3>4. QED
      BY <2>2, <3>3 DEF handleTopicsChanged
  <2>3. QED
    BY <2>1, <2>2
<1>4. UNCHANGED <<listed, lastDesired, nextId>>
  BY DEF handleTopicsChanged, handleGetTopicsResponse
<1>5. /\ applied' \subseteq Topics
      /\ bindings' \in [Topics -> Binding \cup {None}]
      /\ lastSubId' \in [Topics -> Nat]
      /\ unparsed' \subseteq Topics /\ retyped' \subseteq Topics
  BY <1>3 DEF retypedTopics, NewCatalog, dropRetypedApplied, Erase, TypeOK, ControlTypeOK
<1>6. advertised' \in Catalog /\ dirty' \in BOOLEAN
  BY <1>3 DEF NewCatalog, TypeOK, ControlTypeOK
<1>7. ControlTypeOK'
  BY <1>4, <1>5, <1>6 DEF TypeOK, ControlTypeOK
<1>8. QED
  BY <1>1, <1>2, <1>7 DEF TypeOK

LEMMA TailTypeStep ==
  ASSUME TypeOK, PollTail
  PROVE  TypeOK'
<1>1. DialogTypeOK' /\ HostTypeOK'
  BY UnchangedTypes DEF PollTail
<1>2. PollTypeOK'
  BY DEF PollTail, PollReturns, TypeOK, PollTypeOK
<1>3. CASE PollReturns
  <2>1. SessionTypeOK' /\ ControlTypeOK'
    BY <1>3, UnchangedTypes DEF PollReturns
  <2>2. fatal' \in Failure \cup {None}
    <3>1. fatal \in Failure \cup {None}
      BY DEF TypeOK, LinkTypeOK
    <3>2. fatal' = fatal \/ failConnection("timed out")
      BY DEF PollTail, linkVars
    <3>3. QED
      BY <3>1, <3>2, FailType
  <2>3. phase' \in {"connecting", "discovery", "streaming"}
    BY DEF PollTail, linkVars, TypeOK, LinkTypeOK
  <2>4. LinkTypeOK'
    BY <1>3, <2>2, <2>3 DEF PollReturns, TypeOK, LinkTypeOK
  <2>5. QED
    BY <1>1, <1>2, <2>1, <2>4 DEF TypeOK
<1>4. CASE /\ UNCHANGED <<conn, inbox, srvCatalog, srvVars, budget, linkVars,
                          advertised, lastDesired>>
           /\ Readvertise
  <2>1. lastDesired \in SUBSET Topics /\ reconcileSubscriptions(lastDesired)
    BY <1>4 DEF Readvertise, TypeOK, ControlTypeOK
  <2>2. SessionTypeOK'
    BY <1>4, <2>1, ReconcileType, SentOnlyType DEF TypeOK
  <2>3. listed' \subseteq Topics /\ dirty' \in BOOLEAN
    BY <1>4, FilterType DEF Readvertise
  <2>4. ControlTypeOK'
    BY <1>4, <2>1, <2>3, ReconcileType DEF TypeOK, ControlTypeOK
  <2>5. LinkTypeOK'
    BY <1>4, UnchangedTypes
  <2>6. QED
    BY <1>1, <1>2, <2>2, <2>4, <2>5 DEF TypeOK
<1>5. CASE UNCHANGED <<sessionVars, controlVars, linkVars>>
  BY <1>1, <1>2, <1>5, UnchangedTypes DEF TypeOK
<1>6. QED
  BY <1>3, <1>4, <1>5 DEF PollTail, sessionVars, controlVars, srvVars

LEMMA DesiredTypeStep ==
  ASSUME TypeOK, applyDesiredTopics
  PROVE  TypeOK'
<1>1. DialogTypeOK' /\ LinkTypeOK'
  BY UnchangedTypes DEF applyDesiredTopics
<1>2. PollTypeOK' /\ HostTypeOK'
  BY DEF applyDesiredTopics, TypeOK, PollTypeOK, HostTypeOK
<1>3. CASE slot = None
  BY <1>1, <1>2, <1>3, UnchangedTypes
  DEF applyDesiredTopics, TypeOK, sessionVars, controlVars, srvVars
<1>4. CASE slot # None
  <2>1. slot \in SUBSET Topics /\ reconcileSubscriptions(slot) /\ lastDesired' = slot
    BY <1>4 DEF applyDesiredTopics, TypeOK, HostTypeOK
  <2>2. SessionTypeOK'
    BY <2>1, ReconcileType, SentOnlyType DEF applyDesiredTopics, TypeOK
  <2>3. UNCHANGED <<advertised, listed, dirty>>
    BY DEF applyDesiredTopics
  <2>4. ControlTypeOK'
    BY <2>1, <2>3, ReconcileType DEF TypeOK, ControlTypeOK
  <2>5. QED
    BY <1>1, <1>2, <2>2, <2>4 DEF TypeOK
<1>5. QED
  BY <1>3, <1>4

LEMMA TypeStep == TypeOK /\ [Next]_vars => TypeOK'
<1> SUFFICES ASSUME TypeOK, [Next]_vars PROVE TypeOK'
  OBVIOUS
<1>1. CASE Environment
  <2>1. SessionTypeOK'
    BY <1>1, SessionTypeStep DEF Environment, TypeOK
  <2>2. QED
    BY <1>1, <2>1, UnchangedTypes DEF Environment, TypeOK
<1>2. CASE UNCHANGED vars
  BY <1>2, UnchangedTypes DEF vars, TypeOK
<1>3. CASE Host \/ DeadlinePasses
  BY <1>3, DialogTypeStep, StartStopTypeStep, HostTypeStep DEF Host
<1>4. CASE onPoll
  BY <1>4, PollStepTypeStep, OpenTypeStep, FailureTypeStep, ResponseTypeStep,
     CatalogTypeStep, TailTypeStep, DesiredTypeStep DEF onPoll, HandleEvent
<1>5. QED
  BY <1>1, <1>2, <1>3, <1>4 DEF Next

(* Every reachable state of the source, its session and its server is well
   typed, whatever the bounds. *)
THEOREM TypeCorrect == Spec => []TypeOK
BY TypeInit, TypeStep, PTL DEF Spec

(***************************************************************************)
(* Subscription control.                                                   *)
(***************************************************************************)
(* reconcileSubscriptions leaves exactly the target applied when every
   applied topic is one. *)
LEMMA ReconcileHitsTarget ==
  ASSUME NEW des, reconcileSubscriptions(des)
  PROVE  applied' = des \cap filteredAdvertisedTopics(advertised, selected)
BY DEF reconcileSubscriptions, to_unsubscribe, to_subscribe

LEMMA ControlInit == Init => ControlInv
BY DEF Init, SessionInit, ControlInv, AppliedWithinTarget, DesiredIsLatest

LEMMA ControlStep == ControlInv /\ [Next]_vars => ControlInv'
<1> SUFFICES ASSUME ControlInv, [Next]_vars PROVE ControlInv'
  OBVIOUS
<1> USE DEF ControlInv, AppliedWithinTarget, DesiredIsLatest
<1>1. CASE Environment
  BY <1>1 DEF Environment, controlVars, linkVars, hostVars
<1>2. CASE DialogConnect \/ DialogTick \/ DialogRefresh
  BY <1>2 DEF DialogConnect, DialogTick, DialogRefresh, controlVars, linkVars, hostVars
<1>3. CASE onStart
  BY <1>3 DEF onStart, NoCatalog
<1>4. CASE onStop
  BY <1>4 DEF onStop, DropPendingCommand
<1>5. CASE setActiveTopics
  BY <1>5, SourceAssumption DEF setActiveTopics, controlVars, linkVars
<1>6. CASE \E op \in {"pause", "resume"} : PauseResume(op)
  BY <1>6 DEF PauseResume, controlVars, linkVars
<1>7. CASE DeadlinePasses
  BY <1>7 DEF DeadlinePasses, controlVars, hostVars
<1>8. CASE PollBegin \/ SendRememberedPause
  BY <1>8 DEF PollBegin, SendRememberedPause, controlVars, linkVars, hostVars
<1>9. CASE HandleOpen
  BY <1>9 DEF HandleOpen, Handles, AfterRequests, hostVars
<1>10. CASE HandleFailure \/ onBinaryFrame
  BY <1>10 DEF HandleFailure, onBinaryFrame, Handles, controlVars, linkVars, hostVars
<1>11. CASE handleSubscribeResponse
  BY <1>11 DEF handleSubscribeResponse, Handles, hostVars
<1>12. CASE handleTopicsChanged \/ handleGetTopicsResponse
  BY <1>12 DEF handleTopicsChanged, handleGetTopicsResponse, Handles, NewCatalog,
               dropRetypedApplied, linkVars, hostVars
<1>13. CASE PollTail
  <2>1. running /\ UNCHANGED hostVars
    BY <1>13 DEF PollTail, hostVars
  <2>2. CASE PollReturns
    BY <2>1, <2>2 DEF PollReturns, controlVars, hostVars
  <2>3. CASE /\ demand /\ Readvertise
             /\ UNCHANGED <<linkVars, advertised, lastDesired>>
    <3>1. applied' = lastDesired \cap filteredAdvertisedTopics(advertised, selected)
      BY <2>3, ReconcileHitsTarget DEF Readvertise
    <3>2. QED
      BY <2>1, <2>3, <3>1 DEF Readvertise, linkVars, hostVars
  <2>4. CASE demand /\ ~dirty /\ UNCHANGED <<linkVars, controlVars>>
    BY <2>1, <2>4 DEF linkVars, controlVars, hostVars
  <2> QED
    BY <1>13, <2>2, <2>3, <2>4 DEF PollTail, controlVars
<1>14. CASE applyDesiredTopics
  BY <1>14, ReconcileHitsTarget DEF applyDesiredTopics, linkVars
<1>15. CASE UNCHANGED vars
  BY <1>15 DEF vars, controlVars, linkVars, hostVars
<1> QED
  BY <1>1, <1>2, <1>3, <1>4, <1>5, <1>6, <1>7, <1>8, <1>9, <1>10, <1>11, <1>12,
     <1>13, <1>14, <1>15 DEF Next, Host, HandleEvent, onPoll

(* In every behaviour the source's control-plane invariant holds. *)
THEOREM ControlInvariant == Spec => []ControlInv
BY ControlInit, ControlStep, PTL DEF Spec

(* The source subscribes only what the host asked for and was told of. *)
THEOREM AppliedWithinTargetHolds == Spec => []AppliedWithinTarget
<1>1. ControlInv => AppliedWithinTarget
  BY DEF ControlInv
<1>2. QED
  BY <1>1, ControlInvariant, PTL

(* The set being applied is the latest one of the session. *)
THEOREM DesiredIsLatestHolds == Spec => []DesiredIsLatest
<1>1. ControlInv => DesiredIsLatest
  BY DEF ControlInv
<1>2. QED
  BY <1>1, ControlInvariant, PTL

(***************************************************************************)
(* The failure latch.                                                      *)
(***************************************************************************)
(* No step of a running stream replaces a failure that was recorded. *)
THEOREM FirstFailureWinsHolds == Spec => FirstFailureWins
<1>1. [Next]_vars => [fatal # None /\ running' => fatal' = fatal]_vars
  <2> SUFFICES ASSUME [Next]_vars, fatal # None, running'
               PROVE  fatal' = fatal
    OBVIOUS
  <2>1. CASE Environment \/ DeadlinePasses \/ UNCHANGED vars
    BY <2>1 DEF Environment, DeadlinePasses, vars, linkVars
  <2>2. CASE Host
    BY <2>2 DEF Host, DialogConnect, DialogTick, DialogRefresh, onStart, onStop,
                setActiveTopics, PauseResume, linkVars
  <2>3. CASE HandleEvent
    BY <2>3 DEF HandleEvent, HandleOpen, HandleFailure, handleSubscribeResponse,
                handleTopicsChanged, handleGetTopicsResponse, onBinaryFrame,
                failConnection, fail, linkVars
  <2>4. CASE PollBegin \/ SendRememberedPause \/ PollTail \/ applyDesiredTopics
    BY <2>4 DEF PollBegin, SendRememberedPause, PollTail, applyDesiredTopics,
                failConnection, fail, linkVars
  <2> QED
    BY <2>1, <2>2, <2>3, <2>4 DEF Next, onPoll
<1>2. QED
  BY <1>1, PTL DEF Spec, FirstFailureWins

=============================================================================
