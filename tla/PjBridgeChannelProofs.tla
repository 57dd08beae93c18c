------------------------ MODULE PjBridgeChannelProofs ------------------------
(***************************************************************************)
(* Proofs about the PJ bridge source that reason about what is under way   *)
(* between it and its server: CatalogAgrees, IngestOnlyActive, PauseAgrees,*)
(* SubscriptionsAgree, AppliedAreBound and ParsedAsSent of PjBridgeSource, *)
(* for every number of topics and types, every server and every            *)
(* interleaving; SubscriptionsAgree and ParsedAsSent under a condition on  *)
(* the catalog changes named at their theorems.                            *)
(***************************************************************************)
EXTENDS PjBridgeSourceProofs

(***************************************************************************)
(* What is under way.  The source's events are in batch, then in inbox; its *)
(* requests are in toServer.                                               *)
(***************************************************************************)
FullGet == [c |-> "get_topics", full |-> TRUE]

(* An event that says something of a topic's entry in the catalog, and what. *)
Mentions(e, t) == e.k = "topics" \/ (e.k = "changed" /\ (t \in e.removed \/ e.added[t] # None))
Value(e, t) == IF e.k = "topics" THEN e.topics[t] ELSE IF t \in e.removed THEN None ELSE e.added[t]

Silent(s, t) == \A i \in 1..Len(s) : ~Mentions(s[i], t)
LastSays(s, t, v) ==
  \E i \in 1..Len(s) : /\ Mentions(s[i], t) /\ Value(s[i], t) = v
                       /\ \A j \in 1..Len(s) : j > i => ~Mentions(s[j], t)

(* Once everything under way is handled the source's entry is v. *)
Leads(now, rest, entry, t, v) ==
  \/ LastSays(rest, t, v)
  \/ Silent(rest, t) /\ (LastSays(now, t, v) \/ (Silent(now, t) /\ entry = v))

NoGet(s) == \A i \in 1..Len(s) : s[i].c # "get_topics"
AsksLast(s) ==
  \E j \in 1..Len(s) : s[j] = FullGet /\ \A i \in 1..Len(s) : i > j => s[i].c # "get_topics"
OptsInFirst(s) ==
  \E i, j \in 1..Len(s) : /\ i < j /\ s[i].c = "updates" /\ s[j] = FullGet
                          /\ \A l \in 1..Len(s) : l > j => s[l].c # "get_topics"
HasNewer(s) == \E i \in 1..Len(s) : s[i].k = "newer"

(* When events can be under way at all. *)
LinkInv ==
  /\ pc \in {"idle", "desired"} => batch = <<>>
  /\ conn = "opening" => inbox = <<>> /\ batch = <<>>
  /\ running /\ conn = "opening" => phase = "connecting"

(* The source's session with its server: it has asked to be told of changes and
   then for the catalog; or it will learn the server's catalog from the events
   under way; or it will give a newer server up. *)
Asking == OptsInFirst(toServer) \/ (srvUpdates /\ AsksLast(toServer))
Told ==
  /\ srvUpdates /\ ~srvNewer /\ NoGet(toServer)
  /\ \A t \in Topics : Leads(batch, inbox, advertised[t], t, InfoOf(t, TRUE))
GivingUp == srvNewer /\ (fatal # None \/ HasNewer(batch) \/ HasNewer(inbox))

CatalogInv ==
  running /\ demand /\ isOpen /\ phase # "connecting" => Asking \/ Told \/ GivingUp

(***************************************************************************)
(* The two channels.                                                       *)
(***************************************************************************)
(* Requests that are no get_topics leave what was asked as it is. *)
LEMMA SendingKeepsAsking ==
  ASSUME NEW s \in Seq(Command), NEW f \in Seq(Command), NoGet(f)
  PROVE  /\ NoGet(s) => NoGet(s \o f)
         /\ AsksLast(s) => AsksLast(s \o f)
         /\ OptsInFirst(s) => OptsInFirst(s \o f)
<1>1. /\ s \o f \in Seq(Command) /\ Len(s \o f) = Len(s) + Len(f)
      /\ Len(s) \in Nat /\ Len(f) \in Nat
      /\ \A i \in 1..Len(s) : (s \o f)[i] = s[i]
      /\ \A i \in 1..Len(s \o f) : i > Len(s) => (s \o f)[i] = f[i - Len(s)]
  OBVIOUS
<1>2. \A i \in 1..Len(s \o f) : i > Len(s) => (s \o f)[i].c # "get_topics"
  <2> SUFFICES ASSUME NEW i \in 1..Len(s \o f), i > Len(s) PROVE (s \o f)[i].c # "get_topics"
    OBVIOUS
  <2>1. (s \o f)[i] = f[i - Len(s)] /\ i - Len(s) \in 1..Len(f)
    BY <1>1
  <2> QED
    BY <2>1 DEF NoGet
<1> DEFINE u == s \o f
<1>3. /\ Len(u) \in Nat /\ Len(s) \in Nat /\ Len(s) <= Len(u)
      /\ \A i \in 1..Len(s) : u[i] = s[i]
      /\ \A i \in 1..Len(u) : i > Len(s) => u[i].c # "get_topics"
  BY <1>1, <1>2
<1> HIDE DEF u
<1>4. NoGet(s) => NoGet(u)
  BY <1>3 DEF NoGet
<1>5. AsksLast(s) => AsksLast(u)
  <2> SUFFICES ASSUME AsksLast(s) PROVE AsksLast(u)
    OBVIOUS
  <2>1. PICK j \in 1..Len(s) : s[j] = FullGet /\ \A i \in 1..Len(s) : i > j => s[i].c # "get_topics"
    BY DEF AsksLast
  <2>2. j \in 1..Len(u) /\ u[j] = FullGet /\ \A i \in 1..Len(u) : i > j => u[i].c # "get_topics"
    BY <1>3, <2>1
  <2> QED
    BY <2>2 DEF AsksLast
<1>6. OptsInFirst(s) => OptsInFirst(u)
  <2> SUFFICES ASSUME OptsInFirst(s) PROVE OptsInFirst(u)
    OBVIOUS
  <2>1. PICK i \in 1..Len(s), j \in 1..Len(s) :
          /\ i < j /\ s[i].c = "updates" /\ s[j] = FullGet
          /\ \A l \in 1..Len(s) : l > j => s[l].c # "get_topics"
    BY DEF OptsInFirst
  <2>2. /\ i \in 1..Len(u) /\ j \in 1..Len(u) /\ u[i].c = "updates" /\ u[j] = FullGet
        /\ \A l \in 1..Len(u) : l > j => u[l].c # "get_topics"
    BY <1>3, <2>1
  <2> QED
    BY <2>1, <2>2 DEF OptsInFirst
<1> QED
  BY <1>4, <1>5, <1>6 DEF u

(* The opt-in and the request for the catalog, sent together. *)
LEMMA DiscoveryOptsIn ==
  ASSUME NEW s \in Seq(Command)
  PROVE  OptsInFirst(s \o <<[c |-> "updates"], FullGet>>)
<1> DEFINE f == <<[c |-> "updates"], FullGet>>
           u == s \o f
<1>1. Len(u) = Len(s) + 2 /\ u[Len(s) + 1] = [c |-> "updates"] /\ u[Len(s) + 2] = FullGet
  OBVIOUS
<1>2. Len(s) \in Nat
  OBVIOUS
<1> HIDE DEF u
<1>3. /\ Len(s) + 1 \in 1..Len(u) /\ Len(s) + 2 \in 1..Len(u) /\ Len(s) + 1 < Len(s) + 2
      /\ \A l \in 1..Len(u) : ~(l > Len(s) + 2)
  BY <1>1, <1>2
<1>4. u[Len(s) + 1].c = "updates"
  BY <1>1
<1>5. OptsInFirst(u)
  BY <1>1, <1>3, <1>4 DEF OptsInFirst
<1> QED
  BY <1>5 DEF u

(* The server takes the first request. *)
LEMMA TakingARequest ==
  ASSUME NEW s \in Seq(Command), s # <<>>
  PROVE  /\ NoGet(s) => Head(s).c # "get_topics" /\ NoGet(Tail(s))
         /\ AsksLast(s) => (Head(s) = FullGet /\ NoGet(Tail(s))) \/ AsksLast(Tail(s))
         /\ OptsInFirst(s) => (Head(s).c = "updates" /\ AsksLast(Tail(s))) \/ OptsInFirst(Tail(s))
<1> DEFINE u == Tail(s)
<1>1. /\ Len(s) \in Nat \ {0} /\ Len(u) = Len(s) - 1 /\ Head(s) = s[1]
      /\ \A i \in 1..Len(u) : u[i] = s[i + 1]
  OBVIOUS
<1> HIDE DEF u
<1>2. \A i \in 1..Len(s) : i > 1 => i - 1 \in 1..Len(u) /\ u[i - 1] = s[i]
  BY <1>1
<1>3. NoGet(s) => Head(s).c # "get_topics" /\ NoGet(u)
  BY <1>1 DEF NoGet
<1>4. AsksLast(s) => (Head(s) = FullGet /\ NoGet(u)) \/ AsksLast(u)
  <2> SUFFICES ASSUME AsksLast(s) PROVE (Head(s) = FullGet /\ NoGet(u)) \/ AsksLast(u)
    OBVIOUS
  <2>1. PICK j \in 1..Len(s) : s[j] = FullGet /\ \A i \in 1..Len(s) : i > j => s[i].c # "get_topics"
    BY DEF AsksLast
  <2>2. CASE j = 1
    BY <1>1, <2>1, <2>2 DEF NoGet
  <2>3. CASE j > 1
    <3>1. /\ j - 1 \in 1..Len(u) /\ u[j - 1] = FullGet
          /\ \A i \in 1..Len(u) : i > j - 1 => u[i].c # "get_topics"
      BY <1>1, <1>2, <2>1, <2>3
    <3> QED
      BY <3>1 DEF AsksLast
  <2> QED
    BY <1>1, <2>2, <2>3
<1>5. OptsInFirst(s) => (Head(s).c = "updates" /\ AsksLast(u)) \/ OptsInFirst(u)
  <2> SUFFICES ASSUME OptsInFirst(s)
               PROVE  (Head(s).c = "updates" /\ AsksLast(u)) \/ OptsInFirst(u)
    OBVIOUS
  <2>1. PICK i \in 1..Len(s), j \in 1..Len(s) :
          /\ i < j /\ s[i].c = "updates" /\ s[j] = FullGet
          /\ \A l \in 1..Len(s) : l > j => s[l].c # "get_topics"
    BY DEF OptsInFirst
  <2>2. /\ j - 1 \in 1..Len(u) /\ u[j - 1] = FullGet
        /\ \A l \in 1..Len(u) : l > j - 1 => u[l].c # "get_topics"
    BY <1>1, <1>2, <2>1
  <2>3. CASE i = 1
    <3>1. AsksLast(u)
      BY <2>2 DEF AsksLast
    <3> QED
      BY <1>1, <2>1, <2>3, <3>1
  <2>4. CASE i > 1
    <3>1. i - 1 \in 1..Len(u) /\ u[i - 1] = s[i] /\ i - 1 < j - 1
      BY <1>1, <1>2, <2>1, <2>4
    <3>2. OptsInFirst(u)
      BY <2>1, <2>2, <3>1 DEF OptsInFirst
    <3> QED
      BY <3>2
  <2> QED
    BY <1>1, <2>3, <2>4
<1> QED
  BY <1>3, <1>4, <1>5 DEF u

(* An event arrives. *)
LEMMA EventArrives ==
  ASSUME NEW s \in Seq(Event), NEW e \in Event
  PROVE  /\ HasNewer(s) \/ e.k = "newer" => HasNewer(Append(s, e))
         /\ \A t, v : Mentions(e, t) /\ Value(e, t) = v => LastSays(Append(s, e), t, v)
         /\ \A t : ~Mentions(e, t) /\ Silent(s, t) => Silent(Append(s, e), t)
         /\ \A t, v : ~Mentions(e, t) /\ LastSays(s, t, v) => LastSays(Append(s, e), t, v)
<1> DEFINE u == Append(s, e)
<1>1. /\ Len(s) \in Nat /\ Len(u) = Len(s) + 1 /\ u[Len(s) + 1] = e
      /\ \A i \in 1..Len(s) : u[i] = s[i]
  OBVIOUS
<1> HIDE DEF u
<1>2. HasNewer(s) \/ e.k = "newer" => HasNewer(u)
  BY <1>1 DEF HasNewer
<1>3. ASSUME NEW t, NEW v, Mentions(e, t), Value(e, t) = v PROVE LastSays(u, t, v)
  <2>1. /\ Len(s) + 1 \in 1..Len(u) /\ Mentions(u[Len(s) + 1], t) /\ Value(u[Len(s) + 1], t) = v
        /\ \A j \in 1..Len(u) : ~(j > Len(s) + 1)
    BY <1>1, <1>3
  <2> QED
    BY <2>1 DEF LastSays
<1>4. ASSUME NEW t, ~Mentions(e, t), Silent(s, t) PROVE Silent(u, t)
  <2> SUFFICES ASSUME NEW i \in 1..Len(u) PROVE ~Mentions(u[i], t)
    BY DEF Silent
  <2>1. CASE i = Len(s) + 1
    BY <1>1, <1>4, <2>1
  <2>2. CASE i \in 1..Len(s)
    BY <1>1, <1>4, <2>2 DEF Silent
  <2> QED
    BY <1>1, <2>1, <2>2
<1>5. ASSUME NEW t, NEW v, ~Mentions(e, t), LastSays(s, t, v) PROVE LastSays(u, t, v)
  <2>1. PICK i \in 1..Len(s) : /\ Mentions(s[i], t) /\ Value(s[i], t) = v
                               /\ \A j \in 1..Len(s) : j > i => ~Mentions(s[j], t)
    BY <1>5 DEF LastSays
  <2>2. i \in 1..Len(u) /\ u[i] = s[i]
    BY <1>1
  <2>3. \A j \in 1..Len(u) : j > i => ~Mentions(u[j], t)
    <3> SUFFICES ASSUME NEW j \in 1..Len(u), j > i PROVE ~Mentions(u[j], t)
      OBVIOUS
    <3>1. CASE j = Len(s) + 1
      BY <1>1, <1>5, <3>1
    <3>2. CASE j \in 1..Len(s)
      BY <1>1, <2>1, <3>2
    <3> QED
      BY <1>1, <3>1, <3>2
  <2> QED
    BY <2>1, <2>2, <2>3 DEF LastSays
<1> QED
  BY <1>2, <1>3, <1>4, <1>5 DEF u

(* The first event is handled. *)
LEMMA EventLeaves ==
  ASSUME NEW s \in Seq(Event), s # <<>>
  PROVE  /\ HasNewer(s) => Head(s).k = "newer" \/ HasNewer(Tail(s))
         /\ \A t : Silent(s, t) => ~Mentions(Head(s), t) /\ Silent(Tail(s), t)
         /\ \A t, v : LastSays(s, t, v) =>
              \/ LastSays(Tail(s), t, v)
              \/ Mentions(Head(s), t) /\ Value(Head(s), t) = v /\ Silent(Tail(s), t)
<1> DEFINE u == Tail(s)
<1>1. /\ Len(s) \in Nat \ {0} /\ Len(u) = Len(s) - 1 /\ Head(s) = s[1]
      /\ \A i \in 1..Len(u) : u[i] = s[i + 1]
  OBVIOUS
<1> HIDE DEF u
<1>2. /\ \A i \in 1..Len(s) : i > 1 => i - 1 \in 1..Len(u) /\ u[i - 1] = s[i]
      /\ \A i \in 1..Len(u) : i + 1 \in 1..Len(s) /\ 1 \in 1..Len(s)
      /\ 1 \in 1..Len(s)
  BY <1>1
<1>3. HasNewer(s) => Head(s).k = "newer" \/ HasNewer(u)
  <2> SUFFICES ASSUME HasNewer(s) PROVE Head(s).k = "newer" \/ HasNewer(u)
    OBVIOUS
  <2>1. PICK i \in 1..Len(s) : s[i].k = "newer"
    BY DEF HasNewer
  <2>2. CASE i = 1
    BY <1>1, <2>1, <2>2
  <2>3. CASE i > 1
    BY <1>2, <2>1, <2>3 DEF HasNewer
  <2> QED
    BY <1>1, <2>2, <2>3
<1>4. ASSUME NEW t, Silent(s, t) PROVE ~Mentions(Head(s), t) /\ Silent(u, t)
  BY <1>1, <1>2, <1>4 DEF Silent
<1>5. ASSUME NEW t, NEW v, LastSays(s, t, v)
      PROVE  \/ LastSays(u, t, v)
             \/ Mentions(Head(s), t) /\ Value(Head(s), t) = v /\ Silent(u, t)
  <2>1. PICK i \in 1..Len(s) : /\ Mentions(s[i], t) /\ Value(s[i], t) = v
                               /\ \A j \in 1..Len(s) : j > i => ~Mentions(s[j], t)
    BY <1>5 DEF LastSays
  <2>2. \A j \in 1..Len(u) : j > i - 1 => ~Mentions(u[j], t)
    BY <1>1, <1>2, <2>1
  <2>3. CASE i = 1
    <3>1. Silent(u, t)
      BY <2>2, <2>3, <1>1 DEF Silent
    <3> QED
      BY <1>1, <2>1, <2>3, <3>1
  <2>4. CASE i > 1
    <3>1. i - 1 \in 1..Len(u) /\ u[i - 1] = s[i]
      BY <1>2, <2>4
    <3>2. LastSays(u, t, v)
      BY <2>1, <2>2, <3>1 DEF LastSays
    <3> QED
      BY <3>2
  <2> QED
    BY <1>1, <2>3, <2>4
<1> QED
  BY <1>3, <1>4, <1>5 DEF u

(* What arrives decides the entries it mentions and no other. *)
LEMMA LeadsOnArrival ==
  ASSUME NEW now, NEW rest \in Seq(Event), NEW e \in Event, NEW entry, NEW t, NEW v
  PROVE  /\ Mentions(e, t) /\ Value(e, t) = v => Leads(now, Append(rest, e), entry, t, v)
         /\ ~Mentions(e, t) /\ Leads(now, rest, entry, t, v) => Leads(now, Append(rest, e), entry, t, v)
BY EventArrives DEF Leads

(* What is handled is folded into the entry. *)
LEMMA LeadsOnHandling ==
  ASSUME NEW now \in Seq(Event), now # <<>>, NEW rest, NEW entry, NEW entry2, NEW t, NEW v,
         Leads(now, rest, entry, t, v),
         Mentions(Head(now), t) => entry2 = Value(Head(now), t),
         ~Mentions(Head(now), t) => entry2 = entry
  PROVE  Leads(Tail(now), rest, entry2, t, v)
<1>1. CASE LastSays(rest, t, v)
  BY <1>1 DEF Leads
<1>2. CASE Silent(rest, t) /\ LastSays(now, t, v)
  <2>1. \/ LastSays(Tail(now), t, v)
        \/ Mentions(Head(now), t) /\ Value(Head(now), t) = v /\ Silent(Tail(now), t)
    BY <1>2, EventLeaves
  <2> QED
    BY <1>2, <2>1 DEF Leads
<1>3. CASE Silent(rest, t) /\ Silent(now, t) /\ entry = v
  <2>1. ~Mentions(Head(now), t) /\ Silent(Tail(now), t)
    BY <1>3, EventLeaves
  <2> QED
    BY <1>3, <2>1 DEF Leads
<1> QED
  BY <1>1, <1>2, <1>3 DEF Leads

(* The poll drains the queue. *)
LEMMA LeadsOnDrain ==
  ASSUME NEW rest, NEW entry, NEW t, NEW v, Leads(<<>>, rest, entry, t, v)
  PROVE  Leads(rest, <<>>, entry, t, v)
<1>1. Silent(<<>>, t) /\ ~LastSays(<<>>, t, v)
  BY DEF Silent, LastSays
<1> QED
  BY <1>1 DEF Leads

(* Between connections and between polls nothing is under way. *)
LEMMA LinkInit == Init => LinkInv
BY DEF Init, SessionInit, LinkInv

(* Every step keeps it so. *)
LEMMA LinkStep ==
  ASSUME ControlInv, LinkInv, [Next]_vars
  PROVE  LinkInv'
<1> USE DEF LinkInv
<1>1. CASE Environment
  <2>1. /\ UNCHANGED <<running, phase, pc, batch>>
        /\ conn' # "opening" \/ UNCHANGED <<conn, inbox>>
    BY <1>1 DEF Environment, SessionNext, ConnOpen, ConnError, ConnClose, on_message, CatalogChange,
       emit_loop, linkVars, hostVars
  <2> QED
    BY <2>1
<1>2. CASE DialogConnect \/ DialogTick \/ DialogRefresh
  <2>1. ~running /\ ~running' /\ UNCHANGED <<pc, batch>> /\ pc = "idle"
    BY <1>2 DEF DialogConnect, DialogTick, DialogRefresh, ControlInv, hostVars
  <2>2. inbox' = <<>> \/ UNCHANGED <<conn, inbox>> \/ (conn' = conn /\ inbox # <<>>)
    BY <1>2 DEF DialogConnect, DialogTick, DialogRefresh, SocketStart, SocketStop
  <2> QED
    BY <2>1, <2>2
<1>3. CASE onStart
  <2>1. pc = "idle" /\ UNCHANGED <<pc, batch>>
    BY <1>3 DEF onStart, ControlInv
  <2> QED
    BY <1>3, <2>1 DEF onStart, SocketStart, isOpen
<1>4. CASE onStop
  BY <1>4 DEF onStop, SocketStop
<1>5. CASE setActiveTopics \/ (\E op \in {"pause", "resume"} : PauseResume(op)) \/ DeadlinePasses
  BY <1>5 DEF setActiveTopics, PauseResume, DeadlinePasses, linkVars, sessionVars, hostVars
<1>6. CASE PollBegin
  BY <1>6 DEF PollBegin, linkVars, hostVars
<1>7. CASE SendRememberedPause
  BY <1>7 DEF SendRememberedPause, linkVars, hostVars
<1>8. CASE HandleEvent
  <2>1. pc = "pump" /\ batch # <<>> /\ pc' \in {"pump", "pause"} /\ UNCHANGED <<conn, inbox>>
    BY <1>8 DEF HandleEvent, HandleOpen, HandleFailure, handleSubscribeResponse, handleTopicsChanged,
       handleGetTopicsResponse, onBinaryFrame, Handles, AfterRequests, sessionVars
  <2> QED
    BY <2>1
<1>9. CASE PollTail \/ applyDesiredTopics
  <2>1. UNCHANGED <<conn, inbox, batch, running>>
    BY <1>9 DEF PollTail, PollReturns, applyDesiredTopics, sessionVars, hostVars
  <2>2. batch = <<>>
    BY <1>9 DEF PollTail, applyDesiredTopics
  <2>3. phase = "connecting" => phase' = "connecting"
    BY <1>9 DEF PollTail, applyDesiredTopics, linkVars
  <2> QED
    BY <2>1, <2>2, <2>3
<1>10. CASE UNCHANGED vars
  BY <1>10 DEF vars, sessionVars, linkVars, hostVars
<1> QED
  BY <1>1, <1>2, <1>3, <1>4, <1>5, <1>6, <1>7, <1>8, <1>9, <1>10 DEF Next, Host, onPoll

(***************************************************************************)
(* The catalog.                                                            *)
(***************************************************************************)
(* A step that sends no get_topics and neither takes nor brings an event. *)
LEMMA CatalogFrame ==
  ASSUME TypeOK, CatalogInv, NEW f \in Seq(Command), NoGet(f),
         toServer' = toServer \o f \/ toServer' = toServer,
         UNCHANGED <<running, demand, conn, srvUpdates, srvNewer, srvCatalog, batch, inbox, advertised>>,
         phase = "connecting" => phase' = "connecting",
         fatal # None => fatal' # None
  PROVE  CatalogInv'
<1>1. toServer \in Seq(Command)
  BY DEF TypeOK, SessionTypeOK
<1>2. /\ NoGet(toServer) => NoGet(toServer)'
      /\ AsksLast(toServer) => AsksLast(toServer)'
      /\ OptsInFirst(toServer) => OptsInFirst(toServer)'
  BY <1>1, SendingKeepsAsking
<1>3. Asking => Asking'
  BY <1>2 DEF Asking
<1>4. Told => Told'
  BY <1>2 DEF Told, InfoOf
<1>5. GivingUp => GivingUp'
  BY DEF GivingUp
<1> QED
  BY <1>3, <1>4, <1>5 DEF CatalogInv, isOpen

(* One request, or none. *)
LEMMA OneRequest ==
  /\ <<>> \in Seq(Command) /\ NoGet(<<>>)
  /\ \A m \in Command : m.c # "get_topics" => <<m>> \in Seq(Command) /\ NoGet(<<m>>)
BY DEF NoGet

(* Reconciling asks for no catalog. *)
LEMMA ReconcileSends ==
  ASSUME TypeOK, NEW des \in SUBSET Topics, reconcileSubscriptions(des)
  PROVE  \E f \in Seq(Command) : NoGet(f) /\ (toServer' = toServer \o f \/ toServer' = toServer)
<1> DEFINE adv == filteredAdvertisedTopics(advertised, selected)
           drop == to_unsubscribe(applied, adv, des)
           add == to_subscribe(applied, adv, des)
           g == IF drop = {} THEN <<>> ELSE <<[c |-> "unsubscribe", topics |-> drop]>>
           h == IF add = {} THEN <<>> ELSE <<[c |-> "subscribe", id |-> nextId, topics |-> add]>>
<1>1. drop \subseteq Topics /\ add \subseteq Topics /\ nextId \in Nat
  BY DEF to_unsubscribe, to_subscribe, filteredAdvertisedTopics, TypeOK, ControlTypeOK
<1>2. toServer' = toServer \o (g \o h) \/ toServer' = toServer
  BY DEF reconcileSubscriptions, sendText
<1> HIDE DEF drop, add
<1>3. g \in Seq(Command) /\ NoGet(g)
  <2>1. [c |-> "unsubscribe", topics |-> drop] \in Command
    BY <1>1 DEF Command
  <2> QED
    BY <2>1, OneRequest
<1>4. h \in Seq(Command) /\ NoGet(h)
  <2>1. [c |-> "subscribe", id |-> nextId, topics |-> add] \in Command
    BY <1>1 DEF Command
  <2> QED
    BY <2>1, OneRequest
<1> HIDE DEF g, h
<1>5. g \o h \in Seq(Command) /\ NoGet(g \o h)
  BY <1>3, <1>4, SendingKeepsAsking
<1> QED
  BY <1>2, <1>5

(* A command of one word. *)
LEMMA OneWord ==
  ASSUME NEW op \in {"pause", "resume"}
  PROVE  <<[c |-> op]>> \in Seq(Command) /\ NoGet(<<[c |-> op]>>)
BY DEF Command, NoGet

(* What the server's handling of a request brings to the source. *)
LEMMA Answers ==
  ASSUME TypeOK, on_message
  PROVE  /\ srvNewer => inbox' = Append(inbox, [k |-> "newer"])
         /\ ~srvNewer /\ Head(toServer).c = "get_topics" =>
              \E e \in Event : /\ inbox' = Append(inbox, e) /\ e.k = "topics"
                               /\ \A t \in Topics : e.topics[t] = InfoOf(t, Head(toServer).full)
         /\ ~srvNewer /\ Head(toServer).c = "subscribe" =>
              \E e \in Event :
                /\ inbox' = Append(inbox, e) /\ e.k = "schemas" /\ e.id = Head(toServer).id
                /\ e.failures = {t \in Head(toServer).topics \ srvSubs : srvCatalog[t] = None}
         /\ ~srvNewer /\ Head(toServer).c \notin {"get_topics", "subscribe"} => inbox' = inbox
         /\ Head(toServer).c = "subscribe" =>
              srvSubs' = srvSubs \cup {t \in Head(toServer).topics \ srvSubs : srvCatalog[t] # None}
         /\ Head(toServer).c # "subscribe" => srvSubs' \subseteq srvSubs
<1> DEFINE cmd == Head(toServer)
<1>1. cmd \in Command /\ srvCatalog \in [Topics -> Types \cup {None}]
  BY DEF on_message, TypeOK, SessionTypeOK
<1>2. cmd.c \in {"updates", "pause", "resume", "get_topics", "subscribe", "unsubscribe"}
  BY <1>1 DEF Command
<1>3. CASE cmd.c = "get_topics"
  <2> DEFINE e == [k |-> "topics", topics |-> [t \in Topics |-> InfoOf(t, cmd.full)]]
  <2>1. Reply(e) /\ UNCHANGED srvSubs
    BY <1>3 DEF on_message
  <2>2. \A t \in Topics : InfoOf(t, cmd.full) \in TopicInfo \cup {None}
    BY <1>1, <1>3 DEF InfoOf, TopicInfo, Command
  <2>3. e \in Event
    BY <2>2 DEF Event, Catalog
  <2>4. e.k = "topics" /\ \A t \in Topics : e.topics[t] = InfoOf(t, cmd.full)
    OBVIOUS
  <2> HIDE DEF e
  <2> QED
    BY <1>3, <2>1, <2>3, <2>4 DEF Reply
<1>4. CASE cmd.c = "subscribe"
  <2> DEFINE fresh == {t \in cmd.topics \ srvSubs : srvCatalog[t] # None}
             gone == {t \in cmd.topics \ srvSubs : srvCatalog[t] = None}
             e == [k |-> "schemas", id |-> cmd.id,
                   schemas |-> [t \in Topics |-> IF t \in fresh THEN srvCatalog[t] ELSE None],
                   failures |-> gone]
  <2>1. Reply(e) /\ srvSubs' = srvSubs \cup fresh
    BY <1>4 DEF on_message, build_subscribe_response
  <2>2. cmd.id \in Nat /\ cmd.topics \subseteq Topics
    BY <1>1, <1>4 DEF Command
  <2>3. e \in Event
    BY <1>1, <2>2 DEF Event
  <2>4. e.k = "schemas" /\ e.id = cmd.id /\ e.failures = gone
    OBVIOUS
  <2> HIDE DEF e
  <2> QED
    BY <1>4, <2>1, <2>3, <2>4 DEF Reply
<1>5. CASE cmd.c \notin {"get_topics", "subscribe"}
  <2>1. Acknowledge /\ srvSubs' \subseteq srvSubs
    BY <1>5 DEF on_message
  <2> QED
    BY <1>5, <2>1 DEF Acknowledge
<1> QED
  BY <1>3, <1>4, <1>5

(* The server answers a request, or acknowledges it. *)
LEMMA CatalogOnMessage ==
  ASSUME TypeOK, CatalogInv, on_message, UNCHANGED <<running, demand, phase, batch, advertised, fatal>>
  PROVE  CatalogInv'
<1> DEFINE cmd == Head(toServer)
<1>1. /\ conn = "open" /\ toServer # <<>> /\ toServer' = Tail(toServer)
      /\ UNCHANGED <<conn, srvCatalog, srvNewer, budget>>
  BY DEF on_message
<1>2. /\ toServer \in Seq(Command) /\ inbox \in Seq(Event) /\ cmd \in Command
      /\ srvNewer \in BOOLEAN
  BY <1>1 DEF TypeOK, SessionTypeOK
<1> SUFFICES ASSUME running, demand, phase # "connecting"
             PROVE  Asking' \/ Told' \/ GivingUp'
  BY DEF CatalogInv
<1>3. Asking \/ Told \/ GivingUp
  BY <1>1 DEF CatalogInv, isOpen
<1>4. /\ NoGet(toServer) => cmd.c # "get_topics" /\ NoGet(toServer)'
      /\ AsksLast(toServer) => (cmd = FullGet /\ NoGet(toServer)') \/ AsksLast(toServer)'
      /\ OptsInFirst(toServer) => (cmd.c = "updates" /\ AsksLast(toServer)') \/ OptsInFirst(toServer)'
  BY <1>1, <1>2, TakingARequest
<1>5. [k |-> "newer"] \in Event /\ [k |-> "newer"].k = "newer"
  BY DEF Event
<1>6. (srvUpdates => srvUpdates') /\ (cmd.c = "updates" => srvUpdates')
  BY DEF on_message
<1>7. CASE srvNewer
  <2>1. inbox' = Append(inbox, [k |-> "newer"])
    BY <1>7, Answers
  <2>2. HasNewer(inbox)'
    BY <1>2, <1>5, <2>1, EventArrives
  <2> QED
    BY <1>1, <1>7, <2>2 DEF GivingUp
<1>8. CASE ~srvNewer
  <2>1. \/ /\ cmd.c = "get_topics"
           /\ \E e \in Event : /\ inbox' = Append(inbox, e) /\ e.k = "topics"
                               /\ \A t \in Topics : e.topics[t] = InfoOf(t, cmd.full)
        \/ cmd.c = "subscribe" /\ \E e \in Event : inbox' = Append(inbox, e) /\ e.k = "schemas"
        \/ cmd.c \notin {"get_topics", "subscribe"} /\ inbox' = inbox
    BY <1>8, Answers
  <2>2. CASE GivingUp
    <3>1. HasNewer(inbox) => HasNewer(inbox)'
      BY <1>2, <2>1, EventArrives
    <3> QED
      BY <1>1, <2>2, <3>1 DEF GivingUp
  <2>3. CASE Told
    <3>1. cmd.c # "get_topics" /\ NoGet(toServer)'
      BY <1>4, <2>3 DEF Told
    <3>2. ASSUME NEW t \in Topics
          PROVE  Leads(batch, inbox, advertised[t], t, InfoOf(t, TRUE))'
      <4>1. Leads(batch, inbox, advertised[t], t, InfoOf(t, TRUE)) /\ InfoOf(t, TRUE)' = InfoOf(t, TRUE)
        BY <1>1, <2>3 DEF Told, InfoOf
      <4>2. CASE inbox' = inbox
        BY <4>1, <4>2
      <4>3. CASE \E e \in Event : inbox' = Append(inbox, e) /\ e.k = "schemas"
        <5>1. PICK e \in Event : inbox' = Append(inbox, e) /\ e.k = "schemas"
          BY <4>3
        <5>2. ~Mentions(e, t)
          BY <5>1 DEF Mentions
        <5>3. Leads(batch, Append(inbox, e), advertised[t], t, InfoOf(t, TRUE))
          BY <1>2, <4>1, <5>2, LeadsOnArrival
        <5> QED
          BY <4>1, <5>1, <5>3
      <4> QED
        BY <2>1, <3>1, <4>2, <4>3
    <3> QED
      BY <1>1, <1>6, <2>3, <3>1, <3>2 DEF Told
  <2>4. CASE Asking /\ ~(cmd = FullGet /\ NoGet(toServer)')
    BY <1>4, <1>6, <2>4 DEF Asking
  <2>5. CASE Asking /\ cmd = FullGet /\ NoGet(toServer)'
    <3>1. CASE OptsInFirst(toServer)
      <4>1. OptsInFirst(toServer)'
        BY <1>4, <2>5, <3>1 DEF FullGet
      <4> QED
        BY <4>1 DEF Asking
    <3>2. CASE srvUpdates
      <4>1. cmd.c = "get_topics" /\ cmd.full = TRUE
        BY <2>5 DEF FullGet
      <4>2. PICK e \in Event : /\ inbox' = Append(inbox, e) /\ e.k = "topics"
                               /\ \A t \in Topics : e.topics[t] = InfoOf(t, cmd.full)
        BY <2>1, <4>1
      <4>3. ASSUME NEW t \in Topics
            PROVE  Leads(batch, inbox, advertised[t], t, InfoOf(t, TRUE))'
        <5>1. Mentions(e, t) /\ Value(e, t) = InfoOf(t, TRUE)
          BY <4>1, <4>2 DEF Mentions, Value
        <5>2. Leads(batch, Append(inbox, e), advertised[t], t, InfoOf(t, TRUE))
          BY <1>2, <5>1, LeadsOnArrival
        <5>3. InfoOf(t, TRUE)' = InfoOf(t, TRUE)
          BY <1>1 DEF InfoOf
        <5> QED
          BY <4>2, <5>2, <5>3
      <4> QED
        BY <1>1, <1>6, <1>8, <2>5, <3>2, <4>3 DEF Told
    <3> QED
      BY <2>5, <3>1, <3>2 DEF Asking
  <2> QED
    BY <1>3, <2>2, <2>3, <2>4, <2>5
<1> QED
  BY <1>2, <1>7, <1>8

(* The server's catalog changes, and who has opted in is told. *)
LEMMA CatalogOnChange ==
  ASSUME TypeOK, CatalogInv, CatalogChange,
         UNCHANGED <<running, demand, phase, batch, advertised, fatal>>
  PROVE  CatalogInv'
<1>1. PICK t \in Topics, ty \in Types \cup {None} :
        /\ srvCatalog' = [srvCatalog EXCEPT ![t] = ty]
        /\ LET note == [k |-> "changed",
                        added |-> [u \in Topics |->
                                     IF u = t /\ ty # None
                                     THEN [ty |-> ty, full |-> ServerSchemas] ELSE None],
                        removed |-> IF ty = None THEN {t} ELSE {}]
           IN  IF conn = "open" /\ srvUpdates THEN Reply(note) ELSE UNCHANGED inbox
        /\ UNCHANGED <<conn, toServer, srvVars>>
  BY DEF CatalogChange
<1> DEFINE note == [k |-> "changed",
                    added |-> [u \in Topics |->
                                 IF u = t /\ ty # None
                                 THEN [ty |-> ty, full |-> ServerSchemas] ELSE None],
                    removed |-> IF ty = None THEN {t} ELSE {}]
<1>2. note.added \in Catalog
  BY SessionAssumption DEF Catalog, TopicInfo
<1>3. note \in Event
  BY <1>2 DEF Event
<1>4. conn = "open" /\ srvUpdates => Reply(note)
  BY <1>1
<1>5. ~(conn = "open" /\ srvUpdates) => UNCHANGED inbox
  BY <1>1
<1>6. UNCHANGED <<conn, toServer, srvUpdates, srvNewer>> /\ srvCatalog' = [srvCatalog EXCEPT ![t] = ty]
  BY <1>1 DEF srvVars
<1>7. ty # None => [ty |-> ty, full |-> ServerSchemas] # None
  BY SourceAssumption, SessionAssumption DEF TopicInfo
<1>8. /\ Mentions(note, t)
      /\ Value(note, t) = IF ty = None THEN None ELSE [ty |-> ty, full |-> ServerSchemas]
      /\ \A u \in Topics \ {t} : ~Mentions(note, u)
  BY <1>7 DEF Mentions, Value
<1> HIDE DEF note
<1>9. inbox \in Seq(Event) /\ srvCatalog \in [Topics -> Types \cup {None}] /\ srvNewer \in BOOLEAN
  BY DEF TypeOK, SessionTypeOK
<1> SUFFICES ASSUME running, demand, isOpen, phase # "connecting"
             PROVE  Asking' \/ Told' \/ GivingUp'
  BY <1>6 DEF CatalogInv, isOpen
<1>10. Asking \/ Told \/ GivingUp
  BY DEF CatalogInv
<1>11. CASE Asking
  BY <1>6, <1>11 DEF Asking
<1>12. CASE GivingUp
  <2>1. inbox' = inbox \/ \E e \in Event : inbox' = Append(inbox, e)
    <3>1. [k |-> "newer"] \in Event
      BY DEF Event
    <3> QED
      BY <1>3, <1>4, <1>5, <3>1 DEF Reply
  <2>2. HasNewer(inbox) => HasNewer(inbox)'
    BY <1>9, <2>1, EventArrives
  <2> QED
    BY <1>6, <1>12, <2>2 DEF GivingUp
<1>13. CASE Told
  <2>1. inbox' = Append(inbox, note)
    BY <1>4, <1>13 DEF Told, Reply, isOpen
  <2>2. ASSUME NEW u \in Topics
        PROVE  Leads(batch, inbox, advertised[u], u, InfoOf(u, TRUE))'
    <3>1. CASE u = t
      <4>1. InfoOf(u, TRUE)' = Value(note, t)
        BY <1>6, <1>8, <1>9, <3>1, SessionAssumption DEF InfoOf
      <4>2. Leads(batch, Append(inbox, note), advertised[u], u, Value(note, t))
        BY <1>3, <1>8, <1>9, <3>1, LeadsOnArrival
      <4> QED
        BY <2>1, <4>1, <4>2
    <3>2. CASE u # t
      <4>1. InfoOf(u, TRUE)' = InfoOf(u, TRUE)
        BY <1>6, <1>9, <3>2 DEF InfoOf
      <4>2. Leads(batch, inbox, advertised[u], u, InfoOf(u, TRUE))
        BY <1>13 DEF Told
      <4>3. Leads(batch, Append(inbox, note), advertised[u], u, InfoOf(u, TRUE))
        BY <1>3, <1>8, <1>9, <3>2, <4>2, LeadsOnArrival
      <4> QED
        BY <2>1, <4>1, <4>3
    <3> QED
      BY <3>1, <3>2
  <2> QED
    BY <1>6, <1>13, <2>2 DEF Told
<1> QED
  BY <1>10, <1>11, <1>12, <1>13

(* A data frame says nothing of the catalog. *)
LEMMA CatalogOnFrame ==
  ASSUME TypeOK, CatalogInv, emit_loop, UNCHANGED <<running, demand, phase, batch, advertised, fatal>>
  PROVE  CatalogInv'
<1>1. PICK t \in srvSubs :
        /\ srvCatalog[t] # None
        /\ inbox' = Append(inbox, [k |-> "data", topic |-> t, ty |-> srvCatalog[t]])
  BY DEF emit_loop
<1>2. UNCHANGED <<conn, toServer, srvCatalog, srvUpdates, srvNewer>>
  BY DEF emit_loop, srvVars
<1> DEFINE e == [k |-> "data", topic |-> t, ty |-> srvCatalog[t]]
<1>3. inbox \in Seq(Event) /\ e \in Event /\ \A u : ~Mentions(e, u)
  BY <1>1 DEF TypeOK, SessionTypeOK, Event, Mentions
<1>4. inbox' = Append(inbox, e)
  BY <1>1
<1> HIDE DEF e
<1> SUFFICES ASSUME running, demand, isOpen, phase # "connecting"
             PROVE  Asking' \/ Told' \/ GivingUp'
  BY <1>2 DEF CatalogInv, isOpen
<1>5. Asking \/ Told \/ GivingUp
  BY DEF CatalogInv
<1>6. Asking => Asking'
  BY <1>2 DEF Asking
<1>7. GivingUp => GivingUp'
  BY <1>2, <1>3, <1>4, EventArrives DEF GivingUp
<1>8. Told => Told'
  <2> SUFFICES ASSUME Told, NEW u \in Topics
               PROVE  Leads(batch, inbox, advertised[u], u, InfoOf(u, TRUE))'
    BY <1>2 DEF Told
  <2>1. Leads(batch, Append(inbox, e), advertised[u], u, InfoOf(u, TRUE))
    BY <1>3, LeadsOnArrival DEF Told
  <2>2. InfoOf(u, TRUE)' = InfoOf(u, TRUE)
    BY <1>2 DEF InfoOf
  <2> QED
    BY <1>4, <2>1, <2>2
<1> QED
  BY <1>5, <1>6, <1>7, <1>8

(* The poll drains the queue into its batch. *)
LEMMA CatalogOnDrain ==
  ASSUME TypeOK, LinkInv, CatalogInv, PollBegin
  PROVE  CatalogInv'
<1>1. /\ batch = <<>> /\ batch' = inbox /\ inbox' = <<>>
      /\ UNCHANGED <<conn, toServer, srvCatalog, srvUpdates, srvNewer, running, demand, phase,
                     advertised, fatal>>
  BY DEF PollBegin, LinkInv, srvVars, controlVars, linkVars, hostVars
<1>2. GivingUp => GivingUp'
  BY <1>1 DEF GivingUp, HasNewer
<1>3. Told => Told'
  <2> SUFFICES ASSUME Told, NEW t \in Topics
               PROVE  Leads(batch, inbox, advertised[t], t, InfoOf(t, TRUE))'
    BY <1>1 DEF Told
  <2>1. Leads(inbox, <<>>, advertised[t], t, InfoOf(t, TRUE))
    BY <1>1, LeadsOnDrain DEF Told
  <2>2. InfoOf(t, TRUE)' = InfoOf(t, TRUE)
    BY <1>1 DEF InfoOf
  <2> QED
    BY <1>1, <2>1, <2>2
<1>4. Asking => Asking'
  BY <1>1 DEF Asking
<1> QED
  BY <1>1, <1>2, <1>3, <1>4 DEF CatalogInv, isOpen

(* An event is handled: what it says of the catalog is folded in, and a newer
   server's answer is a failure. *)
LEMMA CatalogOnEvent ==
  ASSUME TypeOK, CatalogInv, pc = "pump", batch # <<>>, batch' = Tail(batch),
         UNCHANGED <<conn, inbox, toServer, srvCatalog, srvUpdates, srvNewer, running, demand, phase>>,
         fatal # None \/ Head(batch).k = "newer" => fatal' # None,
         \A t \in Topics : /\ Mentions(Head(batch), t) => advertised'[t] = Value(Head(batch), t)
                           /\ ~Mentions(Head(batch), t) => advertised'[t] = advertised[t]
  PROVE  CatalogInv'
<1>1. batch \in Seq(Event)
  BY DEF TypeOK, PollTypeOK
<1>2. GivingUp => GivingUp'
  BY <1>1, EventLeaves DEF GivingUp
<1>3. Told => Told'
  <2> SUFFICES ASSUME Told, NEW t \in Topics
               PROVE  Leads(batch, inbox, advertised[t], t, InfoOf(t, TRUE))'
    BY DEF Told
  <2>1. Leads(batch, inbox, advertised[t], t, InfoOf(t, TRUE))
    BY DEF Told
  <2>2. Leads(Tail(batch), inbox, advertised'[t], t, InfoOf(t, TRUE))
    BY <1>1, <2>1, LeadsOnHandling
  <2>3. InfoOf(t, TRUE)' = InfoOf(t, TRUE)
    BY DEF InfoOf
  <2> QED
    BY <2>2, <2>3
<1>4. Asking => Asking'
  BY DEF Asking
<1> QED
  BY <1>2, <1>3, <1>4 DEF CatalogInv, isOpen

(* A failure that was recorded is one. *)
LEMMA FailIsFatal ==
  ASSUME NEW f \in Failure, fail(f)
  PROVE  fatal' # None
BY SourceAssumption DEF fail

(* Every handler of an event but the one of the opening socket. *)
LEMMA CatalogOnHandler ==
  ASSUME TypeOK, CatalogInv,
         HandleFailure \/ handleSubscribeResponse \/ handleTopicsChanged
           \/ handleGetTopicsResponse \/ onBinaryFrame
  PROVE  CatalogInv'
<1> DEFINE e == Head(batch)
<1>1. /\ pc = "pump" /\ batch # <<>> /\ batch' = Tail(batch)
      /\ UNCHANGED <<sessionVars, running, demand, phase>>
  BY DEF HandleFailure, handleSubscribeResponse, handleTopicsChanged, handleGetTopicsResponse,
     onBinaryFrame, Handles, linkVars, hostVars
<1>2. e \in Event /\ advertised \in Catalog
  BY <1>1 DEF TypeOK, PollTypeOK, ControlTypeOK
<1>3. UNCHANGED <<conn, inbox, toServer, srvCatalog, srvUpdates, srvNewer>>
  BY <1>1 DEF sessionVars
<1>4. CASE HandleFailure
  <2>1. e.k \in {"closed", "error", "newer"} /\ UNCHANGED advertised
    BY <1>4 DEF HandleFailure, Handles, controlVars
  <2>2. fatal' # None
    <3>1. \A what \in {"connect", "lost", "upgrade"}, why \in {"closed", "error", "newer"} :
            [what |-> what, why |-> why] \in Failure
      BY DEF Failure
    <3>2. \E f \in Failure : fail(f)
      BY <1>4, <3>1 DEF HandleFailure, failConnection
    <3> QED
      BY <3>2, FailIsFatal
  <2>3. \A t : ~Mentions(e, t)
    BY <2>1 DEF Mentions
  <2> QED
    BY <1>1, <1>3, <2>1, <2>2, <2>3, CatalogOnEvent
<1>5. CASE handleSubscribeResponse \/ onBinaryFrame
  <2>1. e.k \in {"schemas", "data"} /\ UNCHANGED <<advertised, fatal>>
    BY <1>5 DEF handleSubscribeResponse, onBinaryFrame, Handles, controlVars, linkVars
  <2>2. \A t : ~Mentions(e, t)
    BY <2>1 DEF Mentions
  <2> QED
    BY <1>1, <1>3, <2>1, <2>2, CatalogOnEvent
<1>6. CASE handleTopicsChanged
  <2>1. /\ e.k = "changed" /\ UNCHANGED fatal
        /\ advertised' = applyAdvertiseDelta(advertised, e.added, e.removed)
    BY <1>6 DEF handleTopicsChanged, Handles, NewCatalog, linkVars
  <2>2. \A t \in Topics : /\ Mentions(e, t) => advertised'[t] = Value(e, t)
                          /\ ~Mentions(e, t) => advertised'[t] = advertised[t]
    BY <1>2, <2>1 DEF Mentions, Value, applyAdvertiseDelta
  <2> QED
    BY <1>1, <1>3, <2>1, <2>2, CatalogOnEvent
<1>7. CASE handleGetTopicsResponse
  <2>1. e.k = "topics" /\ UNCHANGED fatal /\ advertised' = e.topics
    BY <1>7 DEF handleGetTopicsResponse, Handles, NewCatalog, linkVars
  <2>2. \A t \in Topics : Mentions(e, t) /\ advertised'[t] = Value(e, t)
    BY <2>1 DEF Mentions, Value
  <2> QED
    BY <1>1, <1>3, <2>1, <2>2, CatalogOnEvent
<1> QED
  BY <1>4, <1>5, <1>6, <1>7

(* The socket opens: the opt-in and the request for the catalog are sent.  A
   source that has adopted the dialog's connection has sent them already. *)
LEMMA CatalogOnOpen ==
  ASSUME TypeOK, CatalogInv, HandleOpen
  PROVE  CatalogInv'
<1>1. /\ pc = "pump" /\ batch # <<>> /\ batch' = Tail(batch) /\ Head(batch).k = "open"
      /\ UNCHANGED <<conn, inbox, srvCatalog, srvUpdates, srvNewer, running, demand, advertised, fatal>>
  BY DEF HandleOpen, Handles, srvVars, hostVars
<1>2. CASE phase = "connecting"
  <2>1. sendText(DiscoveryRequests(demand, selected, nextId))
    BY <1>2 DEF HandleOpen
  <2>2. demand /\ isOpen => OptsInFirst(toServer)'
    <3>1. demand /\ isOpen => toServer' = toServer \o <<[c |-> "updates"], FullGet>>
      BY <2>1 DEF sendText, DiscoveryRequests, FullGet
    <3>2. toServer \in Seq(Command)
      BY DEF TypeOK, SessionTypeOK
    <3> QED
      BY <3>1, <3>2, DiscoveryOptsIn
  <2> QED
    BY <1>1, <2>2 DEF CatalogInv, Asking, isOpen
<1>3. CASE phase # "connecting"
  <2>1. UNCHANGED <<phase, toServer>>
    BY <1>3 DEF HandleOpen
  <2>2. \A t : ~Mentions(Head(batch), t)
    BY <1>1 DEF Mentions
  <2> QED
    BY <1>1, <2>1, <2>2, CatalogOnEvent
<1> QED
  BY <1>2, <1>3

(* The stream starts, on the dialog's connection or on its own. *)
LEMMA CatalogOnStart ==
  ASSUME TypeOK, onStart
  PROVE  CatalogInv'
<1>1. PICK dem \in HostModes, sel \in Selections :
        /\ demand' = dem
        /\ \/ /\ dlg # "idle" /\ isOpen
              /\ sendText(DiscoveryRequests(dem, sel, nextId)
                            \o IF paused THEN <<[c |-> "pause"]>> ELSE <<>>)
              /\ UNCHANGED conn
           \/ phase' = "connecting"
  BY DEF onStart
<1>2. CASE phase' = "connecting"
  BY <1>2 DEF CatalogInv
<1>3. CASE /\ isOpen
           /\ sendText(DiscoveryRequests(dem, sel, nextId)
                         \o IF paused THEN <<[c |-> "pause"]>> ELSE <<>>)
  <2> SUFFICES ASSUME demand' PROVE OptsInFirst(toServer)'
    BY DEF CatalogInv, Asking
  <2> DEFINE d == <<[c |-> "updates"], FullGet>>
             f == IF paused THEN <<[c |-> "pause"]>> ELSE <<>>
  <2>1. DiscoveryRequests(dem, sel, nextId) = d
    BY <1>1 DEF DiscoveryRequests, FullGet
  <2>2. toServer' = toServer \o (d \o f)
    BY <1>3, <2>1 DEF sendText
  <2>3. toServer \in Seq(Command)
    BY DEF TypeOK, SessionTypeOK
  <2>4. f \in Seq(Command) /\ NoGet(f)
    BY OneWord, OneRequest
  <2>5. [c |-> "updates"] \in Command /\ FullGet \in Command
    BY DEF Command, FullGet
  <2>6. d \in Seq(Command)
    BY <2>5
  <2>7. OptsInFirst(toServer \o d) /\ toServer \o d \in Seq(Command)
    BY <2>3, <2>6, DiscoveryOptsIn
  <2> HIDE DEF d, f
  <2>8. toServer' = (toServer \o d) \o f
    BY <2>2, <2>3, <2>4, <2>6
  <2>9. OptsInFirst((toServer \o d) \o f)
    BY <2>4, <2>7, SendingKeepsAsking
  <2> QED
    BY <2>8, <2>9
<1> QED
  BY <1>1, <1>2, <1>3

(* A failure outlives the step unless the stream is stopped. *)
LEMMA FatalStays ==
  ASSUME PollTail, fatal # None
  PROVE  fatal' # None
BY DEF PollTail, failConnection, fail, linkVars

(* Before the first stream nothing is asked. *)
LEMMA CatalogInit == Init => CatalogInv
BY DEF Init, CatalogInv

(* Every step keeps CatalogInv. *)
LEMMA CatalogStep ==
  ASSUME TypeOK, ControlInv, LinkInv, CatalogInv, [Next]_vars
  PROVE  CatalogInv'
<1>1. CASE Environment
  <2>1. UNCHANGED <<running, demand, phase, batch, advertised, fatal>>
    BY <1>1 DEF Environment, controlVars, linkVars, hostVars
  <2>2. CASE ConnOpen \/ ConnError \/ ConnClose
    <3>1. running => conn' # "open" \/ phase = "connecting"
      BY <2>2 DEF ConnOpen, ConnError, ConnClose, LinkInv
    <3> QED
      BY <2>1, <3>1 DEF CatalogInv, isOpen
  <2>3. CASE on_message
    BY <2>1, <2>3, CatalogOnMessage
  <2>4. CASE CatalogChange
    BY <2>1, <2>4, CatalogOnChange
  <2>5. CASE emit_loop
    BY <2>1, <2>5, CatalogOnFrame
  <2> QED
    BY <1>1, <2>2, <2>3, <2>4, <2>5 DEF Environment, SessionNext
<1>2. CASE DialogConnect \/ DialogTick \/ DialogRefresh \/ onStop
  <2>1. ~running'
    BY <1>2 DEF DialogConnect, DialogTick, DialogRefresh, onStop, hostVars
  <2> QED
    BY <2>1 DEF CatalogInv
<1>3. CASE onStart
  BY <1>3, CatalogOnStart
<1>4. CASE setActiveTopics \/ DeadlinePasses \/ UNCHANGED vars
  <2>1. /\ UNCHANGED <<running, demand, conn, srvUpdates, srvNewer, srvCatalog, batch, inbox, advertised>>
        /\ UNCHANGED <<phase, fatal, toServer>>
    BY <1>4 DEF setActiveTopics, DeadlinePasses, vars, sessionVars, srvVars, controlVars, linkVars, hostVars
  <2> QED
    BY <2>1, OneRequest, CatalogFrame
<1>5. CASE \E op \in {"pause", "resume"} : PauseResume(op)
  <2>1. PICK op \in {"pause", "resume"} : PauseResume(op)
    BY <1>5
  <2>2. /\ UNCHANGED <<running, demand, conn, srvUpdates, srvNewer, srvCatalog, batch, inbox, advertised>>
        /\ UNCHANGED <<phase, fatal>>
        /\ toServer' = toServer \o <<[c |-> op]>> \/ toServer' = toServer
    BY <2>1 DEF PauseResume, sendText, srvVars, controlVars, linkVars
  <2> QED
    BY <2>2, OneWord, CatalogFrame
<1>6. CASE SendRememberedPause
  <2>1. /\ UNCHANGED <<running, demand, conn, srvUpdates, srvNewer, srvCatalog, batch, inbox, advertised>>
        /\ UNCHANGED <<phase, fatal>>
        /\ toServer' = toServer \o <<[c |-> "pause"]>> \/ toServer' = toServer
    BY <1>6 DEF SendRememberedPause, sendText, srvVars, controlVars, linkVars, hostVars
  <2> QED
    BY <2>1, OneWord, CatalogFrame
<1>7. CASE PollBegin
  BY <1>7, CatalogOnDrain
<1>8. CASE HandleEvent
  BY <1>8, CatalogOnOpen, CatalogOnHandler DEF HandleEvent
<1>9. CASE PollTail
  <2>1. /\ UNCHANGED <<running, demand, conn, srvUpdates, srvNewer, srvCatalog, batch, inbox, advertised>>
        /\ phase = "connecting" => phase' = "connecting"
    BY <1>9 DEF PollTail, PollReturns, sessionVars, srvVars, controlVars, linkVars, hostVars
  <2>2. fatal # None => fatal' # None
    BY <1>9, FatalStays
  <2>3. \E f \in Seq(Command) : NoGet(f) /\ (toServer' = toServer \o f \/ toServer' = toServer)
    <3>1. CASE Readvertise
      <4>1. lastDesired \in SUBSET Topics /\ reconcileSubscriptions(lastDesired)
        BY <3>1 DEF Readvertise, TypeOK, ControlTypeOK
      <4> QED
        BY <4>1, ReconcileSends
    <3>2. CASE ~Readvertise
      <4>1. toServer' = toServer
        BY <1>9, <3>2 DEF PollTail, PollReturns, sessionVars
      <4> QED
        BY <4>1, OneRequest
    <3> QED
      BY <3>1, <3>2
  <2> QED
    BY <2>1, <2>2, <2>3, CatalogFrame
<1>10. CASE applyDesiredTopics
  <2>1. /\ UNCHANGED <<running, demand, conn, srvUpdates, srvNewer, srvCatalog, batch, inbox, advertised>>
        /\ UNCHANGED <<phase, fatal>>
    BY <1>10 DEF applyDesiredTopics, srvVars, linkVars
  <2>2. \E f \in Seq(Command) : NoGet(f) /\ (toServer' = toServer \o f \/ toServer' = toServer)
    <3>1. CASE slot = None
      <4>1. toServer' = toServer
        BY <1>10, <3>1 DEF applyDesiredTopics
      <4> QED
        BY <4>1, OneRequest
    <3>2. CASE slot # None
      <4>1. slot \in SUBSET Topics /\ reconcileSubscriptions(slot)
        BY <1>10, <3>2 DEF applyDesiredTopics, TypeOK, HostTypeOK
      <4> QED
        BY <4>1, ReconcileSends
    <3> QED
      BY <3>1, <3>2
  <2> QED
    BY <2>1, <2>2, CatalogFrame
<1> QED
  BY <1>1, <1>2, <1>3, <1>4, <1>5, <1>6, <1>7, <1>8, <1>9, <1>10 DEF Next, Host, onPoll

(* In every behaviour the source has asked for the catalog, will learn it from what
   is under way, or gives the server up. *)
THEOREM CatalogInvariant == Spec => [](LinkInv /\ CatalogInv)
<1>1. Init => LinkInv /\ CatalogInv
  BY LinkInit, CatalogInit
<1>2. TypeOK /\ ControlInv /\ (LinkInv /\ CatalogInv) /\ [Next]_vars => (LinkInv /\ CatalogInv)'
  BY LinkStep, CatalogStep
<1> QED
  BY <1>1, <1>2, TypeCorrect, ControlInvariant, PTL DEF Spec

(* The catalog of a source at rest is the server's, whatever changed while the
   connection was adopted or opened, the opt-in and the request for the catalog were
   under way and the poll was handling its batch (beginDiscovery sends the opt-in
   before the request). *)
THEOREM CatalogAgreesHolds == Spec => []CatalogAgrees
<1>1. LinkInv /\ CatalogInv => CatalogAgrees
  <2> SUFFICES ASSUME LinkInv, CatalogInv, Settled, NEW t \in Topics
               PROVE  advertised[t] = InfoOf(t, TRUE)
    BY DEF CatalogAgrees
  <2>1. batch = <<>> /\ inbox = <<>> /\ toServer = <<>> /\ fatal = None
    BY DEF Settled, Quiet, LinkInv
  <2>2. ~Asking /\ ~GivingUp
    BY <2>1 DEF Asking, GivingUp, OptsInFirst, AsksLast, HasNewer
  <2>3. Leads(<<>>, <<>>, advertised[t], t, InfoOf(t, TRUE))
    BY <2>1, <2>2 DEF CatalogInv, Told, Settled, Quiet
  <2>4. ~LastSays(<<>>, t, InfoOf(t, TRUE))
    BY DEF LastSays
  <2> QED
    BY <2>3, <2>4 DEF Leads
<1> QED
  BY <1>1, CatalogInvariant, PTL

(***************************************************************************)
(* Subscriptions.                                                          *)
(***************************************************************************)
(* A request, an answer and a frame about a topic. *)
Subscribes(m, t) == m.c = "subscribe" /\ t \in m.topics
Refuses(e, t, id) == e.k = "schemas" /\ t \in e.failures /\ e.id = id
Carries(e, t) == e.k = "data" /\ e.topic = t

NoAsk(s, t) == \A i \in 1..Len(s) : ~Subscribes(s[i], t)
NoFrame(s, t) == \A i \in 1..Len(s) : ~Carries(s[i], t)

(* The request with this id is the last one for t. *)
LastAsk(s, t, id) ==
  \A i, j \in 1..Len(s) : Subscribes(s[i], t) /\ s[i].id = id /\ Subscribes(s[j], t) => j <= i

(* The answer to it refuses t, and no frame of t follows it. *)
Refused(s, t, id) == \E i \in 1..Len(s) : Refuses(s[i], t, id)
RefusedLast(s, t, id) ==
  \A i, j \in 1..Len(s) : Refuses(s[i], t, id) /\ Carries(s[j], t) => j < i

AskedBelow(s, n) == \A i \in 1..Len(s) : s[i].c = "subscribe" => s[i].id < n
AnsweredBelow(s, n) == \A i \in 1..Len(s) : s[i].k = "schemas" => s[i].id < n

(* The server streams t no more and was not asked to. *)
Dead(t) == t \notin srvSubs /\ NoAsk(toServer, t)

(* An applied topic: once its latest request is refused, no frame of it is to come. *)
AppliedTopic(t, id) ==
  /\ LastAsk(toServer, t, id)
  /\ Refused(batch, t, id) \/ Refused(inbox, t, id) => Dead(t)
  /\ Refused(batch, t, id) => NoFrame(inbox, t)
  /\ RefusedLast(batch, t, id) /\ RefusedLast(inbox, t, id)

(* A topic that is not applied and kept its parser: no frame of it is to come. *)
SilentTopic(t) == Dead(t) /\ NoFrame(batch, t) /\ NoFrame(inbox, t)

TopicInv(t) ==
  /\ t \in applied => lastSubId[t] # 0 /\ AppliedTopic(t, lastSubId[t])
  /\ t \notin applied /\ bindings[t] # None => SilentTopic(t)

IdsInv ==
  AskedBelow(toServer, nextId) /\ AnsweredBelow(batch, nextId) /\ AnsweredBelow(inbox, nextId)

(* Nothing of a subscription outlives its stream; the dialog asks for catalogs only. *)
IdleInv ==
  ~running => /\ ~demand /\ \A t \in Topics : bindings[t] = None
              /\ \A i \in 1..Len(toServer) : toServer[i].c = "get_topics"
              /\ \A i \in 1..Len(inbox) : inbox[i].k # "schemas"

SubscriptionInv == IdleInv /\ (demand => IdsInv /\ \A t \in Topics : TopicInv(t))

(* Requests are sent: nothing changes for a topic they do not subscribe. *)
LEMMA SendingKeepsAsks ==
  ASSUME NEW s \in Seq(Command), NEW f \in Seq(Command)
  PROVE  /\ \A t : NoAsk(s, t) /\ NoAsk(f, t) => NoAsk(s \o f, t)
         /\ \A t, id : LastAsk(s, t, id) /\ NoAsk(f, t) => LastAsk(s \o f, t, id)
         /\ \A n : AskedBelow(s, n) /\ AskedBelow(f, n) => AskedBelow(s \o f, n)
<1> DEFINE u == s \o f
<1>1. /\ Len(s) \in Nat /\ Len(f) \in Nat /\ Len(u) = Len(s) + Len(f)
      /\ \A i \in 1..Len(s) : u[i] = s[i]
      /\ \A i \in 1..Len(u) : i > Len(s) => u[i] = f[i - Len(s)]
  OBVIOUS
<1> HIDE DEF u
<1>2. \A i \in 1..Len(u) : \/ i \in 1..Len(s) /\ u[i] = s[i]
                           \/ i - Len(s) \in 1..Len(f) /\ u[i] = f[i - Len(s)]
  BY <1>1
<1>3. ASSUME NEW t, NoAsk(s, t), NoAsk(f, t) PROVE NoAsk(u, t)
  BY <1>2, <1>3 DEF NoAsk
<1>4. ASSUME NEW t, NEW id, LastAsk(s, t, id), NoAsk(f, t) PROVE LastAsk(u, t, id)
  <2>1. \A i \in 1..Len(u) : Subscribes(u[i], t) => i \in 1..Len(s) /\ u[i] = s[i]
    BY <1>2, <1>4 DEF NoAsk
  <2> QED
    BY <1>4, <2>1 DEF LastAsk
<1>5. ASSUME NEW n, AskedBelow(s, n), AskedBelow(f, n) PROVE AskedBelow(u, n)
  BY <1>2, <1>5 DEF AskedBelow
<1> QED
  BY <1>3, <1>4, <1>5 DEF u

(* The server takes the first request. *)
LEMMA TakingAnAsk ==
  ASSUME NEW s \in Seq(Command), s # <<>>
  PROVE  /\ \A t : NoAsk(s, t) => ~Subscribes(Head(s), t) /\ NoAsk(Tail(s), t)
         /\ \A t, id : LastAsk(s, t, id) => LastAsk(Tail(s), t, id)
         /\ \A t, id : LastAsk(s, t, id) /\ Subscribes(Head(s), t) /\ Head(s).id = id
                         => NoAsk(Tail(s), t)
         /\ \A n : AskedBelow(s, n) => AskedBelow(Tail(s), n) /\ (Head(s).c = "subscribe" => Head(s).id < n)
<1> DEFINE u == Tail(s)
<1>1. /\ Len(s) \in Nat \ {0} /\ Len(u) = Len(s) - 1 /\ Head(s) = s[1]
      /\ \A i \in 1..Len(u) : u[i] = s[i + 1]
  OBVIOUS
<1> HIDE DEF u
<1>2. 1 \in 1..Len(s) /\ \A i \in 1..Len(u) : i \in Nat /\ i + 1 \in 1..Len(s) /\ i + 1 > 1
  BY <1>1
<1>3. ASSUME NEW t, NoAsk(s, t) PROVE ~Subscribes(Head(s), t) /\ NoAsk(u, t)
  BY <1>1, <1>2, <1>3 DEF NoAsk
<1>4. ASSUME NEW t, NEW id, LastAsk(s, t, id) PROVE LastAsk(u, t, id)
  <2> SUFFICES ASSUME NEW i \in 1..Len(u), NEW j \in 1..Len(u),
                      Subscribes(u[i], t), u[i].id = id, Subscribes(u[j], t)
               PROVE  j <= i
    BY DEF LastAsk
  <2>1. j + 1 <= i + 1
    BY <1>1, <1>2, <1>4 DEF LastAsk
  <2> QED
    BY <1>2, <2>1
<1>5. ASSUME NEW t, NEW id, LastAsk(s, t, id), Subscribes(Head(s), t), Head(s).id = id
      PROVE  NoAsk(u, t)
  <2> SUFFICES ASSUME NEW j \in 1..Len(u), Subscribes(u[j], t) PROVE FALSE
    BY DEF NoAsk
  <2>1. j + 1 <= 1
    BY <1>1, <1>2, <1>5 DEF LastAsk
  <2> QED
    BY <1>2, <2>1
<1>6. ASSUME NEW n, AskedBelow(s, n)
      PROVE  AskedBelow(u, n) /\ (Head(s).c = "subscribe" => Head(s).id < n)
  BY <1>1, <1>2, <1>6 DEF AskedBelow
<1> QED
  BY <1>3, <1>4, <1>5, <1>6 DEF u

(* An event arrives. *)
LEMMA ArrivalFacts ==
  ASSUME NEW s \in Seq(Event), NEW e \in Event
  PROVE  /\ \A t : NoFrame(s, t) /\ ~Carries(e, t) => NoFrame(Append(s, e), t)
         /\ \A t, id : Refused(Append(s, e), t, id) => Refused(s, t, id) \/ Refuses(e, t, id)
         /\ \A t, id : RefusedLast(s, t, id) /\ (Carries(e, t) => ~Refused(s, t, id))
                         => RefusedLast(Append(s, e), t, id)
         /\ \A n : AnsweredBelow(s, n) /\ (e.k = "schemas" => e.id < n)
                     => AnsweredBelow(Append(s, e), n)
<1> DEFINE u == Append(s, e)
<1>1. /\ Len(s) \in Nat /\ Len(u) = Len(s) + 1 /\ u[Len(s) + 1] = e
      /\ \A i \in 1..Len(s) : u[i] = s[i]
  OBVIOUS
<1> HIDE DEF u
<1>2. \A i \in 1..Len(u) : \/ i \in 1..Len(s) /\ u[i] = s[i]
                           \/ i = Len(s) + 1 /\ u[i] = e
  BY <1>1
<1>3. ASSUME NEW t, NoFrame(s, t), ~Carries(e, t) PROVE NoFrame(u, t)
  BY <1>2, <1>3 DEF NoFrame
<1>4. ASSUME NEW t, NEW id, Refused(u, t, id) PROVE Refused(s, t, id) \/ Refuses(e, t, id)
  BY <1>2, <1>4 DEF Refused
<1>5. ASSUME NEW t, NEW id, RefusedLast(s, t, id), Carries(e, t) => ~Refused(s, t, id)
      PROVE  RefusedLast(u, t, id)
  <2> SUFFICES ASSUME NEW i \in 1..Len(u), NEW j \in 1..Len(u), Refuses(u[i], t, id), Carries(u[j], t)
               PROVE  j < i
    BY DEF RefusedLast
  <2>1. CASE i \in 1..Len(s) /\ u[i] = s[i] /\ j \in 1..Len(s) /\ u[j] = s[j]
    BY <1>5, <2>1 DEF RefusedLast
  <2>2. CASE i \in 1..Len(s) /\ u[i] = s[i] /\ u[j] = e
    BY <1>5, <2>2 DEF Refused
  <2>3. CASE i = Len(s) + 1 /\ u[i] = e /\ j \in 1..Len(s)
    BY <1>1, <2>3
  <2>4. CASE u[i] = e /\ u[j] = e
    BY <2>4 DEF Refuses, Carries
  <2> QED
    BY <1>2, <2>1, <2>2, <2>3, <2>4
<1>6. ASSUME NEW n, AnsweredBelow(s, n), e.k = "schemas" => e.id < n PROVE AnsweredBelow(u, n)
  BY <1>2, <1>6 DEF AnsweredBelow
<1> QED
  BY <1>3, <1>4, <1>5, <1>6 DEF u

(* The first event is handled; a refusal at the head has no frame behind it. *)
LEMMA HandlingFacts ==
  ASSUME NEW s \in Seq(Event), s # <<>>
  PROVE  /\ \A t : NoFrame(s, t) => ~Carries(Head(s), t) /\ NoFrame(Tail(s), t)
         /\ \A t, id : Refused(Tail(s), t, id) => Refused(s, t, id)
         /\ \A t, id : RefusedLast(s, t, id) => RefusedLast(Tail(s), t, id)
         /\ \A t, id : Refuses(Head(s), t, id) => Refused(s, t, id)
         /\ \A t, id : RefusedLast(s, t, id) /\ Refuses(Head(s), t, id) => NoFrame(Tail(s), t)
         /\ \A n : AnsweredBelow(s, n) => AnsweredBelow(Tail(s), n)
<1> DEFINE u == Tail(s)
<1>1. /\ Len(s) \in Nat \ {0} /\ Len(u) = Len(s) - 1 /\ Head(s) = s[1]
      /\ \A i \in 1..Len(u) : u[i] = s[i + 1]
  OBVIOUS
<1> HIDE DEF u
<1>2. 1 \in 1..Len(s) /\ \A i \in 1..Len(u) : i \in Nat /\ i + 1 \in 1..Len(s) /\ ~(i + 1 < 1)
  BY <1>1
<1>3. ASSUME NEW t, NoFrame(s, t) PROVE ~Carries(Head(s), t) /\ NoFrame(u, t)
  BY <1>1, <1>2, <1>3 DEF NoFrame
<1>4. ASSUME NEW t, NEW id, Refused(u, t, id) PROVE Refused(s, t, id)
  BY <1>1, <1>2, <1>4 DEF Refused
<1>5. ASSUME NEW t, NEW id, RefusedLast(s, t, id) PROVE RefusedLast(u, t, id)
  <2> SUFFICES ASSUME NEW i \in 1..Len(u), NEW j \in 1..Len(u), Refuses(u[i], t, id), Carries(u[j], t)
               PROVE  j < i
    BY DEF RefusedLast
  <2>1. j + 1 < i + 1
    BY <1>1, <1>2, <1>5 DEF RefusedLast
  <2> QED
    BY <1>2, <2>1
<1>6. ASSUME NEW t, NEW id, Refuses(Head(s), t, id) PROVE Refused(s, t, id)
  BY <1>1, <1>2, <1>6 DEF Refused
<1>7. ASSUME NEW t, NEW id, RefusedLast(s, t, id), Refuses(Head(s), t, id) PROVE NoFrame(u, t)
  BY <1>1, <1>2, <1>7 DEF RefusedLast, NoFrame
<1>8. ASSUME NEW n, AnsweredBelow(s, n) PROVE AnsweredBelow(u, n)
  BY <1>1, <1>2, <1>8 DEF AnsweredBelow
<1> QED
  BY <1>3, <1>4, <1>5, <1>6, <1>7, <1>8 DEF u

(* An empty channel. *)
LEMMA NothingUnderWay ==
  /\ \A t : NoAsk(<<>>, t) /\ NoFrame(<<>>, t)
  /\ \A t, id : LastAsk(<<>>, t, id) /\ RefusedLast(<<>>, t, id) /\ ~Refused(<<>>, t, id)
  /\ \A n : AskedBelow(<<>>, n) /\ AnsweredBelow(<<>>, n)
BY DEF NoAsk, NoFrame, LastAsk, RefusedLast, Refused, AskedBelow, AnsweredBelow

(* Request ids only grow. *)
LEMMA IdsGrow ==
  ASSUME NEW n \in Nat, NEW m \in Nat, n <= m
  PROVE  /\ \A s \in Seq(Command) : AskedBelow(s, n) => AskedBelow(s, m)
         /\ \A s \in Seq(Event) : AnsweredBelow(s, n) => AnsweredBelow(s, m)
<1>1. \A x \in Nat : x < n => x < m
  OBVIOUS
<1>2. \A x \in Command : x.c = "subscribe" => x.id \in Nat
  BY DEF Command
<1>3. \A x \in Event : x.k = "schemas" => x.id \in Nat
  BY DEF Event
<1>4. ASSUME NEW s \in Seq(Command), AskedBelow(s, n) PROVE AskedBelow(s, m)
  <2>1. \A i \in 1..Len(s) : s[i] \in Command
    OBVIOUS
  <2> QED
    BY <1>1, <1>2, <1>4, <2>1 DEF AskedBelow
<1>5. ASSUME NEW s \in Seq(Event), AnsweredBelow(s, n) PROVE AnsweredBelow(s, m)
  <2>1. \A i \in 1..Len(s) : s[i] \in Event
    OBVIOUS
  <2> QED
    BY <1>1, <1>3, <1>5, <2>1 DEF AnsweredBelow
<1> QED
  BY <1>4, <1>5

(* A request under a fresh id is the last of its topics, and nobody refused it. *)
LEMMA FreshAsk ==
  ASSUME NEW n \in Nat, NEW t
  PROVE  /\ \A s \in Seq(Command), m \in Command :
              AskedBelow(s, n) => LastAsk(s, t, n) /\ (m.id = n => LastAsk(Append(s, m), t, n))
         /\ \A s \in Seq(Event) : AnsweredBelow(s, n) => ~Refused(s, t, n) /\ RefusedLast(s, t, n)
<1>1. ASSUME NEW s \in Seq(Event), AnsweredBelow(s, n)
      PROVE  ~Refused(s, t, n) /\ RefusedLast(s, t, n)
  <2>1. \A i \in 1..Len(s) : s[i].k = "schemas" => s[i].id # n
    BY <1>1 DEF AnsweredBelow
  <2> QED
    BY <2>1 DEF Refused, RefusedLast, Refuses
<1>2. ASSUME NEW s \in Seq(Command), AskedBelow(s, n), NEW m \in Command
      PROVE  LastAsk(s, t, n) /\ (m.id = n => LastAsk(Append(s, m), t, n))
  <2>1. \A i \in 1..Len(s) : s[i].c = "subscribe" => s[i].id # n
    BY <1>2 DEF AskedBelow
  <2>2. LastAsk(s, t, n)
    BY <2>1 DEF LastAsk, Subscribes
  <2> DEFINE u == Append(s, m)
  <2>3. Len(u) = Len(s) + 1 /\ Len(s) \in Nat /\ \A i \in 1..Len(s) : u[i] = s[i]
    OBVIOUS
  <2> HIDE DEF u
  <2>4. \A i \in 1..Len(u) : Subscribes(u[i], t) /\ u[i].id = n => ~(i \in 1..Len(s))
    BY <2>1, <2>3 DEF Subscribes
  <2>5. \A i, j \in 1..Len(u) : ~(i \in 1..Len(s)) => j <= i
    BY <2>3
  <2>6. LastAsk(u, t, n)
    BY <2>4, <2>5 DEF LastAsk
  <2> QED
    BY <2>2, <2>6 DEF u
<1> QED
  BY <1>1, <1>2

(* Requests and events under way change: what TopicInv needs of it. *)
LEMMA TopicUnderWay ==
  ASSUME TypeOK, NEW t \in Topics, TopicInv(t),
         UNCHANGED <<batch, applied, bindings, lastSubId>>,
         LastAsk(toServer, t, lastSubId[t]) => LastAsk(toServer', t, lastSubId[t]),
         Dead(t) => Dead(t)',
         \/ inbox' = inbox
         \/ \E e \in Event : /\ inbox' = Append(inbox, e)
                             /\ Carries(e, t) => ~Dead(t)
                             /\ Refuses(e, t, lastSubId[t]) /\ LastAsk(toServer, t, lastSubId[t])
                                  => Dead(t)'
  PROVE  TopicInv(t)'
<1> DEFINE id == lastSubId[t]
<1>1. inbox \in Seq(Event)
  BY DEF TypeOK, SessionTypeOK
<1>2. /\ NoFrame(inbox, t) /\ Dead(t) => NoFrame(inbox', t)
      /\ LastAsk(toServer, t, id) /\ Refused(inbox', t, id) => Refused(inbox, t, id) \/ Dead(t)'
      /\ RefusedLast(inbox, t, id) /\ (Refused(inbox, t, id) => Dead(t)) => RefusedLast(inbox', t, id)
  <2>1. CASE inbox' = inbox
    BY <2>1
  <2>2. CASE inbox' # inbox
    <3>1. PICK e \in Event : /\ inbox' = Append(inbox, e)
                             /\ Carries(e, t) => ~Dead(t)
                             /\ Refuses(e, t, id) /\ LastAsk(toServer, t, id) => Dead(t)'
      BY <2>2
    <3>2. /\ NoFrame(inbox, t) /\ ~Carries(e, t) => NoFrame(Append(inbox, e), t)
          /\ Refused(Append(inbox, e), t, id) => Refused(inbox, t, id) \/ Refuses(e, t, id)
          /\ RefusedLast(inbox, t, id) /\ (Carries(e, t) => ~Refused(inbox, t, id))
               => RefusedLast(Append(inbox, e), t, id)
      BY <1>1, ArrivalFacts
    <3> QED
      BY <3>1, <3>2
  <2> QED
    BY <2>1, <2>2
<1>3. CASE t \in applied
  <2>1. id # 0 /\ AppliedTopic(t, id)
    BY <1>3 DEF TopicInv
  <2>2. LastAsk(toServer', t, id)
    BY <2>1 DEF AppliedTopic
  <2>3. Refused(batch, t, id) \/ Refused(inbox', t, id) => Dead(t)'
    BY <1>2, <2>1 DEF AppliedTopic
  <2>4. Refused(batch, t, id) => NoFrame(inbox', t)
    BY <1>2, <2>1 DEF AppliedTopic
  <2>5. RefusedLast(batch, t, id) /\ RefusedLast(inbox', t, id)
    BY <1>2, <2>1 DEF AppliedTopic
  <2>6. AppliedTopic(t, id)'
    BY <2>2, <2>3, <2>4, <2>5 DEF AppliedTopic
  <2> QED
    BY <1>3, <2>1, <2>6 DEF TopicInv
<1>4. CASE t \notin applied
  <2>1. bindings[t] # None => SilentTopic(t)
    BY <1>4 DEF TopicInv
  <2>2. SilentTopic(t) => SilentTopic(t)'
    BY <1>2 DEF SilentTopic
  <2> QED
    BY <1>4, <2>1, <2>2 DEF TopicInv
<1> QED
  BY <1>3, <1>4

(* An event is handled: a topic leaves the applied set by losing its parser, or
   because its latest request was refused. *)
LEMMA TopicHandled ==
  ASSUME TypeOK, NEW t \in Topics, TopicInv(t),
         batch # <<>>, batch' = Tail(batch), UNCHANGED inbox,
         LastAsk(toServer, t, lastSubId[t]) => LastAsk(toServer', t, lastSubId[t]),
         Dead(t) => Dead(t)',
         t \in applied' => t \in applied /\ lastSubId'[t] = lastSubId[t],
         t \notin applied' /\ bindings'[t] # None =>
           \/ t \notin applied /\ bindings[t] # None
           \/ t \in applied /\ Refuses(Head(batch), t, lastSubId[t])
  PROVE  TopicInv(t)'
<1> DEFINE id == lastSubId[t]
<1>1. batch \in Seq(Event)
  BY DEF TypeOK, PollTypeOK
<1>2. /\ NoFrame(batch, t) => NoFrame(batch', t)
      /\ Refused(batch', t, id) => Refused(batch, t, id)
      /\ RefusedLast(batch, t, id) => RefusedLast(batch', t, id)
      /\ Refuses(Head(batch), t, id) => Refused(batch, t, id)
      /\ RefusedLast(batch, t, id) /\ Refuses(Head(batch), t, id) => NoFrame(batch', t)
  BY <1>1, HandlingFacts
<1>3. CASE t \in applied'
  <2>1. t \in applied /\ lastSubId'[t] = id /\ id # 0 /\ AppliedTopic(t, id)
    BY <1>3 DEF TopicInv
  <2>2. AppliedTopic(t, id)'
    BY <1>2, <2>1 DEF AppliedTopic
  <2>3. AppliedTopic(t, lastSubId[t])'
    BY <2>1, <2>2 DEF AppliedTopic
  <2> QED
    BY <1>3, <2>1, <2>3 DEF TopicInv
<1>4. CASE t \notin applied' /\ bindings'[t] # None
  <2>1. CASE t \notin applied /\ bindings[t] # None
    BY <1>2, <1>4, <2>1 DEF TopicInv, SilentTopic
  <2>2. CASE t \in applied /\ Refuses(Head(batch), t, id)
    <3>1. AppliedTopic(t, id) /\ Refused(batch, t, id)
      BY <1>2, <2>2 DEF TopicInv
    <3>2. Dead(t) /\ NoFrame(inbox, t) /\ NoFrame(batch', t)
      BY <1>2, <2>2, <3>1 DEF AppliedTopic
    <3> QED
      BY <1>4, <3>2 DEF TopicInv, SilentTopic
  <2> QED
    BY <1>4, <2>1, <2>2
<1>5. CASE t \notin applied' /\ bindings'[t] = None
  BY <1>5 DEF TopicInv
<1> QED
  BY <1>3, <1>4, <1>5

(* What a change of the server's catalog brings to the source. *)
LEMMA ChangeBrings ==
  ASSUME TypeOK, CatalogChange
  PROVE  inbox' = inbox \/ \E e \in Event : inbox' = Append(inbox, e) /\ e.k \in {"newer", "changed"}
<1>1. PICK t \in Topics, ty \in Types \cup {None} :
        LET note == [k |-> "changed",
                     added |-> [u \in Topics |->
                                  IF u = t /\ ty # None
                                  THEN [ty |-> ty, full |-> ServerSchemas] ELSE None],
                     removed |-> IF ty = None THEN {t} ELSE {}]
        IN  IF conn = "open" /\ srvUpdates THEN Reply(note) ELSE UNCHANGED inbox
  BY DEF CatalogChange
<1> DEFINE note == [k |-> "changed",
                    added |-> [u \in Topics |->
                                 IF u = t /\ ty # None
                                 THEN [ty |-> ty, full |-> ServerSchemas] ELSE None],
                    removed |-> IF ty = None THEN {t} ELSE {}]
<1>2. note.added \in Catalog
  BY SessionAssumption DEF Catalog, TopicInfo
<1>3. note \in Event /\ note.k = "changed"
  BY <1>2 DEF Event
<1>4. Reply(note) \/ inbox' = inbox
  BY <1>1
<1> HIDE DEF note
<1>5. [k |-> "newer"] \in Event /\ [k |-> "newer"].k = "newer"
  BY DEF Event
<1> QED
  BY <1>3, <1>4, <1>5 DEF Reply

(* An event that is neither an answer to a subscribe nor a frame. *)
LEMMA OtherEvents ==
  /\ \A k \in {"open", "closed", "error", "newer"} : [k |-> k] \in Event
  /\ \A e, t, id : e.k \notin {"schemas", "data"} => ~Carries(e, t) /\ ~Refuses(e, t, id)
BY DEF Event, Carries, Refuses

(* What a step of the transport or the server does to what is under way: requests
   are taken in order, an answer has the id of the request taken and refuses only
   what the server does not stream from then on, a frame is of a topic it streams. *)
LEMMA SessionEffect ==
  ASSUME TypeOK, SessionNext
  PROVE  /\ \A t, id : LastAsk(toServer, t, id) => LastAsk(toServer', t, id)
         /\ \A t : Dead(t) => Dead(t)'
         /\ \A n : AskedBelow(toServer, n) => AskedBelow(toServer', n)
         /\ \/ inbox' = inbox
            \/ \E e \in Event :
                 /\ inbox' = Append(inbox, e)
                 /\ \A t : Carries(e, t) => ~Dead(t)
                 /\ \A t, id : Refuses(e, t, id) /\ LastAsk(toServer, t, id) => Dead(t)'
                 /\ e.k = "schemas" => /\ toServer # <<>> /\ Head(toServer).c = "subscribe"
                                       /\ e.id = Head(toServer).id
<1>1. toServer \in Seq(Command) /\ srvSubs \subseteq Topics /\ srvNewer \in BOOLEAN
  BY DEF TypeOK, SessionTypeOK
<1>2. CASE ConnOpen \/ ConnError
  <2>1. UNCHANGED <<toServer, srvSubs>> /\ \E k \in {"open", "error"} : inbox' = Append(inbox, [k |-> k])
    BY <1>2 DEF ConnOpen, ConnError, srvVars
  <2> QED
    BY <2>1, OtherEvents DEF Dead
<1>3. CASE ConnClose
  <2>1. toServer' = <<>> /\ srvSubs' = {} /\ inbox' = Append(inbox, [k |-> "closed"])
    BY <1>3 DEF ConnClose, NewSession
  <2>2. \A t : Dead(t)'
    BY <2>1, NothingUnderWay DEF Dead
  <2> QED
    BY <2>1, <2>2, OtherEvents, NothingUnderWay
<1>4. CASE on_message
  <2> DEFINE cmd == Head(toServer)
  <2>1. toServer # <<>> /\ toServer' = Tail(toServer) /\ cmd \in Command
    BY <1>1, <1>4 DEF on_message
  <2>2. /\ \A t : NoAsk(toServer, t) => ~Subscribes(cmd, t) /\ NoAsk(toServer', t)
        /\ \A t, id : LastAsk(toServer, t, id) => LastAsk(toServer', t, id)
        /\ \A t, id : LastAsk(toServer, t, id) /\ Subscribes(cmd, t) /\ cmd.id = id => NoAsk(toServer', t)
        /\ \A n : AskedBelow(toServer, n) => AskedBelow(toServer', n)
    BY <1>1, <2>1, TakingAnAsk
  <2>3. /\ cmd.c = "subscribe" =>
             srvSubs' = srvSubs \cup {t \in cmd.topics \ srvSubs : srvCatalog[t] # None}
        /\ cmd.c # "subscribe" => srvSubs' \subseteq srvSubs
    BY <1>4, Answers
  <2>4. \A t : Dead(t) => Dead(t)'
    BY <2>2, <2>3 DEF Dead, Subscribes
  <2>5. CASE srvNewer
    <3>1. inbox' = Append(inbox, [k |-> "newer"])
      BY <1>4, <2>5, Answers
    <3> QED
      BY <2>2, <2>4, <3>1, OtherEvents
  <2>6. CASE ~srvNewer /\ cmd.c = "get_topics"
    <3>1. PICK e \in Event : inbox' = Append(inbox, e) /\ e.k = "topics"
      BY <1>4, <2>6, Answers
    <3> QED
      BY <2>2, <2>4, <3>1, OtherEvents
  <2>7. CASE ~srvNewer /\ cmd.c = "subscribe"
    <3>1. PICK e \in Event :
            /\ inbox' = Append(inbox, e) /\ e.k = "schemas" /\ e.id = cmd.id
            /\ e.failures = {t \in cmd.topics \ srvSubs : srvCatalog[t] = None}
      BY <1>4, <2>7, Answers
    <3>2. \A t : ~Carries(e, t)
      BY <3>1 DEF Carries
    <3>3. ASSUME NEW t, NEW id, Refuses(e, t, id), LastAsk(toServer, t, id)
          PROVE  Dead(t)'
      <4>1. Subscribes(cmd, t) /\ cmd.id = id /\ t \notin srvSubs /\ srvCatalog[t] = None
        BY <2>7, <3>1, <3>3 DEF Refuses, Subscribes
      <4>2. t \notin srvSubs' /\ NoAsk(toServer', t)
        BY <2>2, <2>3, <2>7, <3>3, <4>1
      <4> QED
        BY <4>2 DEF Dead
    <3> QED
      BY <2>1, <2>2, <2>4, <2>7, <3>1, <3>2, <3>3
  <2>8. CASE ~srvNewer /\ cmd.c \notin {"get_topics", "subscribe"}
    <3>1. inbox' = inbox
      BY <1>4, <2>8, Answers
    <3> QED
      BY <2>2, <2>4, <3>1
  <2> QED
    BY <2>5, <2>6, <2>7, <2>8
<1>5. CASE CatalogChange
  <2>1. UNCHANGED <<toServer, srvSubs>>
    BY <1>5 DEF CatalogChange, srvVars
  <2>2. inbox' = inbox \/ \E e \in Event : inbox' = Append(inbox, e) /\ e.k \in {"newer", "changed"}
    BY <1>5, ChangeBrings
  <2> QED
    BY <2>1, <2>2, OtherEvents DEF Dead
<1>6. CASE emit_loop
  <2>1. PICK t \in srvSubs :
          /\ srvCatalog[t] # None
          /\ inbox' = Append(inbox, [k |-> "data", topic |-> t, ty |-> srvCatalog[t]])
    BY <1>6 DEF emit_loop
  <2>2. UNCHANGED <<toServer, srvSubs>>
    BY <1>6 DEF emit_loop, srvVars
  <2> DEFINE e == [k |-> "data", topic |-> t, ty |-> srvCatalog[t]]
  <2>3. e \in Event /\ e.k = "data" /\ e.topic = t
    BY <2>1 DEF TypeOK, SessionTypeOK, Event
  <2>4. inbox' = Append(inbox, e)
    BY <2>1
  <2> HIDE DEF e
  <2>5. \A u : Carries(e, u) => ~Dead(u)
    BY <2>3 DEF Carries, Dead
  <2>6. \A u, id : ~Refuses(e, u, id)
    BY <2>3 DEF Refuses
  <2> QED
    BY <2>2, <2>3, <2>4, <2>5, <2>6 DEF Dead
<1> QED
  BY <1>2, <1>3, <1>4, <1>5, <1>6 DEF SessionNext

(* The transport or the server takes a step. *)
LEMMA SubscriptionOnSession ==
  ASSUME TypeOK, LinkInv, SubscriptionInv, Environment
  PROVE  SubscriptionInv'
<1>1. SessionNext /\ UNCHANGED <<batch, applied, bindings, lastSubId, nextId, running, demand>>
  BY DEF Environment, controlVars, linkVars, hostVars
<1>2. inbox \in Seq(Event) /\ toServer \in Seq(Command)
  BY DEF TypeOK, SessionTypeOK
<1>3. IdleInv'
  <2> SUFFICES ASSUME ~running
               PROVE  /\ \A i \in 1..Len(toServer') : toServer'[i].c = "get_topics"
                      /\ \A i \in 1..Len(inbox') : inbox'[i].k # "schemas"
    BY <1>1 DEF IdleInv, SubscriptionInv
  <2>1. /\ \A i \in 1..Len(toServer) : toServer[i].c = "get_topics"
        /\ \A i \in 1..Len(inbox) : inbox[i].k # "schemas"
    BY DEF IdleInv, SubscriptionInv
  <2>2. toServer' = toServer \/ toServer' = <<>> \/ (toServer # <<>> /\ toServer' = Tail(toServer))
    BY <1>1 DEF SessionNext, ConnOpen, ConnError, ConnClose, on_message, CatalogChange, emit_loop
  <2>3. \A i \in 1..Len(toServer') : toServer'[i].c = "get_topics"
    <3>1. CASE toServer # <<>> /\ toServer' = Tail(toServer)
      <4>1. /\ Len(toServer) \in Nat /\ Len(toServer') = Len(toServer) - 1
            /\ \A i \in 1..Len(toServer') : toServer'[i] = toServer[i + 1]
        BY <1>2, <3>1
      <4> QED
        BY <2>1, <4>1
    <3> QED
      BY <2>1, <2>2, <3>1
  <2>4. toServer # <<>> => Head(toServer).c = "get_topics"
    <3>1. toServer # <<>> => Head(toServer) = toServer[1] /\ 1 \in 1..Len(toServer)
      BY <1>2
    <3> QED
      BY <2>1, <3>1
  <2>5. inbox' = inbox \/ \E e \in Event : inbox' = Append(inbox, e) /\ e.k # "schemas"
    BY <1>1, <2>4, SessionEffect
  <2>6. \A i \in 1..Len(inbox') : inbox'[i].k # "schemas"
    <3>1. CASE inbox' # inbox
      <4>1. PICK e \in Event : inbox' = Append(inbox, e) /\ e.k # "schemas"
        BY <2>5, <3>1
      <4>2. /\ Len(inbox) \in Nat /\ Len(inbox') = Len(inbox) + 1 /\ inbox'[Len(inbox) + 1] = e
            /\ \A i \in 1..Len(inbox) : inbox'[i] = inbox[i]
        BY <1>2, <4>1
      <4> QED
        BY <2>1, <4>1, <4>2
    <3> QED
      BY <2>1, <3>1
  <2> QED
    BY <2>3, <2>6
<1>4. ASSUME demand PROVE IdsInv'
  <2>1. IdsInv
    BY <1>4 DEF SubscriptionInv
  <2>2. AskedBelow(toServer', nextId)
    BY <1>1, <2>1, SessionEffect DEF IdsInv
  <2>3. AnsweredBelow(inbox', nextId)
    <3>1. CASE inbox' = inbox
      BY <2>1, <3>1 DEF IdsInv
    <3>2. CASE inbox' # inbox
      <4>1. PICK e \in Event :
              /\ inbox' = Append(inbox, e)
              /\ e.k = "schemas" => /\ toServer # <<>> /\ Head(toServer).c = "subscribe"
                                    /\ e.id = Head(toServer).id
        BY <1>1, <3>2, SessionEffect
      <4>2. e.k = "schemas" => e.id < nextId
        BY <1>2, <2>1, <4>1, TakingAnAsk DEF IdsInv
      <4> QED
        BY <1>2, <2>1, <4>1, <4>2, ArrivalFacts DEF IdsInv
    <3> QED
      BY <3>1, <3>2
  <2> QED
    BY <1>1, <2>1, <2>2, <2>3 DEF IdsInv
<1>5. ASSUME demand, NEW t \in Topics PROVE TopicInv(t)'
  <2>1. TopicInv(t)
    BY <1>5 DEF SubscriptionInv
  <2>2. /\ LastAsk(toServer, t, lastSubId[t]) => LastAsk(toServer', t, lastSubId[t])
        /\ Dead(t) => Dead(t)'
        /\ \/ inbox' = inbox
           \/ \E e \in Event : /\ inbox' = Append(inbox, e)
                               /\ Carries(e, t) => ~Dead(t)
                               /\ Refuses(e, t, lastSubId[t]) /\ LastAsk(toServer, t, lastSubId[t])
                                    => Dead(t)'
    BY <1>1, SessionEffect
  <2> QED
    BY <1>1, <2>1, <2>2, TopicUnderWay
<1> QED
  BY <1>1, <1>3, <1>4, <1>5 DEF SubscriptionInv

(* Only requests that subscribe nothing are sent, or none. *)
LEMMA HarmlessSend ==
  ASSUME TypeOK, NEW f \in Seq(Command), \A i \in 1..Len(f) : f[i].c # "subscribe",
         toServer' = toServer \o f \/ toServer' = toServer, UNCHANGED srvSubs
  PROVE  /\ \A t : Dead(t) => Dead(t)'
         /\ \A t, id : LastAsk(toServer, t, id) => LastAsk(toServer', t, id)
         /\ \A n : AskedBelow(toServer, n) => AskedBelow(toServer', n)
         /\ toServer' \in Seq(Command)
<1>1. toServer \in Seq(Command)
  BY DEF TypeOK, SessionTypeOK
<1>2. (\A t : NoAsk(f, t)) /\ \A n : AskedBelow(f, n)
  BY DEF NoAsk, AskedBelow, Subscribes
<1>3. CASE toServer' = toServer
  BY <1>1, <1>3 DEF Dead
<1>4. CASE toServer' = toServer \o f
  <2>1. toServer \o f \in Seq(Command)
    BY <1>1
  <2>2. /\ \A t : NoAsk(toServer, t) => NoAsk(toServer \o f, t)
        /\ \A t, id : LastAsk(toServer, t, id) => LastAsk(toServer \o f, t, id)
        /\ \A n : AskedBelow(toServer, n) => AskedBelow(toServer \o f, n)
    BY <1>1, <1>2, SendingKeepsAsks
  <2>3. \A t : Dead(t) => Dead(t)'
    BY <1>4, <2>2 DEF Dead
  <2> QED
    BY <1>4, <2>1, <2>2, <2>3
<1> QED
  BY <1>3, <1>4

(* The ids stay below the next one when the channels gain no request and no answer. *)
LEMMA IdsStay ==
  ASSUME TypeOK, IdsInv, toServer' \in Seq(Command), \A n : AskedBelow(toServer, n) => AskedBelow(toServer', n),
         UNCHANGED inbox, batch' = batch \/ (batch # <<>> /\ batch' = Tail(batch)),
         nextId' = nextId \/ nextId' = nextId + 1
  PROVE  IdsInv'
<1>1. /\ inbox \in Seq(Event) /\ batch \in Seq(Event)
      /\ nextId \in Nat /\ nextId' \in Nat /\ nextId <= nextId'
  BY DEF TypeOK, SessionTypeOK, PollTypeOK, ControlTypeOK
<1>2. /\ AskedBelow(toServer', nextId) /\ AnsweredBelow(batch, nextId) /\ AnsweredBelow(inbox, nextId)
  BY DEF IdsInv
<1>3. AskedBelow(toServer', nextId') /\ AnsweredBelow(batch, nextId') /\ AnsweredBelow(inbox, nextId')
  BY <1>1, <1>2, IdsGrow
<1>4. AnsweredBelow(batch', nextId')
  BY <1>1, <1>3, HandlingFacts
<1> QED
  BY <1>3, <1>4 DEF IdsInv

(* Nothing is handled; only requests that subscribe nothing are sent. *)
LEMMA SubscriptionOnSend ==
  ASSUME TypeOK, SubscriptionInv, running, running', NEW f \in Seq(Command),
         \A i \in 1..Len(f) : f[i].c # "subscribe",
         toServer' = toServer \o f \/ toServer' = toServer,
         UNCHANGED <<demand, srvSubs, batch, inbox, applied, bindings, lastSubId, nextId>>
  PROVE  SubscriptionInv'
<1>1. /\ \A t : Dead(t) => Dead(t)'
      /\ \A t, id : LastAsk(toServer, t, id) => LastAsk(toServer', t, id)
      /\ \A n : AskedBelow(toServer, n) => AskedBelow(toServer', n)
      /\ toServer' \in Seq(Command)
  BY HarmlessSend
<1>2. ASSUME demand PROVE IdsInv'
  BY <1>1, <1>2, IdsStay DEF SubscriptionInv
<1>3. ASSUME demand, NEW t \in Topics PROVE TopicInv(t)'
  <2>1. TopicInv(t)
    BY <1>3 DEF SubscriptionInv
  <2> QED
    BY <1>1, <2>1, TopicUnderWay
<1> QED
  BY <1>2, <1>3 DEF SubscriptionInv, IdleInv

(* The poll drains the queue into its batch. *)
LEMMA SubscriptionOnDrain ==
  ASSUME TypeOK, LinkInv, SubscriptionInv, PollBegin
  PROVE  SubscriptionInv'
<1>1. /\ batch = <<>> /\ batch' = inbox /\ inbox' = <<>> /\ running /\ running'
      /\ UNCHANGED <<toServer, srvSubs, demand, applied, bindings, lastSubId, nextId>>
  BY DEF PollBegin, LinkInv, srvVars, controlVars, linkVars, hostVars
<1>2. ASSUME demand, NEW t \in Topics PROVE TopicInv(t)'
  <2>1. TopicInv(t) /\ (Dead(t) => Dead(t)')
    BY <1>1, <1>2 DEF SubscriptionInv, Dead
  <2>2. t \in applied => AppliedTopic(t, lastSubId[t])'
    BY <1>1, <2>1, NothingUnderWay DEF TopicInv, AppliedTopic
  <2>3. t \notin applied /\ bindings[t] # None => SilentTopic(t)'
    BY <1>1, <2>1, NothingUnderWay DEF TopicInv, SilentTopic
  <2> QED
    BY <1>1, <2>1, <2>2, <2>3 DEF TopicInv
<1>3. demand => IdsInv'
  BY <1>1, NothingUnderWay DEF SubscriptionInv, IdsInv
<1> QED
  BY <1>1, <1>2, <1>3 DEF SubscriptionInv, IdleInv

(* No request. *)
LEMMA NothingSent == <<>> \in Seq(Command) /\ \A i \in 1..Len(<<>>) : <<>>[i].c # "subscribe"
OBVIOUS

(* An event is handled, and perhaps answered by requests that subscribe nothing. *)
LEMMA SubscriptionOnEvent ==
  ASSUME TypeOK, SubscriptionInv, running, running', batch # <<>>, batch' = Tail(batch),
         NEW f \in Seq(Command),
         demand => \A i \in 1..Len(f) : f[i].c # "subscribe",
         toServer' = toServer \o f \/ toServer' = toServer,
         UNCHANGED <<demand, inbox, srvSubs>>,
         nextId' = nextId \/ nextId' = nextId + 1,
         demand => \A t \in Topics :
           /\ t \in applied' => t \in applied /\ lastSubId'[t] = lastSubId[t]
           /\ t \notin applied' /\ bindings'[t] # None =>
                \/ t \notin applied /\ bindings[t] # None
                \/ t \in applied /\ Refuses(Head(batch), t, lastSubId[t])
  PROVE  SubscriptionInv'
<1>1. CASE ~demand
  BY <1>1 DEF SubscriptionInv, IdleInv
<1>2. CASE demand
  <2>1. /\ \A t : Dead(t) => Dead(t)'
        /\ \A t, id : LastAsk(toServer, t, id) => LastAsk(toServer', t, id)
        /\ \A n : AskedBelow(toServer, n) => AskedBelow(toServer', n)
        /\ toServer' \in Seq(Command)
    BY <1>2, HarmlessSend
  <2>2. IdsInv'
    BY <1>2, <2>1, IdsStay DEF SubscriptionInv
  <2>3. ASSUME NEW t \in Topics PROVE TopicInv(t)'
    <3>1. TopicInv(t)
      BY <1>2 DEF SubscriptionInv
    <3>2. /\ t \in applied' => t \in applied /\ lastSubId'[t] = lastSubId[t]
          /\ t \notin applied' /\ bindings'[t] # None =>
               \/ t \notin applied /\ bindings[t] # None
               \/ t \in applied /\ Refuses(Head(batch), t, lastSubId[t])
      BY <1>2
    <3> QED
      BY <2>1, <3>1, <3>2, TopicHandled
  <2> QED
    BY <2>2, <2>3 DEF SubscriptionInv, IdleInv
<1> QED
  BY <1>1, <1>2 DEF TypeOK, LinkTypeOK

(* A subscribe response: it binds applied topics only, and takes a topic out of the
   applied set only when it answers the latest request for it. *)
LEMMA SubscriptionOnResponse ==
  ASSUME TypeOK, SubscriptionInv, running, handleSubscribeResponse
  PROVE  SubscriptionInv'
<1> DEFINE e == Head(batch)
           bound == {t \in Topics : e.schemas[t] # None /\ mayBind(t)}
<1>1. /\ batch # <<>> /\ batch' = Tail(batch) /\ e.k = "schemas" /\ running'
      /\ UNCHANGED <<demand, inbox, toServer, srvSubs, nextId, lastSubId>>
      /\ applied' = applied \ Rejected(e)
      /\ \A t \in Topics : t \notin bound => bindings'[t] = bindings[t]
  BY DEF handleSubscribeResponse, Handles, sessionVars, hostVars
<1>2. ASSUME demand, NEW t \in Topics
      PROVE  /\ t \in applied' => t \in applied /\ lastSubId'[t] = lastSubId[t]
             /\ t \notin applied' /\ bindings'[t] # None =>
                \/ t \notin applied /\ bindings[t] # None
                \/ t \in applied /\ Refuses(Head(batch), t, lastSubId[t])
  <2>1. t \in bound => t \in applied
    BY <1>2 DEF mayBind
  <2>2. t \notin bound => bindings'[t] = bindings[t]
    BY <1>1
  <2>3. t \in applied /\ t \in Rejected(e) => Refuses(e, t, lastSubId[t])
    <3>1. t \in applied => lastSubId[t] # 0
      BY <1>2 DEF SubscriptionInv, TopicInv
    <3> QED
      BY <1>1, <3>1 DEF Rejected, failureIsStale, Refuses
  <2> QED
    BY <1>1, <2>1, <2>2, <2>3
<1> QED
  BY <1>1, <1>2, NothingSent, SubscriptionOnEvent

(* A new catalog: a retyped topic loses its subscription and its parser. *)
LEMMA SubscriptionOnCatalog ==
  ASSUME TypeOK, SubscriptionInv, running, handleTopicsChanged \/ handleGetTopicsResponse
  PROVE  SubscriptionInv'
<1>1. PICK after :
        /\ NewCatalog(after) /\ batch # <<>> /\ batch' = Tail(batch) /\ running'
        /\ UNCHANGED <<demand, inbox, toServer, srvSubs, nextId>>
  BY DEF handleTopicsChanged, handleGetTopicsResponse, Handles, sessionVars, linkVars, hostVars
<1>2. CASE UNCHANGED <<applied, bindings, lastSubId>>
  BY <1>1, <1>2, NothingSent, SubscriptionOnEvent
<1>3. CASE \E gone : dropRetypedApplied(gone)
  <2>1. PICK gone : dropRetypedApplied(gone)
    BY <1>3
  <2>2. /\ applied' = applied \ gone
        /\ \A t \in Topics : /\ bindings'[t] = IF t \in gone THEN None ELSE bindings[t]
                             /\ lastSubId'[t] = IF t \in gone THEN 0 ELSE lastSubId[t]
    BY <2>1 DEF dropRetypedApplied, Erase
  <2> QED
    BY <1>1, <2>2, NothingSent, SubscriptionOnEvent
<1> QED
  BY <1>1, <1>2, <1>3 DEF NewCatalog

(* Reconciling: what it drops loses its parser, what it adds is asked for under a
   fresh id, and every other topic is left alone. *)
LEMMA SubscriptionOnReconcile ==
  ASSUME TypeOK, SubscriptionInv, running, running', batch = <<>>, NEW des \in SUBSET Topics,
         reconcileSubscriptions(des), UNCHANGED <<demand, batch, inbox, srvSubs>>
  PROVE  SubscriptionInv'
<1> DEFINE adv == filteredAdvertisedTopics(advertised, selected)
           drop == to_unsubscribe(applied, adv, des)
           add == to_subscribe(applied, adv, des)
           ask == [c |-> "subscribe", id |-> nextId, topics |-> add]
           g == IF drop = {} THEN <<>> ELSE <<[c |-> "unsubscribe", topics |-> drop]>>
           h == IF add = {} THEN <<>> ELSE <<ask>>
<1>1. /\ drop \subseteq applied /\ add \subseteq Topics /\ add \cap applied = {}
      /\ applied \subseteq Topics /\ nextId \in Nat \ {0}
  BY DEF to_unsubscribe, to_subscribe, filteredAdvertisedTopics, TypeOK, ControlTypeOK
<1>2. /\ applied' = (applied \ drop) \cup add
      /\ \A t \in Topics : bindings'[t] = IF t \in drop THEN None ELSE bindings[t]
      /\ \A t \in Topics : lastSubId'[t] = IF t \in add THEN nextId
                                            ELSE IF t \in drop THEN 0 ELSE lastSubId[t]
      /\ nextId' = IF add = {} THEN nextId ELSE nextId + 1
  BY DEF reconcileSubscriptions, Erase
<1>3. toServer' = toServer \o (g \o h) \/ toServer' = toServer
  BY DEF reconcileSubscriptions, sendText
<1> HIDE DEF drop, add
<1>4. ask \in Command /\ ask.id = nextId /\ ask.topics = add /\ ask.c = "subscribe"
  BY <1>1 DEF Command
<1>5. g \in Seq(Command) /\ (\A t : NoAsk(g, t)) /\ \A n : AskedBelow(g, n)
  <2>1. [c |-> "unsubscribe", topics |-> drop] \in Command
    BY <1>1 DEF Command
  <2>2. CASE drop = {}
    BY <2>2, NothingUnderWay
  <2>3. CASE drop # {}
    <3>1. g \in Seq(Command) /\ Len(g) = 1 /\ g[1].c = "unsubscribe"
      BY <2>1, <2>3
    <3> HIDE DEF g
    <3> QED
      BY <3>1 DEF NoAsk, AskedBelow, Subscribes
  <2> QED
    BY <2>2, <2>3
<1> HIDE DEF g, ask
<1>6. toServer \in Seq(Command) /\ inbox \in Seq(Event) /\ batch \in Seq(Event)
  BY DEF TypeOK, SessionTypeOK, PollTypeOK
<1>7. CASE ~demand
  BY <1>7 DEF SubscriptionInv, IdleInv
<1>8. CASE demand
  <2> DEFINE s == toServer \o g
  <2>1. IdsInv /\ \A t \in Topics : TopicInv(t)
    BY <1>8 DEF SubscriptionInv
  <2>2. /\ s \in Seq(Command) /\ AskedBelow(s, nextId)
        /\ \A t : NoAsk(toServer, t) => NoAsk(s, t)
        /\ \A t, id : LastAsk(toServer, t, id) => LastAsk(s, t, id)
    BY <1>5, <1>6, <2>1, SendingKeepsAsks DEF IdsInv
  <2>3. toServer' = toServer \/ (add = {} /\ toServer' = s) \/ (add # {} /\ toServer' = Append(s, ask))
    <3>1. CASE add = {}
      <4>1. h = <<>>
        BY <3>1
      <4> QED
        BY <1>3, <1>5, <1>6, <3>1, <4>1
    <3>2. CASE add # {}
      <4>1. h = <<ask>>
        BY <3>2
      <4> HIDE DEF h
      <4>2. toServer \o (g \o <<ask>>) = Append(toServer \o g, ask)
        BY <1>4, <1>5, <1>6
      <4> QED
        BY <1>3, <3>2, <4>1, <4>2
    <3> QED
      BY <3>1, <3>2
  <2> HIDE DEF s, h
  <2>4. /\ <<ask>> \in Seq(Command) /\ Append(s, ask) = s \o <<ask>>
        /\ Len(<<ask>>) = 1 /\ <<ask>>[1] = ask
    BY <1>4, <2>2
  <2>5. \A t : t \notin add => NoAsk(<<ask>>, t)
    BY <1>4, <2>4 DEF NoAsk, Subscribes
  <2>6. ASSUME NEW t, t \notin add
        PROVE  /\ NoAsk(toServer, t) => NoAsk(toServer', t)
               /\ \A id : LastAsk(toServer, t, id) => LastAsk(toServer', t, id)
    <3>1. /\ NoAsk(toServer, t) => NoAsk(s \o <<ask>>, t)
          /\ \A id : LastAsk(toServer, t, id) => LastAsk(s \o <<ask>>, t, id)
      BY <2>2, <2>4, <2>5, <2>6, SendingKeepsAsks
    <3> QED
      BY <2>2, <2>3, <2>4, <3>1
  <2>7. IdsInv'
    <3>1. nextId' \in Nat /\ nextId <= nextId' /\ (add # {} => nextId < nextId')
      BY <1>1, <1>2
    <3>2. AskedBelow(toServer, nextId') /\ AskedBelow(s, nextId')
          /\ AnsweredBelow(batch, nextId') /\ AnsweredBelow(inbox, nextId')
      BY <1>1, <1>6, <2>1, <2>2, <3>1, IdsGrow DEF IdsInv
    <3>3. add # {} => AskedBelow(<<ask>>, nextId')
      BY <1>4, <2>4, <3>1 DEF AskedBelow
    <3>4. add # {} => AskedBelow(s \o <<ask>>, nextId')
      BY <2>2, <2>4, <3>2, <3>3, SendingKeepsAsks
    <3>5. AskedBelow(toServer', nextId')
      BY <2>3, <2>4, <3>2, <3>4
    <3> QED
      BY <3>2, <3>5 DEF IdsInv
  <2>8. ASSUME NEW t \in Topics PROVE TopicInv(t)'
    <3>1. CASE t \in add
      <4>1. t \in applied' /\ lastSubId'[t] = nextId /\ nextId # 0
        BY <1>1, <1>2, <3>1
      <4>2. LastAsk(toServer', t, nextId)
        <5>1. LastAsk(toServer, t, nextId) /\ LastAsk(s, t, nextId) /\ LastAsk(Append(s, ask), t, nextId)
          BY <1>1, <1>4, <1>6, <2>1, <2>2, FreshAsk DEF IdsInv
        <5> QED
          BY <2>3, <5>1
      <4>3. /\ ~Refused(batch, t, nextId) /\ ~Refused(inbox, t, nextId)
            /\ RefusedLast(batch, t, nextId) /\ RefusedLast(inbox, t, nextId)
        BY <1>1, <1>6, <2>1, FreshAsk DEF IdsInv
      <4>4. AppliedTopic(t, lastSubId[t])'
        BY <4>1, <4>2, <4>3 DEF AppliedTopic
      <4> QED
        BY <4>1, <4>4 DEF TopicInv
    <3>2. CASE t \in drop
      <4>1. t \notin applied' /\ bindings'[t] = None
        BY <1>1, <1>2, <3>2
      <4> QED
        BY <4>1 DEF TopicInv
    <3>3. CASE t \notin add /\ t \notin drop
      <4>1. (t \in applied' <=> t \in applied) /\ lastSubId'[t] = lastSubId[t] /\ bindings'[t] = bindings[t]
        BY <1>2, <3>3
      <4>2. TopicInv(t) /\ (Dead(t) => Dead(t)')
        BY <2>1, <2>6, <3>3 DEF Dead
      <4>3. t \in applied => AppliedTopic(t, lastSubId[t])'
        BY <2>6, <3>3, <4>1, <4>2 DEF TopicInv, AppliedTopic
      <4>4. t \notin applied /\ bindings[t] # None => SilentTopic(t)'
        BY <4>2 DEF TopicInv, SilentTopic
      <4> QED
        BY <4>1, <4>2, <4>3, <4>4 DEF TopicInv
    <3> QED
      BY <3>1, <3>2, <3>3
  <2> QED
    BY <2>7, <2>8 DEF SubscriptionInv, IdleInv
<1> QED
  BY <1>7, <1>8 DEF TypeOK, LinkTypeOK

(* The dialog asks for catalogs only. *)
LEMMA SubscriptionOnDialog ==
  ASSUME TypeOK, SubscriptionInv, DialogConnect \/ DialogTick \/ DialogRefresh
  PROVE  SubscriptionInv'
<1> DEFINE get == [c |-> "get_topics", full |-> FALSE]
<1>1. ~running /\ ~running' /\ UNCHANGED <<demand, bindings>>
  BY DEF DialogConnect, DialogTick, DialogRefresh, hostVars, linkVars, controlVars
<1>2. toServer' = toServer \/ toServer' = <<>> \/ toServer' = toServer \o <<get>>
  BY DEF DialogConnect, DialogTick, DialogRefresh, requestTopics, sendText, SocketStart, SocketStop
<1>3. inbox' = inbox \/ inbox' = <<>> \/ (inbox # <<>> /\ inbox' = Tail(inbox))
  BY DEF DialogConnect, DialogTick, DialogRefresh, SocketStart, SocketStop
<1>4. toServer \in Seq(Command) /\ inbox \in Seq(Event) /\ get \in Command /\ get.c = "get_topics"
  BY DEF TypeOK, SessionTypeOK, Command
<1> HIDE DEF get
<1>5. IdleInv
  BY DEF SubscriptionInv
<1>6. \A i \in 1..Len(toServer') : toServer'[i].c = "get_topics"
  <2>1. CASE toServer' = toServer \o <<get>>
    <3>1. /\ Len(toServer) \in Nat /\ Len(toServer') = Len(toServer) + 1
          /\ toServer'[Len(toServer) + 1] = get
          /\ \A i \in 1..Len(toServer) : toServer'[i] = toServer[i]
      BY <1>4, <2>1
    <3> QED
      BY <1>1, <1>4, <1>5, <3>1 DEF IdleInv
  <2> QED
    BY <1>1, <1>2, <1>5, <2>1 DEF IdleInv
<1>7. \A i \in 1..Len(inbox') : inbox'[i].k # "schemas"
  <2>1. CASE inbox # <<>> /\ inbox' = Tail(inbox)
    <3>1. /\ Len(inbox) \in Nat /\ Len(inbox') = Len(inbox) - 1
          /\ \A i \in 1..Len(inbox') : inbox'[i] = inbox[i + 1]
      BY <1>4, <2>1
    <3> QED
      BY <1>1, <1>5, <3>1 DEF IdleInv
  <2> QED
    BY <1>1, <1>3, <1>5, <2>1 DEF IdleInv
<1> QED
  BY <1>1, <1>5, <1>6, <1>7 DEF SubscriptionInv, IdleInv

(* The stream starts with no subscription and no parser; the requests of the
   demand-driven mode subscribe nothing. *)
LEMMA SubscriptionOnStart ==
  ASSUME TypeOK, ControlInv, LinkInv, SubscriptionInv, onStart
  PROVE  SubscriptionInv'
<1>1. PICK dem \in HostModes, sel \in Selections :
        /\ demand' = dem
        /\ \/ /\ isOpen /\ nextId' = nextId + 1
              /\ sendText(DiscoveryRequests(dem, sel, nextId)
                            \o IF paused THEN <<[c |-> "pause"]>> ELSE <<>>)
              /\ UNCHANGED <<inbox, srvSubs>>
           \/ toServer' = <<>> /\ inbox' = <<>> /\ srvSubs' = {} /\ UNCHANGED nextId
  BY DEF onStart, SocketStart, NewSession, srvVars
<1>2. /\ ~running /\ running' /\ batch = <<>> /\ applied = {}
      /\ UNCHANGED <<applied, bindings, lastSubId, batch>>
  BY DEF onStart, ControlInv, LinkInv
<1>3. IdleInv /\ toServer \in Seq(Command) /\ inbox \in Seq(Event) /\ nextId \in Nat
  BY DEF SubscriptionInv, TypeOK, SessionTypeOK, ControlTypeOK
<1>4. \A t \in Topics : TopicInv(t)'
  BY <1>2, <1>3 DEF IdleInv, TopicInv
<1>5. ASSUME demand' PROVE IdsInv'
  <2>1. CASE toServer' = <<>> /\ inbox' = <<>>
    BY <1>2, <2>1, NothingUnderWay DEF IdsInv
  <2>2. CASE /\ isOpen /\ nextId' = nextId + 1
             /\ sendText(DiscoveryRequests(dem, sel, nextId)
                           \o IF paused THEN <<[c |-> "pause"]>> ELSE <<>>)
             /\ UNCHANGED <<inbox, srvSubs>>
    <3> DEFINE d == <<[c |-> "updates"], FullGet>>
               p == IF paused THEN <<[c |-> "pause"]>> ELSE <<>>
    <3>1. toServer' = toServer \o (d \o p)
      BY <1>1, <1>5, <2>2 DEF sendText, DiscoveryRequests, FullGet
    <3>2. d \in Seq(Command) /\ \A n : AskedBelow(d, n)
      <4>1. [c |-> "updates"] \in Command /\ FullGet \in Command
        BY DEF Command, FullGet
      <4>2. d \in Seq(Command) /\ Len(d) = 2 /\ d[1].c = "updates" /\ d[2].c = "get_topics"
        BY <4>1 DEF FullGet
      <4> HIDE DEF d
      <4> QED
        BY <4>2 DEF AskedBelow
    <3>3. p \in Seq(Command) /\ \A n : AskedBelow(p, n)
      <4>1. CASE paused
        <5>1. p \in Seq(Command) /\ Len(p) = 1 /\ p[1].c = "pause"
          BY <4>1 DEF Command
        <5> HIDE DEF p
        <5> QED
          BY <5>1 DEF AskedBelow
      <4>2. CASE ~paused
        BY <4>2, NothingUnderWay
      <4> QED
        BY <4>1, <4>2
    <3> HIDE DEF d, p
    <3>4. d \o p \in Seq(Command) /\ \A n : AskedBelow(d \o p, n)
      BY <3>2, <3>3, SendingKeepsAsks
    <3>5. \A n : AskedBelow(toServer, n) /\ AnsweredBelow(inbox, n)
      BY <1>2, <1>3 DEF IdleInv, AskedBelow, AnsweredBelow
    <3>6. \A n : AskedBelow(toServer \o (d \o p), n)
      BY <1>3, <3>4, <3>5, SendingKeepsAsks
    <3> QED
      BY <1>2, <2>2, <3>1, <3>5, <3>6, NothingUnderWay DEF IdsInv
  <2> QED
    BY <1>1, <2>1, <2>2
<1> QED
  BY <1>2, <1>4, <1>5 DEF SubscriptionInv, IdleInv

(* The socket opens: the requests of the demand-driven mode subscribe nothing. *)
LEMMA SubscriptionOnOpen ==
  ASSUME TypeOK, SubscriptionInv, running, HandleOpen
  PROVE  SubscriptionInv'
<1> DEFINE f == DiscoveryRequests(demand, selected, nextId)
<1>1. /\ batch # <<>> /\ batch' = Tail(batch) /\ running'
      /\ UNCHANGED <<demand, inbox, srvSubs, applied, bindings, lastSubId>>
      /\ nextId' = nextId \/ nextId' = nextId + 1
      /\ toServer' = toServer \o f \/ toServer' = toServer
  BY DEF HandleOpen, Handles, sendText, srvVars, hostVars
<1>2. f \in Seq(Command)
  BY DiscoveryType DEF TypeOK, LinkTypeOK, ControlTypeOK
<1>3. demand => \A i \in 1..Len(f) : f[i].c # "subscribe"
  <2>1. demand => f = <<[c |-> "updates"], FullGet>>
    BY DEF DiscoveryRequests, FullGet
  <2> HIDE DEF f
  <2> SUFFICES ASSUME demand PROVE \A i \in 1..Len(f) : f[i].c # "subscribe"
    OBVIOUS
  <2>2. Len(f) = 2 /\ f[1].c = "updates" /\ f[2].c = "get_topics"
    BY <2>1 DEF FullGet
  <2>3. 1..Len(f) = {1, 2}
    BY <2>2
  <2> QED
    BY <2>2, <2>3
<1> HIDE DEF f
<1> QED
  BY <1>1, <1>2, <1>3, SubscriptionOnEvent

(* Nothing is subscribed before the first stream. *)
LEMMA SubscriptionInit == Init => SubscriptionInv
BY DEF Init, SessionInit, SubscriptionInv, IdleInv

(* Every step keeps it. *)
LEMMA SubscriptionStep ==
  ASSUME TypeOK, ControlInv, LinkInv, SubscriptionInv, [Next]_vars
  PROVE  SubscriptionInv'
<1>1. CASE Environment
  BY <1>1, SubscriptionOnSession
<1>2. CASE DialogConnect \/ DialogTick \/ DialogRefresh
  BY <1>2, SubscriptionOnDialog
<1>3. CASE onStart
  BY <1>3, SubscriptionOnStart
<1>4. CASE onStop
  <2>1. /\ ~running' /\ ~demand' /\ toServer' = <<>> /\ inbox' = <<>>
        /\ \A t \in Topics : bindings'[t] = None
    BY <1>4 DEF onStop, SocketStop
  <2> QED
    BY <2>1 DEF SubscriptionInv, IdleInv
<1>5. CASE setActiveTopics \/ DeadlinePasses
  <2>1. /\ running /\ running' /\ toServer' = toServer
        /\ UNCHANGED <<demand, srvSubs, batch, inbox, applied, bindings, lastSubId, nextId>>
    BY <1>5 DEF setActiveTopics, DeadlinePasses, sessionVars, srvVars, controlVars, linkVars, hostVars
  <2> QED
    BY <2>1, NothingSent, SubscriptionOnSend
<1>6. CASE (\E op \in {"pause", "resume"} : PauseResume(op)) \/ SendRememberedPause
  <2>1. PICK op \in {"pause", "resume"} :
          \/ PauseResume(op)
          \/ SendRememberedPause /\ op = "pause"
    BY <1>6
  <2>2. /\ running => running'
        /\ UNCHANGED <<demand, srvSubs, batch, inbox, applied, bindings, lastSubId, nextId>>
        /\ toServer' = toServer \o <<[c |-> op]>> \/ toServer' = toServer
    BY <2>1 DEF PauseResume, SendRememberedPause, sendText, srvVars, controlVars, linkVars, hostVars
  <2>3. running
    BY <2>1 DEF PauseResume, SendRememberedPause, ControlInv
  <2>4. <<[c |-> op]>> \in Seq(Command) /\ \A i \in 1..Len(<<[c |-> op]>>) : <<[c |-> op]>>[i].c # "subscribe"
    BY OneWord
  <2> QED
    BY <2>2, <2>3, <2>4, SubscriptionOnSend
<1>7. CASE PollBegin
  BY <1>7, SubscriptionOnDrain
<1>8. CASE HandleEvent
  <2>1. running
    <3>1. pc = "pump"
      BY <1>8 DEF HandleEvent, HandleOpen, HandleFailure, handleSubscribeResponse, handleTopicsChanged,
         handleGetTopicsResponse, onBinaryFrame, Handles
    <3> QED
      BY <3>1 DEF ControlInv
  <2>2. CASE HandleOpen
    BY <2>1, <2>2, SubscriptionOnOpen
  <2>3. CASE handleSubscribeResponse
    BY <2>1, <2>3, SubscriptionOnResponse
  <2>4. CASE handleTopicsChanged \/ handleGetTopicsResponse
    BY <2>1, <2>4, SubscriptionOnCatalog
  <2>5. CASE HandleFailure \/ onBinaryFrame
    <3>1. /\ batch # <<>> /\ batch' = Tail(batch) /\ running' = running /\ toServer' = toServer
          /\ UNCHANGED <<demand, inbox, srvSubs, applied, bindings, lastSubId, nextId>>
      BY <2>5 DEF HandleFailure, onBinaryFrame, Handles, sessionVars, controlVars, linkVars, hostVars
    <3> QED
      BY <2>1, <3>1, NothingSent, SubscriptionOnEvent
  <2> QED
    BY <1>8, <2>2, <2>3, <2>4, <2>5 DEF HandleEvent
<1>9. CASE PollTail \/ applyDesiredTopics
  <2>1. /\ batch = <<>> /\ running /\ running'
        /\ UNCHANGED <<demand, batch, inbox, srvSubs>>
    BY <1>9 DEF PollTail, PollReturns, applyDesiredTopics, sessionVars, srvVars, linkVars, hostVars,
       LinkInv, ControlInv
  <2>2. \/ UNCHANGED <<toServer, applied, bindings, lastSubId, nextId>>
        \/ \E des \in SUBSET Topics : reconcileSubscriptions(des)
    <3>1. CASE PollTail
      BY <3>1 DEF PollTail, PollReturns, Readvertise, sessionVars, controlVars, TypeOK, ControlTypeOK
    <3>2. CASE applyDesiredTopics
      BY <3>2 DEF applyDesiredTopics, TypeOK, HostTypeOK
    <3> QED
      BY <1>9, <3>1, <3>2
  <2>3. CASE UNCHANGED <<toServer, applied, bindings, lastSubId, nextId>>
    BY <2>1, <2>3, NothingSent, SubscriptionOnSend
  <2>4. CASE \E des \in SUBSET Topics : reconcileSubscriptions(des)
    BY <2>1, <2>4, SubscriptionOnReconcile
  <2> QED
    BY <2>2, <2>3, <2>4
<1>10. CASE UNCHANGED vars
  <2>1. UNCHANGED <<running, demand, bindings, toServer, inbox, batch, srvSubs, applied, lastSubId, nextId>>
    BY <1>10 DEF vars, sessionVars, controlVars, linkVars, hostVars
  <2> QED
    BY <2>1 DEF SubscriptionInv, IdleInv, IdsInv, TopicInv, AppliedTopic, SilentTopic, Dead
<1> QED
  BY <1>1, <1>2, <1>3, <1>4, <1>5, <1>6, <1>7, <1>8, <1>9, <1>10 DEF Next, Host, onPoll

(* In every behaviour of a demand-driven stream the latest request for an applied
   topic is the last one under way, and once it is refused, or the topic is no longer
   applied but still bound, no frame of it can come. *)
THEOREM SubscriptionInvariant == Spec => []SubscriptionInv
<1>1. TypeOK /\ ControlInv /\ LinkInv /\ SubscriptionInv /\ [Next]_vars => SubscriptionInv'
  BY SubscriptionStep
<1> QED
  BY <1>1, SubscriptionInit, TypeCorrect, ControlInvariant, CatalogInvariant, PTL DEF Spec

(* No frame reaches the parser of a topic that is not applied: a topic leaves
   applied_ with its binding erased, except when its subscription was rejected, and
   then the server streams nothing of it and no frame of it is on its way. *)
THEOREM IngestOnlyActiveHolds == Spec => []IngestOnlyActive
<1>1. TypeOK /\ SubscriptionInv => IngestOnlyActive
  <2> SUFFICES ASSUME TypeOK, SubscriptionInv, demand, NEW t \in Topics, Ingests(t), t \notin applied
               PROVE  FALSE
    BY DEF IngestOnlyActive
  <2>1. batch \in Seq(Event) /\ batch # <<>> /\ Carries(Head(batch), t) /\ bindings[t] # None
    BY DEF Ingests, Carries, TypeOK, PollTypeOK
  <2>2. NoFrame(batch, t)
    BY <2>1 DEF SubscriptionInv, TopicInv, SilentTopic
  <2> QED
    BY <2>1, <2>2, HandlingFacts
<1> QED
  BY <1>1, SubscriptionInvariant, TypeCorrect, PTL

(***************************************************************************)
(* Words in a channel: sets of requests that do or do not occur in it.     *)
(***************************************************************************)
Words(kinds) == {m \in Command : m.c \in kinds}
SubsOf(t) == {m \in Command : m.c = "subscribe" /\ t \in m.topics}
UnsubsOf(t) == {m \in Command : m.c = "unsubscribe" /\ t \in m.topics}
AskOf(t, id) == {m \in SubsOf(t) : m.id = id}

Without(s, A) == \A i \in 1..Len(s) : s[i] \notin A

(* A word of A, and none of B behind it. *)
Ends(s, A, B) == \E i \in 1..Len(s) : s[i] \in A /\ \A j \in 1..Len(s) : j > i => s[j] \notin B

(* No word of B behind a word of A. *)
Apart(s, A, B) == \A i, j \in 1..Len(s) : i < j /\ s[i] \in A => s[j] \notin B

(* Requests are sent. *)
LEMMA SendingWords ==
  ASSUME NEW s \in Seq(Command), NEW f \in Seq(Command), NEW A, NEW B
  PROVE  /\ Without(s, A) /\ Without(f, A) => Without(s \o f, A)
         /\ Ends(s, A, B) /\ Without(f, B) => Ends(s \o f, A, B)
         /\ Ends(f, A, B) => Ends(s \o f, A, B)
         /\ Apart(s, A, B) /\ Without(f, B) => Apart(s \o f, A, B)
         /\ Without(s, A) /\ Apart(f, A, B) => Apart(s \o f, A, B)
<1> DEFINE u == s \o f
<1>1. /\ Len(u) = Len(s) + Len(f) /\ Len(s) \in Nat /\ Len(f) \in Nat
      /\ \A i \in 1..Len(s) : u[i] = s[i]
      /\ \A i \in 1..Len(f) : u[Len(s) + i] = f[i]
  OBVIOUS
<1> HIDE DEF u
<1>2. \A i \in 1..Len(u) : i > Len(s) => i - Len(s) \in 1..Len(f) /\ u[i] = f[i - Len(s)]
  BY <1>1
<1>3. Without(s, A) /\ Without(f, A) => Without(u, A)
  BY <1>1, <1>2 DEF Without
<1>4. ASSUME Ends(s, A, B), Without(f, B) PROVE Ends(u, A, B)
  <2>1. PICK i \in 1..Len(s) : s[i] \in A /\ \A j \in 1..Len(s) : j > i => s[j] \notin B
    BY <1>4 DEF Ends
  <2>2. i \in 1..Len(u) /\ u[i] \in A /\ \A j \in 1..Len(u) : j > i => u[j] \notin B
    BY <1>1, <1>2, <1>4, <2>1 DEF Without
  <2> QED
    BY <2>2 DEF Ends
<1>5. ASSUME Ends(f, A, B) PROVE Ends(u, A, B)
  <2>1. PICK i \in 1..Len(f) : f[i] \in A /\ \A j \in 1..Len(f) : j > i => f[j] \notin B
    BY <1>5 DEF Ends
  <2>2. Len(s) + i \in 1..Len(u) /\ u[Len(s) + i] \in A
    BY <1>1, <2>1
  <2>3. ASSUME NEW j \in 1..Len(u), j > Len(s) + i PROVE u[j] \notin B
    <3>1. j - Len(s) \in 1..Len(f) /\ u[j] = f[j - Len(s)] /\ j - Len(s) > i
      BY <1>1, <1>2, <2>3
    <3> QED
      BY <2>1, <3>1
  <2> QED
    BY <2>2, <2>3 DEF Ends
<1>6. Apart(s, A, B) /\ Without(f, B) => Apart(u, A, B)
  BY <1>1, <1>2 DEF Apart, Without
<1>7. ASSUME Without(s, A), Apart(f, A, B) PROVE Apart(u, A, B)
  <2> SUFFICES ASSUME NEW i \in 1..Len(u), NEW j \in 1..Len(u), i < j, u[i] \in A PROVE u[j] \notin B
    BY DEF Apart
  <2>1. i > Len(s) /\ j > Len(s)
    BY <1>1, <1>7 DEF Without
  <2>2. /\ i - Len(s) \in 1..Len(f) /\ u[i] = f[i - Len(s)] /\ j - Len(s) \in 1..Len(f) /\ u[j] = f[j - Len(s)]
        /\ i - Len(s) < j - Len(s)
    BY <1>1, <1>2, <2>1
  <2> QED
    BY <1>7, <2>2 DEF Apart
<1> QED
  BY <1>3, <1>4, <1>5, <1>6, <1>7 DEF u

(* The first one is taken. *)
LEMMA TakingWords ==
  ASSUME NEW s \in Seq(Command), s # <<>>, NEW A, NEW B
  PROVE  /\ Without(s, A) => Head(s) \notin A /\ Without(Tail(s), A)
         /\ Ends(s, A, B) => Ends(Tail(s), A, B) \/ (Head(s) \in A /\ Without(Tail(s), B))
         /\ Apart(s, A, B) => Apart(Tail(s), A, B) /\ (Head(s) \in A => Without(Tail(s), B))
<1> DEFINE u == Tail(s)
<1>1. /\ Len(s) \in Nat \ {0} /\ Len(u) = Len(s) - 1 /\ Head(s) = s[1]
      /\ \A i \in 1..Len(u) : u[i] = s[i + 1]
  OBVIOUS
<1> HIDE DEF u
<1>2. /\ \A i \in 1..Len(s) : i > 1 => i - 1 \in 1..Len(u) /\ u[i - 1] = s[i]
      /\ \A i \in 1..Len(u) : i + 1 \in 1..Len(s)
      /\ 1 \in 1..Len(s)
  BY <1>1
<1>3. Without(s, A) => Head(s) \notin A /\ Without(u, A)
  BY <1>1, <1>2 DEF Without
<1>4. ASSUME Ends(s, A, B) PROVE Ends(u, A, B) \/ (Head(s) \in A /\ Without(u, B))
  <2>1. PICK i \in 1..Len(s) : s[i] \in A /\ \A j \in 1..Len(s) : j > i => s[j] \notin B
    BY <1>4 DEF Ends
  <2>2. \A j \in 1..Len(u) : j > i - 1 => u[j] \notin B
    BY <1>1, <1>2, <2>1
  <2>3. CASE i = 1
    BY <1>1, <2>1, <2>2, <2>3 DEF Without
  <2>4. CASE i > 1
    <3>1. i - 1 \in 1..Len(u) /\ u[i - 1] \in A
      BY <1>2, <2>1, <2>4
    <3> QED
      BY <2>2, <3>1 DEF Ends
  <2> QED
    BY <1>1, <2>3, <2>4
<1>5. Apart(s, A, B) => Apart(u, A, B)
  BY <1>1, <1>2 DEF Apart
<1>6. Apart(s, A, B) /\ Head(s) \in A => Without(u, B)
  <2> SUFFICES ASSUME Apart(s, A, B), Head(s) \in A, NEW i \in 1..Len(u) PROVE u[i] \notin B
    BY DEF Without
  <2>1. i + 1 \in 1..Len(s) /\ 1 \in 1..Len(s) /\ 1 < i + 1 /\ u[i] = s[i + 1] /\ s[1] \in A
    BY <1>1, <1>2
  <2> QED
    BY <2>1 DEF Apart
<1> QED
  BY <1>3, <1>4, <1>5, <1>6 DEF u

(* An empty channel. *)
LEMMA NoWords ==
  ASSUME NEW A, NEW B
  PROVE  Without(<<>>, A) /\ ~Ends(<<>>, A, B) /\ Apart(<<>>, A, B)
BY DEF Without, Ends, Apart

(* One word. *)
LEMMA SingleWord ==
  ASSUME NEW m \in Command, NEW A, NEW B
  PROVE  /\ <<m>> \in Seq(Command)
         /\ m \notin A => Without(<<m>>, A)
         /\ m \in A => Ends(<<m>>, A, B)
         /\ Apart(<<m>>, A, B)
BY DEF Without, Ends, Apart

(* Fewer words. *)
LEMMA FewerWords ==
  ASSUME NEW s, NEW A, NEW B, B \subseteq A, Without(s, A)
  PROVE  Without(s, B)
BY DEF Without

(***************************************************************************)
(* Pausing.                                                                *)
(***************************************************************************)
(* What the host paused is paused: a pause is still to be sent, is under way
   with no resume behind it, or has reached the server. *)
PauseInv ==
  /\ ~running => ~paused /\ pc # "pause"
  /\ running /\ paused /\ isOpen /\ phase # "connecting" =>
       \/ pc = "pause"
       \/ Ends(toServer, Words({"pause"}), Words({"resume"}))
       \/ srvPaused /\ Without(toServer, Words({"resume"}))

(* What the host did not pause is not, unless its resume was overtaken: no pause is
   to be sent, and none is in force or under way without a resume behind it. *)
NoStrayPause ==
  /\ ~isOpen => toServer = <<>> /\ ~srvPaused
  /\ ~paused /\ ~overtaken =>
       /\ pc # "pause"
       /\ \/ ~srvPaused /\ Without(toServer, Words({"pause"}))
          \/ Ends(toServer, Words({"resume"}), Words({"pause"}))

(* Commands of one word. *)
LEMMA PauseWord ==
  ASSUME NEW op \in {"pause", "resume"}
  PROVE  /\ <<[c |-> op]>> \in Seq(Command)
         /\ op = "pause" => Ends(<<[c |-> op]>>, Words({"pause"}), Words({"resume"}))
         /\ op = "pause" => Without(<<[c |-> op]>>, Words({"resume"}))
         /\ op = "resume" => Ends(<<[c |-> op]>>, Words({"resume"}), Words({"pause"}))
<1>1. [c |-> op] \in Command /\ [c |-> op].c = op
  BY DEF Command
<1>2. /\ op = "pause" => [c |-> op] \in Words({"pause"}) /\ [c |-> op] \notin Words({"resume"})
      /\ op = "resume" => [c |-> op] \in Words({"resume"})
  BY <1>1 DEF Words
<1> QED
  BY <1>1, <1>2, SingleWord

(* The requests of discovery and of a reconcile say nothing of a pause. *)
LEMMA DiscoverySays ==
  ASSUME NEW dem \in BOOLEAN, NEW sel \in SUBSET Topics, NEW id \in Nat
  PROVE  /\ DiscoveryRequests(dem, sel, id) \in Seq(Command)
         /\ Without(DiscoveryRequests(dem, sel, id), Words({"pause", "resume"}))
         /\ dem => Without(DiscoveryRequests(dem, sel, id), Words({"subscribe", "unsubscribe"}))
<1>1. /\ [c |-> "updates"] \in Command /\ [c |-> "get_topics", full |-> TRUE] \in Command
      /\ [c |-> "subscribe", id |-> id, topics |-> sel] \in Command
  BY DEF Command
<1>2. CASE dem
  <2> DEFINE f == <<[c |-> "updates"], [c |-> "get_topics", full |-> TRUE]>>
  <2>1. DiscoveryRequests(dem, sel, id) = f
    BY <1>2 DEF DiscoveryRequests
  <2>2. f \in Seq(Command) /\ Len(f) = 2 /\ f[1].c = "updates" /\ f[2].c = "get_topics"
    BY <1>1
  <2> HIDE DEF f
  <2>3. \A i \in 1..Len(f) : f[i].c \in {"updates", "get_topics"}
    BY <2>2
  <2>4. Without(f, Words({"pause", "resume"})) /\ Without(f, Words({"subscribe", "unsubscribe"}))
    BY <2>3 DEF Without, Words
  <2> QED
    BY <2>1, <2>2, <2>4
<1>3. CASE ~dem
  <2> DEFINE m == [c |-> "subscribe", id |-> id, topics |-> sel]
  <2>1. DiscoveryRequests(dem, sel, id) = <<m>>
    BY <1>3 DEF DiscoveryRequests
  <2>2. m \in Command /\ m \notin Words({"pause", "resume"})
    BY <1>1 DEF Words
  <2> HIDE DEF m
  <2> QED
    BY <1>3, <2>1, <2>2, SingleWord
<1> QED
  BY <1>2, <1>3

(* What a reconcile sends, in the words of the code: one unsubscribe for what it
   drops, then one subscribe for what it adds. *)
LEMMA ReconcileSays ==
  ASSUME TypeOK, NEW des \in SUBSET Topics, reconcileSubscriptions(des)
  PROVE  \E f \in Seq(Command) :
           /\ toServer' = IF isOpen THEN toServer \o f ELSE toServer
           /\ Without(f, Words({"pause", "resume", "get_topics"}))
           /\ \A t \in Topics :
                /\ Apart(f, SubsOf(t), SubsOf(t))
                /\ t \notin applied /\ t \in applied' =>
                     /\ Without(f, UnsubsOf(t)) /\ lastSubId'[t] = nextId
                     /\ Ends(f, AskOf(t, nextId), SubsOf(t) \cup UnsubsOf(t))
                /\ t \in applied /\ t \notin applied' =>
                     Without(f, SubsOf(t)) /\ Ends(f, UnsubsOf(t), SubsOf(t))
                /\ (t \in applied <=> t \in applied') =>
                     Without(f, SubsOf(t)) /\ Without(f, UnsubsOf(t))
                /\ t \in applied /\ t \in applied' => lastSubId'[t] = lastSubId[t]
<1> DEFINE adv == filteredAdvertisedTopics(advertised, selected)
           drop == to_unsubscribe(applied, adv, des)
           add == to_subscribe(applied, adv, des)
           m == [c |-> "unsubscribe", topics |-> drop]
           n == [c |-> "subscribe", id |-> nextId, topics |-> add]
           g == IF drop = {} THEN <<>> ELSE <<m>>
           h == IF add = {} THEN <<>> ELSE <<n>>
<1>1. drop \subseteq Topics /\ add \subseteq Topics /\ nextId \in Nat /\ applied \subseteq Topics
  BY DEF to_unsubscribe, to_subscribe, filteredAdvertisedTopics, TypeOK, ControlTypeOK
<1>2. applied' = (applied \ drop) \cup add
  BY DEF reconcileSubscriptions
<1>3. drop \subseteq applied /\ add \cap applied = {}
  BY DEF to_unsubscribe, to_subscribe
<1>4. toServer' = IF isOpen THEN toServer \o (g \o h) ELSE toServer
  BY DEF reconcileSubscriptions, sendText
<1>0. lastSubId' = [t \in Topics |-> IF t \in add THEN nextId ELSE IF t \in drop THEN 0 ELSE lastSubId[t]]
  BY DEF reconcileSubscriptions
<1> HIDE DEF drop, add
<1>5. /\ m \in Command /\ m.c = "unsubscribe" /\ m.topics = drop
      /\ n \in Command /\ n.c = "subscribe" /\ n.topics = add /\ n.id = nextId
  BY <1>1 DEF Command
<1> HIDE DEF m, n
<1>6. /\ m \notin Words({"pause", "resume", "get_topics"})
      /\ n \notin Words({"pause", "resume", "get_topics"})
      /\ \A t : /\ m \notin SubsOf(t) /\ n \notin UnsubsOf(t)
                /\ m \in UnsubsOf(t) <=> t \in drop
                /\ n \in SubsOf(t) <=> t \in add
                /\ t \in add => n \in AskOf(t, nextId)
  BY <1>5 DEF Words, SubsOf, UnsubsOf, AskOf
<1>7. g \in Seq(Command) /\ h \in Seq(Command) /\ g \o h \in Seq(Command)
  <2>1. g \in Seq(Command) /\ h \in Seq(Command)
    BY <1>5
  <2> HIDE DEF g, h
  <2> QED
    BY <2>1
<1>8. ASSUME NEW A PROVE /\ m \notin A => Without(g, A)
                         /\ n \notin A => Without(h, A)
                         /\ drop = {} => Without(g, A)
                         /\ add = {} => Without(h, A)
  BY <1>5, NoWords, SingleWord
<1>9. ASSUME NEW A, NEW B PROVE /\ drop # {} /\ m \in A => Ends(g, A, B)
                                /\ add # {} /\ n \in A => Ends(h, A, B)
                                /\ Apart(h, A, B)
  BY <1>5, NoWords, SingleWord
<1> HIDE DEF g, h
<1>10. Without(g \o h, Words({"pause", "resume", "get_topics"}))
  BY <1>6, <1>7, <1>8, SendingWords
<1>11. ASSUME NEW t \in Topics
       PROVE  /\ t \notin add => Without(g \o h, SubsOf(t))
              /\ t \notin drop => Without(g \o h, UnsubsOf(t))
              /\ t \in add => Ends(g \o h, AskOf(t, nextId), SubsOf(t) \cup UnsubsOf(t))
              /\ t \in drop /\ t \notin add => Ends(g \o h, UnsubsOf(t), SubsOf(t))
              /\ Apart(g \o h, SubsOf(t), SubsOf(t))
  <2>1. t \notin add => Without(g \o h, SubsOf(t))
    BY <1>6, <1>7, <1>8, SendingWords
  <2>2. t \notin drop => Without(g \o h, UnsubsOf(t))
    BY <1>6, <1>7, <1>8, SendingWords
  <2>3. t \in add => Ends(g \o h, AskOf(t, nextId), SubsOf(t) \cup UnsubsOf(t))
    <3>1. t \in add => Ends(h, AskOf(t, nextId), SubsOf(t) \cup UnsubsOf(t))
      BY <1>6, <1>9
    <3> QED
      BY <1>7, <3>1, SendingWords
  <2>4. t \in drop /\ t \notin add => Ends(g \o h, UnsubsOf(t), SubsOf(t))
    <3>1. t \in drop /\ t \notin add => Ends(g, UnsubsOf(t), SubsOf(t)) /\ Without(h, SubsOf(t))
      BY <1>6, <1>8, <1>9
    <3> QED
      BY <1>7, <3>1, SendingWords
  <2>5. Apart(g \o h, SubsOf(t), SubsOf(t))
    BY <1>6, <1>7, <1>8, <1>9, SendingWords
  <2> QED
    BY <2>1, <2>2, <2>3, <2>4, <2>5
<1>12. \A t \in Topics :
         /\ t \notin applied /\ t \in applied' => t \in add /\ t \notin drop
         /\ t \in applied /\ t \notin applied' => t \in drop /\ t \notin add
         /\ (t \in applied <=> t \in applied') => t \notin drop /\ t \notin add
  BY <1>2, <1>3
<1>13. \A t \in Topics : /\ t \in add => lastSubId'[t] = nextId
                         /\ t \notin add /\ t \notin drop => lastSubId'[t] = lastSubId[t]
  BY <1>0
<1> QED
  BY <1>4, <1>7, <1>10, <1>11, <1>12, <1>13

(* Requests other than a resume keep a pause in force. *)
LEMMA PauseFrame ==
  ASSUME TypeOK, PauseInv, NEW f \in Seq(Command), Without(f, Words({"resume"})),
         toServer' = toServer \o f \/ toServer' = toServer,
         UNCHANGED <<running, paused, conn, srvPaused>>,
         phase = "connecting" => phase' = "connecting",
         running => (pc = "pause" => pc' = "pause"),
         ~running => pc' = pc
  PROVE  PauseInv'
<1>1. toServer \in Seq(Command)
  BY DEF TypeOK, SessionTypeOK
<1>2. /\ Ends(toServer, Words({"pause"}), Words({"resume"})) =>
           Ends(toServer', Words({"pause"}), Words({"resume"}))
      /\ Without(toServer, Words({"resume"})) => Without(toServer', Words({"resume"}))
  BY <1>1, SendingWords
<1> QED
  BY <1>2 DEF PauseInv, isOpen

(* The transport and the server. *)
LEMMA PauseOnSession ==
  ASSUME TypeOK, LinkInv, PauseInv, Environment
  PROVE  PauseInv'
<1>1. UNCHANGED <<running, paused, phase, pc>> /\ SessionNext
  BY DEF Environment, linkVars, hostVars
<1>2. CASE ConnOpen \/ ConnError \/ ConnClose
  <2>1. running => conn' # "open" \/ phase = "connecting"
    BY <1>2 DEF ConnOpen, ConnError, ConnClose, LinkInv
  <2> QED
    BY <1>1, <2>1 DEF PauseInv, isOpen
<1>3. CASE CatalogChange \/ emit_loop
  <2>1. UNCHANGED <<conn, toServer, srvPaused>>
    BY <1>3 DEF CatalogChange, emit_loop, srvVars
  <2> QED
    BY <1>1, <2>1 DEF PauseInv, isOpen
<1>4. CASE on_message
  <2> DEFINE cmd == Head(toServer)
  <2>1. /\ toServer \in Seq(Command) /\ toServer # <<>> /\ toServer' = Tail(toServer)
        /\ conn' = conn /\ cmd \in Command
    BY <1>4 DEF on_message, TypeOK, SessionTypeOK
  <2>2. /\ cmd.c = "pause" => srvPaused'
        /\ cmd.c \notin {"pause", "resume"} => srvPaused' = srvPaused
    BY <1>4 DEF on_message
  <2>3. /\ Ends(toServer, Words({"pause"}), Words({"resume"})) =>
             \/ Ends(toServer', Words({"pause"}), Words({"resume"}))
             \/ cmd \in Words({"pause"}) /\ Without(toServer', Words({"resume"}))
        /\ Without(toServer, Words({"resume"})) =>
             cmd \notin Words({"resume"}) /\ Without(toServer', Words({"resume"}))
    BY <2>1, TakingWords
  <2>4. /\ cmd \in Words({"pause"}) => srvPaused'
        /\ srvPaused /\ cmd \notin Words({"resume"}) => srvPaused'
    BY <2>1, <2>2 DEF Words
  <2> QED
    BY <1>1, <2>1, <2>3, <2>4 DEF PauseInv, isOpen
<1> QED
  BY <1>1, <1>2, <1>3, <1>4 DEF SessionNext

(* The host's own call. *)
LEMMA PauseOnCall ==
  ASSUME TypeOK, PauseInv, NEW op \in {"pause", "resume"}, PauseResume(op)
  PROVE  PauseInv'
<1>1. /\ running /\ running' /\ paused' = (op = "pause") /\ conn' = conn
      /\ sendText(<<[c |-> op]>>)
  BY DEF PauseResume
<1>2. toServer \in Seq(Command)
  BY DEF TypeOK, SessionTypeOK
<1>3. paused' /\ isOpen' => Ends(toServer', Words({"pause"}), Words({"resume"}))
  BY <1>1, <1>2, PauseWord, SendingWords DEF sendText, isOpen
<1> QED
  BY <1>1, <1>3 DEF PauseInv

(* Every step keeps PauseInv. *)
LEMMA PauseStep ==
  ASSUME TypeOK, ControlInv, LinkInv, PauseInv, [Next]_vars
  PROVE  PauseInv'
<1>0. <<>> \in Seq(Command) /\ Without(<<>>, Words({"resume"}))
  BY NoWords
<1>1. CASE Environment
  BY <1>1, PauseOnSession
<1>2. CASE DialogConnect \/ DialogTick \/ DialogRefresh
  <2>1. ~running /\ ~running' /\ UNCHANGED <<pc, paused>>
    BY <1>2 DEF DialogConnect, DialogTick, DialogRefresh, hostVars
  <2> QED
    BY <2>1 DEF PauseInv
<1>3. CASE onStart
  <2>1. running' /\ ~paused'
    BY <1>3 DEF onStart, PauseInv
  <2> QED
    BY <2>1 DEF PauseInv
<1>4. CASE onStop
  <2>1. ~running' /\ paused' = FALSE /\ pc' = "idle"
    BY <1>4 DEF onStop
  <2> QED
    BY <2>1 DEF PauseInv
<1>5. CASE setActiveTopics \/ DeadlinePasses \/ UNCHANGED vars
  <2>1. UNCHANGED <<running, paused, conn, srvPaused, phase, pc, toServer>>
    BY <1>5 DEF setActiveTopics, DeadlinePasses, vars, sessionVars, srvVars, linkVars, hostVars
  <2> QED
    BY <1>0, <2>1, PauseFrame
<1>6. CASE \E op \in {"pause", "resume"} : PauseResume(op)
  BY <1>6, PauseOnCall
<1>7. CASE SendRememberedPause
  <2>1. /\ UNCHANGED <<running, paused, conn>> /\ sendText(<<[c |-> "pause"]>>)
        /\ pc' = "pump"
    BY <1>7 DEF SendRememberedPause, hostVars
  <2>2. toServer \in Seq(Command)
    BY DEF TypeOK, SessionTypeOK
  <2>3. isOpen => Ends(toServer', Words({"pause"}), Words({"resume"}))
    BY <2>1, <2>2, PauseWord, SendingWords DEF sendText
  <2> QED
    BY <2>1, <2>3 DEF PauseInv, isOpen
<1>8. CASE PollBegin
  <2>1. /\ running /\ pc = "idle" /\ pc' = "pump"
        /\ UNCHANGED <<running, paused, conn, srvPaused, phase, toServer>>
    BY <1>8 DEF PollBegin, srvVars, linkVars, hostVars
  <2> QED
    BY <1>0, <2>1, PauseFrame
<1>9. CASE HandleOpen
  <2>1. pc = "pump" /\ UNCHANGED <<running, paused, conn, srvPaused>> /\ running
    BY <1>9 DEF HandleOpen, Handles, srvVars, hostVars, ControlInv
  <2>2. CASE phase = "connecting"
    <3>1. pc' = AfterRequests
      BY <1>9, <2>2 DEF HandleOpen
    <3> QED
      BY <2>1, <3>1 DEF PauseInv, AfterRequests
  <2>3. CASE phase # "connecting"
    <3>1. UNCHANGED <<phase, toServer, pc>>
      BY <1>9, <2>3 DEF HandleOpen
    <3> QED
      BY <1>0, <2>1, <3>1, PauseFrame
  <2> QED
    BY <2>2, <2>3
<1>10. CASE HandleFailure \/ handleSubscribeResponse \/ handleTopicsChanged
              \/ handleGetTopicsResponse \/ onBinaryFrame
  <2>1. UNCHANGED <<running, paused, conn, srvPaused, phase, pc, toServer>>
    BY <1>10 DEF HandleFailure, handleSubscribeResponse, handleTopicsChanged,
       handleGetTopicsResponse, onBinaryFrame, sessionVars, srvVars, linkVars, hostVars
  <2> QED
    BY <1>0, <2>1, PauseFrame
<1>11. CASE PollTail \/ applyDesiredTopics
  <2>1. /\ UNCHANGED <<running, paused, conn, srvPaused>> /\ running /\ pc # "pause"
        /\ phase = "connecting" => phase' = "connecting"
    BY <1>11 DEF PollTail, PollReturns, applyDesiredTopics, sessionVars, srvVars, linkVars, hostVars, ControlInv
  <2>2. toServer' = toServer \/ \E des \in SUBSET Topics : reconcileSubscriptions(des)
    <3>1. CASE PollTail
      BY <3>1 DEF PollTail, PollReturns, Readvertise, sessionVars, TypeOK, ControlTypeOK
    <3>2. CASE applyDesiredTopics
      BY <3>2 DEF applyDesiredTopics, TypeOK, HostTypeOK
    <3> QED
      BY <1>11, <3>1, <3>2
  <2>3. CASE toServer' = toServer
    BY <1>0, <2>1, <2>3, PauseFrame
  <2>4. CASE \E des \in SUBSET Topics : reconcileSubscriptions(des)
    <3>1. PICK f \in Seq(Command) : /\ toServer' = IF isOpen THEN toServer \o f ELSE toServer
                                    /\ Without(f, Words({"pause", "resume", "get_topics"}))
      BY <2>4, ReconcileSays
    <3>2. Without(f, Words({"resume"}))
      BY <3>1 DEF Without, Words
    <3> QED
      BY <2>1, <3>1, <3>2, PauseFrame
  <2> QED
    BY <2>2, <2>3, <2>4
<1> QED
  BY <1>1, <1>2, <1>3, <1>4, <1>5, <1>6, <1>7, <1>8, <1>9, <1>10, <1>11
     DEF Next, Host, onPoll, HandleEvent

(* A stream the host has paused is paused at the server once everything is handled,
   whatever the host does and whenever the connection opened: a pause made while
   connecting is sent behind the requests of beginDiscovery, and no resume of the
   host can overtake a later pause. *)
THEOREM PausedIsHeld == Spec => [](Quiet /\ paused => srvPaused)
<1>1. Init => PauseInv
  BY DEF Init, PauseInv
<1>2. TypeOK /\ ControlInv /\ LinkInv /\ PauseInv /\ [Next]_vars => PauseInv'
  BY PauseStep
<1>3. LinkInv /\ PauseInv => (Quiet /\ paused => srvPaused)
  <2> SUFFICES ASSUME LinkInv, PauseInv, Quiet, paused PROVE srvPaused
    OBVIOUS
  <2>1. toServer = <<>> /\ running /\ isOpen /\ phase # "connecting" /\ pc = "idle"
    BY DEF Quiet
  <2>2. ~Ends(toServer, Words({"pause"}), Words({"resume"}))
    BY <2>1, NoWords
  <2> QED
    BY <2>1, <2>2 DEF PauseInv
<1> QED
  BY <1>1, <1>2, <1>3, TypeCorrect, ControlInvariant, CatalogInvariant, PTL DEF Spec

(* Requests other than a pause leave nothing to be paused. *)
LEMMA StrayFrame ==
  ASSUME TypeOK, NoStrayPause, NEW f \in Seq(Command), Without(f, Words({"pause"})),
         toServer' = toServer \/ (isOpen /\ toServer' = toServer \o f),
         UNCHANGED <<conn, paused, overtaken, srvPaused>>,
         pc' = pc \/ pc' # "pause" \/ paused
  PROVE  NoStrayPause'
<1>1. toServer \in Seq(Command)
  BY DEF TypeOK, SessionTypeOK
<1>2. /\ Without(toServer, Words({"pause"})) => Without(toServer', Words({"pause"}))
      /\ Ends(toServer, Words({"resume"}), Words({"pause"})) =>
           Ends(toServer', Words({"resume"}), Words({"pause"}))
  BY <1>1, SendingWords
<1>3. ~isOpen' => toServer' = <<>> /\ ~srvPaused'
  BY DEF NoStrayPause, isOpen
<1> QED
  BY <1>2, <1>3 DEF NoStrayPause

(* A fresh session, or none. *)
LEMMA StrayReset ==
  ASSUME toServer' = <<>>, ~srvPaused', pc' # "pause"
  PROVE  NoStrayPause'
BY NoWords DEF NoStrayPause

(* The transport and the server. *)
LEMMA StrayOnSession ==
  ASSUME TypeOK, NoStrayPause, Environment
  PROVE  NoStrayPause'
<1>1. UNCHANGED <<paused, overtaken, pc>> /\ SessionNext
  BY DEF Environment, hostVars
<1>2. CASE ConnOpen \/ ConnError
  <2>1. UNCHANGED <<toServer, srvPaused>> /\ ~isOpen
    BY <1>2 DEF ConnOpen, ConnError, isOpen, srvVars
  <2> QED
    BY <1>1, <2>1 DEF NoStrayPause
<1>3. CASE CatalogChange \/ emit_loop
  <2>1. UNCHANGED <<conn, toServer, srvPaused>>
    BY <1>3 DEF CatalogChange, emit_loop, srvVars
  <2> QED
    BY <1>1, <2>1 DEF NoStrayPause, isOpen
<1>4. CASE ConnClose
  <2>1. toServer' = <<>> /\ srvPaused' = FALSE
    BY <1>4 DEF ConnClose, NewSession
  <2>2. Without(toServer', Words({"pause"}))
    BY <2>1, NoWords
  <2> QED
    BY <1>1, <2>1, <2>2 DEF NoStrayPause
<1>5. CASE on_message
  <2> DEFINE cmd == Head(toServer)
  <2>1. /\ toServer \in Seq(Command) /\ toServer # <<>> /\ toServer' = Tail(toServer)
        /\ cmd \in Command /\ isOpen'
    BY <1>5 DEF on_message, TypeOK, SessionTypeOK, isOpen
  <2>2. /\ srvPaused' => srvPaused \/ cmd.c = "pause"
        /\ cmd.c = "resume" => ~srvPaused'
    <3>1. \/ srvPaused' = srvPaused /\ cmd.c \notin {"pause", "resume"}
          \/ srvPaused' = (cmd.c = "pause")
      BY <1>5 DEF on_message
    <3> HIDE DEF cmd
    <3>2. CASE srvPaused' = (cmd.c = "pause")
      <4>1. srvPaused' <=> cmd.c = "pause"
        BY <3>2
      <4> QED
        BY <4>1
    <3> QED
      BY <3>1, <3>2
  <2>3. /\ Without(toServer, Words({"pause"})) =>
             cmd \notin Words({"pause"}) /\ Without(toServer', Words({"pause"}))
        /\ Ends(toServer, Words({"resume"}), Words({"pause"})) =>
             \/ Ends(toServer', Words({"resume"}), Words({"pause"}))
             \/ cmd \in Words({"resume"}) /\ Without(toServer', Words({"pause"}))
    BY <2>1, TakingWords
  <2>4. /\ cmd \notin Words({"pause"}) => cmd.c # "pause"
        /\ cmd \in Words({"resume"}) => cmd.c = "resume"
    BY <2>1 DEF Words
  <2> QED
    BY <1>1, <2>1, <2>2, <2>3, <2>4 DEF NoStrayPause
<1> QED
  BY <1>1, <1>2, <1>3, <1>4, <1>5 DEF SessionNext

(* The dialog asks for catalogs only. *)
LEMMA StrayOnDialog ==
  ASSUME TypeOK, ControlInv, NoStrayPause, DialogConnect \/ DialogTick \/ DialogRefresh
  PROVE  NoStrayPause'
<1>1. UNCHANGED <<pc, paused, overtaken>> /\ pc = "idle"
  BY DEF DialogConnect, DialogTick, DialogRefresh, hostVars, ControlInv
<1>2. \/ toServer' = <<>> /\ srvPaused' = FALSE
      \/ /\ UNCHANGED <<conn, srvPaused>>
         /\ \/ isOpen /\ toServer' = toServer \o <<[c |-> "get_topics", full |-> FALSE]>>
            \/ toServer' = toServer
  BY DEF DialogConnect, DialogTick, DialogRefresh, SocketStart, SocketStop, NewSession,
     requestTopics, sendText, srvVars
<1>3. CASE toServer' = <<>> /\ srvPaused' = FALSE
  BY <1>1, <1>3, StrayReset
<1>4. [c |-> "get_topics", full |-> FALSE] \in Command \ Words({"pause"})
  BY DEF Command, Words
<1>5. /\ <<[c |-> "get_topics", full |-> FALSE]>> \in Seq(Command)
      /\ Without(<<[c |-> "get_topics", full |-> FALSE]>>, Words({"pause"}))
  BY <1>4, SingleWord
<1> QED
  BY <1>1, <1>2, <1>3, <1>5, StrayFrame

(* The start of a stream, which was not paused before it ran. *)
LEMMA StrayOnStart ==
  ASSUME TypeOK, ControlInv, PauseInv, NoStrayPause, onStart
  PROVE  NoStrayPause'
<1>1. ~paused /\ UNCHANGED <<pc, paused, overtaken>> /\ pc = "idle"
  BY DEF onStart, PauseInv, ControlInv
<1>2. PICK dem \in HostModes, sel \in Selections :
        \/ /\ UNCHANGED <<conn, srvVars>>
           /\ sendText(DiscoveryRequests(dem, sel, nextId)
                         \o IF paused THEN <<[c |-> "pause"]>> ELSE <<>>)
        \/ SocketStart
  BY DEF onStart
<1>3. CASE SocketStart
  <2>1. toServer' = <<>> /\ srvPaused' = FALSE /\ pc' # "pause"
    BY <1>1, <1>3 DEF SocketStart, NewSession
  <2> QED
    BY <2>1, StrayReset
<1>4. CASE /\ UNCHANGED <<conn, srvVars>>
           /\ sendText(DiscoveryRequests(dem, sel, nextId)
                         \o IF paused THEN <<[c |-> "pause"]>> ELSE <<>>)
  <2>1. dem \in BOOLEAN /\ sel \in SUBSET Topics /\ nextId \in Nat
    BY SourceAssumption DEF TypeOK, ControlTypeOK
  <2> DEFINE f == DiscoveryRequests(dem, sel, nextId)
  <2>2. f \in Seq(Command) /\ Without(f, Words({"pause", "resume"}))
    BY <2>1, DiscoverySays
  <2>3. toServer' = toServer \/ (isOpen /\ toServer' = toServer \o (f \o <<>>))
    BY <1>1, <1>4 DEF sendText
  <2> HIDE DEF f
  <2>4. f \o <<>> = f
    BY <2>2
  <2>5. Without(f, Words({"pause"}))
    BY <2>2 DEF Without, Words
  <2> QED
    BY <1>1, <1>4, <2>2, <2>3, <2>4, <2>5, StrayFrame DEF srvVars
<1> QED
  BY <1>2, <1>3, <1>4

(* The host's own call: a resume is the last word, unless beginDiscovery has yet to
   send the pause it read before. *)
LEMMA StrayOnCall ==
  ASSUME TypeOK, NoStrayPause, NEW op \in {"pause", "resume"}, PauseResume(op)
  PROVE  NoStrayPause'
<1>1. /\ paused' = (op = "pause") /\ overtaken' = (op = "resume" /\ pc = "pause")
      /\ sendText(<<[c |-> op]>>) /\ UNCHANGED <<conn, srvPaused, pc>>
  BY DEF PauseResume, srvVars
<1>2. toServer \in Seq(Command) /\ <<[c |-> op]>> \in Seq(Command)
  BY PauseWord DEF TypeOK, SessionTypeOK
<1>3. ~isOpen' => toServer' = <<>> /\ ~srvPaused'
  BY <1>1 DEF NoStrayPause, sendText, isOpen
<1>4. CASE op = "pause"
  BY <1>1, <1>3, <1>4 DEF NoStrayPause
<1>5. CASE op = "resume"
  <2>1. ~overtaken' => pc' # "pause"
    BY <1>1, <1>5
  <2>2. isOpen => Ends(toServer', Words({"resume"}), Words({"pause"}))
    BY <1>1, <1>2, <1>5, PauseWord, SendingWords DEF sendText
  <2>3. ~isOpen => ~srvPaused' /\ Without(toServer', Words({"pause"}))
    BY <1>1, <1>3, NoWords DEF isOpen
  <2> QED
    BY <1>3, <2>1, <2>2, <2>3 DEF NoStrayPause
<1> QED
  BY <1>4, <1>5

(* Every step keeps it. *)
LEMMA StrayStep ==
  ASSUME TypeOK, ControlInv, PauseInv, NoStrayPause, [Next]_vars
  PROVE  NoStrayPause'
<1>0. <<>> \in Seq(Command) /\ Without(<<>>, Words({"pause"}))
  BY NoWords
<1>1. CASE Environment
  BY <1>1, StrayOnSession
<1>2. CASE DialogConnect \/ DialogTick \/ DialogRefresh
  BY <1>2, StrayOnDialog
<1>3. CASE onStart
  BY <1>3, StrayOnStart
<1>4. CASE onStop
  <2>1. toServer' = <<>> /\ srvPaused' = FALSE /\ pc' # "pause"
    BY <1>4 DEF onStop, SocketStop, NewSession
  <2> QED
    BY <2>1, StrayReset
<1>5. CASE setActiveTopics \/ DeadlinePasses \/ UNCHANGED vars
  <2>1. UNCHANGED <<conn, paused, overtaken, srvPaused, pc, toServer>>
    BY <1>5 DEF setActiveTopics, DeadlinePasses, vars, sessionVars, srvVars, hostVars
  <2> QED
    BY <1>0, <2>1, StrayFrame
<1>6. CASE \E op \in {"pause", "resume"} : PauseResume(op)
  BY <1>6, StrayOnCall
<1>7. CASE SendRememberedPause
  <2>1. /\ pc = "pause" /\ pc' = "pump" /\ UNCHANGED <<conn, paused, overtaken, srvPaused>>
        /\ sendText(<<[c |-> "pause"]>>)
    BY <1>7 DEF SendRememberedPause, hostVars, srvVars
  <2>2. paused' \/ overtaken'
    BY <2>1 DEF NoStrayPause
  <2>3. ~isOpen' => toServer' = <<>> /\ ~srvPaused'
    BY <2>1 DEF NoStrayPause, sendText, isOpen
  <2> QED
    BY <2>2, <2>3 DEF NoStrayPause
<1>8. CASE PollBegin
  <2>1. pc' = "pump" /\ UNCHANGED <<conn, paused, overtaken, srvPaused, toServer>>
    BY <1>8 DEF PollBegin, srvVars, hostVars
  <2> QED
    BY <1>0, <2>1, StrayFrame
<1>9. CASE HandleOpen
  <2>1. UNCHANGED <<conn, paused, overtaken, srvPaused>> /\ (pc' = pc \/ pc' = AfterRequests)
    BY <1>9 DEF HandleOpen, srvVars, hostVars
  <2>2. pc' = pc \/ pc' # "pause" \/ paused
    BY <2>1 DEF AfterRequests
  <2> DEFINE f == DiscoveryRequests(demand, selected, nextId)
  <2>3. toServer' = toServer \/ (isOpen /\ toServer' = toServer \o f)
    BY <1>9 DEF HandleOpen, sendText
  <2>4. f \in Seq(Command) /\ Without(f, Words({"pause", "resume"}))
    BY DiscoverySays DEF TypeOK, LinkTypeOK, ControlTypeOK
  <2> HIDE DEF f
  <2>5. Without(f, Words({"pause"}))
    BY <2>4 DEF Without, Words
  <2> QED
    BY <2>1, <2>2, <2>3, <2>4, <2>5, StrayFrame
<1>10. CASE HandleFailure \/ handleSubscribeResponse \/ handleTopicsChanged
              \/ handleGetTopicsResponse \/ onBinaryFrame
  <2>1. UNCHANGED <<conn, paused, overtaken, srvPaused, pc, toServer>>
    BY <1>10 DEF HandleFailure, handleSubscribeResponse, handleTopicsChanged,
       handleGetTopicsResponse, onBinaryFrame, sessionVars, srvVars, hostVars
  <2> QED
    BY <1>0, <2>1, StrayFrame
<1>11. CASE PollTail \/ applyDesiredTopics
  <2>1. UNCHANGED <<conn, paused, overtaken, srvPaused>> /\ pc' # "pause"
    BY <1>11 DEF PollTail, PollReturns, applyDesiredTopics, sessionVars, srvVars, hostVars
  <2>2. toServer' = toServer \/ \E des \in SUBSET Topics : reconcileSubscriptions(des)
    <3>1. CASE PollTail
      BY <3>1 DEF PollTail, PollReturns, Readvertise, sessionVars, TypeOK, ControlTypeOK
    <3>2. CASE applyDesiredTopics
      BY <3>2 DEF applyDesiredTopics, TypeOK, HostTypeOK
    <3> QED
      BY <1>11, <3>1, <3>2
  <2>3. CASE toServer' = toServer
    BY <1>0, <2>1, <2>3, StrayFrame
  <2>4. CASE \E des \in SUBSET Topics : reconcileSubscriptions(des)
    <3>1. PICK f \in Seq(Command) : /\ toServer' = IF isOpen THEN toServer \o f ELSE toServer
                                    /\ Without(f, Words({"pause", "resume", "get_topics"}))
      BY <2>4, ReconcileSays
    <3>2. Without(f, Words({"pause"}))
      BY <3>1 DEF Without, Words
    <3> QED
      BY <2>1, <3>1, <3>2, StrayFrame
  <2> QED
    BY <2>2, <2>3, <2>4
<1> QED
  BY <1>1, <1>2, <1>3, <1>4, <1>5, <1>6, <1>7, <1>8, <1>9, <1>10, <1>11
     DEF Next, Host, onPoll, HandleEvent

(* At rest the server's session is paused when the host paused it, and otherwise only
   when the host's latest resume fell between beginDiscovery's reading of paused_ and
   the pause it sends for it: whatever the host calls, and however often, no other
   order of its calls, the poll and the server leaves a pause behind. *)
THEOREM PauseAgreesHolds == Spec => []PauseAgrees
<1>1. Init => PauseInv /\ NoStrayPause
  <2> SUFFICES ASSUME Init PROVE PauseInv /\ NoStrayPause
    OBVIOUS
  <2>1. ~running /\ paused = FALSE /\ pc = "idle" /\ toServer = <<>> /\ srvPaused = FALSE
    BY DEF Init, SessionInit
  <2>2. Without(toServer, Words({"pause"}))
    BY <2>1, NoWords
  <2> QED
    BY <2>1, <2>2 DEF PauseInv, NoStrayPause
<1>2. TypeOK /\ ControlInv /\ LinkInv /\ PauseInv /\ NoStrayPause /\ [Next]_vars
      => (PauseInv /\ NoStrayPause)'
  BY PauseStep, StrayStep
<1>3. PauseInv /\ NoStrayPause => PauseAgrees
  <2> SUFFICES ASSUME PauseInv, NoStrayPause, Quiet
               PROVE  (paused => srvPaused) /\ (srvPaused => paused \/ overtaken)
    BY DEF PauseAgrees
  <2>1. toServer = <<>> /\ running /\ isOpen /\ phase # "connecting" /\ pc = "idle"
    BY DEF Quiet
  <2>2. /\ ~Ends(toServer, Words({"pause"}), Words({"resume"}))
        /\ ~Ends(toServer, Words({"resume"}), Words({"pause"}))
    BY <2>1, NoWords
  <2>3. paused => srvPaused
    BY <2>1, <2>2 DEF PauseInv
  <2>4. srvPaused => paused \/ overtaken
    BY <2>2 DEF NoStrayPause
  <2> QED
    BY <2>3, <2>4
<1> QED
  BY <1>1, <1>2, <1>3, TypeCorrect, ControlInvariant, CatalogInvariant, PTL DEF Spec

(***************************************************************************)
(* A demand-driven stream, step by step.  Before discovery nothing of a    *)
(* subscription exists; from then on every step is of one of seven kinds,  *)
(* and the invariants below are shown to survive each kind.                *)
(***************************************************************************)
SubscriptionWords == {"subscribe", "unsubscribe"}
NoAnswer(s) == \A i \in 1..Len(s) : s[i].k \notin {"schemas", "data"}

(* Nothing of a subscription, on either side or under way. *)
FreshLink ==
  /\ srvSubs = {} /\ applied = {} /\ lastDesired = {}
  /\ \A t \in Topics : bindings[t] = None
  /\ Without(toServer, Words(SubscriptionWords))
  /\ NoAnswer(batch) /\ NoAnswer(inbox)

Streaming == running /\ demand /\ phase # "connecting"

StartInv ==
  /\ ~running \/ phase = "connecting" => FreshLink
  /\ pc = "desired" => phase # "connecting"

(* The requests under way gain words that subscribe nothing and ask for no catalog. *)
Speaks ==
  /\ UNCHANGED <<conn, inbox, batch, srvSubs, srvCatalog, advertised, dirty, applied, bindings,
                 lastSubId, lastDesired, unparsed, retyped>>
  /\ \E f \in Seq(Command) : /\ Without(f, Words(SubscriptionWords)) /\ Without(f, Words({"get_topics"}))
                             /\ toServer' = toServer \o f \/ toServer' = toServer

(* The server or the transport acts. *)
Serves == SessionNext /\ UNCHANGED <<controlVars, batch>>

(* The poll drains the queue. *)
Drains ==
  /\ batch = <<>> /\ batch' = inbox /\ inbox' = <<>>
  /\ UNCHANGED <<conn, toServer, srvSubs, srvCatalog, advertised, dirty, applied, bindings,
                 lastSubId, lastDesired, unparsed, retyped>>

(* The poll handles an event, which is no catalog and no answer, ... *)
HandlesOne ==
  /\ batch # <<>> /\ batch' = Tail(batch)
  /\ UNCHANGED <<conn, inbox, toServer, srvSubs, srvCatalog, lastDesired>>

Passes ==
  /\ HandlesOne /\ Head(batch).k \notin {"schemas", "changed", "topics"}
  /\ UNCHANGED <<advertised, dirty, applied, bindings, lastSubId, unparsed, retyped>>

(* ... or an answer to a subscribe, ... *)
Responds ==
  /\ HandlesOne /\ Head(batch).k = "schemas"
  /\ applied' = applied \ Rejected(Head(batch))
  /\ \A t \in Topics :
       /\ Head(batch).schemas[t] # None /\ t \in applied =>
            \/ /\ bindings'[t] = [schema |-> Head(batch).schemas[t], name |-> resolveSchemaName(t)]
               /\ t \notin unparsed'
            \/ bindings'[t] = bindings[t] /\ t \in unparsed'
       /\ ~(Head(batch).schemas[t] # None /\ t \in applied) =>
            bindings'[t] = bindings[t] /\ (t \in unparsed' <=> t \in unparsed)
  /\ UNCHANGED <<advertised, dirty, lastSubId, retyped>>

(* ... or a catalog or a change of it. *)
Learns ==
  /\ HandlesOne /\ Head(batch).k \in {"changed", "topics"}
  /\ \A t \in Topics : /\ Mentions(Head(batch), t) => advertised'[t] = Value(Head(batch), t)
                       /\ ~Mentions(Head(batch), t) => advertised'[t] = advertised[t]
  /\ \/ UNCHANGED <<advertised, dirty, applied, bindings, lastSubId, unparsed, retyped>>
     \/ dirty' /\ dropRetypedApplied(retypedTopics(advertised, advertised', applied))

(* The poll reconciles the subscriptions with a set of topics. *)
Reconciles ==
  /\ batch = <<>> /\ ~dirty' /\ (dirty => lastDesired' = lastDesired)
  /\ UNCHANGED <<conn, inbox, batch, srvSubs, srvCatalog, advertised>>
  /\ \E des \in SUBSET Topics : lastDesired' = des /\ reconcileSubscriptions(des)

(* On a link without subscriptions the server brings no answer and no frame. *)
LEMMA SessionOnFresh ==
  ASSUME TypeOK, SessionNext, srvSubs = {}, Without(toServer, Words(SubscriptionWords))
  PROVE  /\ srvSubs' = {} /\ Without(toServer', Words(SubscriptionWords))
         /\ \/ inbox' = inbox
            \/ \E e \in Event : inbox' = Append(inbox, e) /\ e.k \notin {"schemas", "data"}
<1>1. \A k \in {"open", "closed", "error", "newer"} : [k |-> k] \in Event /\ [k |-> k].k = k
  BY OtherEvents
<1>2. CASE ConnOpen \/ ConnError
  <2>1. UNCHANGED <<srvSubs, toServer>> /\ \E k \in {"open", "error"} : inbox' = Append(inbox, [k |-> k])
    BY <1>2 DEF ConnOpen, ConnError, srvVars
  <2> QED
    BY <1>1, <2>1
<1>3. CASE ConnClose
  <2>1. toServer' = <<>> /\ srvSubs' = {} /\ inbox' = Append(inbox, [k |-> "closed"])
    BY <1>3 DEF ConnClose, NewSession
  <2> QED
    BY <1>1, <2>1, NoWords
<1>4. CASE on_message
  <2> DEFINE cmd == Head(toServer)
  <2>1. /\ toServer \in Seq(Command) /\ toServer # <<>> /\ toServer' = Tail(toServer)
        /\ cmd \in Command /\ srvNewer \in BOOLEAN
    BY <1>4 DEF on_message, TypeOK, SessionTypeOK
  <2>2. cmd \notin Words(SubscriptionWords) /\ Without(toServer', Words(SubscriptionWords))
    BY <2>1, TakingWords
  <2>3. cmd.c # "subscribe"
    BY <2>1, <2>2 DEF Words, SubscriptionWords
  <2>4. srvSubs' = {}
    BY <1>4, <2>3, Answers
  <2>5. CASE srvNewer
    BY <1>1, <1>4, <2>2, <2>4, <2>5, Answers
  <2>6. CASE ~srvNewer /\ cmd.c = "get_topics"
    <3>1. \E e \in Event : inbox' = Append(inbox, e) /\ e.k = "topics"
      BY <1>4, <2>6, Answers
    <3> QED
      BY <2>2, <2>4, <3>1
  <2>7. CASE ~srvNewer /\ cmd.c # "get_topics"
    <3>1. inbox' = inbox
      BY <1>4, <2>3, <2>7, Answers
    <3> QED
      BY <2>2, <2>4, <3>1
  <2> QED
    BY <2>5, <2>6, <2>7
<1>5. CASE CatalogChange
  <2>1. UNCHANGED <<toServer, srvSubs>>
    BY <1>5 DEF CatalogChange, srvVars
  <2>2. inbox' = inbox \/ \E e \in Event : inbox' = Append(inbox, e) /\ e.k \in {"newer", "changed"}
    BY <1>5, ChangeBrings
  <2> QED
    BY <2>1, <2>2
<1>6. CASE emit_loop
  BY <1>6 DEF emit_loop
<1> QED
  BY <1>2, <1>3, <1>4, <1>5, <1>6 DEF SessionNext

(* Events without answers. *)
LEMMA NoAnswerFacts ==
  ASSUME NEW s \in Seq(Event)
  PROVE  /\ NoAnswer(<<>>)
         /\ \A e \in Event : NoAnswer(s) /\ e.k \notin {"schemas", "data"} => NoAnswer(Append(s, e))
         /\ s # <<>> /\ NoAnswer(s) => NoAnswer(Tail(s)) /\ Head(s).k \notin {"schemas", "data"}
<1>1. NoAnswer(<<>>)
  BY DEF NoAnswer
<1>2. ASSUME NEW e \in Event, NoAnswer(s), e.k \notin {"schemas", "data"}
      PROVE  NoAnswer(Append(s, e))
  <2> DEFINE u == Append(s, e)
  <2>1. /\ Len(s) \in Nat /\ Len(u) = Len(s) + 1 /\ u[Len(s) + 1] = e
        /\ \A i \in 1..Len(s) : u[i] = s[i]
    OBVIOUS
  <2> HIDE DEF u
  <2>2. NoAnswer(u)
    <3> SUFFICES ASSUME NEW i \in 1..Len(u) PROVE u[i].k \notin {"schemas", "data"}
      BY DEF NoAnswer
    <3>1. CASE i = Len(s) + 1
      BY <1>2, <2>1, <3>1
    <3>2. CASE i \in 1..Len(s)
      BY <1>2, <2>1, <3>2 DEF NoAnswer
    <3> QED
      BY <2>1, <3>1, <3>2
  <2> QED
    BY <2>2 DEF u
<1>3. ASSUME s # <<>>, NoAnswer(s) PROVE NoAnswer(Tail(s)) /\ Head(s).k \notin {"schemas", "data"}
  <2> DEFINE u == Tail(s)
  <2>1. /\ Len(s) \in Nat \ {0} /\ Len(u) = Len(s) - 1 /\ Head(s) = s[1]
        /\ \A i \in 1..Len(u) : u[i] = s[i + 1]
    BY <1>3
  <2> HIDE DEF u
  <2>2. NoAnswer(u) /\ Head(s).k \notin {"schemas", "data"}
    BY <1>3, <2>1 DEF NoAnswer
  <2> QED
    BY <2>2 DEF u
<1> QED
  BY <1>1, <1>2, <1>3

(* A link without subscriptions stays one. *)
LEMMA FreshFrame ==
  ASSUME TypeOK, FreshLink, NEW f \in Seq(Command), Without(f, Words(SubscriptionWords)),
         toServer' = toServer \o f \/ toServer' = toServer,
         UNCHANGED <<srvSubs, applied, lastDesired, bindings, inbox>>,
         batch' = batch \/ (batch # <<>> /\ batch' = Tail(batch))
  PROVE  FreshLink'
<1>1. toServer \in Seq(Command) /\ batch \in Seq(Event)
  BY DEF TypeOK, SessionTypeOK, PollTypeOK
<1>2. Without(toServer', Words(SubscriptionWords))
  BY <1>1, SendingWords DEF FreshLink
<1>3. NoAnswer(batch')
  BY <1>1, NoAnswerFacts DEF FreshLink
<1> QED
  BY <1>2, <1>3 DEF FreshLink

(* The words of the host and of discovery. *)
LEMMA PlainWords ==
  /\ <<>> \in Seq(Command) /\ Without(<<>>, Words(SubscriptionWords)) /\ Without(<<>>, Words({"get_topics"}))
  /\ \A op \in {"pause", "resume"} :
       /\ <<[c |-> op]>> \in Seq(Command)
       /\ Without(<<[c |-> op]>>, Words(SubscriptionWords)) /\ Without(<<[c |-> op]>>, Words({"get_topics"}))
  /\ /\ <<[c |-> "get_topics", full |-> FALSE]>> \in Seq(Command)
     /\ Without(<<[c |-> "get_topics", full |-> FALSE]>>, Words(SubscriptionWords))
<1>1. /\ \A op \in {"pause", "resume"} :
           /\ [c |-> op] \in Command
           /\ [c |-> op] \notin Words(SubscriptionWords) /\ [c |-> op] \notin Words({"get_topics"})
      /\ [c |-> "get_topics", full |-> FALSE] \in Command
      /\ [c |-> "get_topics", full |-> FALSE] \notin Words(SubscriptionWords)
  BY DEF Command, Words, SubscriptionWords
<1>2. /\ <<>> \in Seq(Command) /\ Without(<<>>, Words(SubscriptionWords)) /\ Without(<<>>, Words({"get_topics"}))
  BY NoWords
<1>3. ASSUME NEW op \in {"pause", "resume"}
      PROVE  /\ <<[c |-> op]>> \in Seq(Command)
             /\ Without(<<[c |-> op]>>, Words(SubscriptionWords))
             /\ Without(<<[c |-> op]>>, Words({"get_topics"}))
  BY <1>1, SingleWord
<1>4. /\ <<[c |-> "get_topics", full |-> FALSE]>> \in Seq(Command)
      /\ Without(<<[c |-> "get_topics", full |-> FALSE]>>, Words(SubscriptionWords))
  BY <1>1, SingleWord
<1> QED
  BY <1>2, <1>3, <1>4

(* The transport, the server and the dialog leave it so. *)
LEMMA FreshOnOthers ==
  ASSUME TypeOK, ControlInv, LinkInv, FreshLink,
         Environment \/ DialogConnect \/ DialogTick \/ DialogRefresh
  PROVE  FreshLink'
<1>1. UNCHANGED <<applied, lastDesired, bindings, batch>>
  BY DEF Environment, DialogConnect, DialogTick, DialogRefresh, controlVars
<1>2. inbox \in Seq(Event)
  BY DEF TypeOK, SessionTypeOK
<1>3. CASE Environment
  <2>1. /\ srvSubs' = {} /\ Without(toServer', Words(SubscriptionWords))
        /\ \/ inbox' = inbox
           \/ \E e \in Event : inbox' = Append(inbox, e) /\ e.k \notin {"schemas", "data"}
    BY <1>3, SessionOnFresh DEF Environment, FreshLink
  <2>2. NoAnswer(inbox')
    BY <1>2, <2>1, NoAnswerFacts DEF FreshLink
  <2> QED
    BY <1>1, <2>1, <2>2 DEF FreshLink
<1>4. CASE DialogConnect \/ DialogTick \/ DialogRefresh
  <2>1. \/ toServer' = <<>> /\ srvSubs' = {} /\ inbox' = <<>>
        \/ /\ srvSubs' = srvSubs
           /\ inbox' = inbox \/ (inbox # <<>> /\ inbox' = Tail(inbox))
           /\ \/ toServer' = toServer \o <<[c |-> "get_topics", full |-> FALSE]>>
              \/ toServer' = toServer
    BY <1>4 DEF DialogConnect, DialogTick, DialogRefresh, SocketStart, SocketStop, NewSession,
       requestTopics, sendText, srvVars
  <2>2. CASE toServer' = <<>> /\ srvSubs' = {} /\ inbox' = <<>>
    BY <1>1, <2>2, NoWords, NoAnswerFacts, EmptySeqs DEF FreshLink
  <2>3. CASE /\ srvSubs' = srvSubs
             /\ inbox' = inbox \/ (inbox # <<>> /\ inbox' = Tail(inbox))
             /\ \/ toServer' = toServer \o <<[c |-> "get_topics", full |-> FALSE]>>
                \/ toServer' = toServer
    <3>1. toServer \in Seq(Command)
      BY DEF TypeOK, SessionTypeOK
    <3>2. Without(toServer', Words(SubscriptionWords))
      BY <2>3, <3>1, PlainWords, SendingWords DEF FreshLink
    <3>3. NoAnswer(inbox')
      BY <1>2, <2>3, NoAnswerFacts DEF FreshLink
    <3> QED
      BY <1>1, <2>3, <3>2, <3>3 DEF FreshLink
  <2> QED
    BY <2>1, <2>2, <2>3
<1> QED
  BY <1>3, <1>4

(* The end of one stream and the start of the next. *)
LEMMA FreshOnStartStop ==
  ASSUME TypeOK, ControlInv, LinkInv, StartInv, onStart \/ onStop
  PROVE  ~running' \/ phase' = "connecting" \/ demand' => FreshLink'
<1>1. pc = "idle" /\ pc' = "idle" /\ batch = <<>> /\ batch' = <<>>
  BY DEF onStart, onStop, ControlInv, LinkInv
<1>2. NoAnswer(<<>>) /\ Without(<<>>, Words(SubscriptionWords))
  BY NoWords, NoAnswerFacts, EmptySeqs
<1>3. CASE onStop
  <2>1. /\ srvSubs' = {} /\ applied' = {} /\ lastDesired' = {} /\ toServer' = <<>> /\ inbox' = <<>>
        /\ \A t \in Topics : bindings'[t] = None
    BY <1>3 DEF onStop, SocketStop, NewSession
  <2> QED
    BY <1>1, <1>2, <2>1 DEF FreshLink
<1>4. CASE onStart
  <2>1. FreshLink /\ UNCHANGED <<applied, lastDesired, bindings, batch>>
    BY <1>4 DEF onStart, StartInv
  <2>2. PICK dem \in HostModes, sel \in Selections :
          /\ demand' = dem
          /\ \/ /\ phase' = "discovery"
                /\ sendText(DiscoveryRequests(dem, sel, nextId)
                              \o IF paused THEN <<[c |-> "pause"]>> ELSE <<>>)
                /\ UNCHANGED <<inbox, srvVars>>
             \/ phase' = "connecting" /\ SocketStart
    BY <1>4 DEF onStart
  <2>3. CASE SocketStart
    <3>1. srvSubs' = {} /\ toServer' = <<>> /\ inbox' = <<>>
      BY <2>3 DEF SocketStart, NewSession
    <3> QED
      BY <1>1, <1>2, <2>1, <3>1 DEF FreshLink
  <2>4. CASE /\ phase' = "discovery"
             /\ sendText(DiscoveryRequests(dem, sel, nextId)
                           \o IF paused THEN <<[c |-> "pause"]>> ELSE <<>>)
             /\ UNCHANGED <<inbox, srvVars>>
    <3> SUFFICES ASSUME dem PROVE FreshLink'
      BY <1>4, <2>2, <2>4 DEF onStart
    <3> DEFINE d == DiscoveryRequests(dem, sel, nextId)
               g == IF paused THEN <<[c |-> "pause"]>> ELSE <<>>
    <3>1. dem \in BOOLEAN /\ sel \in SUBSET Topics /\ nextId \in Nat
      BY SourceAssumption DEF TypeOK, ControlTypeOK
    <3>2. d \in Seq(Command) /\ Without(d, Words(SubscriptionWords))
      BY <3>1, DiscoverySays DEF SubscriptionWords
    <3>3. g \in Seq(Command) /\ Without(g, Words(SubscriptionWords))
      BY PlainWords
    <3>4. toServer' = toServer \o (d \o g) \/ toServer' = toServer
      BY <2>4 DEF sendText
    <3> HIDE DEF d, g
    <3>5. d \o g \in Seq(Command) /\ Without(d \o g, Words(SubscriptionWords))
      BY <3>2, <3>3, SendingWords
    <3> QED
      BY <2>1, <2>4, <3>4, <3>5, FreshFrame DEF srvVars
  <2> QED
    BY <2>2, <2>3, <2>4
<1> QED
  BY <1>3, <1>4

(* Discovery begins when the socket opens. *)
LEMMA FreshOnOpen ==
  ASSUME TypeOK, FreshLink, HandleOpen, demand \/ phase # "connecting"
  PROVE  FreshLink'
<1>1. /\ batch # <<>> /\ batch' = Tail(batch)
      /\ UNCHANGED <<srvSubs, applied, lastDesired, bindings, inbox>>
  BY DEF HandleOpen, Handles, srvVars
<1>2. CASE phase # "connecting"
  <2>1. toServer' = toServer
    BY <1>2 DEF HandleOpen
  <2> QED
    BY <1>1, <2>1, PlainWords, FreshFrame
<1>3. CASE phase = "connecting"
  <2> DEFINE f == DiscoveryRequests(demand, selected, nextId)
  <2>1. toServer' = toServer \o f \/ toServer' = toServer
    BY <1>3 DEF HandleOpen, sendText
  <2>2. f \in Seq(Command) /\ Without(f, Words(SubscriptionWords))
    BY <1>3, DiscoverySays DEF TypeOK, LinkTypeOK, ControlTypeOK, SubscriptionWords
  <2> HIDE DEF f
  <2> QED
    BY <1>1, <2>1, <2>2, FreshFrame
<1> QED
  BY <1>2, <1>3

(* The host's other calls, the clock and a remembered pause only speak to the server. *)
LEMMA HostKinds ==
  ASSUME setActiveTopics \/ DeadlinePasses \/ SendRememberedPause \/ UNCHANGED vars
         \/ \E op \in {"pause", "resume"} : PauseResume(op)
  PROVE  Speaks /\ UNCHANGED <<running, demand, phase, selected, srvNewer>>
<1>1. CASE setActiveTopics \/ DeadlinePasses \/ UNCHANGED vars
  <2>1. /\ UNCHANGED <<conn, inbox, batch, srvSubs, srvCatalog, toServer, srvNewer>>
        /\ UNCHANGED <<advertised, dirty, applied, bindings, lastSubId, lastDesired, unparsed, retyped>>
        /\ UNCHANGED <<running, demand, phase, selected>>
    BY <1>1 DEF setActiveTopics, DeadlinePasses, vars, sessionVars, srvVars, controlVars, linkVars, hostVars
  <2> QED
    BY <2>1, PlainWords DEF Speaks
<1>2. CASE SendRememberedPause \/ \E op \in {"pause", "resume"} : PauseResume(op)
  <2>1. PICK op \in {"pause", "resume"} : PauseResume(op) \/ (SendRememberedPause /\ op = "pause")
    BY <1>2
  <2>2. /\ UNCHANGED <<conn, inbox, batch, srvSubs, srvCatalog, srvNewer>>
        /\ UNCHANGED <<advertised, dirty, applied, bindings, lastSubId, lastDesired, unparsed, retyped>>
        /\ UNCHANGED <<running, demand, phase, selected>>
        /\ toServer' = toServer \o <<[c |-> op]>> \/ toServer' = toServer
    BY <2>1 DEF PauseResume, SendRememberedPause, sendText, srvVars, controlVars, linkVars, hostVars
  <2> QED
    BY <2>2, PlainWords DEF Speaks
<1> QED
  BY <1>1, <1>2

(* An event handled by a demand-driven stream is passed over, learned from, or the answer
   to a subscribe. *)
LEMMA HandlerKinds ==
  ASSUME TypeOK, HandleFailure \/ handleTopicsChanged \/ handleGetTopicsResponse \/ onBinaryFrame
                 \/ (handleSubscribeResponse /\ demand) \/ (HandleOpen /\ phase # "connecting")
  PROVE  /\ Passes \/ Learns \/ Responds
         /\ Head(batch).k # "schemas" => Passes \/ Learns
         /\ UNCHANGED <<running, demand, phase, selected, srvNewer>>
<1>1. CASE HandleFailure \/ onBinaryFrame \/ (HandleOpen /\ phase # "connecting")
  <2>1. /\ batch # <<>> /\ batch' = Tail(batch) /\ Head(batch).k \notin {"schemas", "changed", "topics"}
    BY <1>1 DEF HandleFailure, onBinaryFrame, HandleOpen, Handles
  <2>2. CASE HandleFailure
    BY <2>1, <2>2 DEF HandleFailure, Passes, HandlesOne, sessionVars, srvVars, controlVars, linkVars, hostVars
  <2>3. CASE onBinaryFrame
    BY <2>1, <2>3 DEF onBinaryFrame, Passes, HandlesOne, sessionVars, srvVars, controlVars, linkVars, hostVars
  <2>4. CASE HandleOpen /\ phase # "connecting"
    BY <2>1, <2>4 DEF HandleOpen, Passes, HandlesOne, srvVars, hostVars
  <2> QED
    BY <1>1, <2>2, <2>3, <2>4
<1>2. CASE handleSubscribeResponse /\ demand
  <2> DEFINE e == Head(batch)
  <2>1. /\ HandlesOne /\ e.k = "schemas" /\ applied' = applied \ Rejected(e)
        /\ UNCHANGED <<advertised, dirty, lastSubId, retyped, running, demand, phase, selected, srvNewer>>
    BY <1>2 DEF handleSubscribeResponse, Handles, HandlesOne, sessionVars, srvVars, hostVars
  <2>2. \A t \in Topics : mayBind(t) <=> t \in applied
    BY <1>2 DEF mayBind
  <2>3. ASSUME NEW t \in Topics
        PROVE  /\ e.schemas[t] # None /\ t \in applied =>
                    \/ /\ bindings'[t] = [schema |-> e.schemas[t], name |-> resolveSchemaName(t)]
                       /\ t \notin unparsed'
                    \/ bindings'[t] = bindings[t] /\ t \in unparsed'
               /\ ~(e.schemas[t] # None /\ t \in applied) =>
                    bindings'[t] = bindings[t] /\ (t \in unparsed' <=> t \in unparsed)
    <3> DEFINE named == {u \in Topics : e.schemas[u] # None /\ mayBind(u)}
    <3>1. PICK refused \in SUBSET (named \cap Refusable) :
            /\ bindings' = [u \in Topics |->
                              IF u \in named \ refused
                              THEN [schema |-> e.schemas[u], name |-> resolveSchemaName(u)]
                              ELSE bindings[u]]
            /\ unparsed' = (unparsed \ named) \cup refused
      BY <1>2 DEF handleSubscribeResponse
    <3>2. t \in named <=> e.schemas[t] # None /\ t \in applied
      BY <2>2
    <3> HIDE DEF named
    <3>3. CASE t \in refused
      BY <3>1, <3>2, <3>3
    <3>4. CASE t \in named /\ t \notin refused
      BY <3>1, <3>2, <3>4
    <3>5. CASE t \notin named
      BY <3>1, <3>2, <3>5
    <3> QED
      BY <3>3, <3>4, <3>5
  <2> QED
    BY <2>1, <2>3 DEF Responds
<1>3. CASE handleTopicsChanged \/ handleGetTopicsResponse
  <2> DEFINE e == Head(batch)
  <2>1. /\ HandlesOne /\ UNCHANGED <<running, demand, phase, selected, srvNewer>>
        /\ e.k \in {"changed", "topics"}
    BY <1>3 DEF handleTopicsChanged, handleGetTopicsResponse, Handles, HandlesOne, sessionVars, linkVars, hostVars
  <2>2. advertised \in Catalog
    BY DEF TypeOK, ControlTypeOK
  <2>3. \A t \in Topics : /\ Mentions(e, t) => advertised'[t] = Value(e, t)
                          /\ ~Mentions(e, t) => advertised'[t] = advertised[t]
    <3>1. CASE handleTopicsChanged
      <4>1. e.k = "changed" /\ advertised' = applyAdvertiseDelta(advertised, e.added, e.removed)
        BY <3>1 DEF handleTopicsChanged, Handles, NewCatalog
      <4> QED
        BY <2>2, <4>1 DEF Mentions, Value, applyAdvertiseDelta
    <3>2. CASE handleGetTopicsResponse
      <4>1. e.k = "topics" /\ advertised' = e.topics
        BY <3>2 DEF handleGetTopicsResponse, Handles, NewCatalog
      <4> QED
        BY <4>1 DEF Mentions, Value
    <3> QED
      BY <1>3, <3>1, <3>2
  <2>4. \/ UNCHANGED <<advertised, dirty, applied, bindings, lastSubId, unparsed, retyped>>
        \/ dirty' /\ dropRetypedApplied(retypedTopics(advertised, advertised', applied))
    <3>1. PICK after : NewCatalog(after)
      BY <1>3 DEF handleTopicsChanged, handleGetTopicsResponse
    <3> QED
      BY <3>1 DEF NewCatalog
  <2> QED
    BY <2>1, <2>3, <2>4 DEF Learns
<1> QED
  BY <1>1, <1>2, <1>3

(* The other steps of a poll drain the queue, speak or reconcile. *)
LEMMA PollKinds ==
  ASSUME TypeOK, ControlInv, LinkInv, StartInv, PollBegin \/ PollTail \/ applyDesiredTopics
  PROVE  /\ Drains \/ Speaks \/ Reconciles
         /\ phase = "connecting" => Drains \/ Speaks
         /\ UNCHANGED <<running, demand, selected, srvNewer>>
         /\ running /\ (phase' = "connecting" <=> phase = "connecting")
<1>1. CASE PollBegin
  <2>1. /\ Drains /\ running /\ UNCHANGED <<running, demand, selected, srvNewer, phase>>
    BY <1>1 DEF PollBegin, Drains, LinkInv, srvVars, controlVars, linkVars, hostVars
  <2> QED
    BY <2>1
<1>2. CASE PollTail
  <2>1. running /\ batch = <<>> /\ UNCHANGED <<running, demand, selected, srvNewer, conn, inbox, batch>>
    BY <1>2 DEF PollTail, PollReturns, ControlInv, sessionVars, srvVars, linkVars, hostVars
  <2>2. phase' = "connecting" <=> phase = "connecting"
    BY <1>2 DEF PollTail, linkVars
  <2>3. CASE toServer' = toServer /\ UNCHANGED controlVars
    <3>1. UNCHANGED <<srvSubs, srvCatalog, advertised, dirty, applied, bindings, lastSubId, lastDesired,
                      unparsed, retyped>>
      BY <1>2, <2>3 DEF PollTail, PollReturns, sessionVars, srvVars, controlVars
    <3> QED
      BY <2>1, <2>2, <2>3, <3>1, PlainWords DEF Speaks
  <2>4. CASE Readvertise /\ phase # "connecting" /\ UNCHANGED <<srvSubs, srvCatalog, advertised, lastDesired>>
    <3>1. lastDesired \in SUBSET Topics /\ reconcileSubscriptions(lastDesired) /\ ~dirty'
      BY <2>4 DEF Readvertise, TypeOK, ControlTypeOK
    <3> QED
      BY <2>1, <2>2, <2>4, <3>1 DEF Reconciles
  <2>5. \/ toServer' = toServer /\ UNCHANGED controlVars
        \/ Readvertise /\ phase # "connecting" /\ UNCHANGED <<srvSubs, srvCatalog, advertised, lastDesired>>
    <3>1. CASE PollReturns
      BY <3>1 DEF PollReturns, sessionVars
    <3>2. CASE ~PollReturns
      <4>1. /\ phase # "connecting"
            /\ UNCHANGED <<srvSubs, srvCatalog, advertised, lastDesired>>
            /\ \/ Readvertise
               \/ UNCHANGED <<dirty, listed, applied, bindings, lastSubId, nextId, unparsed, retyped,
                              toServer>>
        BY <1>2, <3>2 DEF PollTail, srvVars
      <4> QED
        BY <4>1 DEF controlVars
    <3> QED
      BY <3>1, <3>2
  <2> QED
    BY <2>3, <2>4, <2>5
<1>3. CASE applyDesiredTopics
  <2>1. /\ pc = "desired" /\ running /\ batch = <<>> /\ phase # "connecting" /\ ~dirty
        /\ UNCHANGED <<running, demand, selected, srvNewer, phase, conn, inbox, batch>>
        /\ UNCHANGED <<srvSubs, srvCatalog, advertised, dirty>>
    BY <1>3 DEF applyDesiredTopics, ControlInv, LinkInv, StartInv, srvVars, linkVars
  <2>2. CASE slot = None
    <3>1. UNCHANGED <<lastDesired, applied, bindings, lastSubId, unparsed, retyped, toServer>>
      BY <1>3, <2>2 DEF applyDesiredTopics
    <3> QED
      BY <2>1, <3>1, PlainWords DEF Speaks
  <2>3. CASE slot # None
    <3>1. slot \in SUBSET Topics /\ lastDesired' = slot /\ reconcileSubscriptions(slot)
      BY <1>3, <2>3 DEF applyDesiredTopics, TypeOK, HostTypeOK
    <3>2. ~dirty'
      BY <2>1
    <3> QED
      BY <2>1, <3>1, <3>2 DEF Reconciles
  <2> QED
    BY <2>2, <2>3
<1> QED
  BY <1>1, <1>2, <1>3

(* A link without subscriptions and the steps of a poll. *)
LEMMA FreshOnKinds ==
  ASSUME TypeOK, FreshLink, Speaks \/ Drains \/ Passes \/ Learns
  PROVE  FreshLink'
<1>1. CASE Speaks
  <2>1. PICK f \in Seq(Command) : /\ Without(f, Words(SubscriptionWords))
                                  /\ toServer' = toServer \o f \/ toServer' = toServer
    BY <1>1 DEF Speaks
  <2> QED
    BY <1>1, <2>1, FreshFrame DEF Speaks
<1>2. CASE Drains
  <2>1. NoAnswer(batch') /\ NoAnswer(inbox')
    BY <1>2, NoAnswerFacts, EmptySeqs DEF Drains, FreshLink
  <2> QED
    BY <1>2, <2>1 DEF Drains, FreshLink
<1>3. CASE Passes
  BY <1>3, PlainWords, FreshFrame DEF Passes, HandlesOne
<1>4. CASE Learns
  <2>1. applied' = {} /\ \A t \in Topics : bindings'[t] = None
    BY <1>4 DEF Learns, dropRetypedApplied, Erase, FreshLink
  <2>2. /\ batch # <<>> /\ batch' = Tail(batch)
        /\ UNCHANGED <<inbox, toServer, srvSubs, lastDesired>>
    BY <1>4 DEF Learns, HandlesOne
  <2>3. batch \in Seq(Event)
    BY DEF TypeOK, PollTypeOK
  <2>4. NoAnswer(batch')
    BY <2>2, <2>3, NoAnswerFacts DEF FreshLink
  <2> QED
    BY <2>1, <2>2, <2>4 DEF FreshLink
<1> QED
  BY <1>1, <1>2, <1>3, <1>4

(* Every step keeps StartInv. *)
LEMMA StartStep ==
  ASSUME TypeOK, ControlInv, LinkInv, StartInv, [Next]_vars
  PROVE  StartInv'
<1>1. pc' = "desired" => phase' # "connecting"
  <2> SUFFICES ASSUME pc' = "desired" PROVE phase' # "connecting"
    OBVIOUS
  <2>1. CASE PollTail
    BY <2>1 DEF PollTail, PollReturns, linkVars
  <2>2. CASE onStart \/ onStop
    <3>1. pc' = "idle"
      BY <2>2 DEF onStart, onStop, ControlInv
    <3> QED
      BY <3>1
  <2>3. CASE HandleEvent \/ PollBegin \/ SendRememberedPause \/ applyDesiredTopics
    <3>1. pc' # "desired"
      BY <2>3 DEF HandleEvent, HandleOpen, HandleFailure, handleSubscribeResponse, handleTopicsChanged,
         handleGetTopicsResponse, onBinaryFrame, Handles, AfterRequests, PollBegin, SendRememberedPause,
         applyDesiredTopics
    <3> QED
      BY <3>1
  <2>4. CASE Environment \/ DialogConnect \/ DialogTick \/ DialogRefresh \/ setActiveTopics
             \/ DeadlinePasses \/ UNCHANGED vars \/ \E op \in {"pause", "resume"} : PauseResume(op)
    <3>1. UNCHANGED <<pc, phase>>
      BY <2>4 DEF Environment, DialogConnect, DialogTick, DialogRefresh, setActiveTopics, DeadlinePasses,
         PauseResume, vars, linkVars
    <3> QED
      BY <3>1 DEF StartInv
  <2> QED
    BY <2>1, <2>2, <2>3, <2>4 DEF Next, Host, onPoll
<1>2. ASSUME ~running' \/ phase' = "connecting" PROVE FreshLink'
  <2>1. CASE Environment \/ DialogConnect \/ DialogTick \/ DialogRefresh
    <3>1. FreshLink
      BY <1>2, <2>1 DEF Environment, DialogConnect, DialogTick, DialogRefresh, StartInv, linkVars, hostVars
    <3> QED
      BY <2>1, <3>1, FreshOnOthers
  <2>2. CASE onStart \/ onStop
    BY <1>2, <2>2, FreshOnStartStop
  <2>3. CASE setActiveTopics \/ DeadlinePasses \/ SendRememberedPause \/ UNCHANGED vars
             \/ \E op \in {"pause", "resume"} : PauseResume(op)
    <3>1. Speaks /\ UNCHANGED <<running, phase>>
      BY <2>3, HostKinds
    <3>2. FreshLink
      BY <1>2, <3>1 DEF StartInv
    <3> QED
      BY <3>1, <3>2, FreshOnKinds
  <2>4. CASE PollBegin \/ PollTail \/ applyDesiredTopics
    <3>1. phase = "connecting" /\ (Drains \/ Speaks)
      BY <1>2, <2>4, PollKinds
    <3>2. FreshLink
      BY <3>1 DEF StartInv
    <3> QED
      BY <3>1, <3>2, FreshOnKinds
  <2>5. CASE HandleEvent
    <3>1. batch # <<>> /\ UNCHANGED running /\ pc = "pump"
      BY <2>5 DEF HandleEvent, HandleOpen, HandleFailure, handleSubscribeResponse, handleTopicsChanged,
         handleGetTopicsResponse, onBinaryFrame, Handles, hostVars
    <3>2. phase = "connecting" /\ phase' = "connecting"
      BY <1>2, <2>5, <3>1 DEF HandleEvent, HandleOpen, HandleFailure, handleSubscribeResponse, handleTopicsChanged,
         handleGetTopicsResponse, onBinaryFrame, linkVars, ControlInv
    <3>3. FreshLink
      BY <3>2 DEF StartInv
    <3>4. Head(batch).k # "schemas"
      BY <3>1, <3>3, NoAnswerFacts DEF FreshLink, TypeOK, PollTypeOK
    <3>5. ~handleSubscribeResponse /\ ~HandleOpen
      BY <3>2, <3>4 DEF handleSubscribeResponse, Handles, HandleOpen
    <3>6. Passes \/ Learns
      BY <2>5, <3>4, <3>5, HandlerKinds DEF HandleEvent
    <3> QED
      BY <3>3, <3>6, FreshOnKinds
  <2> QED
    BY <2>1, <2>2, <2>3, <2>4, <2>5 DEF Next, Host, onPoll
<1> QED
  BY <1>1, <1>2 DEF StartInv

(* Nothing is subscribed before the first stream. *)
LEMMA StartInit == Init => StartInv
<1> SUFFICES ASSUME Init PROVE StartInv
  OBVIOUS
<1>1. /\ srvSubs = {} /\ applied = {} /\ lastDesired = {} /\ toServer = <<>> /\ inbox = <<>> /\ batch = <<>>
      /\ pc = "idle" /\ \A t \in Topics : bindings[t] = None
  BY DEF Init, SessionInit
<1> QED
  BY <1>1, NoWords, NoAnswerFacts, EmptySeqs DEF StartInv, FreshLink

(* Every step of a demand-driven stream is of one of the seven kinds, or it is the
   one that begins discovery. *)
LEMMA StreamSteps ==
  ASSUME TypeOK, ControlInv, LinkInv, StartInv, [Next]_vars, Streaming'
  PROVE  \/ FreshLink'
         \/ /\ Streaming /\ UNCHANGED <<demand, selected, srvNewer>>
            /\ Speaks \/ Serves \/ Drains \/ Passes \/ Responds \/ Learns \/ Reconciles
<1>1. CASE Environment
  <2>1. UNCHANGED <<running, demand, phase, selected, controlVars, batch>> /\ SessionNext
    BY <1>1 DEF Environment, linkVars, hostVars
  <2>2. srvNewer' = srvNewer
    BY <2>1 DEF SessionNext, ConnOpen, ConnError, ConnClose, on_message, CatalogChange, emit_loop, srvVars
  <2> QED
    BY <2>1, <2>2 DEF Serves, Streaming
<1>2. CASE DialogConnect \/ DialogTick \/ DialogRefresh \/ onStop
  <2>1. ~running'
    BY <1>2 DEF DialogConnect, DialogTick, DialogRefresh, onStop, hostVars
  <2> QED
    BY <2>1 DEF Streaming
<1>3. CASE onStart
  BY <1>3, FreshOnStartStop DEF Streaming
<1>4. CASE setActiveTopics \/ DeadlinePasses \/ SendRememberedPause \/ UNCHANGED vars
           \/ \E op \in {"pause", "resume"} : PauseResume(op)
  BY <1>4, HostKinds DEF Streaming
<1>5. CASE PollBegin \/ PollTail \/ applyDesiredTopics
  BY <1>5, PollKinds DEF Streaming
<1>6. CASE HandleOpen /\ phase = "connecting"
  <2>1. demand
    BY <1>6 DEF HandleOpen, Streaming
  <2>2. FreshLink
    BY <1>6 DEF StartInv
  <2> QED
    BY <1>6, <2>1, <2>2, FreshOnOpen
<1>7. CASE HandleEvent /\ ~(HandleOpen /\ phase = "connecting")
  <2>1. UNCHANGED demand
    BY <1>7 DEF HandleEvent, HandleOpen, HandleFailure, handleSubscribeResponse, handleTopicsChanged,
       handleGetTopicsResponse, onBinaryFrame, linkVars
  <2>2. demand
    BY <2>1 DEF Streaming
  <2>3. /\ Passes \/ Learns \/ Responds
        /\ UNCHANGED <<running, demand, phase, selected, srvNewer>>
    BY <1>7, <2>2, HandlerKinds DEF HandleEvent
  <2> QED
    BY <2>3 DEF Streaming
<1> QED
  BY <1>1, <1>2, <1>3, <1>4, <1>5, <1>6, <1>7 DEF Next, Host, onPoll

(***************************************************************************)
(* What the events under way take the catalog to be.                       *)
(***************************************************************************)
(* A stream whose server speaks this protocol. *)
Live == Streaming /\ ~srvNewer

(* The catalog is asked for before anything is subscribed. *)
OrderInv ==
  Streaming => /\ Apart(toServer, Words({"subscribe"}), Words({"get_topics"}))
               /\ srvSubs = {} \/ Without(toServer, Words({"get_topics"}))

(* What an event takes the entry of t to be: a refused topic is in no catalog, a
   schema and a frame are of the catalog's type. *)
Agrees(e, t, v) ==
  /\ e.k = "schemas" /\ t \in e.failures => v = None
  /\ e.k = "schemas" /\ e.schemas[t] # None => v # None /\ v.ty = e.schemas[t]
  /\ e.k = "data" /\ e.topic = t => v # None /\ v.ty = e.ty

(* The entry of t once the events of s are handled. *)
Entry(s, entry, t, v) == LastSays(s, t, v) \/ (Silent(s, t) /\ entry = v)

(* The catalog's last word on t before the i-th event of s. *)
Precedes(s, j, i, t) ==
  /\ j < i /\ Mentions(s[j], t)
  /\ \A l \in 1..Len(s) : j < l /\ l < i => ~Mentions(s[l], t)
FirstWord(s, i, t) == \A j \in 1..Len(s) : j < i => ~Mentions(s[j], t)

(* Every event of s agrees with the catalog as it is when the event is handled. *)
Known(s, entry, t) ==
  \A i \in 1..Len(s) :
    /\ \A j \in 1..Len(s) : Precedes(s, j, i, t) => Agrees(s[i], t, Value(s[j], t))
    /\ FirstWord(s, i, t) => Agrees(s[i], t, entry)

KnownTopic(t) ==
  /\ Known(batch, advertised[t], t)
  /\ \A v : Entry(batch, advertised[t], t, v) => Known(inbox, v, t)

KnownInv == Live => \A t \in Topics : KnownTopic(t)

(* There is one such entry. *)
LEMMA EntryUnique ==
  ASSUME NEW s \in Seq(Event), NEW entry, NEW t, NEW v, NEW w,
         Entry(s, entry, t, v), Entry(s, entry, t, w)
  PROVE  v = w
<1>1. CASE Silent(s, t)
  <2>1. ~LastSays(s, t, v) /\ ~LastSays(s, t, w)
    BY <1>1 DEF Silent, LastSays
  <2> QED
    BY <2>1 DEF Entry
<1>2. CASE ~Silent(s, t)
  <2>1. PICK i \in 1..Len(s) : /\ Mentions(s[i], t) /\ Value(s[i], t) = v
                               /\ \A j \in 1..Len(s) : j > i => ~Mentions(s[j], t)
    BY <1>2 DEF Entry, LastSays
  <2>2. PICK k \in 1..Len(s) : /\ Mentions(s[k], t) /\ Value(s[k], t) = w
                               /\ \A j \in 1..Len(s) : j > k => ~Mentions(s[j], t)
    BY <1>2 DEF Entry, LastSays
  <2>3. i \in Nat /\ k \in Nat /\ ~(i > k) /\ ~(k > i)
    BY <2>1, <2>2
  <2>4. i = k
    BY <2>3
  <2> QED
    BY <2>1, <2>2, <2>4
<1> QED
  BY <1>1, <1>2

(* An event arrives that agrees with the catalog as it will be then. *)
LEMMA KnownOnArrival ==
  ASSUME NEW s \in Seq(Event), NEW e \in Event, NEW entry, NEW t, Known(s, entry, t),
         \A v : Entry(s, entry, t, v) => Agrees(e, t, v)
  PROVE  Known(Append(s, e), entry, t)
<1> DEFINE u == Append(s, e)
<1>1. /\ Len(s) \in Nat /\ Len(u) = Len(s) + 1 /\ u[Len(s) + 1] = e
      /\ \A i \in 1..Len(s) : u[i] = s[i]
  OBVIOUS
<1> HIDE DEF u
<1>2. \A i \in 1..Len(s) : i \in 1..Len(u) /\ i < Len(s) + 1
  BY <1>1
<1>3. ASSUME NEW i \in 1..Len(u), NEW j \in 1..Len(u), Precedes(u, j, i, t)
      PROVE  Agrees(u[i], t, Value(u[j], t))
  <2>1. j < i /\ Mentions(u[j], t) /\ (\A l \in 1..Len(u) : j < l /\ l < i => ~Mentions(u[l], t))
    BY <1>3 DEF Precedes
  <2>2. j \in 1..Len(s) /\ u[j] = s[j]
    BY <1>1, <2>1
  <2>3. CASE i \in 1..Len(s)
    <3>1. Precedes(s, j, i, t)
      BY <1>1, <1>2, <2>1, <2>2, <2>3 DEF Precedes
    <3> QED
      BY <1>1, <2>2, <2>3, <3>1 DEF Known
  <2>4. CASE i = Len(s) + 1
    <3>1. \A l \in 1..Len(s) : l > j => ~Mentions(s[l], t)
      BY <1>1, <1>2, <2>1, <2>4
    <3>2. LastSays(s, t, Value(s[j], t))
      BY <2>1, <2>2, <3>1 DEF LastSays
    <3> QED
      BY <1>1, <2>2, <2>4, <3>2 DEF Entry
  <2> QED
    BY <1>1, <2>3, <2>4
<1>4. ASSUME NEW i \in 1..Len(u), FirstWord(u, i, t)
      PROVE  Agrees(u[i], t, entry)
  <2>1. CASE i \in 1..Len(s)
    <3>1. FirstWord(s, i, t)
      BY <1>1, <1>2, <1>4, <2>1 DEF FirstWord
    <3> QED
      BY <1>1, <2>1, <3>1 DEF Known
  <2>2. CASE i = Len(s) + 1
    <3>1. Silent(s, t)
      BY <1>1, <1>2, <1>4, <2>2 DEF FirstWord, Silent
    <3> QED
      BY <1>1, <2>2, <3>1 DEF Entry
  <2> QED
    BY <1>1, <2>1, <2>2
<1>5. Known(u, entry, t)
  BY <1>3, <1>4 DEF Known
<1> QED
  BY <1>5 DEF u

(* An event is handled: it agrees with the source's entry, and the rest with the
   entry it leaves. *)
LEMMA KnownOnHandling ==
  ASSUME NEW s \in Seq(Event), s # <<>>, NEW entry, NEW entry2, NEW t, Known(s, entry, t),
         Mentions(Head(s), t) => entry2 = Value(Head(s), t),
         ~Mentions(Head(s), t) => entry2 = entry
  PROVE  /\ Agrees(Head(s), t, entry)
         /\ Known(Tail(s), entry2, t)
         /\ \A v : Entry(Tail(s), entry2, t, v) => Entry(s, entry, t, v)
<1> DEFINE u == Tail(s)
<1>1. /\ Len(s) \in Nat \ {0} /\ Len(u) = Len(s) - 1 /\ Head(s) = s[1]
      /\ \A i \in 1..Len(u) : u[i] = s[i + 1]
  OBVIOUS
<1> HIDE DEF u
<1>2. /\ \A i \in 1..Len(s) : i > 1 => i - 1 \in 1..Len(u) /\ u[i - 1] = s[i]
      /\ \A i \in 1..Len(u) : i + 1 \in 1..Len(s) /\ i + 1 > 1
      /\ 1 \in 1..Len(s)
      /\ \A i \in 1..Len(s) : i = 1 \/ i > 1
  BY <1>1
<1>3. Agrees(Head(s), t, entry)
  <2>1. FirstWord(s, 1, t)
    BY <1>1 DEF FirstWord
  <2> QED
    BY <1>1, <1>2, <2>1 DEF Known
<1>4. ASSUME NEW i \in 1..Len(u), NEW j \in 1..Len(u), Precedes(u, j, i, t)
      PROVE  Agrees(u[i], t, Value(u[j], t))
  <2>1. j < i /\ Mentions(u[j], t) /\ (\A l \in 1..Len(u) : j < l /\ l < i => ~Mentions(u[l], t))
    BY <1>4 DEF Precedes
  <2>2. i + 1 \in 1..Len(s) /\ j + 1 \in 1..Len(s) /\ u[i] = s[i + 1] /\ u[j] = s[j + 1] /\ j + 1 < i + 1
    BY <1>1, <1>2, <2>1
  <2>3. \A l \in 1..Len(s) : j + 1 < l /\ l < i + 1 => ~Mentions(s[l], t)
    <3> SUFFICES ASSUME NEW l \in 1..Len(s), j + 1 < l, l < i + 1 PROVE ~Mentions(s[l], t)
      OBVIOUS
    <3>1. l - 1 \in 1..Len(u) /\ u[l - 1] = s[l] /\ j < l - 1 /\ l - 1 < i
      BY <1>1, <1>2
    <3> QED
      BY <2>1, <3>1
  <2>4. Precedes(s, j + 1, i + 1, t)
    BY <2>1, <2>2, <2>3 DEF Precedes
  <2> QED
    BY <2>2, <2>4 DEF Known
<1>5. ASSUME NEW i \in 1..Len(u), FirstWord(u, i, t)
      PROVE  Agrees(u[i], t, entry2)
  <2>1. i + 1 \in 1..Len(s) /\ u[i] = s[i + 1] /\ 1 < i + 1
    BY <1>1, <1>2
  <2>2. \A l \in 1..Len(s) : 1 < l /\ l < i + 1 => ~Mentions(s[l], t)
    <3> SUFFICES ASSUME NEW l \in 1..Len(s), 1 < l, l < i + 1 PROVE ~Mentions(s[l], t)
      OBVIOUS
    <3>1. l - 1 \in 1..Len(u) /\ u[l - 1] = s[l] /\ l - 1 < i
      BY <1>1, <1>2
    <3> QED
      BY <1>5, <3>1 DEF FirstWord
  <2>3. CASE Mentions(Head(s), t)
    <3>1. Precedes(s, 1, i + 1, t)
      BY <1>1, <2>1, <2>2, <2>3 DEF Precedes
    <3>2. Agrees(s[i + 1], t, Value(s[1], t))
      BY <1>2, <2>1, <3>1 DEF Known
    <3> QED
      BY <1>1, <2>1, <2>3, <3>2
  <2>4. CASE ~Mentions(Head(s), t)
    <3>1. FirstWord(s, i + 1, t)
      BY <1>1, <1>2, <2>2, <2>4 DEF FirstWord
    <3>2. Agrees(s[i + 1], t, entry)
      BY <2>1, <3>1 DEF Known
    <3> QED
      BY <2>1, <2>4, <3>2
  <2> QED
    BY <2>3, <2>4
<1>6. ASSUME NEW v, Entry(u, entry2, t, v) PROVE Entry(s, entry, t, v)
  <2>1. CASE LastSays(u, t, v)
    <3>1. PICK i \in 1..Len(u) : /\ Mentions(u[i], t) /\ Value(u[i], t) = v
                                 /\ \A j \in 1..Len(u) : j > i => ~Mentions(u[j], t)
      BY <2>1 DEF LastSays
    <3>2. i + 1 \in 1..Len(s) /\ u[i] = s[i + 1]
      BY <1>1, <1>2
    <3>3. \A j \in 1..Len(s) : j > i + 1 => ~Mentions(s[j], t)
      <4> SUFFICES ASSUME NEW j \in 1..Len(s), j > i + 1 PROVE ~Mentions(s[j], t)
        OBVIOUS
      <4>1. j - 1 \in 1..Len(u) /\ u[j - 1] = s[j] /\ j - 1 > i
        BY <1>1, <1>2
      <4> QED
        BY <3>1, <4>1
    <3>4. LastSays(s, t, v)
      BY <3>1, <3>2, <3>3 DEF LastSays
    <3> QED
      BY <3>4 DEF Entry
  <2>2. CASE Silent(u, t) /\ entry2 = v
    <3>1. \A j \in 1..Len(s) : j > 1 => ~Mentions(s[j], t)
      BY <1>2, <2>2 DEF Silent
    <3>2. CASE Mentions(Head(s), t)
      <4>1. LastSays(s, t, v)
        BY <1>1, <1>2, <2>2, <3>1, <3>2 DEF LastSays
      <4> QED
        BY <4>1 DEF Entry
    <3>3. CASE ~Mentions(Head(s), t)
      <4>1. Silent(s, t) /\ entry = v
        BY <1>1, <1>2, <2>2, <3>1, <3>3 DEF Silent
      <4> QED
        BY <4>1 DEF Entry
    <3> QED
      BY <3>2, <3>3
  <2> QED
    BY <1>6, <2>1, <2>2 DEF Entry
<1>7. Known(u, entry2, t)
  BY <1>4, <1>5 DEF Known
<1> QED
  BY <1>3, <1>6, <1>7 DEF u

(* Events that are no answer agree with anything. *)
LEMMA NoAnswerKnown ==
  ASSUME NEW s, NoAnswer(s)
  PROVE  \A t, v : Known(s, v, t)
BY DEF NoAnswer, Known, Agrees

(* The server's step on its requests. *)
LEMMA SessionKinds ==
  ASSUME TypeOK, SessionNext
  PROVE  /\ toServer \in Seq(Command) /\ toServer' \in Seq(Command)
         /\ inbox \in Seq(Event) /\ inbox' \in Seq(Event)
         /\ \/ UNCHANGED <<toServer, srvSubs>> /\ ~on_message
            \/ toServer' = <<>> /\ srvSubs' = {} /\ conn' = "closed" /\ inbox' = Append(inbox, [k |-> "closed"])
            \/ on_message /\ toServer # <<>> /\ toServer' = Tail(toServer) /\ Head(toServer) \in Command
<1>1. SessionTypeOK /\ SessionTypeOK'
  BY SessionTypeStep DEF TypeOK
<1>2. \/ UNCHANGED <<toServer, srvSubs>> /\ ~on_message
      \/ toServer' = <<>> /\ srvSubs' = {} /\ conn' = "closed" /\ inbox' = Append(inbox, [k |-> "closed"])
      \/ on_message /\ toServer # <<>> /\ toServer' = Tail(toServer)
  BY DEF SessionNext, ConnOpen, ConnError, ConnClose, NewSession, on_message, CatalogChange, emit_loop, srvVars
<1> QED
  BY <1>1, <1>2 DEF SessionTypeOK

(* Every step keeps the order. *)
LEMMA OrderStep ==
  ASSUME TypeOK, ControlInv, LinkInv, StartInv, OrderInv, [Next]_vars
  PROVE  OrderInv'
<1> DEFINE subs == Words({"subscribe"})
           gets == Words({"get_topics"})
<1>0. toServer \in Seq(Command) /\ subs \subseteq Words(SubscriptionWords)
  BY DEF TypeOK, SessionTypeOK, Words, SubscriptionWords
<1>9. \A m \in Command : m \in subs <=> m.c = "subscribe"
  BY DEF Words
<1> SUFFICES ASSUME Streaming'
             PROVE  Apart(toServer', subs, gets) /\ (srvSubs' = {} \/ Without(toServer', gets))
  BY DEF OrderInv
<1> HIDE DEF subs, gets
<1>1. CASE FreshLink'
  <2>1. Without(toServer', subs) /\ srvSubs' = {}
    BY <1>0, <1>1, FewerWords DEF FreshLink
  <2> QED
    BY <2>1 DEF Without, Apart
<1>2. CASE Streaming /\ (Speaks \/ Serves \/ Drains \/ Passes \/ Responds \/ Learns \/ Reconciles)
  <2>1. Apart(toServer, subs, gets) /\ (srvSubs = {} \/ Without(toServer, gets))
    BY <1>2 DEF OrderInv, subs, gets
  <2>2. CASE Drains \/ Passes \/ Responds \/ Learns
    <3>1. UNCHANGED <<toServer, srvSubs>>
      BY <2>2 DEF Drains, Passes, Responds, Learns, HandlesOne
    <3> QED
      BY <2>1, <3>1
  <2>3. CASE Speaks
    <3>1. PICK f \in Seq(Command) : Without(f, gets) /\ (toServer' = toServer \o f \/ toServer' = toServer)
      BY <2>3 DEF Speaks, gets
    <3>2. srvSubs' = srvSubs
      BY <2>3 DEF Speaks
    <3> QED
      BY <1>0, <2>1, <3>1, <3>2, SendingWords
  <2>4. CASE Reconciles
    <3>1. PICK des \in SUBSET Topics : reconcileSubscriptions(des)
      BY <2>4 DEF Reconciles
    <3>2. PICK f \in Seq(Command) : /\ Without(f, Words({"pause", "resume", "get_topics"}))
                                    /\ toServer' = toServer \o f \/ toServer' = toServer
      BY <3>1, ReconcileSays
    <3>3. Without(f, gets)
      <4>1. gets \subseteq Words({"pause", "resume", "get_topics"})
        BY DEF gets, Words
      <4> QED
        BY <3>2, <4>1, FewerWords
    <3>4. srvSubs' = srvSubs
      BY <2>4 DEF Reconciles
    <3> QED
      BY <1>0, <2>1, <3>2, <3>3, <3>4, SendingWords
  <2>5. CASE Serves
    <3>1. CASE UNCHANGED <<toServer, srvSubs>>
      BY <2>1, <3>1
    <3>2. CASE toServer' = <<>>
      BY <3>2, NoWords
    <3>3. CASE on_message /\ toServer # <<>> /\ toServer' = Tail(toServer) /\ Head(toServer) \in Command
      <4>1. /\ Apart(Tail(toServer), subs, gets)
            /\ Without(toServer, gets) => Without(Tail(toServer), gets)
            /\ Head(toServer) \in subs => Without(Tail(toServer), gets)
        BY <1>0, <2>1, <3>3, TakingWords
      <4>2. Head(toServer) \notin subs => srvSubs' \subseteq srvSubs
        BY <1>9, <3>3, Answers
      <4> QED
        BY <2>1, <3>3, <4>1, <4>2
    <3> QED
      BY <2>5, <3>1, <3>2, <3>3, SessionKinds DEF Serves
  <2> QED
    BY <1>2, <2>2, <2>3, <2>4, <2>5
<1> QED
  BY <1>1, <1>2, StreamSteps

(* There is one entry all events under way lead to. *)
LEMMA LeadsUnique ==
  ASSUME NEW now \in Seq(Event), NEW rest \in Seq(Event), NEW entry, NEW t, NEW v, NEW w,
         Leads(now, rest, entry, t, v), Leads(now, rest, entry, t, w)
  PROVE  v = w
<1>1. CASE Silent(rest, t)
  <2>1. ~LastSays(rest, t, v) /\ ~LastSays(rest, t, w)
    BY <1>1 DEF Silent, LastSays
  <2>2. Entry(now, entry, t, v) /\ Entry(now, entry, t, w)
    BY <2>1 DEF Leads, Entry
  <2> QED
    BY <2>2, EntryUnique
<1>2. CASE ~Silent(rest, t)
  <2>1. Entry(rest, entry, t, v) /\ Entry(rest, entry, t, w)
    BY <1>2 DEF Leads, Entry
  <2> QED
    BY <2>1, EntryUnique
<1> QED
  BY <1>1, <1>2

(* What a subscribe is answered with: the schema of every topic it starts, and a
   refusal of every topic the server does not know. *)
LEMMA AnswerSays ==
  ASSUME TypeOK, on_message, ~srvNewer, Head(toServer).c = "subscribe"
  PROVE  \E e \in Event :
           /\ inbox' = Append(inbox, e) /\ e.k = "schemas" /\ e.id = Head(toServer).id
           /\ e.failures = {t \in Head(toServer).topics \ srvSubs : srvCatalog[t] = None}
           /\ \A t \in Topics : /\ e.schemas[t] # None => e.schemas[t] = srvCatalog[t]
                                /\ t \in Head(toServer).topics \ srvSubs => e.schemas[t] = srvCatalog[t]
<1> DEFINE cmd == Head(toServer)
           fresh == {t \in cmd.topics \ srvSubs : srvCatalog[t] # None}
           gone == {t \in cmd.topics \ srvSubs : srvCatalog[t] = None}
           e == [k |-> "schemas", id |-> cmd.id,
                 schemas |-> [t \in Topics |-> IF t \in fresh THEN srvCatalog[t] ELSE None],
                 failures |-> gone]
<1>1. cmd \in Command /\ srvCatalog \in [Topics -> Types \cup {None}]
  BY DEF on_message, TypeOK, SessionTypeOK
<1>2. Reply(e)
  BY DEF on_message, build_subscribe_response
<1>3. cmd.id \in Nat /\ cmd.topics \subseteq Topics
  BY <1>1 DEF Command
<1>4. e \in Event
  BY <1>1, <1>3 DEF Event
<1>5. e.k = "schemas" /\ e.id = cmd.id /\ e.failures = gone
  OBVIOUS
<1>6. \A t \in Topics : e.schemas[t] = IF t \in fresh THEN srvCatalog[t] ELSE None
  OBVIOUS
<1> HIDE DEF e
<1>7. inbox' = Append(inbox, e)
  BY <1>2 DEF Reply
<1> QED
  BY <1>4, <1>5, <1>6, <1>7

(* A live server's event agrees with what the events before it lead to. *)
LEMMA ServedAgrees ==
  ASSUME TypeOK, OrderInv, CatalogInv, Live, SessionNext
  PROVE  \/ inbox' = inbox
         \/ \E e \in Event :
              /\ inbox' = Append(inbox, e)
              /\ \A t \in Topics : \A v : Leads(batch, inbox, advertised[t], t, v) => Agrees(e, t, v)
<1>1. /\ toServer \in Seq(Command) /\ inbox \in Seq(Event) /\ batch \in Seq(Event)
      /\ srvCatalog \in [Topics -> Types \cup {None}] /\ srvSubs \subseteq Topics
  BY DEF TypeOK, SessionTypeOK, PollTypeOK
<1>2. \A e, t, v : e.k \notin {"schemas", "data"} => Agrees(e, t, v)
  BY DEF Agrees
<1>3. ASSUME isOpen, Without(toServer, Words({"get_topics"}))
      PROVE  \A t \in Topics : \A v : Leads(batch, inbox, advertised[t], t, v) => v = InfoOf(t, TRUE)
  <2>1. Asking \/ Told
    BY <1>3 DEF CatalogInv, GivingUp, Live, Streaming
  <2>2. NoGet(toServer)
    <3>1. \A i \in 1..Len(toServer) : toServer[i] \in Command
      BY <1>1
    <3> QED
      BY <1>3, <3>1 DEF NoGet, Without, Words
  <2>3. ~Asking
    BY <2>2 DEF Asking, OptsInFirst, AsksLast, NoGet, FullGet
  <2>4. \A t \in Topics : Leads(batch, inbox, advertised[t], t, InfoOf(t, TRUE))
    BY <2>1, <2>3 DEF Told
  <2> QED
    BY <1>1, <2>4, LeadsUnique
<1>4. \A t \in Topics : /\ srvCatalog[t] = None => InfoOf(t, TRUE) = None
                        /\ srvCatalog[t] # None => InfoOf(t, TRUE) \in TopicInfo /\ InfoOf(t, TRUE).ty = srvCatalog[t]
  BY <1>1, SessionAssumption DEF InfoOf, TopicInfo
<1>5. None \notin TopicInfo
  BY SourceAssumption
<1>6. \A k \in {"open", "closed", "error", "newer"} : [k |-> k] \in Event /\ [k |-> k].k = k
  BY OtherEvents
<1>7. CASE ConnOpen \/ ConnError \/ ConnClose
  <2>1. \E k \in {"open", "closed", "error"} : inbox' = Append(inbox, [k |-> k])
    BY <1>7 DEF ConnOpen, ConnError, ConnClose
  <2> QED
    BY <1>2, <1>6, <2>1
<1>8. CASE CatalogChange
  <2>1. inbox' = inbox \/ \E e \in Event : inbox' = Append(inbox, e) /\ e.k \in {"newer", "changed"}
    BY <1>8, ChangeBrings
  <2> QED
    BY <1>2, <2>1
<1>9. CASE emit_loop
  <2>1. PICK t \in srvSubs :
          /\ srvCatalog[t] # None
          /\ inbox' = Append(inbox, [k |-> "data", topic |-> t, ty |-> srvCatalog[t]])
    BY <1>9 DEF emit_loop
  <2> DEFINE e == [k |-> "data", topic |-> t, ty |-> srvCatalog[t]]
  <2>2. e \in Event /\ e.k = "data" /\ e.topic = t /\ e.ty = srvCatalog[t] /\ inbox' = Append(inbox, e)
    BY <1>1, <2>1 DEF Event
  <2> HIDE DEF e
  <2>3. isOpen /\ Without(toServer, Words({"get_topics"}))
    BY <1>9 DEF emit_loop, isOpen, OrderInv, Live
  <2>4. InfoOf(t, TRUE) # None /\ InfoOf(t, TRUE).ty = srvCatalog[t]
    BY <1>1, <1>4, <1>5, <2>1
  <2>5. \A u \in Topics : \A v : Leads(batch, inbox, advertised[u], u, v) => Agrees(e, u, v)
    BY <1>3, <2>2, <2>3, <2>4 DEF Agrees
  <2> QED
    BY <2>2, <2>5
<1>10. CASE on_message
  <2>1. toServer # <<>> /\ Head(toServer) \in Command /\ conn = "open"
    BY <1>1, <1>10 DEF on_message
  <2>2. CASE Head(toServer).c = "subscribe"
    <3>1. PICK e \in Event :
            /\ inbox' = Append(inbox, e) /\ e.k = "schemas"
            /\ e.failures = {t \in Head(toServer).topics \ srvSubs : srvCatalog[t] = None}
            /\ \A t \in Topics : e.schemas[t] # None => e.schemas[t] = srvCatalog[t]
      BY <1>10, <2>2, AnswerSays DEF Live
    <3>2. Head(toServer) \in Words({"subscribe"}) /\ Head(toServer) \notin Words({"get_topics"})
      BY <2>1, <2>2 DEF Words
    <3>3. Without(Tail(toServer), Words({"get_topics"}))
      BY <1>1, <2>1, <3>2, TakingWords DEF OrderInv, Live
    <3>4. Without(toServer, Words({"get_topics"}))
      <4> DEFINE u == Tail(toServer)
      <4>1. /\ Len(toServer) \in Nat \ {0} /\ Len(u) = Len(toServer) - 1 /\ Head(toServer) = toServer[1]
            /\ \A i \in 1..Len(u) : u[i] = toServer[i + 1]
        BY <1>1, <2>1
      <4> HIDE DEF u
      <4>2. \A i \in 1..Len(toServer) : i = 1 \/ (i - 1 \in 1..Len(u) /\ u[i - 1] = toServer[i])
        BY <4>1
      <4>3. Without(u, Words({"get_topics"}))
        BY <3>3 DEF u
      <4> QED
        BY <3>2, <4>1, <4>2, <4>3 DEF Without
    <3>5. \A t \in Topics : \A v : Leads(batch, inbox, advertised[t], t, v) => v = InfoOf(t, TRUE)
      BY <1>3, <2>1, <3>4 DEF isOpen
    <3>6. \A t \in Topics : Agrees(e, t, InfoOf(t, TRUE))
      BY <1>4, <1>5, <3>1 DEF Agrees
    <3> QED
      BY <3>1, <3>5, <3>6
  <2>3. CASE Head(toServer).c # "subscribe"
    <3>1. inbox' = inbox \/ \E e \in Event : inbox' = Append(inbox, e) /\ e.k = "topics"
      BY <1>10, <2>3, Answers DEF Live
    <3> QED
      BY <1>2, <3>1
  <2> QED
    BY <2>2, <2>3
<1> QED
  BY <1>7, <1>8, <1>9, <1>10 DEF SessionNext

(* The event being handled agrees with the source's catalog. *)
LEMMA HeadAgrees ==
  ASSUME TypeOK, KnownInv, Live, batch # <<>>
  PROVE  \A t \in Topics : Agrees(Head(batch), t, advertised[t])
<1> SUFFICES ASSUME NEW t \in Topics PROVE Agrees(Head(batch), t, advertised[t])
  OBVIOUS
<1>1. batch \in Seq(Event) /\ Known(batch, advertised[t], t)
  BY DEF TypeOK, PollTypeOK, KnownInv, KnownTopic
<1>2. Head(batch) = batch[1] /\ 1 \in 1..Len(batch) /\ FirstWord(batch, 1, t)
  BY <1>1 DEF FirstWord
<1> QED
  BY <1>1, <1>2 DEF Known

(* Every step keeps the events in agreement with the catalog. *)
LEMMA KnownStep ==
  ASSUME TypeOK, ControlInv, LinkInv, StartInv, OrderInv, CatalogInv, KnownInv, [Next]_vars
  PROVE  KnownInv'
<1> SUFFICES ASSUME Live', NEW t \in Topics PROVE KnownTopic(t)'
  BY DEF KnownInv
<1>1. inbox \in Seq(Event) /\ batch \in Seq(Event)
  BY DEF TypeOK, SessionTypeOK, PollTypeOK
<1>2. CASE FreshLink'
  BY <1>2, NoAnswerKnown DEF FreshLink, KnownTopic
<1>3. CASE /\ Live
           /\ Speaks \/ Serves \/ Drains \/ Passes \/ Responds \/ Learns \/ Reconciles
  <2>1. /\ Known(batch, advertised[t], t)
        /\ \A v : Entry(batch, advertised[t], t, v) => Known(inbox, v, t)
    BY <1>3 DEF KnownInv, KnownTopic
  <2>2. CASE Speaks \/ Reconciles
    <3>1. UNCHANGED <<batch, inbox, advertised>>
      BY <2>2 DEF Speaks, Reconciles
    <3> QED
      BY <2>1, <3>1 DEF KnownTopic
  <2>3. CASE Serves
    <3>1. UNCHANGED <<batch, advertised>>
      BY <2>3 DEF Serves, controlVars
    <3>2. CASE inbox' = inbox
      BY <2>1, <3>1, <3>2 DEF KnownTopic
    <3>3. CASE \E e \in Event :
                 /\ inbox' = Append(inbox, e)
                 /\ \A u \in Topics : \A v : Leads(batch, inbox, advertised[u], u, v) => Agrees(e, u, v)
      <4>1. PICK e \in Event :
              /\ inbox' = Append(inbox, e)
              /\ \A v : Leads(batch, inbox, advertised[t], t, v) => Agrees(e, t, v)
        BY <3>3
      <4>2. ASSUME NEW v, Entry(batch, advertised[t], t, v) PROVE Known(Append(inbox, e), v, t)
        <5>1. \A w : Entry(inbox, v, t, w) => Leads(batch, inbox, advertised[t], t, w)
          BY <4>2 DEF Entry, Leads
        <5> QED
          BY <1>1, <2>1, <4>1, <4>2, <5>1, KnownOnArrival
      <4> QED
        BY <2>1, <3>1, <4>1, <4>2 DEF KnownTopic
    <3> QED
      BY <1>3, <2>3, <3>2, <3>3, ServedAgrees DEF Serves
  <2>4. CASE Drains
    <3>1. batch = <<>> /\ batch' = inbox /\ inbox' = <<>> /\ advertised' = advertised
      BY <2>4 DEF Drains
    <3>2. Entry(<<>>, advertised[t], t, advertised[t]) /\ \A v : Known(<<>>, v, t)
      BY DEF Entry, Silent, Known
    <3> QED
      BY <2>1, <3>1, <3>2 DEF KnownTopic
  <2>5. CASE Passes \/ Responds \/ Learns
    <3>1. batch # <<>> /\ batch' = Tail(batch) /\ inbox' = inbox
      BY <2>5 DEF Passes, Responds, Learns, HandlesOne
    <3>2. /\ Mentions(Head(batch), t) => advertised'[t] = Value(Head(batch), t)
          /\ ~Mentions(Head(batch), t) => advertised'[t] = advertised[t]
      BY <2>5 DEF Passes, Responds, Learns, Mentions
    <3>3. /\ Known(Tail(batch), advertised'[t], t)
          /\ \A v : Entry(Tail(batch), advertised'[t], t, v) => Entry(batch, advertised[t], t, v)
      BY <1>1, <2>1, <3>1, <3>2, KnownOnHandling
    <3> QED
      BY <2>1, <3>1, <3>3 DEF KnownTopic
  <2> QED
    BY <1>3, <2>2, <2>3, <2>4, <2>5
<1> QED
  BY <1>2, <1>3, StreamSteps DEF Live

(***************************************************************************)
(* What the source subscribes.                                             *)
(***************************************************************************)
(* It subscribes topics that pass the filter, and between catalog changes all the
   advertised topics the host asked for. *)
TargetInv ==
  Live => /\ \A t \in applied : passesAdvertiseFilter(t, selected)
          /\ ~dirty => applied = lastDesired \cap filteredAdvertisedTopics(advertised, selected)

(* Every step keeps what the source subscribes within its target. *)
LEMMA TargetStep ==
  ASSUME TypeOK, ControlInv, LinkInv, StartInv, KnownInv, TargetInv, [Next]_vars
  PROVE  TargetInv'
<1> SUFFICES ASSUME Live'
             PROVE  /\ \A t \in applied' : passesAdvertiseFilter(t, selected')
                    /\ ~dirty' => applied' = lastDesired' \cap filteredAdvertisedTopics(advertised', selected')
  BY DEF TargetInv
<1>1. CASE FreshLink'
  BY <1>1 DEF FreshLink
<1>2. CASE /\ Live /\ selected' = selected
           /\ Speaks \/ Serves \/ Drains \/ Passes \/ Responds \/ Learns \/ Reconciles
  <2>1. /\ \A t \in applied : passesAdvertiseFilter(t, selected)
        /\ ~dirty => applied = lastDesired \cap filteredAdvertisedTopics(advertised, selected)
    BY <1>2 DEF TargetInv
  <2>2. CASE Speaks \/ Serves \/ Drains \/ Passes
    <3>1. UNCHANGED <<advertised, dirty, applied, lastDesired>>
      BY <2>2 DEF Speaks, Serves, Drains, Passes, HandlesOne, controlVars
    <3> QED
      BY <1>2, <2>1, <3>1
  <2>3. CASE Responds
    <3>1. batch # <<>> /\ Head(batch).k = "schemas" /\ applied' = applied \ Rejected(Head(batch))
      BY <2>3 DEF Responds, HandlesOne
    <3>2. UNCHANGED <<advertised, dirty, lastDesired>>
      BY <2>3 DEF Responds, HandlesOne
    <3>3. \A t \in Topics : t \in Rejected(Head(batch)) => advertised[t] = None
      BY <1>2, <3>1, HeadAgrees DEF Agrees, Rejected
    <3>4. ~dirty => applied' = applied
      BY <2>1, <3>1, <3>3 DEF filteredAdvertisedTopics
    <3> QED
      BY <1>2, <2>1, <3>1, <3>2, <3>4
  <2>4. CASE Learns
    <3>1. \/ UNCHANGED <<advertised, dirty, applied>>
          \/ dirty' /\ applied' \subseteq applied
      BY <2>4 DEF Learns, dropRetypedApplied
    <3>2. lastDesired' = lastDesired
      BY <2>4 DEF Learns, HandlesOne
    <3> QED
      BY <1>2, <2>1, <3>1, <3>2
  <2>5. CASE Reconciles
    <3>1. PICK des \in SUBSET Topics : lastDesired' = des /\ reconcileSubscriptions(des)
      BY <2>5 DEF Reconciles
    <3>2. applied' = des \cap filteredAdvertisedTopics(advertised, selected)
      BY <3>1, ReconcileHitsTarget
    <3>3. advertised' = advertised
      BY <2>5 DEF Reconciles
    <3> QED
      BY <1>2, <3>1, <3>2, <3>3 DEF filteredAdvertisedTopics
  <2> QED
    BY <1>2, <2>2, <2>3, <2>4, <2>5
<1> QED
  BY <1>1, <1>2, StreamSteps DEF Live

(* A subscribed topic: its latest request is the last word about it, or it has been
   answered: the server streams it, or the refusal is under way. *)
On(t) ==
  \/ Ends(toServer, AskOf(t, lastSubId[t]), SubsOf(t) \cup UnsubsOf(t))
  \/ /\ Without(toServer, UnsubsOf(t))
     /\ t \in srvSubs \/ Refused(batch, t, lastSubId[t]) \/ Refused(inbox, t, lastSubId[t])

OnInv == Live /\ isOpen => \A t \in applied : On(t)

(* A refusal stays under way until it is handled. *)
LEMMA RefusalStays ==
  ASSUME NEW s \in Seq(Event), NEW t, NEW id
  PROVE  /\ \A e \in Event : Refused(s, t, id) \/ Refuses(e, t, id) => Refused(Append(s, e), t, id)
         /\ s # <<>> /\ Refused(s, t, id) => Refuses(Head(s), t, id) \/ Refused(Tail(s), t, id)
<1>1. ASSUME NEW e \in Event, Refused(s, t, id) \/ Refuses(e, t, id) PROVE Refused(Append(s, e), t, id)
  <2> DEFINE u == Append(s, e)
  <2>1. /\ Len(s) \in Nat /\ Len(u) = Len(s) + 1 /\ u[Len(s) + 1] = e
        /\ \A i \in 1..Len(s) : u[i] = s[i]
    OBVIOUS
  <2> HIDE DEF u
  <2>2. Len(s) + 1 \in 1..Len(u) /\ \A i \in 1..Len(s) : i \in 1..Len(u)
    BY <2>1
  <2>3. Refused(u, t, id)
    BY <1>1, <2>1, <2>2 DEF Refused
  <2> QED
    BY <2>3 DEF u
<1>2. ASSUME s # <<>>, Refused(s, t, id) PROVE Refuses(Head(s), t, id) \/ Refused(Tail(s), t, id)
  <2> DEFINE u == Tail(s)
  <2>1. /\ Len(s) \in Nat \ {0} /\ Len(u) = Len(s) - 1 /\ Head(s) = s[1]
        /\ \A i \in 1..Len(u) : u[i] = s[i + 1]
    BY <1>2
  <2> HIDE DEF u
  <2>2. \A i \in 1..Len(s) : i = 1 \/ (i - 1 \in 1..Len(u) /\ u[i - 1] = s[i])
    BY <2>1
  <2>3. PICK i \in 1..Len(s) : Refuses(s[i], t, id)
    BY <1>2 DEF Refused
  <2>4. Refuses(Head(s), t, id) \/ Refused(u, t, id)
    BY <2>1, <2>2, <2>3 DEF Refused
  <2> QED
    BY <2>4 DEF u
<1> QED
  BY <1>1, <1>2

(* A subscription ends with an unsubscribe or with the connection. *)
LEMMA StillStreamed ==
  ASSUME TypeOK, on_message, NEW t \in srvSubs, Head(toServer) \notin UnsubsOf(t)
  PROVE  t \in srvSubs'
<1>1. Head(toServer) \in Command
  BY DEF on_message, TypeOK, SessionTypeOK
<1>2. CASE Head(toServer).c = "subscribe"
  BY <1>2, Answers
<1>3. CASE Head(toServer).c = "unsubscribe"
  <2>1. t \notin Head(toServer).topics /\ srvSubs' = srvSubs \ Head(toServer).topics
    BY <1>1, <1>3 DEF on_message, UnsubsOf
  <2> QED
    BY <2>1
<1>4. CASE Head(toServer).c \notin {"subscribe", "unsubscribe"}
  BY <1>4 DEF on_message
<1> QED
  BY <1>2, <1>3, <1>4

(* The socket of a stream that is past connecting does not open again. *)
LEMMA OpenBefore ==
  ASSUME LinkInv, Streaming, Serves, isOpen'
  PROVE  isOpen /\ ~ConnOpen
<1>1. conn # "opening"
  BY DEF LinkInv, Streaming
<1>2. ~ConnOpen
  BY <1>1 DEF ConnOpen
<1> QED
  BY <1>2 DEF isOpen, Serves, SessionNext, ConnError, ConnClose, on_message, CatalogChange, emit_loop

(* Every step keeps a subscribed topic streamed, asked for or refused. *)
LEMMA OnStep ==
  ASSUME TypeOK, ControlInv, LinkInv, StartInv, OnInv, [Next]_vars
  PROVE  OnInv'
<1> SUFFICES ASSUME Live', isOpen', NEW t \in applied' PROVE On(t)'
  BY DEF OnInv
<1>1. /\ inbox \in Seq(Event) /\ batch \in Seq(Event) /\ toServer \in Seq(Command)
      /\ applied \subseteq Topics /\ lastSubId \in [Topics -> Nat]
  BY DEF TypeOK, SessionTypeOK, PollTypeOK, ControlTypeOK
<1> DEFINE words == SubsOf(t) \cup UnsubsOf(t)
<1>2. words \subseteq Words(SubscriptionWords) /\ UnsubsOf(t) \subseteq words
  BY DEF SubsOf, UnsubsOf, Words, SubscriptionWords
<1>3. \A s : Without(s, words) => Without(s, UnsubsOf(t))
  BY <1>2, FewerWords
<1>4. CASE FreshLink'
  BY <1>4 DEF FreshLink
<1>5. CASE /\ Live
           /\ Speaks \/ Serves \/ Drains \/ Passes \/ Responds \/ Learns \/ Reconciles
  <2>1. CASE Speaks
    <3>1. UNCHANGED <<conn, inbox, batch, srvSubs, applied, lastSubId>>
      BY <2>1 DEF Speaks
    <3>2. On(t)
      BY <1>5, <3>1 DEF OnInv, isOpen
    <3>3. PICK f \in Seq(Command) : /\ Without(f, Words(SubscriptionWords))
                                    /\ toServer' = toServer \o f \/ toServer' = toServer
      BY <2>1 DEF Speaks
    <3>4. Without(f, words) /\ Without(f, UnsubsOf(t))
      BY <1>2, <1>3, <3>3, FewerWords
    <3> HIDE DEF words
    <3>5. /\ Without(toServer, UnsubsOf(t)) => Without(toServer', UnsubsOf(t))
          /\ Ends(toServer, AskOf(t, lastSubId[t]), words) => Ends(toServer', AskOf(t, lastSubId[t]), words)
      BY <1>1, <3>3, <3>4, SendingWords
    <3> QED
      BY <3>1, <3>2, <3>5 DEF On, words
  <2>2. CASE Serves
    <3>1. UNCHANGED <<batch, applied, lastSubId>> /\ SessionNext /\ isOpen /\ conn' # "closed"
      BY <1>5, <2>2, OpenBefore DEF Serves, controlVars, Live, isOpen
    <3> DEFINE id == lastSubId[t]
    <3>2. On(t)
      BY <1>5, <3>1 DEF OnInv
    <3>3. inbox' = inbox \/ \E e \in Event : inbox' = Append(inbox, e)
      BY <3>1, SessionEffect
    <3>4. Refused(inbox, t, id) => Refused(inbox', t, id)
      BY <1>1, <3>3, RefusalStays
    <3>5. CASE UNCHANGED <<toServer, srvSubs>>
      BY <3>1, <3>2, <3>4, <3>5 DEF On
    <3>6. CASE on_message /\ toServer # <<>> /\ toServer' = Tail(toServer) /\ Head(toServer) \in Command
      <4>1. CASE /\ Without(toServer, UnsubsOf(t))
                 /\ t \in srvSubs \/ Refused(batch, t, id) \/ Refused(inbox, t, id)
        <5>1. Head(toServer) \notin UnsubsOf(t) /\ Without(toServer', UnsubsOf(t))
          BY <1>1, <3>6, <4>1, TakingWords
        <5>2. t \in srvSubs => t \in srvSubs'
          BY <3>6, <5>1, StillStreamed
        <5> QED
          BY <3>1, <3>4, <4>1, <5>1, <5>2 DEF On
      <4>2. CASE Ends(toServer, AskOf(t, id), words)
        <5> HIDE DEF words
        <5>1. CASE Ends(Tail(toServer), AskOf(t, id), words)
          BY <3>1, <3>6, <5>1 DEF On, words
        <5>2. CASE Head(toServer) \in AskOf(t, id) /\ Without(Tail(toServer), words)
          <6>1. Without(toServer', UnsubsOf(t))
            BY <1>3, <3>6, <5>2
          <6>2. /\ Head(toServer).c = "subscribe" /\ t \in Head(toServer).topics /\ Head(toServer).id = id
            BY <5>2 DEF AskOf, SubsOf
          <6>3. t \in srvSubs' \/ Refused(inbox', t, id)
            <7>1. CASE t \in srvSubs \/ srvCatalog[t] # None
              BY <3>6, <6>2, <7>1, Answers
            <7>2. CASE t \notin srvSubs /\ srvCatalog[t] = None
              <8>1. ~srvNewer
                BY <1>5 DEF Live
              <8>2. PICK e \in Event :
                      /\ inbox' = Append(inbox, e) /\ e.k = "schemas" /\ e.id = Head(toServer).id
                      /\ e.failures = {u \in Head(toServer).topics \ srvSubs : srvCatalog[u] = None}
                BY <3>6, <6>2, <8>1, Answers
              <8>3. Refuses(e, t, id)
                BY <6>2, <7>2, <8>2 DEF Refuses
              <8> QED
                BY <1>1, <8>2, <8>3, RefusalStays
            <7> QED
              BY <7>1, <7>2
          <6> QED
            BY <3>1, <6>1, <6>3 DEF On
        <5> QED
          BY <1>1, <3>6, <4>2, <5>1, <5>2, TakingWords
      <4> QED
        BY <3>2, <4>1, <4>2 DEF On
    <3> QED
      BY <3>1, <3>5, <3>6, SessionKinds
  <2>3. CASE Drains
    <3>1. batch = <<>> /\ batch' = inbox /\ inbox' = <<>> /\ UNCHANGED <<conn, toServer, srvSubs, applied, lastSubId>>
      BY <2>3 DEF Drains
    <3>2. On(t)
      BY <1>5, <3>1 DEF OnInv, isOpen
    <3>3. ~Refused(<<>>, t, lastSubId[t])
      BY NothingUnderWay
    <3> QED
      BY <3>1, <3>2, <3>3 DEF On
  <2>4. CASE Passes \/ Responds \/ Learns
    <3>1. batch # <<>> /\ batch' = Tail(batch) /\ UNCHANGED <<conn, inbox, toServer, srvSubs>>
      BY <2>4 DEF Passes, Responds, Learns, HandlesOne
    <3>2. t \in applied /\ t \in Topics /\ lastSubId'[t] = lastSubId[t]
      <4>1. CASE Passes
        BY <1>1, <4>1 DEF Passes
      <4>2. CASE Responds
        BY <1>1, <4>2 DEF Responds
      <4>3. CASE Learns
        BY <1>1, <4>3 DEF Learns, dropRetypedApplied, Erase
      <4> QED
        BY <2>4, <4>1, <4>2, <4>3
    <3>3. On(t)
      BY <1>5, <3>1, <3>2 DEF OnInv, isOpen
    <3>4. ~Refuses(Head(batch), t, lastSubId[t])
      <4>1. CASE Responds
        <5>1. applied' = applied \ Rejected(Head(batch)) /\ lastSubId' = lastSubId
          BY <4>1 DEF Responds
        <5> QED
          BY <5>1 DEF Rejected, failureIsStale, Refuses
      <4>2. CASE Passes \/ Learns
        BY <4>2 DEF Passes, Learns, Refuses
      <4> QED
        BY <2>4, <4>1, <4>2
    <3>5. Refused(batch, t, lastSubId[t]) => Refused(batch', t, lastSubId[t])
      BY <1>1, <3>1, <3>4, RefusalStays
    <3> QED
      BY <3>1, <3>2, <3>3, <3>5 DEF On
  <2>5. CASE Reconciles
    <3>1. UNCHANGED <<conn, inbox, batch, srvSubs>> /\ \E des \in SUBSET Topics : reconcileSubscriptions(des)
      BY <2>5 DEF Reconciles
    <3>2. PICK f \in Seq(Command) :
           /\ toServer' = IF isOpen THEN toServer \o f ELSE toServer
           /\ \A u \in Topics :
                /\ u \notin applied /\ u \in applied' =>
                     /\ lastSubId'[u] = nextId
                     /\ Ends(f, AskOf(u, nextId), SubsOf(u) \cup UnsubsOf(u))
                /\ (u \in applied <=> u \in applied') =>
                     Without(f, SubsOf(u)) /\ Without(f, UnsubsOf(u))
                /\ u \in applied /\ u \in applied' => lastSubId'[u] = lastSubId[u]
      BY <3>1, ReconcileSays
    <3>3. isOpen /\ t \in Topics /\ toServer' = toServer \o f
      <4>1. applied' \subseteq Topics
        BY <3>1, ReconcileType
      <4> QED
        BY <3>1, <3>2, <4>1 DEF isOpen
    <3>4. CASE t \notin applied
      <4>1. lastSubId'[t] = nextId /\ Ends(f, AskOf(t, nextId), words)
        BY <3>2, <3>3, <3>4
      <4> HIDE DEF words
      <4>2. Ends(toServer', AskOf(t, nextId), words)
        BY <1>1, <3>3, <4>1, SendingWords
      <4> QED
        BY <4>1, <4>2 DEF On, words
    <3>5. CASE t \in applied
      <4>1. lastSubId'[t] = lastSubId[t] /\ Without(f, words) /\ Without(f, UnsubsOf(t))
        BY <3>2, <3>3, <3>5 DEF Without
      <4>2. On(t)
        BY <1>5, <3>3, <3>5 DEF OnInv
      <4> HIDE DEF words
      <4>3. /\ Without(toServer, UnsubsOf(t)) => Without(toServer', UnsubsOf(t))
            /\ Ends(toServer, AskOf(t, lastSubId[t]), words) => Ends(toServer', AskOf(t, lastSubId[t]), words)
        BY <1>1, <3>3, <4>1, SendingWords
      <4> QED
        BY <3>1, <4>1, <4>2, <4>3 DEF On, words
    <3> QED
      BY <3>4, <3>5
  <2> QED
    BY <1>5, <2>1, <2>2, <2>3, <2>4, <2>5
<1> QED
  BY <1>4, <1>5, StreamSteps DEF Live

(* The invariants of a demand-driven stream, together. *)
DemandInv == StartInv /\ OrderInv /\ KnownInv /\ TargetInv /\ OnInv

(* They hold before the first stream. *)
LEMMA DemandInit == Init => DemandInv
<1> SUFFICES ASSUME Init PROVE DemandInv
  OBVIOUS
<1>1. ~running
  BY DEF Init
<1> QED
  BY <1>1, StartInit DEF DemandInv, OrderInv, KnownInv, TargetInv, OnInv, Live, Streaming

(* The invariants of a demand-driven stream, which every step keeps. *)
THEOREM DemandInvariant == Spec => []DemandInv
<1>1. TypeOK /\ ControlInv /\ LinkInv /\ CatalogInv /\ DemandInv /\ [Next]_vars => DemandInv'
  BY StartStep, OrderStep, KnownStep, TargetStep, OnStep DEF DemandInv
<1> QED
  BY <1>1, DemandInit, TypeCorrect, ControlInvariant, CatalogInvariant, PTL DEF Spec

(* A source at rest has a server that speaks its protocol, and nothing under way. *)
LEMMA SettledIsLive ==
  ASSUME LinkInv, CatalogInv, Settled
  PROVE  Live /\ isOpen /\ ~dirty /\ slot = None /\ batch = <<>> /\ inbox = <<>> /\ toServer = <<>>
<1>1. /\ running /\ demand /\ isOpen /\ phase # "connecting" /\ fatal = None /\ ~dirty /\ slot = None
      /\ batch = <<>> /\ inbox = <<>> /\ toServer = <<>>
  BY DEF Settled, Quiet, LinkInv
<1>2. ~Asking /\ ~GivingUp
  BY <1>1 DEF Asking, OptsInFirst, AsksLast, GivingUp, HasNewer
<1>3. Told
  BY <1>1, <1>2 DEF CatalogInv
<1> QED
  BY <1>1, <1>3 DEF Told, Live, Streaming

(* At rest the source subscribes exactly the advertised topics the host wants,
   and the server streams every one of them, whatever changed on the way. *)
WantedAreStreamed ==
  Settled => /\ applied = wanted \cap filteredAdvertisedTopics(advertised, selected)
             /\ applied \subseteq srvSubs

(* Every source has at rest what the host wants, streamed, with every server. *)
THEOREM WantedAreStreamedHolds == Spec => []WantedAreStreamed
<1>1. ControlInv /\ LinkInv /\ CatalogInv /\ DemandInv => WantedAreStreamed
  <2> SUFFICES ASSUME ControlInv, LinkInv, CatalogInv, DemandInv, Settled
               PROVE  /\ applied = wanted \cap filteredAdvertisedTopics(advertised, selected)
                      /\ applied \subseteq srvSubs
    BY DEF WantedAreStreamed
  <2>1. Live /\ isOpen /\ ~dirty /\ slot = None /\ batch = <<>> /\ inbox = <<>> /\ toServer = <<>>
    BY SettledIsLive
  <2>2. lastDesired = wanted
    BY <2>1 DEF ControlInv, DesiredIsLatest
  <2>3. applied = wanted \cap filteredAdvertisedTopics(advertised, selected)
    BY <2>1, <2>2 DEF DemandInv, TargetInv
  <2>4. ASSUME NEW t \in applied PROVE t \in srvSubs
    <3>1. On(t)
      BY <2>1 DEF DemandInv, OnInv
    <3>2. ~Refused(<<>>, t, lastSubId[t])
      BY NothingUnderWay
    <3> QED
      BY <2>1, <3>1, <3>2, NoWords DEF On
  <2> QED
    BY <2>3, <2>4
<1> QED
  BY <1>1, ControlInvariant, CatalogInvariant, DemandInvariant, PTL

(***************************************************************************)
(* What the server streams beyond that.                                    *)
(***************************************************************************)
(* A topic of which nothing is to come: the server does not stream it and was not
   asked to, or an unsubscribe is the last word about it. *)
Gone(t) == Dead(t) \/ Ends(toServer, UnsubsOf(t), SubsOf(t))

(* A topic the poll will subscribe anew, as the one whose retype it handled. *)
Limbo(t) ==
  /\ dirty /\ t \notin applied /\ t \in lastDesired
  /\ advertised[t] # None /\ passesAdvertiseFilter(t, selected)

(* A retyped topic, which the server still streams, does not leave the catalog before
   the poll subscribes it anew. *)
KeepsRetyped == running' => \A t \in Topics : Limbo(t) /\ ~Gone(t) => advertised'[t] # None

(* Nothing is to come of a topic that is not subscribed or about to be. *)
OffInv == Live /\ isOpen => \A t \in Topics : t \notin applied => Gone(t) \/ Limbo(t)

(* Two ways to say that a topic is not asked for. *)
LEMMA NoAskWords ==
  ASSUME NEW s \in Seq(Command), NEW t
  PROVE  NoAsk(s, t) <=> Without(s, SubsOf(t))
<1>1. \A i \in 1..Len(s) : s[i] \in Command
  OBVIOUS
<1> QED
  BY <1>1 DEF NoAsk, Without, Subscribes, SubsOf

(* Requests that ask for no t. *)
LEMMA GoneOnSend ==
  ASSUME TypeOK, NEW t, NEW f \in Seq(Command), Without(f, SubsOf(t)),
         toServer' = toServer \o f \/ toServer' = toServer, UNCHANGED srvSubs, Gone(t)
  PROVE  Gone(t)'
<1>1. toServer \in Seq(Command) /\ toServer \o f \in Seq(Command)
  BY DEF TypeOK, SessionTypeOK
<1>2. Without(toServer, SubsOf(t)) => Without(toServer', SubsOf(t))
  BY <1>1, SendingWords
<1>3. NoAsk(toServer, t) => NoAsk(toServer', t)
  BY <1>1, <1>2, NoAskWords
<1>4. Ends(toServer, UnsubsOf(t), SubsOf(t)) => Ends(toServer', UnsubsOf(t), SubsOf(t))
  BY <1>1, SendingWords
<1> QED
  BY <1>3, <1>4 DEF Gone, Dead

(* The server's steps. *)
LEMMA GoneOnServe ==
  ASSUME TypeOK, SessionNext, NEW t \in Topics, Gone(t)
  PROVE  Gone(t)'
<1> USE DEF Gone
<1>1. toServer \in Seq(Command) /\ toServer' \in Seq(Command)
  BY SessionKinds
<1>2. CASE Dead(t)
  BY <1>2, SessionEffect
<1>3. CASE Ends(toServer, UnsubsOf(t), SubsOf(t))
  <2>1. CASE UNCHANGED <<toServer, srvSubs>>
    BY <1>3, <2>1
  <2>2. CASE toServer' = <<>> /\ srvSubs' = {}
    BY <2>2, NothingUnderWay DEF Dead
  <2>3. CASE on_message /\ toServer # <<>> /\ toServer' = Tail(toServer) /\ Head(toServer) \in Command
    <3>1. CASE Ends(Tail(toServer), UnsubsOf(t), SubsOf(t))
      BY <2>3, <3>1
    <3>2. CASE Head(toServer) \in UnsubsOf(t) /\ Without(Tail(toServer), SubsOf(t))
      <4>1. srvSubs' = srvSubs \ Head(toServer).topics /\ t \in Head(toServer).topics
        BY <2>3, <3>2 DEF on_message, UnsubsOf
      <4>2. NoAsk(toServer', t)
        BY <1>1, <2>3, <3>2, NoAskWords
      <4> QED
        BY <4>1, <4>2 DEF Dead
    <3> QED
      BY <1>1, <1>3, <2>3, <3>1, <3>2, TakingWords
  <2> QED
    BY <2>1, <2>2, <2>3, SessionKinds
<1> QED
  BY <1>2, <1>3

(* A refused topic is not streamed and not asked for. *)
LEMMA RejectedIsDead ==
  ASSUME TypeOK, SubscriptionInv, demand, Responds, NEW t \in applied, t \notin applied'
  PROVE  Dead(t)
<1>1. t \in Topics /\ batch \in Seq(Event) /\ batch # <<>> /\ Head(batch).k = "schemas"
  BY DEF TypeOK, ControlTypeOK, PollTypeOK, Responds, HandlesOne
<1>2. t \in Head(batch).failures /\ ~failureIsStale(lastSubId, t, Head(batch).id)
  BY DEF Responds, Rejected
<1>3. lastSubId[t] # 0 /\ AppliedTopic(t, lastSubId[t])
  BY <1>1 DEF SubscriptionInv, TopicInv
<1>4. Refuses(Head(batch), t, lastSubId[t])
  BY <1>1, <1>2, <1>3 DEF failureIsStale, Refuses
<1>5. Refused(batch, t, lastSubId[t])
  BY <1>1, <1>4, HandlingFacts
<1> QED
  BY <1>3, <1>5 DEF AppliedTopic

(* Handling an event is a step. *)
LEMMA HandlingShortens ==
  ASSUME NEW s \in Seq(Event), s # <<>>
  PROVE  Tail(s) # s
<1> DEFINE n == Len(s)
           m == Len(Tail(s))
<1>1. m = n - 1 /\ n \in Nat \ {0}
  OBVIOUS
<1>2. Tail(s) = s => m = n
  OBVIOUS
<1> HIDE DEF m, n
<1>3. m # n
  BY <1>1
<1> QED
  BY <1>2, <1>3

(* A link without subscriptions. *)
LEMMA FreshIsGone ==
  ASSUME TypeOK', FreshLink', NEW t
  PROVE  Gone(t)'
<1>1. toServer' \in Seq(Command) /\ SubsOf(t) \subseteq Words(SubscriptionWords)
  BY DEF TypeOK, SessionTypeOK, SubsOf, Words, SubscriptionWords
<1>2. Without(toServer', SubsOf(t)) /\ srvSubs' = {}
  BY <1>1, FewerWords DEF FreshLink
<1>3. NoAsk(toServer', t)
  BY <1>1, <1>2, NoAskWords
<1> QED
  BY <1>2, <1>3 DEF Gone, Dead

(* What is not subscribed stays gone, and what is dropped is gone, except by a
   retype. *)
LEMMA GoneStep ==
  ASSUME TypeOK, TypeOK', ControlInv, LinkInv, SubscriptionInv, StartInv, [Next]_vars, Live', isOpen',
         NEW t \in Topics, t \notin applied', Live /\ isOpen /\ t \notin applied => Gone(t)
  PROVE  \/ Gone(t)'
         \/ /\ Live /\ Learns /\ UNCHANGED selected
            /\ t \in retypedTopics(advertised, advertised', applied) /\ dirty'
<1>1. toServer \in Seq(Command) /\ toServer' \in Seq(Command) /\ applied \subseteq Topics
  BY DEF TypeOK, SessionTypeOK, ControlTypeOK
<1>2. CASE FreshLink'
  BY <1>2, FreshIsGone
<1>3. CASE /\ Live /\ UNCHANGED selected
           /\ Speaks \/ Serves \/ Drains \/ Passes \/ Responds \/ Learns \/ Reconciles
  <2>1. CASE Speaks
    <3>1. UNCHANGED <<conn, srvSubs, applied>>
      BY <2>1 DEF Speaks
    <3>2. PICK f \in Seq(Command) : /\ Without(f, Words(SubscriptionWords))
                                    /\ toServer' = toServer \o f \/ toServer' = toServer
      BY <2>1 DEF Speaks
    <3>3. Without(f, SubsOf(t))
      <4>1. SubsOf(t) \subseteq Words(SubscriptionWords)
        BY DEF SubsOf, Words, SubscriptionWords
      <4> QED
        BY <3>2, <4>1, FewerWords
    <3>4. Gone(t)
      BY <1>3, <3>1 DEF isOpen
    <3> QED
      BY <3>1, <3>2, <3>3, <3>4, GoneOnSend
  <2>2. CASE Serves
    <3>1. UNCHANGED applied /\ SessionNext /\ isOpen
      BY <1>3, <2>2, OpenBefore DEF Serves, controlVars, Live
    <3>2. Gone(t)
      BY <1>3, <3>1
    <3> QED
      BY <3>1, <3>2, GoneOnServe
  <2>3. CASE Drains \/ Passes \/ Responds \/ Learns
    <3>1. UNCHANGED <<conn, toServer, srvSubs>>
      BY <2>3 DEF Drains, Passes, Responds, Learns, HandlesOne
    <3>2. Gone(t) => Gone(t)'
      BY <3>1 DEF Gone, Dead
    <3>3. CASE t \notin applied
      BY <1>3, <3>1, <3>2, <3>3 DEF isOpen
    <3>4. CASE t \in applied /\ Responds
      <4>1. Dead(t)
        BY <1>3, <3>4, RejectedIsDead DEF Live, Streaming
      <4> QED
        BY <3>2, <4>1 DEF Gone
    <3>5. CASE t \in applied /\ Learns
      <4>1. dirty' /\ applied' = applied \ retypedTopics(advertised, advertised', applied)
        BY <3>5 DEF Learns, dropRetypedApplied
      <4> QED
        BY <1>3, <3>5, <4>1
    <3>6. CASE Drains \/ Passes
      <4>1. applied' = applied
        BY <3>6 DEF Drains, Passes
      <4> QED
        BY <3>3, <4>1
    <3> QED
      BY <2>3, <3>3, <3>4, <3>5, <3>6
  <2>4. CASE Reconciles
    <3>1. UNCHANGED <<conn, srvSubs>> /\ \E des \in SUBSET Topics : reconcileSubscriptions(des)
      BY <2>4 DEF Reconciles
    <3>2. PICK f \in Seq(Command) :
            /\ toServer' = IF isOpen THEN toServer \o f ELSE toServer
            /\ \A u \in Topics :
                 /\ u \in applied /\ u \notin applied' =>
                      Without(f, SubsOf(u)) /\ Ends(f, UnsubsOf(u), SubsOf(u))
                 /\ (u \in applied <=> u \in applied') =>
                      Without(f, SubsOf(u)) /\ Without(f, UnsubsOf(u))
      BY <3>1, ReconcileSays
    <3>3. isOpen /\ toServer' = toServer \o f
      BY <3>1, <3>2 DEF isOpen
    <3>4. CASE t \in applied
      <4>1. Ends(toServer', UnsubsOf(t), SubsOf(t))
        BY <1>1, <3>2, <3>3, <3>4, SendingWords
      <4> QED
        BY <4>1 DEF Gone
    <3>5. CASE t \notin applied
      <4>1. Gone(t) /\ Without(f, SubsOf(t))
        BY <1>3, <3>2, <3>3, <3>5
      <4> QED
        BY <3>1, <3>3, <4>1, GoneOnSend
    <3> QED
      BY <3>4, <3>5
  <2> QED
    BY <1>3, <2>1, <2>2, <2>3, <2>4
<1> QED
  BY <1>2, <1>3, StreamSteps DEF Live

(* Every step that keeps a retyped topic keeps OffInv. *)
LEMMA OffStep ==
  ASSUME TypeOK, TypeOK', ControlInv, LinkInv, SubscriptionInv, StartInv, TargetInv, OffInv, [Next]_vars,
         [KeepsRetyped]_vars
  PROVE  OffInv'
<1> SUFFICES ASSUME Live', isOpen', NEW t \in Topics, t \notin applied' PROVE Gone(t)' \/ Limbo(t)'
  BY DEF OffInv
<1>1. CASE FreshLink'
  BY <1>1, FreshIsGone
<1>2. CASE Live /\ isOpen /\ t \notin applied => Gone(t)
  <2> SUFFICES ASSUME Live, Learns, UNCHANGED selected, dirty',
                      t \in retypedTopics(advertised, advertised', applied)
               PROVE  Limbo(t)'
    BY <1>2, GoneStep
  <2>1. t \in applied /\ advertised'[t] # None
    BY DEF retypedTopics
  <2>2. t \in lastDesired /\ passesAdvertiseFilter(t, selected)
    BY <2>1 DEF ControlInv, AppliedWithinTarget, TargetInv
  <2>3. UNCHANGED lastDesired
    BY DEF Learns, HandlesOne
  <2> QED
    BY <2>1, <2>2, <2>3 DEF Limbo
<1>3. CASE /\ Live /\ isOpen /\ Limbo(t) /\ ~Gone(t) /\ UNCHANGED selected
           /\ Speaks \/ Serves \/ Drains \/ Passes \/ Responds \/ Learns \/ Reconciles
  <2>1. CASE Speaks \/ Serves \/ Drains \/ Passes \/ Responds
    <3>1. UNCHANGED <<advertised, dirty, lastDesired>>
      BY <2>1 DEF Speaks, Serves, Drains, Passes, Responds, HandlesOne, controlVars
    <3> QED
      BY <1>3, <3>1 DEF Limbo
  <2>2. CASE Learns
    <3>1. UNCHANGED lastDesired /\ batch # <<>> /\ batch' = Tail(batch) /\ batch \in Seq(Event)
      BY <2>2 DEF Learns, HandlesOne, TypeOK, PollTypeOK
    <3>2. dirty'
      BY <1>3, <2>2 DEF Learns, Limbo
    <3>3. running' /\ batch' # batch
      BY <3>1, HandlingShortens DEF Live, Streaming
    <3>4. advertised'[t] # None
      BY <1>3, <3>3 DEF KeepsRetyped, vars
    <3> QED
      BY <1>3, <3>1, <3>2, <3>4 DEF Limbo
  <2>3. CASE Reconciles
    <3>1. dirty /\ t \in lastDesired /\ advertised[t] # None /\ passesAdvertiseFilter(t, selected)
      BY <1>3 DEF Limbo
    <3>2. PICK des \in SUBSET Topics : des = lastDesired /\ reconcileSubscriptions(des)
      BY <2>3, <3>1 DEF Reconciles
    <3>3. applied' = des \cap filteredAdvertisedTopics(advertised, selected)
      BY <3>2, ReconcileHitsTarget
    <3> QED
      BY <3>1, <3>2, <3>3 DEF filteredAdvertisedTopics
  <2> QED
    BY <1>3, <2>1, <2>2, <2>3
<1>4. Live /\ isOpen /\ t \notin applied => Gone(t) \/ Limbo(t)
  BY DEF OffInv
<1> QED
  BY <1>1, <1>2, <1>3, <1>4, StreamSteps DEF Live

(* At rest this says what the server streams. *)
LEMMA OffAtRest ==
  ASSUME WantedAreStreamed, LinkInv, CatalogInv, TypeOK, OffInv
  PROVE  SubscriptionsAgree
<1> SUFFICES ASSUME Settled
             PROVE  srvSubs = applied /\ applied = wanted \cap filteredAdvertisedTopics(advertised, selected)
  BY DEF SubscriptionsAgree
<1>1. Live /\ isOpen /\ ~dirty /\ toServer = <<>>
  BY SettledIsLive
<1>2. srvSubs \subseteq Topics
  BY DEF TypeOK, SessionTypeOK
<1>3. ASSUME NEW t \in Topics, t \notin applied PROVE t \notin srvSubs
  <2>1. Gone(t) \/ Limbo(t)
    BY <1>1, <1>3 DEF OffInv
  <2> QED
    BY <1>1, <2>1, NoWords DEF Gone, Limbo, Dead
<1> QED
  BY <1>2, <1>3 DEF WantedAreStreamed

(* At rest the server streams exactly the advertised topics the host wants,
   as long as no retyped topic is removed before it was subscribed anew. *)
THEOREM SubscriptionsAgreeHolds == Spec /\ [][KeepsRetyped]_vars => []SubscriptionsAgree
<1>1. Init => OffInv
  BY DEF Init, OffInv, Live, Streaming
<1>2. TypeOK /\ TypeOK' /\ ControlInv /\ LinkInv /\ SubscriptionInv /\ DemandInv /\ OffInv /\ [Next]_vars
        /\ [KeepsRetyped]_vars => OffInv'
  BY OffStep DEF DemandInv
<1>3. WantedAreStreamed /\ LinkInv /\ CatalogInv /\ TypeOK /\ OffInv => SubscriptionsAgree
  BY OffAtRest
<1> QED
  BY <1>1, <1>2, <1>3, TypeCorrect, ControlInvariant, CatalogInvariant, SubscriptionInvariant, DemandInvariant,
     WantedAreStreamedHolds, PTL DEF Spec

(***************************************************************************)
(* What is bound.                                                          *)
(***************************************************************************)
(* The word of A that is the last one of A and B, if there is one, finds t off: one
   of B is before it with no other of A between them, or t is not in subs and no
   word of A is before it. *)
Anew(s, A, B, t, subs) ==
  \A i \in 1..Len(s) :
    s[i] \in A /\ (\A j \in 1..Len(s) : j > i => s[j] \notin A \cup B) =>
      \/ \E l \in 1..Len(s) : l < i /\ s[l] \in B /\ \A m \in 1..Len(s) : l < m /\ m < i => s[m] \notin A
      \/ t \notin subs /\ \A m \in 1..Len(s) : m < i => s[m] \notin A

(* A topic whose latest word is a request is asked for when the server does not
   stream it, or will not any more by then. *)
AsksAnew(t) == Anew(toServer, SubsOf(t), UnsubsOf(t), t, srvSubs)

(* A schema of t is under way. *)
SchemaOf(e, t) == e.k = "schemas" /\ e.schemas[t] # None
Answered(s, t) == \E i \in 1..Len(s) : SchemaOf(s[i], t)

(* A subscribed topic has a parser, or the host refused it one, or its latest request
   is the last word about it, or the answer is under way. *)
Binds(t) ==
  \/ bindings[t] # None \/ t \in unparsed
  \/ Refused(batch, t, lastSubId[t]) \/ Refused(inbox, t, lastSubId[t])
  \/ Answered(batch, t) \/ Answered(inbox, t)
  \/ Ends(toServer, AskOf(t, lastSubId[t]), SubsOf(t) \cup UnsubsOf(t))

(* A topic dropped as retyped is outside of this: the server streams it while it is
   asked for again. *)
BoundInv ==
  Live /\ isOpen => \A t \in Topics \ retyped : /\ AsksAnew(t)
                                                /\ t \notin applied => Gone(t)
                                                /\ t \in applied => Binds(t)

(* The first word is taken. *)
LEMMA TakingTurns ==
  ASSUME NEW s \in Seq(Command), s # <<>>, NEW A, NEW B, NEW t, NEW subs, NEW after,
         Anew(s, A, B, t, subs)
  PROVE  /\ Head(s) \in A /\ Without(Tail(s), A \cup B) => t \notin subs
         /\ (t \in after => t \in subs \/ Head(s) \in A) /\ (Head(s) \in B => t \notin after) =>
              Anew(Tail(s), A, B, t, after)
<1> DEFINE u == Tail(s)
<1>1. /\ Len(s) \in Nat \ {0} /\ Len(u) = Len(s) - 1 /\ Head(s) = s[1]
      /\ \A i \in 1..Len(u) : u[i] = s[i + 1]
  OBVIOUS
<1> HIDE DEF u
<1>2. /\ \A i \in 1..Len(s) : i = 1 \/ (i - 1 \in 1..Len(u) /\ u[i - 1] = s[i])
      /\ \A i \in 1..Len(u) : i + 1 \in 1..Len(s) /\ 1 < i + 1
      /\ 1 \in 1..Len(s)
  BY <1>1
<1>3. ASSUME Head(s) \in A, Without(u, A \cup B) PROVE t \notin subs
  <2>1. \A j \in 1..Len(s) : j > 1 => s[j] \notin A \cup B
    BY <1>2, <1>3 DEF Without
  <2>2. s[1] \in A /\ ~\E l \in 1..Len(s) : l < 1
    BY <1>1, <1>3
  <2> QED
    BY <1>2, <2>1, <2>2 DEF Anew
<1>4. ASSUME t \in after => t \in subs \/ Head(s) \in A, Head(s) \in B => t \notin after,
             NEW i \in 1..Len(u), u[i] \in A, \A j \in 1..Len(u) : j > i => u[j] \notin A \cup B
      PROVE  \/ \E l \in 1..Len(u) : l < i /\ u[l] \in B /\ \A m \in 1..Len(u) : l < m /\ m < i => u[m] \notin A
             \/ t \notin after /\ \A m \in 1..Len(u) : m < i => u[m] \notin A
  <2>1. i + 1 \in 1..Len(s) /\ s[i + 1] \in A
    BY <1>1, <1>2, <1>4
  <2>2. ASSUME NEW j \in 1..Len(s), j > i + 1 PROVE s[j] \notin A \cup B
    <3>1. j - 1 \in 1..Len(u) /\ u[j - 1] = s[j] /\ j - 1 > i
      BY <1>1, <1>2, <2>2
    <3> QED
      BY <1>4, <3>1
  <2>3. CASE \E l \in 1..Len(s) : /\ l < i + 1 /\ s[l] \in B
                                  /\ \A m \in 1..Len(s) : l < m /\ m < i + 1 => s[m] \notin A
    <3>1. PICK l \in 1..Len(s) : /\ l < i + 1 /\ s[l] \in B
                                 /\ \A m \in 1..Len(s) : l < m /\ m < i + 1 => s[m] \notin A
      BY <2>3
    <3>2. ASSUME NEW m \in 1..Len(u), l < m + 1, m < i PROVE u[m] \notin A
      <4>1. m + 1 \in 1..Len(s) /\ l < m + 1 /\ m + 1 < i + 1 /\ u[m] = s[m + 1]
        BY <1>1, <1>2, <3>2
      <4> QED
        BY <3>1, <4>1
    <3>3. CASE l = 1
      <4>1. t \notin after
        BY <1>1, <1>4, <3>1, <3>3
      <4>2. \A m \in 1..Len(u) : m < i => u[m] \notin A
        BY <3>2, <3>3
      <4> QED
        BY <4>1, <4>2
    <3>4. CASE l # 1
      <4>1. l - 1 \in 1..Len(u) /\ l - 1 < i /\ u[l - 1] \in B
        BY <1>1, <1>2, <3>1, <3>4
      <4>2. \A m \in 1..Len(u) : l - 1 < m /\ m < i => u[m] \notin A
        BY <1>1, <3>1, <3>2
      <4> QED
        BY <4>1, <4>2
    <3> QED
      BY <3>3, <3>4
  <2>4. CASE t \notin subs /\ \A m \in 1..Len(s) : m < i + 1 => s[m] \notin A
    <3>1. Head(s) \notin A
      BY <1>1, <1>2, <2>4
    <3>2. \A m \in 1..Len(u) : m < i => u[m] \notin A
      BY <1>1, <1>2, <2>4
    <3> QED
      BY <1>4, <2>4, <3>1, <3>2
  <2> QED
    BY <2>1, <2>2, <2>3, <2>4 DEF Anew
<1>5. (t \in after => t \in subs \/ Head(s) \in A) /\ (Head(s) \in B => t \notin after) => Anew(u, A, B, t, after)
  BY <1>4 DEF Anew
<1> QED
  BY <1>3, <1>5 DEF u

(* No word of A is there, or one of B has the last word. *)
LEMMA NothingAsked ==
  ASSUME NEW s \in Seq(Command), NEW A, NEW B, NEW t, NEW subs, A \cap B = {},
         Without(s, A) \/ Ends(s, B, A)
  PROVE  Anew(s, A, B, t, subs)
<1> SUFFICES ASSUME NEW i \in 1..Len(s), s[i] \in A, \A j \in 1..Len(s) : j > i => s[j] \notin A \cup B
             PROVE  FALSE
  BY DEF Anew
<1>1. PICK l \in 1..Len(s) : s[l] \in B /\ \A j \in 1..Len(s) : j > l => s[j] \notin A
  BY DEF Ends, Without
<1>2. ~(l > i) /\ ~(i > l) /\ l # i
  BY <1>1
<1>3. Len(s) \in Nat
  OBVIOUS
<1> QED
  BY <1>2, <1>3

(* Words are sent: none of A, or one of A to a server that has t off or was told so. *)
LEMMA SendingTurns ==
  ASSUME NEW s \in Seq(Command), NEW f \in Seq(Command), NEW A, NEW B, NEW t, NEW subs, A \cap B = {}
  PROVE  /\ Anew(s, A, B, t, subs) /\ Without(f, A) => Anew(s \o f, A, B, t, subs)
         /\ (t \notin subs /\ Without(s, A)) \/ Ends(s, B, A) =>
              (Apart(f, A, A) => Anew(s \o f, A, B, t, subs))
<1> DEFINE u == s \o f
<1>1. /\ Len(u) = Len(s) + Len(f) /\ Len(s) \in Nat /\ Len(f) \in Nat
      /\ \A i \in 1..Len(s) : u[i] = s[i]
      /\ \A i \in 1..Len(f) : u[Len(s) + i] = f[i]
  OBVIOUS
<1> HIDE DEF u
<1>2. /\ \A i \in 1..Len(u) : i > Len(s) => i - Len(s) \in 1..Len(f) /\ u[i] = f[i - Len(s)]
      /\ \A i \in 1..Len(s) : i \in 1..Len(u)
      /\ \A i \in 1..Len(u) : i > Len(s) \/ i \in 1..Len(s)
  BY <1>1
<1>3. ASSUME Anew(s, A, B, t, subs), Without(f, A),
             NEW i \in 1..Len(u), u[i] \in A, \A j \in 1..Len(u) : j > i => u[j] \notin A \cup B
      PROVE  \/ \E l \in 1..Len(u) : l < i /\ u[l] \in B /\ \A m \in 1..Len(u) : l < m /\ m < i => u[m] \notin A
             \/ t \notin subs /\ \A m \in 1..Len(u) : m < i => u[m] \notin A
  <2>1. i \in 1..Len(s) /\ s[i] \in A
    BY <1>1, <1>2, <1>3 DEF Without
  <2>2. \A j \in 1..Len(s) : j > i => s[j] \notin A \cup B
    BY <1>1, <1>2, <1>3
  <2>3. \A m \in 1..Len(u) : m < i => m \in 1..Len(s) /\ u[m] = s[m]
    BY <1>1, <2>1
  <2>4. CASE \E l \in 1..Len(s) : l < i /\ s[l] \in B /\ \A m \in 1..Len(s) : l < m /\ m < i => s[m] \notin A
    <3>1. PICK l \in 1..Len(s) : l < i /\ s[l] \in B /\ \A m \in 1..Len(s) : l < m /\ m < i => s[m] \notin A
      BY <2>4
    <3>2. l \in 1..Len(u) /\ u[l] \in B /\ \A m \in 1..Len(u) : l < m /\ m < i => u[m] \notin A
      BY <1>1, <1>2, <2>3, <3>1
    <3> QED
      BY <3>1, <3>2
  <2>5. CASE t \notin subs /\ \A m \in 1..Len(s) : m < i => s[m] \notin A
    BY <2>3, <2>5
  <2> QED
    BY <1>3, <2>1, <2>2, <2>4, <2>5 DEF Anew
<1>4. ASSUME Apart(f, A, A), NEW i \in 1..Len(u), u[i] \in A, i > Len(s), NEW m \in 1..Len(u), m < i, m > Len(s)
      PROVE  u[m] \notin A
  <2>1. /\ i - Len(s) \in 1..Len(f) /\ u[i] = f[i - Len(s)] /\ m - Len(s) \in 1..Len(f) /\ u[m] = f[m - Len(s)]
        /\ m - Len(s) < i - Len(s)
    BY <1>1, <1>2, <1>4
  <2> QED
    BY <1>4, <2>1 DEF Apart
<1>5. ASSUME Apart(f, A, A), (t \notin subs /\ Without(s, A)) \/ Ends(s, B, A),
             NEW i \in 1..Len(u), u[i] \in A, \A j \in 1..Len(u) : j > i => u[j] \notin A \cup B
      PROVE  \/ \E l \in 1..Len(u) : l < i /\ u[l] \in B /\ \A m \in 1..Len(u) : l < m /\ m < i => u[m] \notin A
             \/ t \notin subs /\ \A m \in 1..Len(u) : m < i => u[m] \notin A
  <2>1. CASE t \notin subs /\ Without(s, A)
    <3>1. i > Len(s)
      BY <1>1, <1>2, <1>5, <2>1 DEF Without
    <3>2. ASSUME NEW m \in 1..Len(u), m < i PROVE u[m] \notin A
      BY <1>1, <1>2, <1>4, <1>5, <2>1, <3>1, <3>2 DEF Without
    <3> QED
      BY <2>1, <3>2
  <2>2. CASE Ends(s, B, A)
    <3>1. PICK l \in 1..Len(s) : s[l] \in B /\ \A j \in 1..Len(s) : j > l => s[j] \notin A
      BY <2>2 DEF Ends
    <3>2. l \in 1..Len(u) /\ u[l] \in B
      BY <1>1, <1>2, <3>1
    <3>3. ~(l > i) /\ l # i
      BY <1>5, <3>2
    <3>4. l < i
      BY <1>1, <3>3
    <3>5. i > Len(s)
      BY <1>1, <1>2, <1>5, <3>1, <3>4
    <3>6. ASSUME NEW m \in 1..Len(u), l < m, m < i PROVE u[m] \notin A
      BY <1>1, <1>2, <1>4, <1>5, <3>1, <3>5, <3>6
    <3> QED
      BY <3>2, <3>4, <3>6
  <2> QED
    BY <1>5, <2>1, <2>2
<1>6. Anew(s, A, B, t, subs) /\ Without(f, A) => Anew(u, A, B, t, subs)
  BY <1>3 DEF Anew
<1>7. ASSUME (t \notin subs /\ Without(s, A)) \/ Ends(s, B, A), Apart(f, A, A) PROVE Anew(u, A, B, t, subs)
  BY <1>5, <1>7 DEF Anew
<1> QED
  BY <1>6, <1>7 DEF u

(* A schema stays under way until it is handled. *)
LEMMA SchemaStays ==
  ASSUME NEW s \in Seq(Event), NEW t
  PROVE  /\ \A e \in Event : Answered(s, t) \/ SchemaOf(e, t) => Answered(Append(s, e), t)
         /\ s # <<>> /\ Answered(s, t) => SchemaOf(Head(s), t) \/ Answered(Tail(s), t)
         /\ ~Answered(<<>>, t)
<1>1. ASSUME NEW e \in Event, Answered(s, t) \/ SchemaOf(e, t) PROVE Answered(Append(s, e), t)
  <2> DEFINE u == Append(s, e)
  <2>1. /\ Len(s) \in Nat /\ Len(u) = Len(s) + 1 /\ u[Len(s) + 1] = e
        /\ \A i \in 1..Len(s) : u[i] = s[i]
    OBVIOUS
  <2> HIDE DEF u
  <2>2. Len(s) + 1 \in 1..Len(u) /\ \A i \in 1..Len(s) : i \in 1..Len(u)
    BY <2>1
  <2>3. Answered(u, t)
    BY <1>1, <2>1, <2>2 DEF Answered
  <2> QED
    BY <2>3 DEF u
<1>2. ASSUME s # <<>>, Answered(s, t) PROVE SchemaOf(Head(s), t) \/ Answered(Tail(s), t)
  <2> DEFINE u == Tail(s)
  <2>1. /\ Len(s) \in Nat \ {0} /\ Len(u) = Len(s) - 1 /\ Head(s) = s[1]
        /\ \A i \in 1..Len(u) : u[i] = s[i + 1]
    BY <1>2
  <2> HIDE DEF u
  <2>2. \A i \in 1..Len(s) : i = 1 \/ (i - 1 \in 1..Len(u) /\ u[i - 1] = s[i])
    BY <2>1
  <2>3. PICK i \in 1..Len(s) : SchemaOf(s[i], t)
    BY <1>2 DEF Answered
  <2>4. SchemaOf(Head(s), t) \/ Answered(u, t)
    BY <2>1, <2>2, <2>3 DEF Answered
  <2> QED
    BY <2>4 DEF u
<1>3. ~Answered(<<>>, t)
  BY DEF Answered
<1> QED
  BY <1>1, <1>2, <1>3

(* What a schema is bound to is a parser. *)
LEMMA BindingExists ==
  ASSUME TypeOK, NEW e \in Event, NEW t \in Topics, SchemaOf(e, t)
  PROVE  /\ [schema |-> e.schemas[t], name |-> resolveSchemaName(t)] \in Binding
         /\ [schema |-> e.schemas[t], name |-> resolveSchemaName(t)] # None
<1>1. e.schemas[t] \in Types
  BY DEF SchemaOf, Event
<1>2. resolveSchemaName(t) \in Types \cup {None}
  BY DEF resolveSchemaName, TypeOK, ControlTypeOK, Catalog, TopicInfo
<1>3. [schema |-> e.schemas[t], name |-> resolveSchemaName(t)] \in Binding
  BY <1>1, <1>2 DEF Binding
<1>4. None \notin Binding
  BY SourceAssumption
<1> QED
  BY <1>3, <1>4

(* A topic dropped as retyped is counted as such until it is unsubscribed. *)
LEMMA RetypedLeaves ==
  ASSUME Speaks \/ Serves \/ Drains \/ Passes \/ Responds \/ Learns \/ Reconciles,
         NEW t \in retyped, t \notin retyped'
  PROVE  Reconciles /\ t \in applied /\ t \notin applied'
<1>1. ~(Speaks \/ Serves \/ Drains \/ Passes \/ Responds)
  BY DEF Speaks, Serves, Drains, Passes, Responds, controlVars
<1>2. ~Learns
  BY DEF Learns, dropRetypedApplied
<1>3. PICK des \in SUBSET Topics : reconcileSubscriptions(des)
  BY <1>1, <1>2 DEF Reconciles
<1> DEFINE adv == filteredAdvertisedTopics(advertised, selected)
           drop == to_unsubscribe(applied, adv, des)
           add == to_subscribe(applied, adv, des)
<1>4. retyped' = retyped \ drop /\ applied' = (applied \ drop) \cup add
  BY <1>3 DEF reconcileSubscriptions
<1>5. drop \subseteq applied /\ applied \cap add = {}
  BY DEF to_unsubscribe, to_subscribe
<1> HIDE DEF drop, add
<1> QED
  BY <1>1, <1>2, <1>4, <1>5

(* Every step keeps AsksAnew. *)
LEMMA AnewStep ==
  ASSUME TypeOK, ControlInv, LinkInv, StartInv, [Next]_vars, Live', isOpen', NEW t \in Topics, t \notin retyped',
         Live /\ isOpen /\ t \notin retyped => AsksAnew(t) /\ (t \notin applied => Gone(t))
  PROVE  AsksAnew(t)'
<1> DEFINE A == SubsOf(t)
           B == UnsubsOf(t)
<1>1. toServer \in Seq(Command)
  BY DEF TypeOK, SessionTypeOK
<1>2. A \subseteq Words(SubscriptionWords) /\ A \cap B = {}
  BY DEF SubsOf, UnsubsOf, Words, SubscriptionWords
<1> HIDE DEF A, B
<1>3. ASSUME Live, isOpen, t \notin retyped PROVE Anew(toServer, A, B, t, srvSubs)
  BY <1>3 DEF AsksAnew, A, B
<1> SUFFICES Anew(toServer', A, B, t, srvSubs')
  BY DEF AsksAnew, A, B
<1>4. CASE FreshLink'
  <2>1. Without(toServer', A)
    BY <1>2, <1>4, FewerWords DEF FreshLink
  <2> QED
    BY <2>1 DEF Without, Anew
<1>5. CASE /\ Live
           /\ Speaks \/ Serves \/ Drains \/ Passes \/ Responds \/ Learns \/ Reconciles
  <2>1. CASE Speaks
    <3>1. UNCHANGED <<conn, srvSubs, retyped>>
      BY <2>1 DEF Speaks
    <3>2. PICK f \in Seq(Command) : /\ Without(f, Words(SubscriptionWords))
                                    /\ toServer' = toServer \o f \/ toServer' = toServer
      BY <2>1 DEF Speaks
    <3>3. Without(f, A)
      BY <1>2, <3>2, FewerWords
    <3>4. Anew(toServer, A, B, t, srvSubs)
      BY <1>3, <1>5, <3>1 DEF isOpen
    <3> QED
      BY <1>1, <1>2, <3>1, <3>2, <3>3, <3>4, SendingTurns
  <2>2. CASE Drains \/ Passes \/ Responds \/ Learns
    <3>1. UNCHANGED <<conn, toServer, srvSubs>>
      BY <2>2 DEF Drains, Passes, Responds, Learns, HandlesOne
    <3>2. t \notin retyped
      <4>1. ~Reconciles \/ t \notin retyped
        <5>1. Drains \/ Passes \/ Responds => retyped' = retyped
          BY DEF Drains, Passes, Responds
        <5>2. Learns => retyped \subseteq retyped'
          BY DEF Learns, dropRetypedApplied
        <5> QED
          BY <2>2, <5>1, <5>2
      <4> QED
        BY <2>2, <4>1, RetypedLeaves
    <3> QED
      BY <1>3, <1>5, <3>1, <3>2 DEF isOpen
  <2>3. CASE Serves
    <3>1. SessionNext /\ isOpen /\ conn' # "closed" /\ t \notin retyped
      BY <1>5, <2>3, OpenBefore DEF Serves, Live, isOpen, controlVars
    <3>2. Anew(toServer, A, B, t, srvSubs)
      BY <1>3, <1>5, <3>1
    <3>3. CASE UNCHANGED <<toServer, srvSubs>>
      BY <3>2, <3>3
    <3>4. CASE on_message /\ toServer # <<>> /\ toServer' = Tail(toServer) /\ Head(toServer) \in Command
      <4>1. t \in srvSubs' => t \in srvSubs \/ Head(toServer) \in A
        <5>1. Head(toServer).c # "subscribe" => srvSubs' \subseteq srvSubs
          BY <3>4, Answers
        <5>2. Head(toServer).c = "subscribe" =>
                srvSubs' = srvSubs \cup {u \in Head(toServer).topics \ srvSubs : srvCatalog[u] # None}
          BY <3>4, Answers
        <5>3. Head(toServer).c = "subscribe" /\ t \in Head(toServer).topics => Head(toServer) \in A
          BY <3>4 DEF A, SubsOf
        <5> QED
          BY <5>1, <5>2, <5>3
      <4>2. Head(toServer) \in B => t \notin srvSubs'
        <5> SUFFICES ASSUME Head(toServer) \in B PROVE t \notin srvSubs'
          OBVIOUS
        <5>1. Head(toServer).c = "unsubscribe" /\ t \in Head(toServer).topics
          BY DEF B, UnsubsOf
        <5>2. srvSubs' = srvSubs \ Head(toServer).topics
          BY <3>4, <5>1 DEF on_message
        <5> QED
          BY <5>1, <5>2
      <4>3. Anew(Tail(toServer), A, B, t, srvSubs')
        BY <1>1, <3>2, <3>4, <4>1, <4>2, TakingTurns
      <4> QED
        BY <3>4, <4>3
    <3> QED
      BY <3>1, <3>3, <3>4, SessionKinds
  <2>4. CASE Reconciles
    <3>1. UNCHANGED <<conn, srvSubs>> /\ \E des \in SUBSET Topics : reconcileSubscriptions(des)
      BY <2>4 DEF Reconciles
    <3>2. PICK f \in Seq(Command) :
            /\ toServer' = IF isOpen THEN toServer \o f ELSE toServer
            /\ Apart(f, A, A)
            /\ ~(t \notin applied /\ t \in applied') => Without(f, A)
            /\ t \in applied /\ t \notin applied' => Ends(f, B, A)
      <4>1. PICK f \in Seq(Command) :
            /\ toServer' = IF isOpen THEN toServer \o f ELSE toServer
            /\ \A u \in Topics :
                 /\ Apart(f, SubsOf(u), SubsOf(u))
                 /\ u \in applied /\ u \notin applied' =>
                      Without(f, SubsOf(u)) /\ Ends(f, UnsubsOf(u), SubsOf(u))
                 /\ (u \in applied <=> u \in applied') => Without(f, SubsOf(u))
        BY <3>1, ReconcileSays
      <4>2. /\ Apart(f, A, A) /\ (~(t \notin applied /\ t \in applied') => Without(f, A))
            /\ (t \in applied /\ t \notin applied' => Ends(f, B, A))
        BY <4>1 DEF A, B
      <4> QED
        BY <4>1, <4>2
    <3>3. isOpen /\ toServer' = toServer \o f /\ toServer \o f \in Seq(Command)
      BY <1>1, <3>1, <3>2 DEF isOpen
    <3>4. CASE t \in retyped
      <4>1. Ends(f, B, A)
        BY <2>4, <3>2, <3>4, RetypedLeaves
      <4>2. Ends(toServer \o f, B, A)
        BY <1>1, <4>1, SendingWords
      <4>3. Anew(toServer \o f, A, B, t, srvSubs')
        BY <1>2, <3>3, <4>2, NothingAsked
      <4> QED
        BY <3>3, <4>3
    <3>5. CASE t \notin retyped /\ Without(f, A)
      BY <1>1, <1>2, <1>3, <1>5, <3>1, <3>3, <3>5, SendingTurns
    <3>6. CASE t \notin retyped /\ t \notin applied /\ t \in applied'
      <4>1. Dead(t) \/ Ends(toServer, B, A)
        BY <1>5, <3>3, <3>6 DEF Gone, A, B
      <4>2. Dead(t) => Without(toServer, A) /\ t \notin srvSubs
        BY <1>1, NoAskWords DEF Dead, A
      <4>3. Anew(toServer \o f, A, B, t, srvSubs)
        BY <1>1, <1>2, <3>2, <4>1, <4>2, SendingTurns
      <4> QED
        BY <3>1, <3>3, <4>3
    <3> QED
      BY <3>2, <3>4, <3>5, <3>6
  <2> QED
    BY <1>5, <2>1, <2>2, <2>3, <2>4
<1> QED
  BY <1>4, <1>5, StreamSteps DEF Live

(* A topic that stays subscribed keeps its parser. *)
LEMMA ReconcileKeeps ==
  ASSUME TypeOK, NEW des \in SUBSET Topics, reconcileSubscriptions(des), NEW t \in applied, t \in applied'
  PROVE  bindings'[t] = bindings[t] /\ t \in Topics /\ (t \in unparsed' <=> t \in unparsed)
<1> DEFINE adv == filteredAdvertisedTopics(advertised, selected)
           drop == to_unsubscribe(applied, adv, des)
           add == to_subscribe(applied, adv, des)
<1>1. /\ applied' = (applied \ drop) \cup add /\ bindings' = Erase(bindings, drop, None)
      /\ unparsed' = unparsed \ drop
  BY DEF reconcileSubscriptions
<1>2. t \notin add /\ t \in Topics
  BY DEF to_subscribe, TypeOK, ControlTypeOK
<1> HIDE DEF drop, add
<1> QED
  BY <1>1, <1>2 DEF Erase

(* An answer that names a subscribed topic gives it a parser, or the host refused. *)
LEMMA ResponseBinds ==
  ASSUME TypeOK, Responds, NEW t \in Topics, t \in applied
  PROVE  /\ SchemaOf(Head(batch), t) => bindings'[t] # None \/ t \in unparsed'
         /\ bindings[t] # None \/ t \in unparsed => bindings'[t] # None \/ t \in unparsed'
<1>1. batch \in Seq(Event) /\ batch # <<>> /\ Head(batch) \in Event /\ Head(batch).k = "schemas"
  BY DEF TypeOK, PollTypeOK, Responds, HandlesOne
<1>2. CASE SchemaOf(Head(batch), t)
  <2>1. \/ bindings'[t] = [schema |-> Head(batch).schemas[t], name |-> resolveSchemaName(t)]
        \/ t \in unparsed'
    BY <1>2 DEF Responds, SchemaOf
  <2> QED
    BY <1>1, <1>2, <2>1, BindingExists
<1>3. CASE ~SchemaOf(Head(batch), t)
  <2>1. bindings'[t] = bindings[t] /\ (t \in unparsed' <=> t \in unparsed)
    BY <1>1, <1>3 DEF Responds, SchemaOf
  <2> QED
    BY <1>3, <2>1
<1> QED
  BY <1>2, <1>3

(* Every step keeps every subscribed topic bound, refused or about to be. *)
LEMMA BindsStep ==
  ASSUME TypeOK, ControlInv, LinkInv, StartInv, BoundInv, [Next]_vars,
         Live', isOpen', NEW t \in Topics, t \in applied', t \notin retyped'
  PROVE  Binds(t)'
<1>1. /\ inbox \in Seq(Event) /\ batch \in Seq(Event) /\ toServer \in Seq(Command)
      /\ lastSubId \in [Topics -> Nat] /\ bindings \in [Topics -> Binding \cup {None}]
      /\ srvCatalog \in [Topics -> Types \cup {None}]
  BY DEF TypeOK, SessionTypeOK, PollTypeOK, ControlTypeOK
<1> DEFINE words == SubsOf(t) \cup UnsubsOf(t)
           id == lastSubId[t]
<1>2. words \subseteq Words(SubscriptionWords)
  BY DEF SubsOf, UnsubsOf, Words, SubscriptionWords
<1>3. CASE FreshLink'
  BY <1>3 DEF FreshLink
<1>4. CASE /\ Live
           /\ Speaks \/ Serves \/ Drains \/ Passes \/ Responds \/ Learns \/ Reconciles
  <2>0. t \notin retyped
    BY <1>4, RetypedLeaves
  <2>1. CASE Speaks
    <3>1. UNCHANGED <<conn, inbox, batch, applied, bindings, unparsed, lastSubId>>
      BY <2>1 DEF Speaks
    <3>2. Binds(t)
      BY <1>4, <2>0, <3>1 DEF BoundInv, isOpen
    <3>3. PICK f \in Seq(Command) : /\ Without(f, Words(SubscriptionWords))
                                    /\ toServer' = toServer \o f \/ toServer' = toServer
      BY <2>1 DEF Speaks
    <3>4. Without(f, words)
      BY <1>2, <3>3, FewerWords
    <3> HIDE DEF words
    <3>5. Ends(toServer, AskOf(t, id), words) => Ends(toServer', AskOf(t, id), words)
      <4> DEFINE A == AskOf(t, id)
      <4>1. Ends(toServer, A, words) => Ends(toServer \o f, A, words)
        <5> HIDE DEF A
        <5> QED
          BY <1>1, <3>4, SendingWords
      <4> QED
        BY <3>3, <4>1
    <3> QED
      BY <3>1, <3>2, <3>5 DEF Binds, words
  <2>2. CASE Serves
    <3>1. UNCHANGED <<batch, applied, lastSubId, bindings, unparsed>> /\ SessionNext /\ isOpen /\ conn' # "closed"
      BY <1>4, <2>2, OpenBefore DEF Serves, controlVars, Live, isOpen
    <3>2. Binds(t) /\ AsksAnew(t)
      BY <1>4, <2>0, <3>1 DEF BoundInv
    <3>3. inbox' = inbox \/ \E e \in Event : inbox' = Append(inbox, e)
      BY <3>1, SessionEffect
    <3>4. /\ Refused(inbox, t, id) => Refused(inbox', t, id)
          /\ Answered(inbox, t) => Answered(inbox', t)
      <4>1. CASE inbox' = inbox
        BY <4>1
      <4>2. CASE \E e \in Event : inbox' = Append(inbox, e)
        <5>1. PICK e \in Event : inbox' = Append(inbox, e)
          BY <4>2
        <5>2. Refused(inbox, t, id) => Refused(inbox', t, id)
          BY <1>1, <5>1, RefusalStays
        <5>3. Answered(inbox, t) => Answered(inbox', t)
          BY <1>1, <5>1, SchemaStays
        <5> QED
          BY <5>2, <5>3
      <4> QED
        BY <3>3, <4>1, <4>2
    <3>5. CASE ~Ends(toServer, AskOf(t, id), words)
      BY <3>1, <3>2, <3>4, <3>5 DEF Binds
    <3>6. CASE Ends(toServer, AskOf(t, id), words) /\ UNCHANGED toServer
      BY <3>1, <3>6 DEF Binds
    <3>7. CASE /\ Ends(toServer, AskOf(t, id), words)
               /\ on_message /\ toServer # <<>> /\ toServer' = Tail(toServer) /\ Head(toServer) \in Command
      <4>0. Anew(toServer, SubsOf(t), UnsubsOf(t), t, srvSubs)
        BY <3>2 DEF AsksAnew
      <4>1. Head(toServer) \in SubsOf(t) /\ Without(Tail(toServer), words) => t \notin srvSubs
        BY <1>1, <3>7, <4>0, TakingTurns
      <4> HIDE DEF words
      <4>2. CASE Ends(Tail(toServer), AskOf(t, id), words)
        BY <3>1, <3>7, <4>2 DEF Binds, words
      <4>3. CASE Head(toServer) \in AskOf(t, id) /\ Without(Tail(toServer), words)
        <5>1. /\ Head(toServer).c = "subscribe" /\ t \in Head(toServer).topics /\ Head(toServer).id = id
              /\ Head(toServer) \in SubsOf(t)
          BY <4>3 DEF AskOf, SubsOf
        <5>2. t \notin srvSubs
          BY <4>1, <4>3, <5>1
        <5>3. ~srvNewer
          BY <1>4 DEF Live
        <5>4. PICK e \in Event :
                /\ inbox' = Append(inbox, e) /\ e.k = "schemas" /\ e.id = Head(toServer).id
                /\ e.failures = {u \in Head(toServer).topics \ srvSubs : srvCatalog[u] = None}
                /\ t \in Head(toServer).topics \ srvSubs => e.schemas[t] = srvCatalog[t]
          BY <3>7, <5>1, <5>3, AnswerSays
        <5>5. Refuses(e, t, id) \/ SchemaOf(e, t)
          BY <5>1, <5>2, <5>4 DEF Refuses, SchemaOf
        <5>6. Refused(inbox', t, id) \/ Answered(inbox', t)
          BY <1>1, <5>4, <5>5, RefusalStays, SchemaStays
        <5> QED
          BY <3>1, <5>6 DEF Binds
      <4> QED
        BY <1>1, <3>7, <4>2, <4>3, TakingWords
    <3> QED
      BY <3>1, <3>5, <3>6, <3>7, SessionKinds
  <2>3. CASE Drains
    <3>1. /\ batch = <<>> /\ batch' = inbox /\ inbox' = <<>>
          /\ UNCHANGED <<conn, toServer, applied, lastSubId, bindings, unparsed>>
      BY <2>3 DEF Drains
    <3>2. Binds(t)
      BY <1>4, <2>0, <3>1 DEF BoundInv, isOpen
    <3>3. ~Refused(<<>>, t, id) /\ ~Answered(<<>>, t)
      BY <1>1, NothingUnderWay, SchemaStays
    <3> QED
      BY <3>1, <3>2, <3>3 DEF Binds
  <2>4. CASE Passes \/ Responds \/ Learns
    <3>1. batch # <<>> /\ batch' = Tail(batch) /\ UNCHANGED <<conn, inbox, toServer>>
      BY <2>4 DEF Passes, Responds, Learns, HandlesOne
    <3>2. /\ t \in applied /\ lastSubId'[t] = lastSubId[t]
          /\ bindings[t] # None \/ t \in unparsed => bindings'[t] # None \/ t \in unparsed'
          /\ SchemaOf(Head(batch), t) => bindings'[t] # None \/ t \in unparsed'
      <4>1. CASE Passes
        BY <4>1 DEF Passes, SchemaOf
      <4>2. CASE Responds
        <5>1. t \in applied /\ lastSubId' = lastSubId
          BY <4>2 DEF Responds
        <5> QED
          BY <4>2, <5>1, ResponseBinds
      <4>3. CASE Learns
        <5>1. ~SchemaOf(Head(batch), t)
          BY <4>3 DEF Learns, SchemaOf
        <5>2. CASE UNCHANGED <<applied, bindings, lastSubId, unparsed>>
          BY <5>1, <5>2
        <5>3. CASE dropRetypedApplied(retypedTopics(advertised, advertised', applied))
          <6> DEFINE dropped == retypedTopics(advertised, advertised', applied)
          <6>1. /\ applied' = applied \ dropped /\ bindings' = Erase(bindings, dropped, None)
                /\ lastSubId' = Erase(lastSubId, dropped, 0) /\ unparsed' = unparsed \ dropped
            BY <5>3 DEF dropRetypedApplied
          <6> HIDE DEF dropped
          <6> QED
            BY <5>1, <6>1 DEF Erase
        <5> QED
          BY <4>3, <5>2, <5>3 DEF Learns
      <4> QED
        BY <2>4, <4>1, <4>2, <4>3
    <3>3. Binds(t)
      BY <1>4, <2>0, <3>1, <3>2 DEF BoundInv, isOpen
    <3>4. ~Refuses(Head(batch), t, lastSubId[t])
      <4>1. CASE Responds
        <5>1. applied' = applied \ Rejected(Head(batch)) /\ lastSubId' = lastSubId
          BY <4>1 DEF Responds
        <5> QED
          BY <5>1 DEF Rejected, failureIsStale, Refuses
      <4>2. CASE Passes \/ Learns
        BY <4>2 DEF Passes, Learns, Refuses
      <4> QED
        BY <2>4, <4>1, <4>2
    <3>5. Refused(batch, t, lastSubId[t]) => Refused(batch', t, lastSubId[t])
      BY <1>1, <3>1, <3>4, RefusalStays
    <3>6. Answered(batch, t) => SchemaOf(Head(batch), t) \/ Answered(batch', t)
      BY <1>1, <3>1, SchemaStays
    <3> QED
      BY <3>1, <3>2, <3>3, <3>5, <3>6 DEF Binds
  <2>5. CASE Reconciles
    <3>1. UNCHANGED <<conn, inbox, batch>>
      BY <2>5 DEF Reconciles
    <3>2. PICK des \in SUBSET Topics : reconcileSubscriptions(des)
      BY <2>5 DEF Reconciles
    <3>3. PICK f \in Seq(Command) :
           /\ toServer' = IF isOpen THEN toServer \o f ELSE toServer
           /\ \A u \in Topics :
                /\ u \notin applied /\ u \in applied' =>
                     /\ lastSubId'[u] = nextId
                     /\ Ends(f, AskOf(u, nextId), SubsOf(u) \cup UnsubsOf(u))
                /\ (u \in applied <=> u \in applied') =>
                     Without(f, SubsOf(u)) /\ Without(f, UnsubsOf(u))
                /\ u \in applied /\ u \in applied' => lastSubId'[u] = lastSubId[u]
      BY <3>2, ReconcileSays
    <3>4. isOpen /\ toServer' = toServer \o f
      BY <3>1, <3>3 DEF isOpen
    <3>5. CASE t \notin applied
      <4>1. lastSubId'[t] = nextId /\ Ends(f, AskOf(t, nextId), words)
        BY <3>3, <3>5
      <4> HIDE DEF words
      <4>2. Ends(toServer', AskOf(t, nextId), words)
        BY <1>1, <3>4, <4>1, SendingWords
      <4> QED
        BY <4>1, <4>2 DEF Binds, words
    <3>6. CASE t \in applied
      <4>1. lastSubId'[t] = lastSubId[t] /\ Without(f, words)
        BY <3>3, <3>6 DEF Without
      <4>2. bindings'[t] = bindings[t] /\ (t \in unparsed' <=> t \in unparsed)
        BY <3>2, <3>6, ReconcileKeeps
      <4>3. Binds(t)
        BY <1>4, <2>0, <3>4, <3>6 DEF BoundInv
      <4> HIDE DEF words
      <4>4. Ends(toServer, AskOf(t, id), words) => Ends(toServer', AskOf(t, id), words)
        BY <1>1, <3>4, <4>1, SendingWords
      <4> QED
        BY <3>1, <4>1, <4>2, <4>3, <4>4 DEF Binds, words
    <3> QED
      BY <3>5, <3>6
  <2> QED
    BY <1>4, <2>1, <2>2, <2>3, <2>4, <2>5
<1> QED
  BY <1>3, <1>4, StreamSteps DEF Live

(* Every subscribed topic has its parser, was refused one or will get it, and nothing
   is to come of any other; the topics dropped as retyped are outside of both. *)
THEOREM BoundInvariant == Spec => []BoundInv
<1>1. Init => BoundInv
  BY DEF Init, BoundInv, Live, Streaming
<1>2. TypeOK /\ TypeOK' /\ ControlInv /\ LinkInv /\ SubscriptionInv /\ DemandInv /\ BoundInv /\ [Next]_vars
        => BoundInv'
  <2> SUFFICES ASSUME TypeOK, TypeOK', ControlInv, LinkInv, SubscriptionInv, StartInv, BoundInv, [Next]_vars,
                      Live', isOpen', NEW t \in Topics, t \notin retyped'
               PROVE  /\ AsksAnew(t)'
                      /\ t \notin applied' => Gone(t)'
                      /\ t \in applied' => Binds(t)'
    BY DEF BoundInv, DemandInv
  <2>1. Live /\ isOpen /\ t \notin retyped => AsksAnew(t) /\ (t \notin applied => Gone(t))
    BY DEF BoundInv
  <2>2. AsksAnew(t)'
    BY <2>1, AnewStep
  <2>3. ASSUME t \notin applied' PROVE Gone(t)'
    <3>1. CASE FreshLink'
      BY <3>1, FreshIsGone
    <3>2. CASE /\ Live /\ t \in retyped
               /\ Speaks \/ Serves \/ Drains \/ Passes \/ Responds \/ Learns \/ Reconciles
      <4>1. Reconciles /\ t \in applied
        BY <3>2, RetypedLeaves
      <4>2. PICK des \in SUBSET Topics : reconcileSubscriptions(des) /\ UNCHANGED conn
        BY <4>1 DEF Reconciles
      <4>3. PICK f \in Seq(Command) :
              /\ toServer' = IF isOpen THEN toServer \o f ELSE toServer
              /\ \A u \in Topics :
                   u \in applied /\ u \notin applied' => Ends(f, UnsubsOf(u), SubsOf(u))
        BY <4>2, ReconcileSays
      <4>4. toServer' = toServer \o f /\ Ends(f, UnsubsOf(t), SubsOf(t)) /\ toServer \in Seq(Command)
        BY <2>3, <4>1, <4>2, <4>3 DEF isOpen, TypeOK, SessionTypeOK
      <4>5. Ends(toServer', UnsubsOf(t), SubsOf(t))
        BY <4>4, SendingWords
      <4> QED
        BY <4>5 DEF Gone
    <3>3. CASE t \notin retyped
      <4>1. Live /\ isOpen /\ t \notin applied => Gone(t)
        BY <2>1, <3>3
      <4>2. \/ Gone(t)'
            \/ Learns /\ t \in retypedTopics(advertised, advertised', applied)
        BY <2>3, <4>1, GoneStep
      <4>3. ASSUME Learns, t \in retypedTopics(advertised, advertised', applied) PROVE t \in retyped' \/ t \in applied'
        <5>1. t \in applied
          BY <4>3 DEF retypedTopics
        <5> QED
          BY <4>3, <5>1 DEF Learns, dropRetypedApplied
      <4> QED
        BY <2>3, <4>2, <4>3
    <3> QED
      BY <3>1, <3>2, <3>3, StreamSteps DEF Live
  <2>4. t \in applied' => Binds(t)'
    BY BindsStep
  <2> QED
    BY <2>2, <2>3, <2>4
<1> QED
  BY <1>1, <1>2, TypeCorrect, ControlInvariant, CatalogInvariant, SubscriptionInvariant, DemandInvariant,
     PTL DEF Spec

(* At rest a subscribed topic is without a parser only if the host refused it one or
   it was dropped as retyped, for every server and whatever the host does. *)
THEOREM AppliedAreBoundHolds == Spec => []AppliedAreBound
<1>1. LinkInv /\ CatalogInv /\ TypeOK /\ BoundInv => AppliedAreBound
  <2> SUFFICES ASSUME LinkInv, CatalogInv, TypeOK, BoundInv, Settled, NEW t \in applied, t \notin retyped
               PROVE  bindings[t] # None \/ t \in unparsed
    BY DEF AppliedAreBound
  <2>1. Live /\ isOpen /\ batch = <<>> /\ inbox = <<>> /\ toServer = <<>>
    BY SettledIsLive
  <2>2. t \in Topics
    BY DEF TypeOK, ControlTypeOK
  <2>3. Binds(t)
    BY <2>1, <2>2 DEF BoundInv
  <2> QED
    BY <2>1, <2>3, NoWords, NothingUnderWay, SchemaStays, EmptySeqs DEF Binds
<1> QED
  BY <1>1, TypeCorrect, CatalogInvariant, BoundInvariant, PTL DEF Spec

(* At rest the server streams no topic the source has not subscribed, other than one
   that was dropped as retyped and not unsubscribed since. *)
OnlyRetypedLinger == Settled => srvSubs \ applied \subseteq retyped

(* For every server and every sequence of catalog changes, removals of retyped topics
   among them: only dropRetypedApplied, which sends no unsubscribe, lets a topic stream on. *)
THEOREM OnlyRetypedLingerHolds == Spec => []OnlyRetypedLinger
<1>1. LinkInv /\ CatalogInv /\ TypeOK /\ BoundInv => OnlyRetypedLinger
  <2> SUFFICES ASSUME LinkInv, CatalogInv, TypeOK, BoundInv, Settled,
                      NEW t \in srvSubs, t \notin applied, t \notin retyped
               PROVE  FALSE
    BY DEF OnlyRetypedLinger
  <2>1. Live /\ isOpen /\ toServer = <<>>
    BY SettledIsLive
  <2>2. t \in Topics
    BY DEF TypeOK, SessionTypeOK
  <2>3. Gone(t)
    BY <2>1, <2>2 DEF BoundInv
  <2> QED
    BY <2>1, <2>3, NoWords DEF Gone, Dead
<1> QED
  BY <1>1, TypeCorrect, CatalogInvariant, BoundInvariant, PTL DEF Spec

(***************************************************************************)
(* What the parsers decode.                                                *)
(***************************************************************************)
NoSchemas(s) == \A i \in 1..Len(s) : s[i].k # "schemas"

(* A server of a newer protocol gets no topic bound. *)
NewerInv ==
  Streaming /\ srvNewer =>
    /\ \A t \in Topics : bindings[t] = None
    /\ NoSchemas(batch) /\ NoSchemas(inbox)

(* A parser of the type the catalog has. *)
Fits(t) ==
  /\ bindings[t].schema = bindings[t].name
  /\ advertised[t] # None => bindings[t].name = advertised[t].ty

(* A parser left from an earlier subscription, which a schema under way replaces
   before the next frame. *)
Renews(s, t) == \A i \in 1..Len(s) : Carries(s[i], t) => \E l \in 1..Len(s) : l < i /\ SchemaOf(s[l], t)

Outdated(t) ==
  /\ t \in srvSubs => Answered(batch, t) \/ Answered(inbox, t)
  /\ Renews(batch, t)
  /\ Answered(batch, t) \/ Renews(inbox, t)

ParserInv == Live => \A t \in applied \ unparsed : bindings[t] # None => Fits(t) \/ Outdated(t)

(* A subscribed topic that leaves the catalog and comes back in one poll comes back
   with the type its parser has. *)
NoReadd ==
  running' => \A t \in applied : bindings[t] # None /\ advertised[t] = None /\ advertised'[t] # None
                                   => bindings[t].name = advertised'[t].ty

(* Events without schemas. *)
LEMMA NoSchemasFacts ==
  ASSUME NEW s \in Seq(Event)
  PROVE  /\ NoSchemas(<<>>)
         /\ NoAnswer(s) => NoSchemas(s)
         /\ \A e \in Event : NoSchemas(s) /\ e.k # "schemas" => NoSchemas(Append(s, e))
         /\ s # <<>> /\ NoSchemas(s) => NoSchemas(Tail(s)) /\ Head(s).k # "schemas"
<1>1. NoSchemas(<<>>) /\ (NoAnswer(s) => NoSchemas(s))
  BY DEF NoSchemas, NoAnswer
<1>2. ASSUME NEW e \in Event, NoSchemas(s), e.k # "schemas" PROVE NoSchemas(Append(s, e))
  <2> DEFINE u == Append(s, e)
  <2>1. /\ Len(s) \in Nat /\ Len(u) = Len(s) + 1 /\ u[Len(s) + 1] = e
        /\ \A i \in 1..Len(s) : u[i] = s[i]
    OBVIOUS
  <2> HIDE DEF u
  <2>2. \A i \in 1..Len(u) : i = Len(s) + 1 \/ i \in 1..Len(s)
    BY <2>1
  <2>3. NoSchemas(u)
    BY <1>2, <2>1, <2>2 DEF NoSchemas
  <2> QED
    BY <2>3 DEF u
<1>3. ASSUME s # <<>>, NoSchemas(s) PROVE NoSchemas(Tail(s)) /\ Head(s).k # "schemas"
  <2> DEFINE u == Tail(s)
  <2>1. /\ Len(s) \in Nat \ {0} /\ Len(u) = Len(s) - 1 /\ Head(s) = s[1]
        /\ \A i \in 1..Len(u) : u[i] = s[i + 1]
    BY <1>3
  <2> HIDE DEF u
  <2>2. NoSchemas(u) /\ Head(s).k # "schemas"
    BY <1>3, <2>1 DEF NoSchemas
  <2> QED
    BY <2>2 DEF u
<1> QED
  BY <1>1, <1>2, <1>3

(* What arrives from a server, seen from one topic. *)
LEMMA ServedTopic ==
  ASSUME TypeOK, SessionNext, NEW t \in Topics
  PROVE  \/ inbox' = inbox /\ (t \in srvSubs' /\ ~srvNewer => t \in srvSubs)
         \/ \E e \in Event : /\ inbox' = Append(inbox, e)
                             /\ Carries(e, t) => t \in srvSubs
                             /\ t \in srvSubs' /\ t \notin srvSubs /\ ~srvNewer => SchemaOf(e, t)
<1>1. srvCatalog \in [Topics -> Types \cup {None}] /\ srvSubs \subseteq Topics
  BY DEF TypeOK, SessionTypeOK
<1>2. /\ \A k \in {"open", "closed", "error", "newer"} : [k |-> k] \in Event /\ [k |-> k].k = k
      /\ \A e, id : e.k \notin {"schemas", "data"} => ~Carries(e, t)
  BY OtherEvents
<1>3. CASE ConnOpen \/ ConnError \/ ConnClose
  <2>1. /\ \E k \in {"open", "closed", "error"} : inbox' = Append(inbox, [k |-> k])
        /\ t \in srvSubs' => t \in srvSubs
    BY <1>3 DEF ConnOpen, ConnError, ConnClose, NewSession, srvVars
  <2> QED
    BY <1>2, <2>1
<1>4. CASE CatalogChange
  <2>1. inbox' = inbox \/ \E e \in Event : inbox' = Append(inbox, e) /\ e.k \in {"newer", "changed"}
    BY <1>4, ChangeBrings
  <2>2. srvSubs' = srvSubs
    BY <1>4 DEF CatalogChange, srvVars
  <2> QED
    BY <1>2, <2>1, <2>2
<1>5. CASE emit_loop
  <2>1. PICK u \in srvSubs :
          inbox' = Append(inbox, [k |-> "data", topic |-> u, ty |-> srvCatalog[u]]) /\ srvCatalog[u] # None
    BY <1>5 DEF emit_loop
  <2> DEFINE e == [k |-> "data", topic |-> u, ty |-> srvCatalog[u]]
  <2>2. e \in Event /\ e.k = "data" /\ e.topic = u /\ inbox' = Append(inbox, e)
    BY <1>1, <2>1 DEF Event
  <2> HIDE DEF e
  <2>3. srvSubs' = srvSubs
    BY <1>5 DEF emit_loop, srvVars
  <2>4. Carries(e, t) => t \in srvSubs
    BY <2>1, <2>2 DEF Carries
  <2> QED
    BY <2>2, <2>3, <2>4
<1>6. CASE on_message /\ srvNewer
  <2>1. inbox' = Append(inbox, [k |-> "newer"])
    BY <1>6, Answers
  <2> QED
    BY <1>2, <1>6, <2>1
<1>7. CASE on_message /\ ~srvNewer /\ Head(toServer).c = "subscribe"
  <2>1. PICK e \in Event :
          /\ inbox' = Append(inbox, e) /\ e.k = "schemas"
          /\ t \in Head(toServer).topics \ srvSubs => e.schemas[t] = srvCatalog[t]
    BY <1>7, AnswerSays
  <2>2. t \in srvSubs' /\ t \notin srvSubs => t \in Head(toServer).topics \ srvSubs /\ srvCatalog[t] # None
    BY <1>7, Answers
  <2>3. ~Carries(e, t) /\ (t \in srvSubs' /\ t \notin srvSubs => SchemaOf(e, t))
    BY <2>1, <2>2 DEF Carries, SchemaOf
  <2> QED
    BY <1>7, <2>1, <2>3
<1>8. CASE on_message /\ ~srvNewer /\ Head(toServer).c # "subscribe"
  <2>1. inbox' = inbox \/ \E e \in Event : inbox' = Append(inbox, e) /\ e.k = "topics"
    BY <1>8, Answers
  <2>2. srvSubs' \subseteq srvSubs
    BY <1>8, Answers
  <2> QED
    BY <1>2, <1>8, <2>1, <2>2
<1> QED
  BY <1>3, <1>4, <1>5, <1>6, <1>7, <1>8 DEF SessionNext

(* A newer server brings no schemas. *)
LEMMA NewerSays ==
  ASSUME TypeOK, SessionNext, srvNewer
  PROVE  inbox' = inbox \/ \E e \in Event : inbox' = Append(inbox, e) /\ e.k # "schemas"
<1>1. \A k \in {"open", "closed", "error", "newer"} : [k |-> k] \in Event /\ [k |-> k].k = k
  BY OtherEvents
<1>2. CASE ConnOpen \/ ConnError \/ ConnClose
  <2>1. \E k \in {"open", "closed", "error"} : inbox' = Append(inbox, [k |-> k])
    BY <1>2 DEF ConnOpen, ConnError, ConnClose
  <2> QED
    BY <1>1, <2>1
<1>3. CASE CatalogChange
  <2>1. inbox' = inbox \/ \E e \in Event : inbox' = Append(inbox, e) /\ e.k \in {"newer", "changed"}
    BY <1>3, ChangeBrings
  <2> QED
    BY <2>1
<1>4. CASE emit_loop
  <2>1. PICK u \in srvSubs :
          inbox' = Append(inbox, [k |-> "data", topic |-> u, ty |-> srvCatalog[u]]) /\ srvCatalog[u] # None
    BY <1>4 DEF emit_loop
  <2>2. [k |-> "data", topic |-> u, ty |-> srvCatalog[u]] \in Event
    BY <2>1 DEF Event, TypeOK, SessionTypeOK
  <2> QED
    BY <2>1, <2>2
<1>5. CASE on_message
  <2>1. inbox' = Append(inbox, [k |-> "newer"])
    BY <1>5, Answers
  <2> QED
    BY <1>1, <2>1
<1> QED
  BY <1>2, <1>3, <1>4, <1>5 DEF SessionNext

(* Every step keeps a newer server's topics unbound. *)
LEMMA NewerStep ==
  ASSUME TypeOK, ControlInv, LinkInv, StartInv, NewerInv, [Next]_vars
  PROVE  NewerInv'
<1>1. inbox \in Seq(Event) /\ batch \in Seq(Event)
  BY DEF TypeOK, SessionTypeOK, PollTypeOK
<1> SUFFICES ASSUME Streaming', srvNewer'
             PROVE  /\ \A t \in Topics : bindings'[t] = None
                    /\ NoSchemas(batch') /\ NoSchemas(inbox')
  BY DEF NewerInv
<1>2. CASE FreshLink'
  BY <1>2 DEF FreshLink, NoAnswer, NoSchemas
<1>3. CASE /\ Streaming /\ srvNewer
           /\ Speaks \/ Serves \/ Drains \/ Passes \/ Responds \/ Learns \/ Reconciles
  <2>1. (\A t \in Topics : bindings[t] = None) /\ NoSchemas(batch) /\ NoSchemas(inbox)
    BY <1>3 DEF NewerInv
  <2>2. CASE Speaks
    BY <2>1, <2>2 DEF Speaks
  <2>3. CASE Serves
    <3>1. UNCHANGED <<batch, bindings>> /\ SessionNext
      BY <2>3 DEF Serves, controlVars
    <3>2. inbox' = inbox \/ \E e \in Event : inbox' = Append(inbox, e) /\ e.k # "schemas"
      BY <1>3, <3>1, NewerSays
    <3>3. NoSchemas(inbox')
      BY <1>1, <2>1, <3>2, NoSchemasFacts
    <3> QED
      BY <2>1, <3>1, <3>3
  <2>4. CASE Drains
    BY <1>1, <2>1, <2>4, NoSchemasFacts DEF Drains
  <2>5. CASE Passes \/ Responds \/ Learns
    <3>1. batch # <<>> /\ batch' = Tail(batch) /\ inbox' = inbox
      BY <2>5 DEF Passes, Responds, Learns, HandlesOne
    <3>2. NoSchemas(Tail(batch)) /\ Head(batch).k # "schemas"
      BY <1>1, <2>1, <3>1, NoSchemasFacts
    <3>3. ~Responds
      BY <3>2 DEF Responds
    <3>4. \A t \in Topics : bindings'[t] = None
      BY <2>1, <2>5, <3>3 DEF Passes, Learns, dropRetypedApplied, Erase
    <3> QED
      BY <2>1, <3>1, <3>2, <3>4
  <2>6. CASE Reconciles
    <3>1. UNCHANGED <<batch, inbox>> /\ \E des \in SUBSET Topics : reconcileSubscriptions(des)
      BY <2>6 DEF Reconciles
    <3>2. \A t \in Topics : bindings'[t] = None
      BY <2>1, <3>1 DEF reconcileSubscriptions, Erase
    <3> QED
      BY <2>1, <3>1, <3>2
  <2> QED
    BY <1>3, <2>2, <2>3, <2>4, <2>5, <2>6
<1> QED
  BY <1>2, <1>3, StreamSteps

(* Frames behind schemas. *)
LEMMA RenewFacts ==
  ASSUME NEW s \in Seq(Event), NEW t
  PROVE  /\ \A e \in Event : Renews(s, t) /\ (Carries(e, t) => Answered(s, t)) => Renews(Append(s, e), t)
         /\ s # <<>> /\ Renews(s, t) => ~Carries(Head(s), t)
         /\ s # <<>> /\ Renews(s, t) /\ ~SchemaOf(Head(s), t) => Renews(Tail(s), t)
         /\ NoFrame(s, t) => Renews(s, t)
         /\ Renews(<<>>, t)
<1>1. ASSUME NEW e \in Event, Renews(s, t), Carries(e, t) => Answered(s, t) PROVE Renews(Append(s, e), t)
  <2> DEFINE u == Append(s, e)
  <2>1. /\ Len(s) \in Nat /\ Len(u) = Len(s) + 1 /\ u[Len(s) + 1] = e
        /\ \A i \in 1..Len(s) : u[i] = s[i]
    OBVIOUS
  <2> HIDE DEF u
  <2>2. \A i \in 1..Len(s) : i \in 1..Len(u) /\ i < Len(s) + 1
    BY <2>1
  <2> SUFFICES ASSUME NEW i \in 1..Len(u), Carries(u[i], t)
               PROVE  \E l \in 1..Len(u) : l < i /\ SchemaOf(u[l], t)
    BY DEF Renews, u
  <2>3. CASE i \in 1..Len(s)
    <3>1. PICK l \in 1..Len(s) : l < i /\ SchemaOf(s[l], t)
      BY <1>1, <2>1, <2>3 DEF Renews
    <3> QED
      BY <2>1, <2>2, <3>1
  <2>4. CASE i = Len(s) + 1
    <3>1. PICK l \in 1..Len(s) : SchemaOf(s[l], t)
      BY <1>1, <2>1, <2>4 DEF Answered
    <3> QED
      BY <2>1, <2>2, <2>4, <3>1
  <2> QED
    BY <2>1, <2>3, <2>4
<1>2. ASSUME s # <<>>, Renews(s, t)
      PROVE  ~Carries(Head(s), t) /\ (~SchemaOf(Head(s), t) => Renews(Tail(s), t))
  <2> DEFINE u == Tail(s)
  <2>1. /\ Len(s) \in Nat \ {0} /\ Len(u) = Len(s) - 1 /\ Head(s) = s[1]
        /\ \A i \in 1..Len(u) : u[i] = s[i + 1]
    BY <1>2
  <2> HIDE DEF u
  <2>2. /\ \A i \in 1..Len(s) : i = 1 \/ (i - 1 \in 1..Len(u) /\ u[i - 1] = s[i])
        /\ \A i \in 1..Len(u) : i + 1 \in 1..Len(s)
        /\ 1 \in 1..Len(s) /\ \A i \in 1..Len(s) : ~(i < 1)
    BY <2>1
  <2>3. ~Carries(Head(s), t)
    BY <1>2, <2>1, <2>2 DEF Renews
  <2>4. ASSUME ~SchemaOf(Head(s), t), NEW i \in 1..Len(u), Carries(u[i], t)
        PROVE  \E l \in 1..Len(u) : l < i /\ SchemaOf(u[l], t)
    <3>1. i + 1 \in 1..Len(s) /\ Carries(s[i + 1], t)
      BY <2>1, <2>2, <2>4
    <3>2. PICK l \in 1..Len(s) : l < i + 1 /\ SchemaOf(s[l], t)
      BY <1>2, <3>1 DEF Renews
    <3>3. l # 1
      BY <2>1, <2>4, <3>2
    <3>4. l - 1 \in 1..Len(u) /\ l - 1 < i /\ SchemaOf(u[l - 1], t)
      BY <2>1, <2>2, <3>2, <3>3
    <3> QED
      BY <3>4
  <2> QED
    BY <2>3, <2>4 DEF Renews, u
<1>3. Renews(<<>>, t) /\ (NoFrame(s, t) => Renews(s, t))
  BY DEF Renews, NoFrame
<1> QED
  BY <1>1, <1>2, <1>3

(* Every step that brings no topic back with another type keeps ParserInv. *)
LEMMA ParserStep ==
  ASSUME TypeOK, ControlInv, LinkInv, SubscriptionInv, StartInv, KnownInv, ParserInv, [Next]_vars, [NoReadd]_vars
  PROVE  ParserInv'
<1> SUFFICES ASSUME Live', NEW t \in applied', t \notin unparsed', bindings'[t] # None
             PROVE  Fits(t)' \/ Outdated(t)'
  BY DEF ParserInv
<1>1. /\ inbox \in Seq(Event) /\ batch \in Seq(Event) /\ applied \subseteq Topics
      /\ bindings \in [Topics -> Binding \cup {None}] /\ advertised \in Catalog
  BY DEF TypeOK, SessionTypeOK, PollTypeOK, ControlTypeOK
<1>2. CASE FreshLink'
  BY <1>2 DEF FreshLink
<1>3. CASE /\ Live
           /\ Speaks \/ Serves \/ Drains \/ Passes \/ Responds \/ Learns \/ Reconciles
  <2>1. CASE Speaks
    <3>1. UNCHANGED <<inbox, batch, srvSubs, advertised, applied, bindings, unparsed>>
      BY <2>1 DEF Speaks
    <3>2. Fits(t) \/ Outdated(t)
      BY <1>3, <3>1 DEF ParserInv
    <3> QED
      BY <3>1, <3>2 DEF Fits, Outdated
  <2>2. CASE Serves
    <3>1. UNCHANGED <<batch, advertised, applied, bindings, unparsed>> /\ SessionNext
      BY <2>2 DEF Serves, controlVars
    <3>2. Fits(t) \/ Outdated(t)
      BY <1>3, <3>1 DEF ParserInv
    <3>3. Fits(t) => Fits(t)'
      BY <3>1 DEF Fits
    <3>4. ASSUME Outdated(t) PROVE Outdated(t)'
      <4>1. t \in Topics /\ ~srvNewer
        BY <1>1, <1>3, <3>1 DEF Live
      <4>2. CASE inbox' = inbox /\ (t \in srvSubs' => t \in srvSubs)
        BY <3>1, <3>4, <4>2 DEF Outdated
      <4>3. CASE \E e \in Event : /\ inbox' = Append(inbox, e)
                                  /\ Carries(e, t) => t \in srvSubs
                                  /\ t \in srvSubs' /\ t \notin srvSubs => SchemaOf(e, t)
        <5>1. PICK e \in Event : /\ inbox' = Append(inbox, e)
                                 /\ Carries(e, t) => t \in srvSubs
                                 /\ t \in srvSubs' /\ t \notin srvSubs => SchemaOf(e, t)
          BY <4>3
        <5>2. Answered(inbox, t) \/ SchemaOf(e, t) => Answered(inbox', t)
          BY <1>1, <5>1, SchemaStays
        <5>3. Answered(batch, t) \/ Renews(inbox', t)
          BY <1>1, <3>4, <5>1, RenewFacts DEF Outdated
        <5> QED
          BY <3>1, <3>4, <5>1, <5>2, <5>3 DEF Outdated
      <4> QED
        BY <3>1, <4>1, <4>2, <4>3, ServedTopic
    <3> QED
      BY <3>2, <3>3, <3>4
  <2>3. CASE Drains
    <3>1. /\ batch = <<>> /\ batch' = inbox /\ inbox' = <<>>
          /\ UNCHANGED <<srvSubs, advertised, applied, bindings, unparsed>>
      BY <2>3 DEF Drains
    <3>2. Fits(t) \/ Outdated(t)
      BY <1>3, <3>1 DEF ParserInv
    <3>3. ~Answered(<<>>, t) /\ Renews(<<>>, t)
      BY <1>1, SchemaStays, RenewFacts
    <3> QED
      BY <3>1, <3>2, <3>3 DEF Fits, Outdated
  <2>4. CASE Responds /\ SchemaOf(Head(batch), t)
    <3>1. applied' = applied \ Rejected(Head(batch)) /\ UNCHANGED advertised /\ batch # <<>>
      BY <2>4 DEF Responds, HandlesOne
    <3>2. t \in applied /\ t \in Topics
      BY <1>1, <3>1
    <3>3. bindings'[t] = [schema |-> Head(batch).schemas[t], name |-> resolveSchemaName(t)]
      BY <2>4, <3>2 DEF Responds, SchemaOf
    <3>4. Agrees(Head(batch), t, advertised[t])
      BY <1>3, <3>1, <3>2, HeadAgrees
    <3>5. advertised[t] # None /\ advertised[t].ty = Head(batch).schemas[t]
      BY <2>4, <3>4 DEF Agrees, SchemaOf
    <3>6. resolveSchemaName(t) = advertised[t].ty
      BY <3>5 DEF resolveSchemaName
    <3> QED
      BY <3>1, <3>3, <3>5, <3>6 DEF Fits
  <2>5. CASE Passes \/ Learns \/ (Responds /\ ~SchemaOf(Head(batch), t))
    <3>1. batch # <<>> /\ batch' = Tail(batch) /\ UNCHANGED <<inbox, srvSubs>>
      BY <2>5 DEF Passes, Responds, Learns, HandlesOne
    <3>2. ~SchemaOf(Head(batch), t)
      BY <2>5 DEF Passes, Learns, SchemaOf
    <3>3. t \in applied /\ t \in Topics
      BY <1>1, <2>5 DEF Passes, Learns, Responds, dropRetypedApplied
    <3>4. bindings'[t] = bindings[t] /\ t \notin unparsed
      <4>1. CASE Passes
        BY <4>1 DEF Passes
      <4>2. CASE Learns
        <5>1. CASE UNCHANGED <<bindings, unparsed>>
          BY <5>1
        <5>2. CASE dropRetypedApplied(retypedTopics(advertised, advertised', applied))
          <6> DEFINE dropped == retypedTopics(advertised, advertised', applied)
          <6>1. /\ applied' = applied \ dropped /\ bindings' = Erase(bindings, dropped, None)
                /\ unparsed' = unparsed \ dropped
            BY <5>2 DEF dropRetypedApplied
          <6> HIDE DEF dropped
          <6> QED
            BY <3>3, <6>1 DEF Erase
        <5> QED
          BY <4>2, <5>1, <5>2 DEF Learns
      <4>3. CASE Responds
        BY <3>2, <3>3, <4>3 DEF Responds, SchemaOf
      <4> QED
        BY <2>5, <4>1, <4>2, <4>3
    <3>5. Fits(t) \/ Outdated(t)
      BY <1>3, <3>3, <3>4 DEF ParserInv
    <3>6. CASE Outdated(t)
      <4>1. Answered(batch, t) => Answered(batch', t)
        BY <1>1, <3>1, <3>2, SchemaStays
      <4>2. Renews(batch', t)
        BY <1>1, <3>1, <3>2, <3>6, RenewFacts DEF Outdated
      <4> QED
        BY <3>1, <3>6, <4>1, <4>2 DEF Outdated
    <3>7. CASE Fits(t)
      <4>1. CASE Passes \/ Responds
        BY <3>4, <3>7, <4>1 DEF Fits, Passes, Responds
      <4>2. CASE Learns
        <5>1. running' /\ batch' # batch
          BY <1>1, <3>1, HandlingShortens DEF Live, Streaming
        <5>2. advertised[t] = None /\ advertised'[t] # None => bindings[t].name = advertised'[t].ty
          BY <3>3, <3>4, <5>1 DEF NoReadd, vars
        <5>3. advertised[t] # None /\ advertised'[t] # None => advertised'[t] = advertised[t]
          BY <3>3, <4>2 DEF Learns, dropRetypedApplied, retypedTopics
        <5> QED
          BY <3>4, <3>7, <5>2, <5>3 DEF Fits
      <4> QED
        BY <2>5, <4>1, <4>2
    <3> QED
      BY <3>5, <3>6, <3>7
  <2>6. CASE Reconciles
    <3>1. UNCHANGED <<inbox, batch, srvSubs, advertised>>
      BY <2>6 DEF Reconciles
    <3>2. PICK des \in SUBSET Topics : reconcileSubscriptions(des)
      BY <2>6 DEF Reconciles
    <3>3. t \in Topics
      BY <3>2, ReconcileType
    <3>4. CASE t \in applied
      <4>1. bindings'[t] = bindings[t] /\ t \notin unparsed
        BY <3>2, <3>4, ReconcileKeeps
      <4>2. Fits(t) \/ Outdated(t)
        BY <1>3, <3>4, <4>1 DEF ParserInv
      <4> QED
        BY <3>1, <4>1, <4>2 DEF Fits, Outdated
    <3>5. CASE t \notin applied
      <4>1. bindings[t] # None
        BY <3>2, <3>3 DEF reconcileSubscriptions, Erase
      <4>2. SilentTopic(t)
        BY <1>3, <3>3, <3>5, <4>1 DEF SubscriptionInv, TopicInv, Live, Streaming
      <4>3. t \notin srvSubs /\ Renews(batch, t) /\ Renews(inbox, t)
        BY <1>1, <4>2, RenewFacts DEF SilentTopic, Dead
      <4> QED
        BY <3>1, <4>3 DEF Outdated
    <3> QED
      BY <3>4, <3>5
  <2> QED
    BY <1>3, <2>1, <2>2, <2>3, <2>4, <2>5, <2>6
<1> QED
  BY <1>2, <1>3, StreamSteps DEF Live

(* Every frame is decoded with the schema and the type name it was sent under, as
   long as no subscribed topic comes back with another type in the poll it left. *)
THEOREM ParsedAsSentHolds == Spec /\ [][NoReadd]_vars => []ParsedAsSent
<1>1. Init => NewerInv /\ ParserInv
  BY DEF Init, NewerInv, ParserInv, Live, Streaming
<1>2. TypeOK /\ ControlInv /\ LinkInv /\ SubscriptionInv /\ DemandInv /\ NewerInv /\ ParserInv /\ [Next]_vars
        /\ [NoReadd]_vars => NewerInv' /\ ParserInv'
  BY NewerStep, ParserStep DEF DemandInv
<1>3. TypeOK /\ ControlInv /\ DemandInv /\ NewerInv /\ ParserInv /\ IngestOnlyActive => ParsedAsSent
  <2> SUFFICES ASSUME TypeOK, ControlInv, DemandInv, NewerInv, ParserInv, IngestOnlyActive, demand,
                      NEW t \in Topics, t \notin unparsed, Ingests(t)
               PROVE  bindings[t] = [schema |-> Head(batch).ty, name |-> Head(batch).ty]
    BY DEF ParsedAsSent
  <2>1. /\ pc = "pump" /\ batch # <<>> /\ batch \in Seq(Event) /\ Carries(Head(batch), t)
        /\ bindings[t] # None /\ t \in applied
    BY DEF Ingests, IngestOnlyActive, Carries, TypeOK, PollTypeOK
  <2>2. Streaming
    BY <2>1 DEF ControlInv, DemandInv, StartInv, FreshLink, Streaming
  <2>3. Live
    BY <2>1, <2>2 DEF NewerInv, Live
  <2>4. Agrees(Head(batch), t, advertised[t])
    BY <2>1, <2>3, HeadAgrees DEF DemandInv
  <2>5. advertised[t] # None /\ advertised[t].ty = Head(batch).ty
    BY <2>1, <2>4 DEF Agrees, Carries
  <2>6. ~Outdated(t)
    BY <2>1, RenewFacts DEF Outdated
  <2>7. Fits(t)
    BY <2>1, <2>3, <2>6 DEF ParserInv
  <2>8. bindings[t].schema = Head(batch).ty /\ bindings[t].name = Head(batch).ty
    BY <2>5, <2>7 DEF Fits
  <2>9. bindings[t] \in Binding
    BY <2>1 DEF TypeOK, ControlTypeOK
  <2> QED
    BY <2>8, <2>9 DEF Binding
<1> QED
  BY <1>1, <1>2, <1>3, TypeCorrect, ControlInvariant, CatalogInvariant, SubscriptionInvariant, DemandInvariant,
     IngestOnlyActiveHolds, PTL DEF Spec

(***************************************************************************)
(* A server for which the conditions above hold: its topics are never      *)
(* removed.                                                                *)
(***************************************************************************)
(* All that s says of the entry of t is in A. *)
SaysOnly(s, t, A) == \A i \in 1..Len(s) : Mentions(s[i], t) => Value(s[i], t) \in A

(* A topic s has announced is not taken back by s. *)
Rising(s, t) ==
  \A i, j \in 1..Len(s) :
    i < j /\ Mentions(s[i], t) /\ Value(s[i], t) # None /\ Mentions(s[j], t) => Value(s[j], t) # None

(* An event arrives. *)
LEMMA SayingOnArrival ==
  ASSUME NEW s \in Seq(Event), NEW e \in Event, NEW t
  PROVE  /\ \A A : SaysOnly(s, t, A) /\ (Mentions(e, t) => Value(e, t) \in A) => SaysOnly(Append(s, e), t, A)
         /\ Rising(s, t) /\ (Mentions(e, t) /\ Value(e, t) = None => SaysOnly(s, t, {None})) =>
              Rising(Append(s, e), t)
<1> DEFINE u == Append(s, e)
<1>1. /\ Len(s) \in Nat /\ Len(u) = Len(s) + 1 /\ u[Len(s) + 1] = e
      /\ \A i \in 1..Len(s) : u[i] = s[i]
  OBVIOUS
<1> HIDE DEF u
<1>2. \A i \in 1..Len(u) : i = Len(s) + 1 \/ i \in 1..Len(s)
  BY <1>1
<1>3. ASSUME NEW A, SaysOnly(s, t, A), Mentions(e, t) => Value(e, t) \in A
      PROVE  SaysOnly(u, t, A)
  BY <1>1, <1>2, <1>3 DEF SaysOnly
<1>4. ASSUME Rising(s, t), Mentions(e, t) /\ Value(e, t) = None => SaysOnly(s, t, {None})
      PROVE  Rising(u, t)
  <2> SUFFICES ASSUME NEW i \in 1..Len(u), NEW j \in 1..Len(u), i < j,
                      Mentions(u[i], t), Value(u[i], t) # None, Mentions(u[j], t)
               PROVE  Value(u[j], t) # None
    BY DEF Rising
  <2>1. i \in 1..Len(s) /\ u[i] = s[i]
    BY <1>1
  <2>2. CASE j \in 1..Len(s)
    BY <1>1, <1>4, <2>1, <2>2 DEF Rising
  <2>3. CASE j = Len(s) + 1
    BY <1>1, <1>4, <2>1, <2>3 DEF SaysOnly
  <2> QED
    BY <1>2, <2>2, <2>3
<1> QED
  BY <1>3, <1>4 DEF u

(* The first event is taken. *)
LEMMA SayingOnHandling ==
  ASSUME NEW s \in Seq(Event), s # <<>>, NEW t
  PROVE  /\ \A A : SaysOnly(s, t, A) =>
                     SaysOnly(Tail(s), t, A) /\ (Mentions(Head(s), t) => Value(Head(s), t) \in A)
         /\ Rising(s, t) =>
              /\ Rising(Tail(s), t)
              /\ Mentions(Head(s), t) /\ Value(Head(s), t) # None =>
                   \A i \in 1..Len(Tail(s)) : Mentions(Tail(s)[i], t) => Value(Tail(s)[i], t) # None
<1> DEFINE u == Tail(s)
<1>1. /\ Len(s) \in Nat \ {0} /\ Len(u) = Len(s) - 1 /\ Head(s) = s[1]
      /\ \A i \in 1..Len(u) : u[i] = s[i + 1]
  OBVIOUS
<1> HIDE DEF u
<1>2. 1 \in 1..Len(s) /\ \A i \in 1..Len(u) : i + 1 \in 1..Len(s) /\ 1 < i + 1
  BY <1>1
<1>3. ASSUME NEW A, SaysOnly(s, t, A)
      PROVE  SaysOnly(u, t, A) /\ (Mentions(Head(s), t) => Value(Head(s), t) \in A)
  BY <1>1, <1>2, <1>3 DEF SaysOnly
<1>4. ASSUME Rising(s, t)
      PROVE  /\ Rising(u, t)
             /\ Mentions(Head(s), t) /\ Value(Head(s), t) # None =>
                  \A i \in 1..Len(u) : Mentions(u[i], t) => Value(u[i], t) # None
  <2>1. ASSUME NEW i \in 1..Len(u), NEW j \in 1..Len(u), i < j,
               Mentions(u[i], t), Value(u[i], t) # None, Mentions(u[j], t)
        PROVE  Value(u[j], t) # None
    <3>1. i + 1 < j + 1 /\ u[i] = s[i + 1] /\ u[j] = s[j + 1]
      BY <1>1, <2>1
    <3> QED
      BY <1>2, <1>4, <2>1, <3>1 DEF Rising
  <2>2. ASSUME Mentions(Head(s), t), Value(Head(s), t) # None, NEW i \in 1..Len(u), Mentions(u[i], t)
        PROVE  Value(u[i], t) # None
    BY <1>1, <1>2, <1>4, <2>2 DEF Rising
  <2> QED
    BY <2>1, <2>2 DEF Rising
<1> QED
  BY <1>3, <1>4 DEF u

(* The empty channel says nothing. *)
LEMMA NothingSaid ==
  ASSUME NEW t
  PROVE  Rising(<<>>, t) /\ \A A : SaysOnly(<<>>, t, A)
BY DEF Rising, SaysOnly

(* What the server says of a topic is what its catalog has then. *)
LEMMA ServerSays ==
  ASSUME TypeOK, SessionNext
  PROVE  /\ "remove" \notin ChangeKinds => \A t \in Topics : srvCatalog[t] # None => srvCatalog'[t] # None
         /\ \/ inbox' = inbox
            \/ \E e \in Event :
                 /\ inbox' = Append(inbox, e)
                 /\ \A t \in Topics : Mentions(e, t) =>
                      /\ Value(e, t) = None <=> srvCatalog'[t] = None
                      /\ Value(e, t) # None => Value(e, t) \in TopicInfo /\ (Value(e, t).full => ServerSchemas)
<1>1. /\ \A k \in {"open", "closed", "error", "newer"} : [k |-> k] \in Event
      /\ \A k \in {"open", "closed", "error", "newer"}, t \in Topics : ~Mentions([k |-> k], t)
  BY DEF Event, Mentions
<1>2. /\ srvCatalog \in [Topics -> Types \cup {None}] /\ toServer \in Seq(Command)
      /\ None \notin TopicInfo /\ ServerSchemas \in BOOLEAN
  BY SourceAssumption, SessionAssumption DEF TypeOK, SessionTypeOK
<1>3. CASE ConnOpen \/ ConnError \/ ConnClose
  <2>1. UNCHANGED srvCatalog /\ \E k \in {"open", "closed", "error", "newer"} : inbox' = Append(inbox, [k |-> k])
    BY <1>3 DEF ConnOpen, ConnError, ConnClose
  <2> QED
    BY <1>1, <2>1
<1>4. CASE on_message
  <2>1. UNCHANGED srvCatalog
    BY <1>4 DEF on_message
  <2>2. CASE srvNewer
    BY <1>1, <1>4, <2>1, <2>2, Answers
  <2>3. CASE ~srvNewer /\ Head(toServer).c = "get_topics"
    <3>1. PICK e \in Event : /\ inbox' = Append(inbox, e) /\ e.k = "topics"
                             /\ \A t \in Topics : e.topics[t] = InfoOf(t, Head(toServer).full)
      BY <1>4, <2>3, Answers
    <3>2. Head(toServer).full \in BOOLEAN
      BY <1>2, <1>4, <2>3 DEF on_message, Command
    <3>3. \A t \in Topics : /\ Value(e, t) = None <=> srvCatalog'[t] = None
                            /\ Value(e, t) # None => Value(e, t) \in TopicInfo /\ (Value(e, t).full => ServerSchemas)
      <4> SUFFICES ASSUME NEW t \in Topics
                   PROVE  /\ Value(e, t) = None <=> srvCatalog'[t] = None
                          /\ Value(e, t) # None => Value(e, t) \in TopicInfo /\ (Value(e, t).full => ServerSchemas)
        OBVIOUS
      <4>1. Value(e, t) = InfoOf(t, Head(toServer).full)
        BY <3>1 DEF Value
      <4>2. CASE srvCatalog[t] = None
        BY <2>1, <4>1, <4>2 DEF InfoOf
      <4>3. CASE srvCatalog[t] # None
        <5> DEFINE f == Head(toServer).full /\ ServerSchemas
        <5>1. Value(e, t) = [ty |-> srvCatalog[t], full |-> f]
          BY <4>1, <4>3 DEF InfoOf
        <5>2. f \in BOOLEAN /\ (f => ServerSchemas)
          BY <1>2, <3>2
        <5> HIDE DEF f
        <5>3. Value(e, t) \in TopicInfo /\ (Value(e, t).full => ServerSchemas)
          BY <1>2, <4>3, <5>1, <5>2 DEF TopicInfo
        <5> QED
          BY <1>2, <2>1, <4>3, <5>3
      <4> QED
        BY <4>2, <4>3
    <3> QED
      BY <2>1, <3>1, <3>3
  <2>4. CASE ~srvNewer /\ Head(toServer).c = "subscribe"
    <3>1. PICK e \in Event : inbox' = Append(inbox, e) /\ e.k = "schemas"
      BY <1>4, <2>4, Answers
    <3> QED
      BY <2>1, <3>1 DEF Mentions
  <2>5. CASE ~srvNewer /\ Head(toServer).c \notin {"get_topics", "subscribe"}
    BY <1>4, <2>1, <2>5, Answers
  <2> QED
    BY <2>2, <2>3, <2>4, <2>5
<1>5. CASE CatalogChange
  <2>1. PICK t \in Topics, ty \in Types \cup {None} :
          /\ ty # srvCatalog[t] /\ ChangeKind(srvCatalog[t], ty) \in ChangeKinds
          /\ srvCatalog' = [srvCatalog EXCEPT ![t] = ty]
          /\ LET note == [k |-> "changed",
                          added |-> [u \in Topics |->
                                       IF u = t /\ ty # None
                                       THEN [ty |-> ty, full |-> ServerSchemas] ELSE None],
                          removed |-> IF ty = None THEN {t} ELSE {}]
             IN  IF conn = "open" /\ srvUpdates THEN Reply(note) ELSE UNCHANGED inbox
    BY <1>5 DEF CatalogChange
  <2>2. srvCatalog'[t] = ty /\ \A u \in Topics : u # t => srvCatalog'[u] = srvCatalog[u]
    BY <1>2, <2>1
  <2>3. "remove" \notin ChangeKinds => \A u \in Topics : srvCatalog[u] # None => srvCatalog'[u] # None
    BY <2>1, <2>2 DEF ChangeKind
  <2> DEFINE note == [k |-> "changed",
                      added |-> [u \in Topics |->
                                   IF u = t /\ ty # None
                                   THEN [ty |-> ty, full |-> ServerSchemas] ELSE None],
                      removed |-> IF ty = None THEN {t} ELSE {}]
  <2>4. note.added \in Catalog
    BY <1>2 DEF Catalog, TopicInfo
  <2>5. note \in Event
    BY <2>4 DEF Event
  <2>6. \A u \in Topics : Mentions(note, u) =>
          /\ Value(note, u) = None <=> srvCatalog'[u] = None
          /\ Value(note, u) # None => Value(note, u) \in TopicInfo /\ (Value(note, u).full => ServerSchemas)
    <3> SUFFICES ASSUME NEW u \in Topics, Mentions(note, u)
                 PROVE  /\ Value(note, u) = None <=> srvCatalog'[u] = None
                        /\ Value(note, u) # None => Value(note, u) \in TopicInfo /\ (Value(note, u).full => ServerSchemas)
      OBVIOUS
    <3>1. u = t
      BY DEF Mentions
    <3>2. CASE ty = None
      BY <2>2, <3>1, <3>2 DEF Value
    <3>3. CASE ty # None
      <4>1. Value(note, u) = [ty |-> ty, full |-> ServerSchemas]
        BY <3>1, <3>3 DEF Value
      <4>2. Value(note, u) \in TopicInfo
        BY <1>2, <3>3, <4>1 DEF TopicInfo
      <4>3. Value(note, u).full => ServerSchemas
        BY <4>1
      <4> QED
        BY <1>2, <2>2, <3>1, <3>3, <4>2, <4>3
    <3> QED
      BY <3>2, <3>3
  <2>7. Reply(note) \/ inbox' = inbox
    BY <2>1
  <2> HIDE DEF note
  <2> QED
    BY <1>1, <2>3, <2>5, <2>6, <2>7 DEF Reply
<1>6. CASE emit_loop
  <2>1. UNCHANGED srvCatalog /\ \E u \in srvSubs : /\ srvCatalog[u] # None
                                                   /\ inbox' = Append(inbox, [k |-> "data", topic |-> u, ty |-> srvCatalog[u]])
    BY <1>6 DEF emit_loop
  <2>2. PICK u \in srvSubs : /\ srvCatalog[u] # None
                             /\ inbox' = Append(inbox, [k |-> "data", topic |-> u, ty |-> srvCatalog[u]])
    BY <2>1
  <2> DEFINE e == [k |-> "data", topic |-> u, ty |-> srvCatalog[u]]
  <2>3. e \in Event
    BY <1>2, <2>2 DEF Event, TypeOK, SessionTypeOK
  <2>4. \A t \in Topics : ~Mentions(e, t)
    BY DEF Mentions
  <2> QED
    BY <2>1, <2>2, <2>3, <2>4
<1> QED
  BY <1>3, <1>4, <1>5, <1>6 DEF SessionNext

(* What a step may do to the catalogs of the server, the dialog and the source and to
   what is said of them under way. *)
SaysMore == SessionNext /\ UNCHANGED <<advertised, dlgTopics, batch, applied>>

HearsOne ==
  /\ batch # <<>> /\ batch' = Tail(batch) /\ applied' \subseteq applied
  /\ UNCHANGED <<inbox, dlgTopics, srvCatalog>>
  /\ \A t \in Topics : /\ Mentions(Head(batch), t) => advertised'[t] = Value(Head(batch), t)
                       /\ ~Mentions(Head(batch), t) => advertised'[t] = advertised[t]

DialogHears ==
  /\ inbox # <<>> /\ inbox' = Tail(inbox)
  /\ UNCHANGED <<batch, advertised, srvCatalog, applied>>
  /\ \/ dlgTopics' = dlgTopics
     \/ \A t \in Topics : Mentions(Head(inbox), t) /\ dlgTopics'[t] = Value(Head(inbox), t)

HearsNothing ==
  /\ inbox' \in {inbox, <<>>} /\ UNCHANGED <<batch, srvCatalog>>
  /\ dlgTopics' \in {dlgTopics, NoCatalog}
  /\ \/ UNCHANGED advertised /\ \A t \in applied' : t \in applied \/ advertised[t] # None
     \/ applied' = {} /\ advertised' = NoCatalog /\ ~running'
     \/ applied' = {} /\ batch = <<>> /\ advertised' = dlgTopics /\ ~running

(* Every step does one of these. *)
LEMMA CatalogMoves ==
  ASSUME TypeOK, ControlInv, LinkInv, [Next]_vars
  PROVE  \/ SaysMore \/ HearsOne \/ DialogHears \/ HearsNothing
         \/ Drains /\ UNCHANGED dlgTopics
<1>1. CASE Environment
  BY <1>1 DEF Environment, SaysMore, dialogVars, controlVars
<1>2. CASE DialogConnect \/ DialogRefresh
  <2>1. /\ inbox' \in {inbox, <<>>}
        /\ UNCHANGED <<batch, srvCatalog, dlgTopics, advertised, applied>>
    BY <1>2 DEF DialogConnect, DialogRefresh, SocketStart, dialogVars, controlVars
  <2> QED
    BY <2>1 DEF HearsNothing
<1>3. CASE DialogTick
  <2>1. inbox # <<>> /\ UNCHANGED <<batch, srvCatalog, advertised, applied>>
    BY <1>3 DEF DialogTick, SocketStop, controlVars
  <2>2. CASE inbox' = <<>> /\ dlgTopics' = NoCatalog
    BY <2>1, <2>2 DEF HearsNothing
  <2>3. CASE inbox' = Tail(inbox) /\ dlgTopics' = dlgTopics
    BY <2>1, <2>3 DEF DialogHears
  <2>4. CASE inbox' = Tail(inbox) /\ Head(inbox).k = "topics" /\ dlgTopics' = Head(inbox).topics
    BY <2>1, <2>4 DEF DialogHears, Mentions, Value
  <2> QED
    BY <1>3, <2>2, <2>3, <2>4 DEF DialogTick, SocketStop, dialogVars
<1>4. CASE onStart
  <2>1. /\ applied' = {} /\ advertised = NoCatalog /\ batch = <<>> /\ ~running
        /\ UNCHANGED <<batch, dlgTopics, applied>>
    BY <1>4 DEF onStart, ControlInv, LinkInv
  <2>2. /\ inbox' \in {inbox, <<>>} /\ UNCHANGED srvCatalog
        /\ advertised' \in {advertised, NoCatalog, dlgTopics}
    BY <1>4 DEF onStart, SocketStart
  <2> QED
    BY <2>1, <2>2 DEF HearsNothing
<1>5. CASE onStop
  <2>1. /\ inbox' = <<>> /\ applied' = {} /\ advertised' = NoCatalog /\ ~running'
        /\ UNCHANGED <<batch, srvCatalog, dlgTopics>>
    BY <1>5 DEF onStop, SocketStop, dialogVars
  <2> QED
    BY <2>1 DEF HearsNothing
<1>6. CASE setActiveTopics \/ DeadlinePasses \/ SendRememberedPause \/ UNCHANGED vars
           \/ \E op \in {"pause", "resume"} : PauseResume(op)
  <2>1. UNCHANGED <<inbox, batch, srvCatalog, dlgTopics, advertised, applied>>
    BY <1>6 DEF setActiveTopics, DeadlinePasses, SendRememberedPause, PauseResume, vars, sessionVars,
       dialogVars, controlVars
  <2> QED
    BY <2>1 DEF HearsNothing
<1>7. CASE PollBegin
  BY <1>7 DEF PollBegin, Drains, LinkInv, srvVars, controlVars, linkVars, hostVars, dialogVars
<1>8. CASE PollTail \/ applyDesiredTopics
  <2>1. UNCHANGED <<inbox, batch, srvCatalog, dlgTopics, advertised>>
    BY <1>8 DEF PollTail, PollReturns, applyDesiredTopics, sessionVars, dialogVars, controlVars
  <2>2. UNCHANGED applied \/ \E des \in SUBSET Topics : reconcileSubscriptions(des)
    BY <1>8 DEF PollTail, PollReturns, applyDesiredTopics, Readvertise, controlVars, TypeOK, ControlTypeOK,
       HostTypeOK
  <2>3. \A t \in applied' : t \in applied \/ advertised[t] # None
    BY <2>2, ReconcileHitsTarget DEF filteredAdvertisedTopics
  <2> QED
    BY <2>1, <2>3 DEF HearsNothing
<1>9. CASE HandleOpen \/ HandleFailure \/ onBinaryFrame \/ handleSubscribeResponse
  <2>1. /\ batch # <<>> /\ batch' = Tail(batch) /\ applied' \subseteq applied
        /\ Head(batch).k \notin {"topics", "changed"}
        /\ UNCHANGED <<inbox, dlgTopics, srvCatalog, advertised>>
    BY <1>9 DEF HandleOpen, HandleFailure, onBinaryFrame, handleSubscribeResponse, Handles, sessionVars,
       dialogVars, controlVars
  <2> QED
    BY <2>1 DEF HearsOne, Mentions
<1>10. CASE handleTopicsChanged \/ handleGetTopicsResponse
  <2>1. Passes \/ Learns \/ Responds
    BY <1>10, HandlerKinds
  <2>2. Learns
    BY <1>10, <2>1 DEF handleTopicsChanged, handleGetTopicsResponse, Handles, Passes, Responds
  <2>3. applied' \subseteq applied
    BY <2>2 DEF Learns, dropRetypedApplied
  <2>4. UNCHANGED dlgTopics
    BY <1>10 DEF handleTopicsChanged, handleGetTopicsResponse, dialogVars
  <2> QED
    BY <2>2, <2>3, <2>4 DEF Learns, HandlesOne, HearsOne
<1> QED
  BY <1>1, <1>2, <1>3, <1>4, <1>5, <1>6, <1>7, <1>8, <1>9, <1>10 DEF Next, Host, onPoll, HandleEvent

(* A server whose topics are never removed. *)
OnlyGrows == "remove" \notin ChangeKinds

(* What is known of a topic of such a server: before the server has it nobody says so,
   and nothing under way takes back what is said of it before. *)
GrowTopic(t) ==
  /\ srvCatalog[t] = None => /\ advertised[t] = None /\ dlgTopics[t] = None
                             /\ SaysOnly(batch, t, {None}) /\ SaysOnly(inbox, t, {None})
  /\ Rising(batch, t) /\ Rising(inbox, t)
  /\ advertised[t] # None => SaysOnly(batch, t, TopicInfo) /\ SaysOnly(inbox, t, TopicInfo)
  /\ dlgTopics[t] # None => SaysOnly(inbox, t, TopicInfo)
  /\ SaysOnly(batch, t, {None}) \/ SaysOnly(inbox, t, TopicInfo)
  /\ t \in applied => advertised[t] # None

GrowInv == \A t \in Topics : GrowTopic(t)

(* An event gives a topic an entry or none. *)
LEMMA ValueType ==
  ASSUME NEW e \in Event, NEW t \in Topics, Mentions(e, t)
  PROVE  Value(e, t) \in TopicInfo \cup {None}
BY DEF Event, Catalog, Mentions, Value

(* A topic announced by the first event is not taken back by the rest. *)
LEMMA AnnouncedStays ==
  ASSUME NEW s \in Seq(Event), s # <<>>, NEW t \in Topics, Rising(s, t),
         Mentions(Head(s), t), Value(Head(s), t) # None
  PROVE  SaysOnly(Tail(s), t, TopicInfo) /\ ~SaysOnly(s, t, {None})
<1>1. \A i \in 1..Len(Tail(s)) : Mentions(Tail(s)[i], t) => Value(Tail(s)[i], t) # None
  BY SayingOnHandling
<1>2. \A i \in 1..Len(Tail(s)) : Tail(s)[i] \in Event
  OBVIOUS
<1>3. SaysOnly(Tail(s), t, TopicInfo)
  BY <1>1, <1>2, ValueType DEF SaysOnly
<1>4. SaysOnly(s, t, {None}) => Value(Head(s), t) \in {None}
  BY SayingOnHandling
<1> QED
  BY <1>3, <1>4

(* Every step keeps what is known of a topic. *)
LEMMA GrowStep ==
  ASSUME OnlyGrows, TypeOK, ControlInv, LinkInv, GrowInv, [Next]_vars, NEW t \in Topics
  PROVE  GrowTopic(t)'
<1>1. batch \in Seq(Event) /\ inbox \in Seq(Event) /\ None \notin TopicInfo /\ GrowTopic(t)
  BY SourceAssumption DEF GrowInv, TypeOK, SessionTypeOK, PollTypeOK
<1>2. CASE SaysMore
  <2>1. UNCHANGED <<advertised, dlgTopics, batch, applied>> /\ SessionNext
    BY <1>2 DEF SaysMore
  <2>2. srvCatalog'[t] = None => srvCatalog[t] = None
    BY <2>1, ServerSays DEF OnlyGrows
  <2>3. CASE inbox' = inbox
    BY <1>1, <2>1, <2>2, <2>3 DEF GrowTopic
  <2>4. CASE inbox' # inbox
    <3>1. PICK e \in Event : /\ inbox' = Append(inbox, e)
                             /\ Mentions(e, t) =>
                                  /\ Value(e, t) = None <=> srvCatalog'[t] = None
                                  /\ Value(e, t) # None => Value(e, t) \in TopicInfo
      BY <2>1, <2>4, ServerSays
    <3>2. Rising(inbox', t)
      BY <1>1, <2>2, <3>1, SayingOnArrival DEF GrowTopic
    <3>3. srvCatalog'[t] = None => SaysOnly(inbox', t, {None})
      BY <1>1, <2>2, <3>1, SayingOnArrival DEF GrowTopic
    <3>4. srvCatalog[t] # None /\ SaysOnly(inbox, t, TopicInfo) => SaysOnly(inbox', t, TopicInfo)
      BY <1>1, <2>2, <3>1, SayingOnArrival
    <3> QED
      BY <1>1, <2>1, <2>2, <3>2, <3>3, <3>4 DEF GrowTopic
  <2> QED
    BY <2>3, <2>4
<1>3. CASE HearsOne
  <2>1. /\ batch # <<>> /\ batch' = Tail(batch) /\ applied' \subseteq applied
        /\ UNCHANGED <<inbox, dlgTopics, srvCatalog>>
    BY <1>3 DEF HearsOne
  <2>2. /\ Mentions(Head(batch), t) => advertised'[t] = Value(Head(batch), t)
        /\ ~Mentions(Head(batch), t) => advertised'[t] = advertised[t]
    BY <1>3 DEF HearsOne
  <2>3. Rising(batch', t)
    BY <1>1, <2>1, SayingOnHandling DEF GrowTopic
  <2>4. /\ SaysOnly(batch, t, {None}) => /\ SaysOnly(batch', t, {None})
                                         /\ Mentions(Head(batch), t) => Value(Head(batch), t) \in {None}
        /\ SaysOnly(batch, t, TopicInfo) => /\ SaysOnly(batch', t, TopicInfo)
                                            /\ Mentions(Head(batch), t) => Value(Head(batch), t) \in TopicInfo
    BY <1>1, <2>1, SayingOnHandling
  <2>5. Mentions(Head(batch), t) /\ Value(Head(batch), t) # None =>
          SaysOnly(batch', t, TopicInfo) /\ ~SaysOnly(batch, t, {None})
    BY <1>1, <2>1, AnnouncedStays DEF GrowTopic
  <2>6. srvCatalog'[t] = None => /\ advertised'[t] = None /\ dlgTopics'[t] = None
                                 /\ SaysOnly(batch', t, {None}) /\ SaysOnly(inbox', t, {None})
    BY <1>1, <2>1, <2>2, <2>4 DEF GrowTopic
  <2>7. advertised'[t] # None => SaysOnly(batch', t, TopicInfo) /\ SaysOnly(inbox', t, TopicInfo)
    BY <1>1, <2>1, <2>2, <2>4, <2>5 DEF GrowTopic
  <2>8. t \in applied' => advertised'[t] # None
    BY <1>1, <2>1, <2>2, <2>4 DEF GrowTopic
  <2> QED
    BY <1>1, <2>1, <2>3, <2>4, <2>6, <2>7, <2>8 DEF GrowTopic
<1>4. CASE DialogHears
  <2>1. inbox # <<>> /\ inbox' = Tail(inbox) /\ UNCHANGED <<batch, advertised, srvCatalog, applied>>
    BY <1>4 DEF DialogHears
  <2>2. dlgTopics'[t] = dlgTopics[t] \/ (Mentions(Head(inbox), t) /\ dlgTopics'[t] = Value(Head(inbox), t))
    BY <1>4 DEF DialogHears
  <2>3. Rising(inbox', t)
    BY <1>1, <2>1, SayingOnHandling DEF GrowTopic
  <2>4. /\ SaysOnly(inbox, t, {None}) => /\ SaysOnly(inbox', t, {None})
                                         /\ Mentions(Head(inbox), t) => Value(Head(inbox), t) \in {None}
        /\ SaysOnly(inbox, t, TopicInfo) => SaysOnly(inbox', t, TopicInfo)
    BY <1>1, <2>1, SayingOnHandling
  <2>5. Mentions(Head(inbox), t) /\ Value(Head(inbox), t) # None => SaysOnly(inbox', t, TopicInfo)
    BY <1>1, <2>1, AnnouncedStays DEF GrowTopic
  <2>6. dlgTopics'[t] # None => SaysOnly(inbox', t, TopicInfo)
    BY <1>1, <2>2, <2>4, <2>5 DEF GrowTopic
  <2>7. srvCatalog'[t] = None => dlgTopics'[t] = None /\ SaysOnly(inbox', t, {None})
    BY <1>1, <2>1, <2>2, <2>4 DEF GrowTopic
  <2> QED
    BY <1>1, <2>1, <2>3, <2>4, <2>6, <2>7 DEF GrowTopic
<1>5. CASE HearsNothing
  <2>1. /\ inbox' \in {inbox, <<>>} /\ UNCHANGED <<batch, srvCatalog>>
        /\ dlgTopics'[t] \in {dlgTopics[t], None}
    BY <1>5 DEF HearsNothing, NoCatalog
  <2>2. /\ \A A : SaysOnly(inbox, t, A) => SaysOnly(inbox', t, A)
        /\ Rising(inbox', t)
    BY <1>1, <2>1, NothingSaid DEF GrowTopic
  <2>3. \/ advertised'[t] = advertised[t] /\ (t \in applied' => t \in applied \/ advertised[t] # None)
        \/ t \notin applied' /\ advertised'[t] = None
        \/ t \notin applied' /\ batch = <<>> /\ advertised'[t] = dlgTopics[t]
    BY <1>5 DEF HearsNothing, NoCatalog
  <2>4. \A A : batch = <<>> => SaysOnly(batch, t, A)
    BY NothingSaid
  <2> QED
    BY <1>1, <2>1, <2>2, <2>3, <2>4 DEF GrowTopic
<1>6. CASE Drains /\ UNCHANGED dlgTopics
  <2>1. batch' = inbox /\ inbox' = <<>> /\ UNCHANGED <<srvCatalog, advertised, applied, dlgTopics>>
    BY <1>6 DEF Drains
  <2> QED
    BY <1>1, <2>1, NothingSaid DEF GrowTopic
<1> QED
  BY <1>2, <1>3, <1>4, <1>5, <1>6, CatalogMoves

(* No topic of such a server leaves the source's catalog while it streams. *)
LEMMA GrowingKeeps ==
  ASSUME TypeOK, ControlInv, LinkInv, GrowInv, [Next]_vars
  PROVE  [KeepsRetyped]_vars /\ [NoReadd]_vars
<1>1. \A t \in applied : advertised[t] # None
  BY DEF GrowInv, GrowTopic, TypeOK, ControlTypeOK
<1>2. NoReadd
  BY <1>1 DEF NoReadd
<1>3. ASSUME running', NEW t \in Topics, Limbo(t) PROVE advertised'[t] # None
  <2>1. advertised[t] # None /\ dirty /\ None \notin TopicInfo /\ SaysOnly(batch, t, TopicInfo)
    BY <1>3, SourceAssumption DEF Limbo, GrowInv, GrowTopic
  <2>2. CASE SaysMore \/ DialogHears \/ Drains
    BY <2>1, <2>2 DEF SaysMore, DialogHears, Drains
  <2>3. CASE HearsOne
    <3>1. batch \in Seq(Event) /\ batch # <<>>
      BY <2>3 DEF HearsOne, TypeOK, PollTypeOK
    <3>2. Mentions(Head(batch), t) => Value(Head(batch), t) \in TopicInfo
      BY <2>1, <3>1, SayingOnHandling
    <3> QED
      BY <2>1, <2>3, <3>2 DEF HearsOne
  <2>4. CASE HearsNothing
    <3>1. running
      BY <2>1 DEF ControlInv
    <3> QED
      BY <1>3, <2>1, <2>4, <3>1 DEF HearsNothing
  <2> QED
    BY <2>2, <2>3, <2>4, CatalogMoves
<1> QED
  BY <1>2, <1>3 DEF KeepsRetyped

(* No step of its streams does what the conditions exclude. *)
LEMMA GrowingSteps ==
  ASSUME OnlyGrows
  PROVE  Spec => [][KeepsRetyped]_vars /\ [][NoReadd]_vars
<1>1. Init => GrowInv
  <2> SUFFICES ASSUME Init, NEW t \in Topics PROVE GrowTopic(t)
    BY DEF GrowInv
  <2>1. advertised[t] = None /\ dlgTopics[t] = None /\ batch = <<>> /\ inbox = <<>> /\ applied = {}
    BY DEF Init, SessionInit, NoCatalog
  <2> QED
    BY <2>1, NothingSaid DEF GrowTopic
<1>2. TypeOK /\ ControlInv /\ LinkInv /\ GrowInv /\ [Next]_vars => GrowInv'
  BY GrowStep DEF GrowInv
<1>3. TypeOK /\ ControlInv /\ LinkInv /\ GrowInv /\ [Next]_vars => [KeepsRetyped]_vars /\ [NoReadd]_vars
  BY GrowingKeeps
<1> QED
  BY <1>1, <1>2, <1>3, TypeCorrect, ControlInvariant, CatalogInvariant, PTL DEF Spec

(* With such a server, which may add topics and change their types at any time, the
   server streams exactly the advertised topics the host wants at rest, and every
   frame is decoded with the schema and the type name it was sent under. *)
THEOREM GrowingAgrees ==
  ASSUME OnlyGrows
  PROVE  Spec => []SubscriptionsAgree /\ []ParsedAsSent
BY GrowingSteps, SubscriptionsAgreeHolds, ParsedAsSentHolds, PTL

==============================================================================
