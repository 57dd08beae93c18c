--------------------------- MODULE FoxgloveSource ---------------------------
(***************************************************************************)
(* The Foxglove bridge source (data_stream_foxglove_bridge/).  Its dialog  *)
(* may have a connection, which the source takes over; the socket's thread *)
(* fills two queues and reports a loss; the poll thread reconnects, folds  *)
(* catalog messages in, applies the host's active set and ingests frames.  *)
(* Subscription ids start over with every connection the source makes.     *)
(***************************************************************************)
EXTENDS Naturals, Sequences, FiniteSets, SequencesExt

CONSTANTS
  Topics, None,
  ChanIds,      \* channel ids a server hands out, from 1 upwards
  Supported,    \* topics whose encoding classifyChannel routes to a parser
  Refused,      \* topics whose parser the host does not give
  Worlds,       \* the channels a restarted server may have
  Asks,         \* the active sets the host may ask for
  Hosts,        \* notify_available_topics accepted (demand mode) or not
  Ticks,        \* polls between two attempts to reconnect (150)
  MaxSets, MaxDeltas, MaxLosses, MaxFailures, MaxStarts, MaxFrames,
  Races         \* which of the source's known races may happen

ASSUME FoxgloveAssumption ==
  /\ ChanIds \subseteq Nat \ {0} /\ IsFiniteSet(ChanIds) /\ None \notin Topics
  /\ Worlds \subseteq [ChanIds -> Topics \cup {None}]
  /\ Ticks \in Nat \ {0} /\ Asks \subseteq SUBSET Topics /\ Hosts \subseteq BOOLEAN
  /\ Races \subseteq {"burst", "loss", "leftovers", "ghosts"}

VARIABLES
  pc,           \* "off", or the poll thread's place in onStart and onPoll
  connected, pending, tick,   \* connected_, reconnect_pending_, reconnect_tick_
  demand, selected,           \* demand_mode_, selected_channels_ as <<id, topic>>
  adv, subs, bind, nextId,    \* the catalog, <<sub, channel>>, <<sub, topic>>
  slot, lastDesired,          \* desired_topics_slot_, last_applied_desired_
  texts, batch, frames,       \* text_queue_, the batch taken, message_queue_
  listed,       \* what the host was last told
  found,        \* the dialog's channels_
  link, auto,   \* the socket, and whether it reconnects by itself
  chans, top, table, toServer,  \* the server: channels, ids used, subscriptions, requests
  spent         \* what is used up of each bound

client == <<connected, pending, tick, demand, selected, adv, subs, bind, nextId, slot,
            lastDesired, listed>>
queues == <<texts, batch, frames>>
server == <<chans, top, table, toServer>>
vars == <<pc, client, queues, found, link, auto, server, spent>>

NoChannels == [c \in ChanIds |-> None]
Known(f) == {c \in ChanIds : f[c] # None}
Pairs(f) == {<<c, f[c]>> : c \in Known(f)}
Merge(old, new) == [c \in ChanIds |-> IF new[c] # None THEN new[c] ELSE old[c]]
DialogOwns == pc = "off" /\ link # "none"
Within(what, max) == spent[what] < max /\ spent' = [spent EXCEPT ![what] = @ + 1]

---------------------------------------------------------------------------
passesAdvertiseFilter(t, sel) == sel = {} \/ \E s \in sel : s[2] = t

filteredAdvertisedTopics(f, sel) ==
  [c \in ChanIds |-> IF f[c] \in Supported /\ passesAdvertiseFilter(f[c], sel)
                     THEN f[c] ELSE None]

(* buildAvailableTopics: what the host is told of catalog f. *)
buildAvailableTopics(f, sel) ==
  {filteredAdvertisedTopics(f, sel)[c] : c \in ChanIds} \ {None}

(* A subscription id per channel, in the order of the channel ids. *)
registerSubscription(from, cs) ==
  {<<from + Cardinality({d \in cs : d < c}), c>> : c \in cs}

(* Mutant: the next registration hands the same ids out again. *)
MutReusesIds(n) == UNCHANGED nextId

TakeIds(n) == nextId' = nextId + n

Ids(ss) == {s[1] : s \in ss}

(* The bindings after some subscriptions went and others came; a topic the host
   refuses keeps its subscription and has no parser. *)
bindChannel(gone, new, f) ==
  {b \in bind : b[1] \notin Ids(gone) \cup Ids({s \in new : f[s[2]] \notin Refused})}
    \cup {<<s[1], f[s[2]]>> : s \in {n \in new : f[n[2]] \notin Refused}}

(* A request sent while the socket is not open is lost; onStart has opened it. *)
Send(gone, new) ==
  toServer' = IF pc = "off" \/ link = "open" THEN toServer
                \o (IF gone = {} THEN <<>> ELSE <<[op |-> "unsubscribe", ss |-> gone]>>)
                \o (IF new = {} THEN <<>> ELSE <<[op |-> "subscribe", ss |-> new]>>)
              ELSE toServer

to_unsubscribe(f, desired) ==
  {s \in subs : filteredAdvertisedTopics(f, selected)[s[2]] \notin desired}

to_subscribe(f, desired) ==
  {c \in ChanIds : /\ filteredAdvertisedTopics(f, selected)[c] \in desired
                   /\ \A s \in subs : s[2] # c}

reconcileSubscriptions(f, desired) ==
  LET gone == to_unsubscribe(f, desired)
      new == registerSubscription(nextId, to_subscribe(f, desired))
  IN  /\ subs' = (subs \ gone) \cup new
      /\ bind' = bindChannel(gone, new, f)
      /\ TakeIds(Cardinality(new))
      /\ Send(gone, new)

(* Legacy mode: subscribe to these channels, whatever is subscribed already. *)
SubscribeAll(cs, f) ==
  LET new == registerSubscription(nextId, cs)
  IN  /\ subs' = subs \cup new
      /\ bind' = bindChannel({}, new, f)
      /\ TakeIds(Cardinality(new))
      /\ Send({}, new)

---------------------------------------------------------------------------
(* The dialog: a socket that reconnects by itself; a channel id it knows already
   keeps its old description, and removals are not listened to. *)
connectToServer ==
  /\ pc = "off" /\ link = "none"
  /\ link' = "open" /\ auto' = TRUE
  /\ found' = Merge(chans, found)
  /\ UNCHANGED <<pc, client, queues, server, spent>>

disconnect ==
  /\ DialogOwns
  /\ link' = "none" /\ found' = NoChannels
  /\ UNCHANGED <<pc, client, queues, auto, server, spent>>

(* snapshotSelectedChannels, for a user who picks at most one topic. *)
Selections(f) ==
  {{}} \cup {{<<c, f[c]>>} : c \in {d \in Known(f) : \A e \in Known(f) : f[e] = f[d] => d <= e}}

(* What onStart does once the socket is open: seed the catalog, let the host
   decide the mode, subscribe at once in legacy mode. *)
StartStreaming(sel, seed) ==
  \E d \in Hosts :
    /\ demand' = d /\ selected' = sel
    /\ LET picked == {s \in sel : s[2] \in Supported}
           all == IF d THEN seed ELSE Merge(seed, [c \in ChanIds |->
                    IF \E s \in picked : s[1] = c THEN (CHOOSE s \in picked : s[1] = c)[2] ELSE None])
       IN  /\ adv' = all
           /\ listed' = IF d THEN buildAvailableTopics(seed, sel) ELSE {}
           /\ \/ d /\ UNCHANGED <<subs, bind, nextId, toServer>>
              \/ ~d /\ SubscribeAll({s[1] : s \in picked}, all)

(* The dialog's catalog is the server's, and nothing that onStop does not reset is
   left of an earlier stream. *)
CleanStart(seed, world) ==
  /\ "ghosts" \in Races \/ Pairs(seed) \subseteq Pairs(world)
  /\ "leftovers" \in Races \/ (texts = <<>> /\ frames = <<>> /\ ~pending)

StartStolen ==
  /\ DialogOwns /\ link = "open"
  /\ Within("starts", MaxStarts)
  /\ CleanStart(found, chans)
  /\ \E sel \in Selections(found) : StartStreaming(sel, found)
  /\ pc' = "starting"
  /\ UNCHANGED <<connected, pending, tick, slot, lastDesired, queues, found, link, auto,
                 chans, top, table>>

Burst(q, w) == IF Known(w) = {} THEN q ELSE Append(q, [op |-> "advertise", of |-> w])

Highest(w) == IF Known(w) = {} THEN 0 ELSE CHOOSE c \in Known(w) : \A d \in Known(w) : d <= c

(* A connection opens: the server, restarted or not, sends its one burst. *)
Opens(w) ==
  /\ link' = "open"
  /\ chans' = w /\ top' = IF w = chans THEN top ELSE Highest(w)
  /\ texts' = Burst(texts, w)
  /\ table' = {}

(* The saved selection: ids and topics of the server it was made with. *)
Saved(w) == UNION {Selections(v) : v \in {w} \cup (IF "ghosts" \in Races THEN Worlds ELSE {})}

(* Without a socket of the dialog: connect, the callback installed first. *)
StartFresh ==
  /\ pc = "off" /\ link # "open"
  /\ Within("starts", MaxStarts)
  /\ \E w \in Worlds \cup {chans} :
       /\ CleanStart(found, w)
       /\ Opens(w)
       /\ \E sel \in Saved(w) : StartStreaming(sel, found)
  /\ auto' = FALSE
  /\ pc' = "starting"
  /\ UNCHANGED <<connected, pending, tick, slot, lastDesired, batch, frames, found>>

StartEnds ==
  /\ pc = "starting"
  /\ pc' = "idle" /\ connected' = TRUE
  /\ UNCHANGED <<pending, tick, demand, selected, adv, subs, bind, nextId, slot, lastDesired,
                 listed, queues, found, link, auto, server, spent>>

setActiveTopics ==
  /\ pc # "off" /\ demand
  /\ Within("sets", MaxSets)
  /\ slot' \in Asks
  /\ UNCHANGED <<pc, connected, pending, tick, demand, selected, adv, subs, bind, nextId,
                 lastDesired, listed, queues, found, link, auto, server>>

(* onStop leaves the two queues, reconnect_pending_ and the dialog's catalog as
   they are. *)
onStop ==
  /\ pc = "idle"
  /\ pc' = "off" /\ link' = "none"
  /\ connected' = FALSE /\ demand' = FALSE /\ selected' = {}
  /\ adv' = NoChannels /\ subs' = {} /\ bind' = {} /\ nextId' = 1
  /\ lastDesired' = {} /\ slot' = None /\ listed' = {}
  /\ table' = {} /\ toServer' = <<>>
  /\ UNCHANGED <<pending, tick, queues, found, auto, chans, top, spent>>

---------------------------------------------------------------------------
(* Mutant: a failed attempt leaves reconnect_pending_ set. *)
MutWaitsForEver == UNCHANGED pending

AttemptFailed == pending' = FALSE

(* onPoll, the reconnection first. *)
PollConnection ==
  /\ pc = "idle"
  /\ pc' = IF ~connected /\ pending /\ link = "open" THEN "reset" ELSE "drain"
  /\ \/ /\ connected \/ (pending /\ link # "closed")
        /\ UNCHANGED <<pending, tick, link, table, toServer>>
     \/ /\ ~connected /\ pending /\ link = "closed"
        /\ AttemptFailed
        /\ UNCHANGED <<tick, link, table, toServer>>
     \/ /\ ~connected /\ ~pending /\ tick + 1 < Ticks
        /\ tick' = tick + 1
        /\ UNCHANGED <<pending, link, table, toServer>>
     \/ /\ ~connected /\ ~pending /\ tick + 1 >= Ticks
        /\ tick' = 0 /\ pending' = TRUE
        /\ link' = "connecting" /\ table' = {} /\ toServer' = <<>>
  /\ UNCHANGED <<connected, demand, selected, adv, subs, bind, nextId, slot, lastDesired, listed,
                 queues, found, auto, chans, top, spent>>

(* Mutant: the new connection inherits the catalog. *)
MutKeepsCatalog == subs' = {} /\ bind' = {} /\ nextId' = 1 /\ UNCHANGED adv

ForgetConnection == adv' = NoChannels /\ subs' = {} /\ bind' = {} /\ nextId' = 1

PollReset ==
  /\ pc = "reset"
  /\ pc' = "drain"
  /\ connected' = TRUE /\ pending' = FALSE /\ tick' = 0
  /\ ForgetConnection
  /\ UNCHANGED <<demand, selected, slot, lastDesired, listed, queues, found, link, auto, server,
                 spent>>

TakeTexts ==
  /\ pc = "drain"
  /\ pc' = "text"
  /\ batch' = texts /\ texts' = <<>>
  /\ UNCHANGED <<client, frames, found, link, auto, server, spent>>

advertise ==
  /\ pc = "text" /\ batch # <<>> /\ Head(batch).op = "advertise"
  /\ batch' = Tail(batch)
  /\ LET of == Head(batch).of
         all == Merge(adv, of)
         picked == {c \in Known(of) : of[c] \in Supported /\ \E s \in selected : s[2] = of[c]}
     IN  /\ adv' = all
         /\ \/ /\ demand
               /\ reconcileSubscriptions(all, lastDesired)
               /\ listed' = buildAvailableTopics(all, selected)
            \/ /\ ~demand
               /\ SubscribeAll(picked, all)
               /\ UNCHANGED listed
  /\ UNCHANGED <<pc, connected, pending, tick, demand, selected, slot, lastDesired, texts, frames,
                 found, link, auto, chans, top, table, spent>>

unadvertise ==
  /\ pc = "text" /\ batch # <<>> /\ Head(batch).op = "unadvertise"
  /\ batch' = Tail(batch)
  /\ LET c == Head(batch).of
         gone == {s \in subs : s[2] = c}
     IN  /\ adv' = [adv EXCEPT ![c] = None]
         /\ subs' = subs \ gone
         /\ bind' = {b \in bind : b[1] \notin Ids(gone)}
         /\ listed' = IF demand /\ adv[c] # None THEN buildAvailableTopics(adv', selected)
                      ELSE listed
  /\ UNCHANGED <<pc, connected, pending, tick, demand, selected, nextId, slot, lastDesired, texts,
                 frames, found, link, auto, server, spent>>

applyDesiredTopics ==
  /\ pc = "text" /\ batch = <<>>
  /\ pc' = "frames"
  /\ \/ /\ demand /\ connected /\ slot # None
        /\ lastDesired' = slot /\ slot' = None
        /\ reconcileSubscriptions(adv, slot)
     \/ /\ ~(demand /\ connected /\ slot # None)
        /\ UNCHANGED <<lastDesired, slot, subs, bind, nextId, toServer>>
  /\ UNCHANGED <<connected, pending, tick, demand, selected, adv, listed, queues, found, link, auto,
                 chans, top, table, spent>>

(* The frames received are ingested through the parser of their subscription. *)
PollFrames ==
  /\ pc = "frames"
  /\ pc' = "idle"
  /\ frames' = <<>>
  /\ UNCHANGED <<client, texts, batch, found, link, auto, server, spent>>

---------------------------------------------------------------------------
(* The socket's thread. *)
onDisconnected == connected' = FALSE

LossAllowed == "loss" \in Races \/ pc \notin {"starting", "reset"}

Close ==
  /\ link = "open" /\ LossAllowed
  /\ Within("losses", MaxLosses)
  /\ link' = "closed"
  /\ table' = {} /\ toServer' = <<>>
  /\ found' = IF DialogOwns THEN NoChannels ELSE found
  /\ IF DialogOwns THEN UNCHANGED connected ELSE onDisconnected
  /\ UNCHANGED <<pc, pending, tick, demand, selected, adv, subs, bind, nextId, slot, lastDesired,
                 listed, queues, auto, chans, top>>

(* A connection opens between two polls, when nothing is left to handle of what
   the one before it had sent. *)
BurstAllowed == "burst" \in Races \/ (pc \in {"off", "idle"} /\ texts = <<>>)

(* An attempt of the poll's, or of the dialog's socket by itself, succeeds. *)
Open ==
  /\ link = "connecting" \/ (auto /\ link = "closed")
  /\ BurstAllowed
  /\ \E w \in Worlds \cup {chans} :
       /\ link' = "open"
       /\ chans' = w /\ top' = (IF w = chans THEN top ELSE Highest(w))
       /\ texts' = (IF pc = "off" THEN texts ELSE Burst(texts, w))
       /\ found' = (IF pc = "off" THEN w ELSE found)
  /\ table' = {}
  /\ UNCHANGED <<pc, client, batch, frames, auto, toServer, spent>>

AttemptFails ==
  /\ link = "connecting"
  /\ Within("failures", MaxFailures)
  /\ link' = "closed"
  /\ UNCHANGED <<pc, client, queues, found, auto, server>>

(* The server: it never hands a channel id out twice. *)
AddChannel ==
  /\ link = "open" /\ top + 1 \in ChanIds
  /\ Within("deltas", MaxDeltas)
  /\ top' = top + 1
  /\ \E t \in Topics :
       /\ chans' = [chans EXCEPT ![top'] = t]
       /\ \/ /\ DialogOwns
             /\ found' = Merge([NoChannels EXCEPT ![top'] = t], found)
             /\ UNCHANGED texts
          \/ /\ ~DialogOwns
             /\ texts' = Append(texts, [op |-> "advertise", of |-> [NoChannels EXCEPT ![top'] = t]])
             /\ UNCHANGED found
  /\ UNCHANGED <<pc, client, batch, frames, link, auto, table, toServer>>

RemoveChannel ==
  /\ link = "open"
  /\ Within("deltas", MaxDeltas)
  /\ \E c \in Known(chans) :
       /\ chans' = [chans EXCEPT ![c] = None]
       /\ table' = {s \in table : s[2] # c}
       /\ texts' = IF DialogOwns THEN texts ELSE Append(texts, [op |-> "unadvertise", of |-> c])
  /\ UNCHANGED <<pc, client, batch, frames, found, link, auto, top, toServer>>

(* Unknown channels and second subscriptions to one channel are ignored. *)
ServerHandles ==
  /\ toServer # <<>>
  /\ toServer' = Tail(toServer)
  /\ LET m == Head(toServer)
     IN  table' = IF m.op = "unsubscribe" THEN {s \in table : s[1] \notin Ids(m.ss)}
                  ELSE table \cup {s \in m.ss : chans[s[2]] # None /\ \A o \in table : o[2] # s[2]}
  /\ UNCHANGED <<pc, client, queues, found, link, auto, chans, top, spent>>

onBinaryMessage ==
  /\ Len(frames) < MaxFrames
  /\ \E s \in table : frames' = Append(frames, [sub |-> s[1], topic |-> chans[s[2]]])
  /\ UNCHANGED <<pc, client, texts, batch, found, link, auto, server, spent>>

---------------------------------------------------------------------------
Init ==
  /\ pc = "off" /\ connected = FALSE /\ pending = FALSE /\ tick = 0
  /\ demand = FALSE /\ selected = {} /\ adv = NoChannels /\ subs = {} /\ bind = {} /\ nextId = 1
  /\ slot = None /\ lastDesired = {} /\ texts = <<>> /\ batch = <<>> /\ frames = <<>>
  /\ listed = {} /\ found = NoChannels
  /\ link = "none" /\ auto = FALSE
  /\ chans \in Worlds /\ top = Highest(chans) /\ table = {} /\ toServer = <<>>
  /\ spent = [sets |-> 0, deltas |-> 0, losses |-> 0, failures |-> 0, starts |-> 0]

onPoll ==
  \/ PollConnection \/ PollReset \/ TakeTexts \/ advertise \/ unadvertise
  \/ applyDesiredTopics \/ PollFrames

Next ==
  \/ connectToServer \/ disconnect \/ StartStolen \/ StartFresh \/ StartEnds
  \/ setActiveTopics \/ onStop \/ onPoll
  \/ Close \/ Open \/ AttemptFails \/ AddChannel \/ RemoveChannel \/ ServerHandles
  \/ onBinaryMessage

(* The host polls and finishes a start; nothing is assumed of the network. *)
Spec == Init /\ [][Next]_vars /\ WF_vars(onPoll) /\ WF_vars(StartEnds)

---------------------------------------------------------------------------
(* The state has the types of the members it models. *)
TypeOK ==
  /\ pc \in {"off", "starting", "idle", "reset", "drain", "text", "frames"}
  /\ {connected, pending, demand, auto} \subseteq BOOLEAN /\ tick \in 0 .. Ticks
  /\ {adv, found, chans} \subseteq [ChanIds -> Topics \cup {None}]
  /\ selected \subseteq ChanIds \X Topics /\ bind \subseteq Nat \X Topics
  /\ subs \cup table \subseteq Nat \X ChanIds /\ {nextId, top} \subseteq Nat
  /\ slot \in Asks \cup {None} /\ lastDesired \subseteq Topics /\ listed \subseteq Topics
  /\ link \in {"none", "connecting", "open", "closed"}

(* A frame is ingested as the topic it was published on, though subscription ids
   start over with every connection and frames outlive their subscriptions, unless
   it was left to the next stream (the race "leftovers"). *)
IngestedAsSent ==
  /\ TypeOK
  /\ pc = "frames" =>
       \A f \in ToSet(frames), b \in bind : f.sub = b[1] => f.topic = b[2]

AtRest ==
  /\ pc = "idle" /\ connected /\ link = "open"
  /\ texts = <<>> /\ toServer = <<>> /\ slot = None

(* At rest the source, the host and the server agree, after whatever losses,
   restarts, removals and stops, unless one of Races happened: the catalog is the
   server's, the host lists what the filter lets through, and exactly the channels of
   wanted topics stream, each once.  In legacy mode only selected topics do.  Whatever
   streams has its topic's parser. *)
AtRestAgree ==
  AtRest =>
    LET shown == filteredAdvertisedTopics(chans, selected)
    IN  /\ demand => /\ adv = chans /\ table = subs
                     /\ {s[2] : s \in table} = {c \in ChanIds : shown[c] \in lastDesired}
                     /\ Known(chans) # {} => listed = buildAvailableTopics(chans, selected)
        /\ ~demand => \A s \in table : \E p \in selected : p[2] = chans[s[2]]
        /\ \A s \in table : chans[s[2]] \notin Refused => <<s[1], chans[s[2]]>> \in bind

(* A connection that is lost while the source streams is attempted again, unless the
   loss falls into the race "loss". *)
LossIsRetried == (pc # "off" /\ link = "closed") ~> (link # "closed" \/ pc = "off")
===========================================================================
