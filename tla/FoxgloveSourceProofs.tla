------------------------ MODULE FoxgloveSourceProofs ------------------------
(***************************************************************************)
(* Proofs about FoxgloveSource for every set of topics and channels, every *)
(* host, every server and every bound: away from the source's four known   *)
(* races, no frame is ingested as a topic it was not published on, and the *)
(* source, the host and the server agree whenever everything is handled.   *)
(***************************************************************************)
EXTENDS FoxgloveSource, FiniteSetTheorems, WellFoundedInduction, TLAPS

Channels == [ChanIds -> Topics \cup {None}]

(* What the channels between the threads and to the server carry. *)
Text == [op : {"advertise"}, of : Channels] \cup [op : {"unadvertise"}, of : ChanIds]
Request == [op : {"unsubscribe", "subscribe"}, ss : SUBSET (Nat \X ChanIds)]
Frame == [sub : Nat, topic : Topics]

(* The subscriptions a queue of requests asks for; that a queue of texts announces
   channel c as one of topic t. *)
Asked(q) == {s \in Nat \X ChanIds : \E i \in 1..Len(q) : q[i].op = "subscribe" /\ s \in q[i].ss}
Says(q, c, t) == \E i \in 1..Len(q) : q[i].op = "advertise" /\ q[i].of[c] = t

(* Channel c of a server with channels ch, if it is still there, is of topic t: the
   server hands its ids out in order, hi the last so far, and none twice. *)
Right(ch, hi, c, t) == c <= hi /\ ch[c] \in {t, None}

(* The subscription ids below n are used up, and only those; a subscription the
   server has or is asked for, and a frame that it sent, is of the topic that the
   parser of its id was bound for. *)
Matched(ch, hi, tb, rq, bd, n, fr) ==
  /\ \A s \in tb : s[1] < n /\ s[2] <= hi /\ ch[s[2]] # None
  /\ \A s \in Asked(rq) : s[1] < n /\ s[2] <= hi
  /\ \A b \in bd : b[1] < n
  /\ \A i \in 1..Len(fr) : fr[i].sub < n
  /\ \A s \in tb \cup Asked(rq), b \in bd : s[1] = b[1] => ch[s[2]] \in {b[2], None}
  /\ \A i \in 1..Len(fr), b \in bd : fr[i].sub = b[1] => fr[i].topic = b[2]

Typed ==
  /\ TypeOK
  /\ texts \in Seq(Text) /\ batch \in Seq(Text)
  /\ frames \in Seq(Frame) /\ toServer \in Seq(Request)

(* Where a connection can be in which step of the poll, and that nothing of the one
   before is left when the ids start over. *)
LinkInv ==
  /\ pc = "off" => /\ ~connected /\ ~demand /\ lastDesired = {} /\ nextId = 1
                   /\ bind = {} /\ subs = {} /\ table = {} /\ toServer = <<>>
  /\ pc # "text" => batch = <<>>
  /\ link # "open" => ~connected /\ table = {} /\ toServer = <<>>
  /\ pc \in {"starting", "reset"} => link = "open"
  /\ pc = "starting" => ~pending
  /\ pc = "reset" => pending
  /\ pending /\ pc # "off" =>
       /\ ~connected /\ table = {} /\ toServer = <<>>
       /\ pc \in {"idle", "reset"} => frames = <<>>
       /\ pc \in {"drain", "text", "frames"} => link # "open"

(* The ids of the server, and what the texts and the catalog say of them. *)
ChannelInv ==
  /\ \A c \in Known(chans) : c <= top
  /\ pc # "off" => \A c \in ChanIds, t \in Topics :
                     Says(texts, c, t) \/ Says(batch, c, t) => Right(chans, top, c, t)
  /\ connected \/ pc = "starting" => \A c \in Known(adv) : Right(chans, top, c, adv[c])

(* Whatever is wanted of the catalog is subscribed. *)
WantedInv ==
  demand => \A c \in ChanIds : filteredAdvertisedTopics(adv, selected)[c] \in lastDesired
                                 => \E s \in subs : s[2] = c

FrameInv == pc # "off" => Matched(chans, top, table, toServer, bind, nextId, frames)

(* The inductive invariant of a source that is spared the races. *)
SourceInv == Typed /\ LinkInv /\ ChannelInv /\ WantedInv /\ FrameInv

---------------------------------------------------------------------------
(***************************************************************************)
(* The operators of the model.                                             *)
(***************************************************************************)

(* A restarted server has used up no id above its highest channel's. *)
LEMMA HighestIsHighest ==
  ASSUME NEW w \in Channels
  PROVE  Highest(w) \in Nat /\ \A c \in Known(w) : c <= Highest(w)
<1>1. Known(w) \subseteq Nat /\ IsFiniteSet(Known(w))
  <2>1. Known(w) \in SUBSET ChanIds
    BY DEF Known
  <2> QED
    BY <2>1, FoxgloveAssumption, FS_Subset
<1>2. CASE Known(w) = {}
  BY <1>2 DEF Highest
<1>3. CASE Known(w) # {}
  <2> DEFINE S == Known(w)
             Above(c) == {d \in S : d > c}
             T == {Above(c) : c \in S}
  <2>1. T \subseteq FiniteSubsetsOf(S) /\ T # {}
    <3>1. T \subseteq SUBSET S /\ T # {}
      BY <1>3
    <3> QED
      BY <1>1, <3>1, FS_FiniteSubsetsOfFinite
  <2>2. PICK x \in T : \A y \in T : ~(<<y, x>> \in StrictSubsetOrdering(S))
    <3> HIDE DEF T
    <3> QED
      BY <2>1, FS_StrictSubsetOrderingWellFounded, WFMin
  <2>3. PICK c \in S : x = Above(c)
    BY <2>2
  <2>4. \A d \in S : d <= c
    <3> SUFFICES ASSUME NEW d \in S, ~(d <= c) PROVE FALSE
      OBVIOUS
    <3>1. d > c /\ d \in Nat /\ c \in Nat
      BY <1>1
    <3>2. d \in Above(c) /\ d \notin Above(d) /\ Above(d) \subseteq Above(c)
      BY <1>1, <3>1
    <3>3. <<Above(d), Above(c)>> \in StrictSubsetOrdering(S)
      BY <3>2 DEF StrictSubsetOrdering
    <3> QED
      BY <2>2, <2>3, <3>3
  <2> QED
    BY <1>1, <1>3, <2>4 DEF Highest
<1> QED
  BY <1>2, <1>3

(* The ids handed out together are new, each is handed out once, and the count moves
   past them. *)
LEMMA Registered ==
  ASSUME NEW n \in Nat, NEW cs \in SUBSET ChanIds,
         NEW new, new = registerSubscription(n, cs)
  PROVE  /\ Cardinality(new) \in Nat
         /\ new \subseteq Nat \X ChanIds
         /\ \A s \in new : n <= s[1] /\ s[1] < n + Cardinality(new) /\ s[2] \in cs
         /\ \A s, r \in new : s[1] = r[1] => s = r
         /\ \A c \in cs : \E s \in new : s[2] = c
<1> DEFINE Below(c) == {d \in cs : d < c}
           k(c) == Cardinality(Below(c))
           F == [c \in cs |-> <<n + k(c), c>>]
<1>1. cs \subseteq Nat /\ IsFiniteSet(cs)
  BY FoxgloveAssumption, FS_Subset
<1>2. \A c \in cs : k(c) \in Nat /\ k(c) < Cardinality(cs)
  <2> TAKE c \in cs
  <2>1. Below(c) \in SUBSET cs /\ c \notin Below(c)
    BY <1>1
  <2>2. IsFiniteSet(Below(c)) /\ k(c) <= Cardinality(cs) /\ k(c) # Cardinality(cs)
    BY <1>1, <2>1, FS_Subset
  <2> QED
    BY <1>1, <2>2, FS_CardinalityType
<1>3. \A c, d \in cs : c < d => k(c) < k(d)
  <2> TAKE c, d \in cs
  <2> HAVE c < d
  <2>1. Below(c) \in SUBSET Below(d) /\ c \notin Below(c) /\ c \in Below(d) /\ Below(d) \in SUBSET cs
    <3>1. c < d /\ ~(c < c) /\ \A e \in cs : e < c => e < d
      BY <1>1
    <3> QED
      BY <3>1, Zenon
  <2>2. IsFiniteSet(Below(d))
    BY <1>1, <2>1, FS_Subset
  <2>3. k(c) <= k(d) /\ k(c) # k(d)
    BY <2>1, <2>2, FS_Subset
  <2> QED
    BY <1>2, <2>3
<1>4. new = {<<n + k(c), c>> : c \in cs}
  BY DEF registerSubscription
<1> HIDE DEF k, Below
<1>5. Cardinality(new) = Cardinality(cs)
  <2>1. F \in [cs -> new] /\ \A c \in cs : F[c][2] = c
    BY <1>4
  <2>2. \A s \in new : \E c \in cs : F[c] = s
    BY <1>4
  <2> HIDE DEF F
  <2>3. F \in Bijection(cs, new)
    BY <2>1, <2>2 DEF Bijection, Injection, Surjection, IsInjective
  <2> QED
    BY <1>1, <2>3, FS_Bijection DEF ExistsBijection
<1>6. Cardinality(cs) \in Nat
  BY <1>1, FS_CardinalityType
<1>7. \A s \in new : \E c \in cs : s = <<n + k(c), c>> /\ s[1] = n + k(c) /\ s[2] = c
  BY <1>4
<1>8. \A c \in cs : <<n + k(c), c>> \in new /\ <<n + k(c), c>>[2] = c
  BY <1>4
<1> HIDE DEF F
<1>9. \A c, d \in cs : n + k(c) = n + k(d) => c = d
  BY <1>1, <1>2, <1>3
<1>10. \A s \in new : n <= s[1] /\ s[1] < n + Cardinality(new) /\ s[2] \in cs
  BY <1>2, <1>5, <1>6, <1>7
<1>11. new \subseteq Nat \X ChanIds
  BY <1>2, <1>7
<1>12. \A s, r \in new : s[1] = r[1] => s = r
  BY <1>7, <1>9
<1>13. \A c \in cs : \E s \in new : s[2] = c
  BY <1>8
<1> QED
  BY <1>5, <1>6, <1>10, <1>11, <1>12, <1>13

(* A queue of texts says what its first text says and what the rest says; one more
   text adds what it says. *)
LEMMA SayingLess ==
  ASSUME NEW q \in Seq(Text), q # <<>>, NEW c, NEW t
  PROVE  /\ Says(Tail(q), c, t) => Says(q, c, t)
         /\ Head(q).op = "advertise" /\ Head(q).of[c] = t => Says(q, c, t)
<1>1. /\ Len(q) \in Nat /\ Len(q) >= 1 /\ Len(Tail(q)) = Len(q) - 1 /\ Head(q) = q[1]
      /\ \A i \in 1..Len(Tail(q)) : Tail(q)[i] = q[i + 1] /\ i + 1 \in 1..Len(q)
  OBVIOUS
<1>2. 1 \in 1..Len(q)
  BY <1>1
<1> QED
  BY <1>1, <1>2 DEF Says

(* One more text at the end adds only what it says itself. *)
LEMMA SayingMore ==
  ASSUME NEW q \in Seq(Text), NEW e \in Text, NEW c, NEW t, Says(Append(q, e), c, t)
  PROVE  Says(q, c, t) \/ (e.op = "advertise" /\ e.of[c] = t)
<1> DEFINE u == Append(q, e)
<1>1. /\ Len(q) \in Nat /\ Len(u) = Len(q) + 1 /\ u[Len(q) + 1] = e
      /\ \A i \in 1..Len(q) : u[i] = q[i]
  OBVIOUS
<1> HIDE DEF u
<1>2. PICK i \in 1..Len(u) : u[i].op = "advertise" /\ u[i].of[c] = t
  BY DEF Says, u
<1>3. i \in 1..Len(q) \/ i = Len(q) + 1
  BY <1>1
<1> QED
  BY <1>1, <1>2, <1>3 DEF Says

(* An empty queue of texts announces nothing. *)
LEMMA SayingNothing == \A c, t : ~Says(<<>>, c, t)
<1>1. Len(<<>>) = 0
  OBVIOUS
<1>2. 1..0 = {}
  OBVIOUS
<1> QED
  BY <1>1, <1>2 DEF Says

(* An empty queue asks for nothing; taking a request asks for no more. *)
LEMMA AskingNothing == Asked(<<>>) = {}
<1>1. Len(<<>>) = 0
  OBVIOUS
<1>2. 1..0 = {}
  OBVIOUS
<1> QED
  BY <1>1, <1>2 DEF Asked

(* Taking a request leaves no more asked for, and what it asked for was asked. *)
LEMMA AskingLess ==
  ASSUME NEW q \in Seq(Request), q # <<>>
  PROVE  /\ Asked(Tail(q)) \subseteq Asked(q)
         /\ Head(q).op = "subscribe" => Head(q).ss \subseteq Asked(q)
<1>1. /\ Len(q) \in Nat /\ Len(q) >= 1 /\ Len(Tail(q)) = Len(q) - 1 /\ Head(q) = q[1]
      /\ \A i \in 1..Len(Tail(q)) : Tail(q)[i] = q[i + 1] /\ i + 1 \in 1..Len(q)
  OBVIOUS
<1>2. 1 \in 1..Len(q) /\ q[1] \in Request
  BY <1>1
<1>3. q[1].ss \subseteq Nat \X ChanIds
  BY <1>2 DEF Request
<1> QED
  BY <1>1, <1>2, <1>3 DEF Asked

(* One more request adds what it asks for. *)
LEMMA AskingMore ==
  ASSUME NEW q \in Seq(Request), NEW r \in Request
  PROVE  /\ Append(q, r) \in Seq(Request)
         /\ Asked(Append(q, r)) \subseteq Asked(q) \cup (IF r.op = "subscribe" THEN r.ss ELSE {})
<1> DEFINE u == Append(q, r)
<1>1. /\ Len(q) \in Nat /\ Len(u) = Len(q) + 1 /\ u[Len(q) + 1] = r
      /\ \A i \in 1..Len(q) : u[i] = q[i]
  OBVIOUS
<1>2. u \in Seq(Request)
  OBVIOUS
<1> HIDE DEF u
<1>3. \A i \in 1..Len(u) : i \in 1..Len(q) \/ i = Len(q) + 1
  BY <1>1
<1>4. Asked(u) \subseteq Asked(q) \cup (IF r.op = "subscribe" THEN r.ss ELSE {})
  BY <1>1, <1>3 DEF Asked
<1> QED
  BY <1>2, <1>4 DEF u

(* What Send adds to the requests under way; nothing when the socket is not open. *)
LEMMA SendAsks ==
  ASSUME toServer \in Seq(Request), NEW gone \in SUBSET (Nat \X ChanIds),
         NEW new \in SUBSET (Nat \X ChanIds), Send(gone, new)
  PROVE  /\ toServer' \in Seq(Request)
         /\ Asked(toServer') \subseteq Asked(toServer) \cup new
         /\ pc # "off" /\ link # "open" => toServer' = toServer
<1> DEFINE g == [op |-> "unsubscribe", ss |-> gone]
           s == [op |-> "subscribe", ss |-> new]
           mid == IF gone = {} THEN toServer ELSE Append(toServer, g)
           end == IF new = {} THEN mid ELSE Append(mid, s)
<1>1. g \in Request /\ s \in Request /\ g.op = "unsubscribe" /\ s.op = "subscribe" /\ s.ss = new
  BY DEF Request
<1>2. mid \in Seq(Request) /\ Asked(mid) \subseteq Asked(toServer)
  <2> HIDE DEF g
  <2>1. CASE gone = {}
    BY <2>1
  <2>2. CASE gone # {}
    BY <1>1, <2>2, AskingMore
  <2> QED
    BY <2>1, <2>2
<1>3. end \in Seq(Request) /\ Asked(end) \subseteq Asked(mid) \cup new
  <2> HIDE DEF s, mid
  <2>1. CASE new = {}
    BY <1>2, <2>1
  <2>2. CASE new # {}
    BY <1>1, <1>2, <2>2, AskingMore
  <2> QED
    BY <2>1, <2>2
<1>4. toServer' = toServer \/ toServer' = end
  <2>1. mid = toServer \o (IF gone = {} THEN <<>> ELSE <<g>>)
    BY <1>1
  <2>2. end = mid \o (IF new = {} THEN <<>> ELSE <<s>>)
    <3> HIDE DEF mid
    <3> QED
      BY <1>1, <1>2
  <2> HIDE DEF mid, end
  <2> QED
    BY <2>1, <2>2 DEF Send
<1>5. pc # "off" /\ link # "open" => toServer' = toServer
  BY DEF Send
<1> QED
  <2> HIDE DEF mid, end
  <2> QED
    BY <1>2, <1>3, <1>4, <1>5

---------------------------------------------------------------------------
(***************************************************************************)
(* Subscribing.                                                            *)
(***************************************************************************)

(* The bindings left or made by a registration. *)
LEMMA Bindings ==
  ASSUME NEW gone, NEW new, NEW f, NEW b \in bindChannel(gone, new, f)
  PROVE  b \in bind \/ \E s \in new : b = <<s[1], f[s[2]]>>
BY DEF bindChannel

(* Subscribing to channels keeps the types. *)
LEMMA SubscribingTypes ==
  ASSUME Typed, NEW cs \in SUBSET ChanIds, NEW gone \in SUBSET (Nat \X ChanIds), NEW f,
         \A c \in cs : f[c] \in Topics,
         NEW new, new = registerSubscription(nextId, cs),
         bind' = bindChannel(gone, new, f), TakeIds(Cardinality(new)), Send(gone, new)
  PROVE  /\ new \subseteq Nat \X ChanIds
         /\ bind' \subseteq Nat \X Topics /\ nextId' \in Nat /\ toServer' \in Seq(Request)
         /\ pc # "off" /\ link # "open" => toServer' = toServer
<1>1. nextId \in Nat /\ bind \subseteq Nat \X Topics /\ toServer \in Seq(Request)
  BY DEF Typed, TypeOK
<1>2. /\ Cardinality(new) \in Nat /\ new \in SUBSET (Nat \X ChanIds)
      /\ \A s \in new : s[1] \in Nat /\ s[2] \in cs
  <2>1. /\ Cardinality(new) \in Nat /\ new \subseteq Nat \X ChanIds
        /\ \A s \in new : s[2] \in cs
    BY <1>1, Registered
  <2> QED
    BY <2>1
<1>3. nextId' \in Nat
  BY <1>1, <1>2 DEF TakeIds
<1>4. \A b \in bind' : b \in Nat \X Topics
  <2> TAKE b \in bind'
  <2>1. b \in bind \/ \E s \in new : b = <<s[1], f[s[2]]>>
    BY Bindings
  <2> QED
    BY <1>1, <1>2, <2>1
<1> QED
  BY <1>1, <1>2, <1>3, <1>4, SendAsks

(* Subscribing to channels of which the catalog used is right keeps every parser with
   the subscriptions and frames of its topic. *)
LEMMA SubscribingMatches ==
  ASSUME Typed, NEW cs \in SUBSET ChanIds, NEW gone \in SUBSET (Nat \X ChanIds), NEW f,
         NEW ch, NEW hi, NEW new, new = registerSubscription(nextId, cs),
         \A c \in cs : Right(ch, hi, c, f[c]),
         Matched(ch, hi, table, toServer, bind, nextId, frames),
         bind' = bindChannel(gone, new, f), TakeIds(Cardinality(new)), Send(gone, new)
  PROVE  Matched(ch, hi, table, toServer', bind', nextId', frames)
<1>1. /\ nextId \in Nat /\ toServer \in Seq(Request)
      /\ bind \subseteq Nat \X Topics /\ table \subseteq Nat \X ChanIds /\ frames \in Seq(Frame)
  BY DEF Typed, TypeOK
<1> DEFINE m == nextId'
           old == table \cup Asked(toServer)
<1>2. /\ Cardinality(new) \in Nat /\ new \in SUBSET (Nat \X ChanIds)
      /\ \A s \in new : nextId <= s[1] /\ s[1] < nextId + Cardinality(new) /\ s[2] \in cs
      /\ \A s, r \in new : s[1] = r[1] => s = r
  BY <1>1, Registered
<1>3. m \in Nat /\ nextId <= m /\ m = nextId + Cardinality(new)
  BY <1>1, <1>2 DEF TakeIds
<1>4. /\ \A s \in new : s[1] \in Nat /\ ~(s[1] < nextId) /\ s[1] < m
      /\ \A s \in new : s[2] <= hi /\ ch[s[2]] \in {f[s[2]], None}
  BY <1>1, <1>2, <1>3 DEF Right
<1>5. \A b \in bind' : b \in bind \/ \E s \in new : b = <<s[1], f[s[2]]>> /\ b[1] = s[1] /\ b[2] = f[s[2]]
  <2>1. \A b \in bind' : b \in bind \/ \E s \in new : b = <<s[1], f[s[2]]>>
    BY Bindings
  <2> QED
    BY <2>1
<1>6. Asked(toServer') \subseteq Asked(toServer) \cup new
  BY <1>1, <1>2, SendAsks
<1>7. /\ \A s \in old : s[1] < nextId /\ s[1] \in Nat /\ s[2] <= hi
      /\ \A s \in table : ch[s[2]] # None
      /\ \A b \in bind : b[1] < nextId /\ b[1] \in Nat
      /\ \A i \in 1..Len(frames) : frames[i].sub < nextId /\ frames[i].sub \in Nat
      /\ \A s \in old, b \in bind : s[1] = b[1] => ch[s[2]] \in {b[2], None}
      /\ \A i \in 1..Len(frames), b \in bind : frames[i].sub = b[1] => frames[i].topic = b[2]
  <2>1. \A s \in old : s[1] \in Nat
    BY <1>1 DEF Asked
  <2>2. \A b \in bind : b[1] \in Nat
    BY <1>1
  <2>3. \A i \in 1..Len(frames) : frames[i].sub \in Nat
    <3>1. \A i \in 1..Len(frames) : frames[i] \in Frame
      BY <1>1
    <3> QED
      BY <3>1 DEF Frame
  <2> QED
    BY <2>1, <2>2, <2>3 DEF Matched
<1> HIDE DEF m, old
<1>8. /\ \A s \in old : s[1] < m
      /\ \A b \in bind : b[1] < m
      /\ \A i \in 1..Len(frames) : frames[i].sub < m
  BY <1>1, <1>3, <1>7
<1>9. \A b \in bind' : b[1] < m
  BY <1>4, <1>5, <1>8
<1>10. \A s \in old \cup new, b \in bind' : s[1] = b[1] => ch[s[2]] \in {b[2], None}
  <2> TAKE s \in old \cup new, b \in bind'
  <2> HAVE s[1] = b[1]
  <2>1. CASE b \in bind
    BY <1>4, <1>7, <2>1
  <2>2. CASE b \notin bind
    <3>1. PICK r \in new : b[1] = r[1] /\ b[2] = f[r[2]]
      BY <1>5, <2>2
    <3>2. s \in new /\ s[1] = r[1]
      BY <1>4, <1>7, <3>1
    <3>3. s = r
      BY <1>2, <3>2
    <3> QED
      BY <1>4, <3>1, <3>3
  <2> QED
    BY <2>1, <2>2
<1>11. \A i \in 1..Len(frames), b \in bind' : frames[i].sub = b[1] => frames[i].topic = b[2]
  BY <1>4, <1>5, <1>7
<1>12. table \cup Asked(toServer') \subseteq old \cup new /\ table \subseteq old
  BY <1>6 DEF old
<1> QED
  BY <1>4, <1>7, <1>8, <1>9, <1>10, <1>11, <1>12 DEF Matched, m

---------------------------------------------------------------------------
(***************************************************************************)
(* Catalogs.                                                               *)
(***************************************************************************)

(* Catalogs are merged into catalogs; the newer description wins. *)
LEMMA Merging ==
  ASSUME NEW f \in Channels, NEW g \in Channels
  PROVE  /\ Merge(f, g) \in Channels
         /\ \A c \in ChanIds : \/ Merge(f, g)[c] = g[c] /\ g[c] # None
                               \/ Merge(f, g)[c] = f[c] /\ g[c] = None
BY DEF Merge, Channels

(* The catalog of a connection that has just been made. *)
LEMMA EmptyCatalog == NoChannels \in Channels /\ \A c \in ChanIds : NoChannels[c] = None
BY DEF NoChannels, Channels

(* The filter lets a topic through or hides it. *)
LEMMA Filtering ==
  ASSUME NEW f \in Channels, NEW sel
  PROVE  /\ \A c \in ChanIds : filteredAdvertisedTopics(f, sel)[c] \in {f[c], None}
         /\ buildAvailableTopics(f, sel) \subseteq Topics
<1>1. \A c \in ChanIds : filteredAdvertisedTopics(f, sel)[c] \in {f[c], None}
  BY DEF filteredAdvertisedTopics
<1>2. \A c \in ChanIds : f[c] \in Topics \cup {None}
  BY DEF Channels
<1> QED
  BY <1>1, <1>2 DEF buildAvailableTopics

(* A channel whose topic is wanted has one. *)
LEMMA WantedHasTopic ==
  ASSUME NEW f \in Channels, NEW sel, NEW desired \in SUBSET Topics, NEW c \in ChanIds,
         filteredAdvertisedTopics(f, sel)[c] \in desired
  PROVE  f[c] \in Topics /\ f[c] \in desired /\ f[c] # None
BY Filtering, FoxgloveAssumption

(* What a user picks is on the list picked from. *)
LEMMA Selecting ==
  ASSUME NEW f \in Channels, NEW sel \in Selections(f)
  PROVE  /\ sel \subseteq ChanIds \X Topics
         /\ \A s \in sel : s[1] \in Known(f) /\ s[2] = f[s[1]]
<1>1. \A c \in Known(f) : c \in ChanIds /\ f[c] \in Topics
  BY DEF Known, Channels
<1>2. sel = {} \/ \E c \in Known(f) : sel = {<<c, f[c]>>}
  BY DEF Selections
<1> QED
  BY <1>1, <1>2

(* The catalog and the subscriptions a stream starts with. *)
LEMMA Starting ==
  ASSUME NEW sel, sel \subseteq ChanIds \X Topics, NEW seed \in Channels, StartStreaming(sel, seed)
  PROVE  \E cs \in SUBSET ChanIds :
           /\ demand' \in BOOLEAN /\ selected' = sel /\ adv' \in Channels /\ listed' \subseteq Topics
           /\ \A c \in ChanIds : adv'[c] = seed[c] \/ \E s \in sel : s[1] = c /\ s[2] = adv'[c]
           /\ \A c \in cs : adv'[c] \in Topics /\ \E s \in sel : s[2] = adv'[c]
           /\ \/ UNCHANGED <<subs, bind, nextId, toServer>>
              \/ SubscribeAll(cs, adv')
<1> DEFINE picked == {s \in sel : s[2] \in Supported}
           own == [c \in ChanIds |-> IF \E s \in picked : s[1] = c
                                     THEN (CHOOSE s \in picked : s[1] = c)[2] ELSE None]
           all(d) == IF d THEN seed ELSE Merge(seed, own)
           cs == {s[1] : s \in picked}
<1>1. PICK d \in Hosts :
        /\ demand' = d /\ selected' = sel /\ adv' = all(d)
        /\ listed' = IF d THEN buildAvailableTopics(seed, sel) ELSE {}
        /\ \/ d /\ UNCHANGED <<subs, bind, nextId, toServer>>
           \/ ~d /\ SubscribeAll(cs, all(d))
  BY DEF StartStreaming
<1>2. d \in BOOLEAN
  BY FoxgloveAssumption
<1>3. /\ cs \in SUBSET ChanIds /\ own \in Channels
      /\ \A c \in cs : own[c] \in Topics /\ \E s \in sel : s[1] = c /\ own[c] = s[2]
  <2>1. \A s \in picked : s[1] \in ChanIds /\ s[2] \in Topics /\ s \in sel
    OBVIOUS
  <2>2. ASSUME NEW c \in cs
        PROVE  c \in ChanIds /\ own[c] \in Topics /\ \E s \in sel : s[1] = c /\ own[c] = s[2]
    <3>1. PICK s \in picked : s[1] = c
      OBVIOUS
    <3>2. c \in ChanIds
      BY <2>1, <3>1
    <3> DEFINE r == CHOOSE x \in picked : x[1] = c
    <3>3. own[c] = r[2]
      BY <3>1, <3>2
    <3>4. r \in picked /\ r[1] = c
      BY <3>1
    <3> HIDE DEF r, own
    <3> QED
      BY <2>1, <3>2, <3>3, <3>4
  <2>3. own \in Channels
    <3>1. \A c \in ChanIds : own[c] \in Topics \cup {None}
      <4> TAKE c \in ChanIds
      <4>1. CASE c \in cs
        BY <2>2, <4>1
      <4>2. CASE c \notin cs
        BY <4>2
      <4> QED
        BY <4>1, <4>2
    <3>2. own = [c \in ChanIds |-> own[c]]
      OBVIOUS
    <3> HIDE DEF own
    <3> QED
      BY <3>1, <3>2 DEF Channels
  <2> HIDE DEF own, cs
  <2> QED
    BY <2>2, <2>3
<1> HIDE DEF own, cs
<1>4. all(d) \in Channels
  BY <1>3, Merging
<1>5. listed' \subseteq Topics
  BY <1>1, Filtering
<1>6. \A c \in ChanIds : all(d)[c] = seed[c] \/ \E s \in sel : s[1] = c /\ s[2] = all(d)[c]
  <2> TAKE c \in ChanIds
  <2>1. CASE d
    BY <2>1
  <2>2. CASE ~d /\ c \in cs
    BY <1>3, <2>2, FoxgloveAssumption, Merging
  <2>3. CASE ~d /\ c \notin cs
    <3>1. own[c] = None
      BY <2>3 DEF own, cs
    <3> QED
      BY <1>3, <2>3, <3>1, Merging
  <2> QED
    BY <2>1, <2>2, <2>3
<1>7. CASE d
  <2>1. {} \in SUBSET ChanIds
    OBVIOUS
  <2> QED
    BY <1>1, <1>2, <1>4, <1>5, <1>6, <1>7, <2>1
<1>8. CASE ~d
  <2>1. \A c \in cs : all(d)[c] \in Topics /\ \E s \in sel : s[2] = all(d)[c]
    <3>1. \A c \in cs : all(d)[c] = own[c]
      BY <1>3, <1>8, FoxgloveAssumption, Merging
    <3> QED
      BY <1>3, <3>1
  <2> HIDE DEF all
  <2> QED
    BY <1>1, <1>2, <1>3, <1>4, <1>5, <1>6, <1>8, <2>1
<1> QED
  BY <1>2, <1>7, <1>8

(* The start of a stream keeps the types. *)
LEMMA StartingTypes ==
  ASSUME Typed, NEW sel, sel \subseteq ChanIds \X Topics, NEW seed \in Channels, StartStreaming(sel, seed)
  PROVE  /\ demand' \in BOOLEAN /\ selected' = sel /\ adv' \in Channels /\ listed' \subseteq Topics
         /\ subs' \subseteq Nat \X ChanIds /\ bind' \subseteq Nat \X Topics /\ nextId' \in Nat
         /\ toServer' \in Seq(Request)
<1>1. PICK cs \in SUBSET ChanIds :
        /\ demand' \in BOOLEAN /\ selected' = sel /\ adv' \in Channels /\ listed' \subseteq Topics
        /\ \A c \in cs : adv'[c] \in Topics
        /\ UNCHANGED <<subs, bind, nextId, toServer>> \/ SubscribeAll(cs, adv')
  BY Starting
<1>2. TypeOK /\ toServer \in Seq(Request)
  BY DEF Typed
<1>3. CASE UNCHANGED <<subs, bind, nextId, toServer>>
  BY <1>1, <1>2, <1>3 DEF TypeOK
<1>4. CASE SubscribeAll(cs, adv')
  <2> DEFINE new == registerSubscription(nextId, cs)
  <2>1. /\ subs' = subs \cup new /\ bind' = bindChannel({}, new, adv')
        /\ TakeIds(Cardinality(new)) /\ Send({}, new)
    BY <1>4 DEF SubscribeAll
  <2>2. {} \in SUBSET (Nat \X ChanIds) /\ new = registerSubscription(nextId, cs)
    OBVIOUS
  <2> HIDE DEF new
  <2>3. /\ new \subseteq Nat \X ChanIds /\ bind' \subseteq Nat \X Topics /\ nextId' \in Nat
        /\ toServer' \in Seq(Request)
    BY <1>1, <2>1, <2>2, SubscribingTypes
  <2> QED
    BY <1>1, <1>2, <2>1, <2>3 DEF TypeOK
<1> QED
  BY <1>1, <1>3, <1>4

(* A stream that starts with a right catalog and selection, and without frames, has a
   right catalog and its parsers match. *)
LEMMA StartingMatches ==
  ASSUME Typed, NEW sel, sel \subseteq ChanIds \X Topics, NEW seed \in Channels, StartStreaming(sel, seed),
         NEW ch, NEW hi, frames = <<>>, table = {}, toServer = <<>>, bind = {},
         \A c \in Known(seed) : Right(ch, hi, c, seed[c]),
         \A s \in sel : Right(ch, hi, s[1], s[2])
  PROVE  /\ \A c \in ChanIds : adv'[c] # None => Right(ch, hi, c, adv'[c])
         /\ Matched(ch, hi, table, toServer', bind', nextId', frames)
<1>1. PICK cs \in SUBSET ChanIds :
        /\ adv' \in Channels
        /\ \A c \in ChanIds : adv'[c] = seed[c] \/ \E s \in sel : s[1] = c /\ s[2] = adv'[c]
        /\ \A c \in cs : adv'[c] \in Topics
        /\ UNCHANGED <<subs, bind, nextId, toServer>> \/ SubscribeAll(cs, adv')
  BY Starting
<1>2. \A c \in ChanIds : adv'[c] # None => Right(ch, hi, c, adv'[c])
  BY <1>1 DEF Known
<1>3. Matched(ch, hi, table, toServer, bind, nextId, frames)
  <2>1. Len(frames) = 0 /\ 1..0 = {} /\ Asked(toServer) = {}
    BY AskingNothing
  <2> QED
    BY <2>1 DEF Matched
<1>4. CASE UNCHANGED <<subs, bind, nextId, toServer>>
  BY <1>2, <1>3, <1>4
<1>5. CASE SubscribeAll(cs, adv')
  <2> DEFINE new == registerSubscription(nextId, cs)
  <2>1. bind' = bindChannel({}, new, adv') /\ TakeIds(Cardinality(new)) /\ Send({}, new)
    BY <1>5 DEF SubscribeAll
  <2>2. {} \in SUBSET (Nat \X ChanIds) /\ new = registerSubscription(nextId, cs)
    OBVIOUS
  <2>3. \A c \in cs : Right(ch, hi, c, adv'[c])
    BY <1>1, <1>2, FoxgloveAssumption
  <2> HIDE DEF new
  <2> QED
    BY <1>2, <1>3, <2>1, <2>2, <2>3, SubscribingMatches
<1> QED
  BY <1>1, <1>4, <1>5

(* A wanted set is followed: every channel of a wanted topic is subscribed. *)
LEMMA Reconciling ==
  ASSUME Typed, NEW f \in Channels, NEW desired \in SUBSET Topics, reconcileSubscriptions(f, desired)
  PROVE  /\ subs' \subseteq Nat \X ChanIds /\ bind' \subseteq Nat \X Topics /\ nextId' \in Nat
         /\ toServer' \in Seq(Request)
         /\ pc # "off" /\ link # "open" => toServer' = toServer
         /\ \A c \in ChanIds : filteredAdvertisedTopics(f, selected)[c] \in desired
                                 => \E s \in subs' : s[2] = c
<1> DEFINE shown == filteredAdvertisedTopics(f, selected)
           cs == to_subscribe(f, desired)
           gone == to_unsubscribe(f, desired)
           new == registerSubscription(nextId, cs)
<1>1. /\ subs' = (subs \ gone) \cup new /\ bind' = bindChannel(gone, new, f)
      /\ TakeIds(Cardinality(new)) /\ Send(gone, new)
  BY DEF reconcileSubscriptions
<1>2. subs \subseteq Nat \X ChanIds /\ nextId \in Nat
  BY DEF Typed, TypeOK
<1>3. /\ cs \in SUBSET ChanIds /\ gone \in SUBSET (Nat \X ChanIds) /\ new = registerSubscription(nextId, cs)
      /\ \A c \in cs : shown[c] \in desired
      /\ \A c \in ChanIds : shown[c] \in desired => c \in cs \/ \E s \in subs : s[2] = c
      /\ \A s \in gone : shown[s[2]] \notin desired
  BY <1>2 DEF to_subscribe, to_unsubscribe
<1> HIDE DEF shown, cs, gone, new
<1>4. \A c \in cs : f[c] \in Topics
  BY <1>3, WantedHasTopic DEF shown
<1>5. /\ new \subseteq Nat \X ChanIds /\ bind' \subseteq Nat \X Topics /\ nextId' \in Nat
      /\ toServer' \in Seq(Request) /\ (pc # "off" /\ link # "open" => toServer' = toServer)
  BY <1>1, <1>3, <1>4, SubscribingTypes
<1>6. \A c \in cs : \E s \in new : s[2] = c
  BY <1>2, <1>3, Registered
<1>7. \A c \in ChanIds : shown[c] \in desired => \E s \in subs' : s[2] = c
  BY <1>1, <1>3, <1>6
<1> QED
  BY <1>1, <1>2, <1>5, <1>7 DEF shown

(* Following a wanted set matches, if the catalog is right where it subscribes. *)
LEMMA ReconcilingMatches ==
  ASSUME Typed, NEW f \in Channels, NEW desired \in SUBSET Topics, reconcileSubscriptions(f, desired),
         \A c \in ChanIds : filteredAdvertisedTopics(f, selected)[c] \in desired
                              /\ (\A s \in subs : s[2] # c) => Right(chans, top, c, f[c]),
         Matched(chans, top, table, toServer, bind, nextId, frames)
  PROVE  Matched(chans, top, table, toServer', bind', nextId', frames)
<1> DEFINE cs == to_subscribe(f, desired)
           gone == to_unsubscribe(f, desired)
           new == registerSubscription(nextId, cs)
<1>1. bind' = bindChannel(gone, new, f) /\ TakeIds(Cardinality(new)) /\ Send(gone, new)
  BY DEF reconcileSubscriptions
<1>2. subs \subseteq Nat \X ChanIds
  BY DEF Typed, TypeOK
<1>3. /\ cs \in SUBSET ChanIds /\ gone \in SUBSET (Nat \X ChanIds) /\ new = registerSubscription(nextId, cs)
      /\ \A c \in cs : Right(chans, top, c, f[c])
  BY <1>2 DEF to_subscribe, to_unsubscribe
<1> HIDE DEF cs, gone, new
<1> QED
  BY <1>1, <1>3, SubscribingMatches

---------------------------------------------------------------------------
(***************************************************************************)
(* Type correctness.                                                       *)
(***************************************************************************)

(* Queues that were drained are queues. *)
LEMMA EmptyQueues == <<>> \in Seq(Text) /\ <<>> \in Seq(Frame) /\ <<>> \in Seq(Request)
OBVIOUS

(* The server's channels and its burst on a new connection. *)
LEMMA Worldly ==
  ASSUME Typed, NEW w \in Worlds \cup {chans}, NEW hi, hi = IF w = chans THEN top ELSE Highest(w)
  PROVE  /\ w \in Channels /\ hi \in Nat
         /\ Burst(texts, w) \in Seq(Text)
         /\ \A c \in ChanIds, t \in Topics : Says(Burst(texts, w), c, t) => Says(texts, c, t) \/ w[c] = t
         /\ (\A c \in Known(chans) : c <= top) => \A c \in Known(w) : c <= hi
<1>1. w \in Channels
  BY FoxgloveAssumption DEF Typed, TypeOK, Channels
<1>2. hi \in Nat
  BY <1>1, HighestIsHighest DEF Typed, TypeOK
<1>3. [op |-> "advertise", of |-> w] \in Text
  BY <1>1 DEF Text
<1>4. texts \in Seq(Text)
  BY DEF Typed
<1>5. Burst(texts, w) \in Seq(Text)
  BY <1>3, <1>4 DEF Burst
<1>6. \A c \in ChanIds, t \in Topics : Says(Burst(texts, w), c, t) => Says(texts, c, t) \/ w[c] = t
  <2> TAKE c \in ChanIds, t \in Topics
  <2> HAVE Says(Burst(texts, w), c, t)
  <2>1. CASE Known(w) = {}
    BY <2>1 DEF Burst
  <2>2. CASE Known(w) # {}
    <3> DEFINE e == [op |-> "advertise", of |-> w]
    <3>1. Says(Append(texts, e), c, t)
      BY <2>2 DEF Burst
    <3>2. e.of = w
      OBVIOUS
    <3>3. e \in Text
      BY <1>3
    <3> HIDE DEF e
    <3> QED
      BY <1>4, <3>1, <3>2, <3>3, SayingMore
  <2> QED
    BY <2>1, <2>2
<1>7. (\A c \in Known(chans) : c <= top) => \A c \in Known(w) : c <= hi
  BY <1>1, HighestIsHighest
<1> QED
  BY <1>1, <1>2, <1>5, <1>6, <1>7

(* The types as separate facts. *)
LEMMA TypedFacts ==
  ASSUME Typed
  PROVE  /\ adv \in Channels /\ found \in Channels /\ chans \in Channels
         /\ nextId \in Nat /\ top \in Nat /\ tick \in Nat
         /\ subs \subseteq Nat \X ChanIds /\ table \subseteq Nat \X ChanIds
         /\ bind \subseteq Nat \X Topics /\ selected \subseteq ChanIds \X Topics
         /\ lastDesired \subseteq Topics /\ listed \subseteq Topics
         /\ slot # None => slot \in Asks /\ slot \subseteq Topics
         /\ texts \in Seq(Text) /\ batch \in Seq(Text)
         /\ frames \in Seq(Frame) /\ toServer \in Seq(Request)
<1>1. /\ {adv, found, chans} \subseteq Channels /\ {nextId, top} \subseteq Nat
      /\ tick \in 0..Ticks /\ Ticks \in Nat
  BY FoxgloveAssumption DEF Typed, TypeOK, Channels
<1>2. adv \in Channels /\ found \in Channels /\ chans \in Channels /\ nextId \in Nat /\ top \in Nat
  BY <1>1
<1>3. tick \in Nat
  BY <1>1
<1>4. slot \in Asks \cup {None} /\ Asks \subseteq SUBSET Topics
  BY FoxgloveAssumption DEF Typed, TypeOK
<1>5. slot # None => slot \in Asks /\ slot \subseteq Topics
  BY <1>4
<1> QED
  BY <1>2, <1>3, <1>5 DEF Typed, TypeOK

(* The types hold initially. *)
LEMMA TypedInit == Init => Typed
<1> SUFFICES ASSUME Init PROVE Typed
  OBVIOUS
<1>1. NoChannels \in Channels
  BY EmptyCatalog
<1>2. chans \in Channels
  BY FoxgloveAssumption DEF Init, Channels
<1>3. top \in Nat
  BY <1>2, HighestIsHighest DEF Init
<1>4. {adv, found, chans} \subseteq [ChanIds -> Topics \cup {None}] /\ {nextId, top} \subseteq Nat
  BY <1>1, <1>2, <1>3 DEF Init, Channels
<1>5. tick \in 0..Ticks
  BY FoxgloveAssumption DEF Init
<1> QED
  BY <1>4, <1>5, EmptyQueues DEF Init, Typed, TypeOK

(* The dialog's connection keeps the types. *)
LEMMA TypedOnDialog ==
  ASSUME Typed, connectToServer \/ disconnect
  PROVE  Typed'
<1>1. found' \in Channels
  BY TypedFacts, Merging, EmptyCatalog DEF connectToServer, disconnect
<1>2. {adv, found, chans}' \subseteq [ChanIds -> Topics \cup {None}]
  BY <1>1, TypedFacts DEF connectToServer, disconnect, client, server, Channels
<1>3. link' \in {"none", "connecting", "open", "closed"} /\ auto' \in BOOLEAN
  BY DEF connectToServer, disconnect, Typed, TypeOK
<1> QED
  BY <1>2, <1>3 DEF connectToServer, disconnect, client, queues, server, Typed, TypeOK

(* onStart keeps the types, on the dialog's socket or on one of its own. *)
LEMMA TypedOnStart ==
  ASSUME Typed, Races = {}, StartStolen \/ StartFresh
  PROVE  Typed'
<1>1. /\ \E w \in Channels : \E sel \in Selections(w) : StartStreaming(sel, found)
      /\ chans' \in Channels /\ top' \in Nat /\ texts' \in Seq(Text)
      /\ link' \in {"none", "connecting", "open", "closed"}
      /\ auto' \in BOOLEAN /\ (table' = table \/ table' = {})
  <2>1. CASE StartStolen
    <3>1. PICK sel \in Selections(found) : StartStreaming(sel, found)
      BY <2>1 DEF StartStolen
    <3>2. UNCHANGED <<chans, top, texts, link, auto, table>>
      BY <2>1 DEF StartStolen, queues
    <3>3. link \in {"none", "connecting", "open", "closed"} /\ auto \in BOOLEAN
      BY DEF Typed, TypeOK
    <3>4. found \in Channels /\ chans' \in Channels /\ top' \in Nat /\ texts' \in Seq(Text)
      BY <3>2, TypedFacts
    <3> QED
      BY <3>1, <3>2, <3>3, <3>4
  <2>2. CASE StartFresh
    <3>1. PICK w \in Worlds \cup {chans} : Opens(w) /\ \E sel \in Saved(w) : StartStreaming(sel, found)
      BY <2>2 DEF StartFresh
    <3>2. PICK sel \in Saved(w) : StartStreaming(sel, found)
      BY <3>1
    <3>3. sel \in Selections(w)
      BY <3>2 DEF Saved
    <3> DEFINE hi == IF w = chans THEN top ELSE Highest(w)
    <3>4. w \in Channels /\ hi \in Nat /\ Burst(texts, w) \in Seq(Text)
      BY Worldly
    <3>5. /\ chans' = w /\ top' = hi /\ texts' = Burst(texts, w) /\ table' = {}
          /\ link' = "open" /\ auto' = FALSE
      BY <2>2, <3>1 DEF StartFresh, Opens
    <3> HIDE DEF hi
    <3>6. /\ chans' \in Channels /\ top' \in Nat /\ texts' \in Seq(Text)
          /\ link' \in {"none", "connecting", "open", "closed"} /\ auto' \in BOOLEAN
      BY <3>4, <3>5
    <3> QED
      BY <3>2, <3>3, <3>4, <3>5, <3>6
  <2> QED
    BY <2>1, <2>2
<1>2. PICK sel : sel \subseteq ChanIds \X Topics /\ StartStreaming(sel, found)
  BY <1>1, Selecting
<1>3. /\ demand' \in BOOLEAN /\ selected' = sel /\ adv' \in Channels /\ listed' \subseteq Topics
      /\ subs' \subseteq Nat \X ChanIds /\ bind' \subseteq Nat \X Topics /\ nextId' \in Nat
      /\ toServer' \in Seq(Request)
  BY <1>1, <1>2, TypedFacts, StartingTypes
<1>4. /\ pc' = "starting" /\ UNCHANGED <<connected, pending, tick, slot, lastDesired, batch, frames, found>>
  BY DEF StartStolen, StartFresh, queues
<1>5. {adv, found, chans}' \subseteq [ChanIds -> Topics \cup {None}] /\ {nextId, top}' \subseteq Nat
  BY <1>1, <1>3, <1>4, TypedFacts DEF Channels
<1>6. (subs \cup table)' \subseteq Nat \X ChanIds
  BY <1>1, <1>3, TypedFacts
<1>7. {connected, pending, demand, auto}' \subseteq BOOLEAN
  BY <1>1, <1>3, <1>4 DEF Typed, TypeOK
<1> QED
  BY <1>1, <1>2, <1>3, <1>4, <1>5, <1>6, <1>7 DEF Typed, TypeOK

(* So do the end of onStart, the host's calls and onStop. *)
LEMMA TypedOnCalls ==
  ASSUME Typed, StartEnds \/ setActiveTopics \/ onStop
  PROVE  Typed'
<1>1. CASE StartEnds
  BY <1>1 DEF StartEnds, queues, server, Typed, TypeOK
<1>2. CASE setActiveTopics
  BY <1>2 DEF setActiveTopics, queues, server, Typed, TypeOK
<1>3. CASE onStop
  <2>1. {adv, found, chans}' \subseteq [ChanIds -> Topics \cup {None}] /\ {nextId, top}' \subseteq Nat
    BY <1>3, TypedFacts, EmptyCatalog DEF onStop, Channels
  <2>2. /\ pc' \in {"off"} /\ link' \in {"none"} /\ subs' = {} /\ table' = {} /\ bind' = {} /\ selected' = {}
        /\ lastDesired' = {} /\ slot' = None /\ listed' = {} /\ toServer' = <<>>
        /\ connected' = FALSE /\ demand' = FALSE
        /\ UNCHANGED <<pending, tick, texts, batch, frames, auto>>
    BY <1>3 DEF onStop, queues
  <2> QED
    BY <2>1, <2>2, EmptyQueues DEF Typed, TypeOK
<1> QED
  BY <1>1, <1>2, <1>3

(* The head and the rest of the texts taken. *)
LEMMA FirstText ==
  ASSUME Typed, batch # <<>>
  PROVE  /\ Head(batch) \in Text /\ Tail(batch) \in Seq(Text)
         /\ Head(batch).op = "advertise" => Head(batch).of \in Channels
         /\ Head(batch).op = "unadvertise" => Head(batch).of \in ChanIds
<1>1. Head(batch) \in Text /\ Tail(batch) \in Seq(Text)
  BY DEF Typed
<1> QED
  BY <1>1 DEF Text

(* An advertise keeps the types, in demand and in legacy mode. *)
LEMMA TypedOnAdvertise ==
  ASSUME Typed, advertise
  PROVE  Typed'
<1> DEFINE of == Head(batch).of
           all == Merge(adv, of)
           picked == {c \in Known(of) : of[c] \in Supported /\ \E s \in selected : s[2] = of[c]}
<1>1. /\ pc = "text" /\ batch # <<>> /\ Head(batch).op = "advertise" /\ batch' = Tail(batch)
      /\ adv' = all
      /\ \/ reconcileSubscriptions(all, lastDesired) /\ listed' = buildAvailableTopics(all, selected)
         \/ SubscribeAll(picked, all) /\ listed' = listed
      /\ UNCHANGED <<pc, connected, pending, tick, demand, selected, slot, lastDesired, texts, frames,
                     found, link, auto, chans, top, table>>
  BY DEF advertise
<1>2. of \in Channels /\ adv \in Channels /\ Tail(batch) \in Seq(Text)
  BY <1>1, FirstText, TypedFacts
<1>3. all \in Channels
  BY <1>2, Merging
<1>4. /\ picked \in SUBSET ChanIds
      /\ \A c \in picked : all[c] \in Topics
  <2>1. \A c \in picked : c \in ChanIds /\ of[c] # None
    BY DEF Known
  <2>2. \A c \in picked : all[c] = of[c] /\ of[c] \in Topics
    BY <1>2, <2>1, Merging DEF Channels
  <2> HIDE DEF picked, all
  <2> QED
    BY <2>1, <2>2
<1> HIDE DEF of, all, picked
<1>5. /\ subs' \subseteq Nat \X ChanIds /\ bind' \subseteq Nat \X Topics /\ nextId' \in Nat
      /\ toServer' \in Seq(Request) /\ listed' \subseteq Topics
  <2>1. CASE reconcileSubscriptions(all, lastDesired) /\ listed' = buildAvailableTopics(all, selected)
    BY <1>3, <2>1, TypedFacts, Filtering, Reconciling
  <2>2. CASE SubscribeAll(picked, all) /\ listed' = listed
    <3> DEFINE new == registerSubscription(nextId, picked)
    <3>1. /\ subs' = subs \cup new /\ bind' = bindChannel({}, new, all)
          /\ TakeIds(Cardinality(new)) /\ Send({}, new)
      BY <2>2 DEF SubscribeAll
    <3>2. {} \in SUBSET (Nat \X ChanIds) /\ new = registerSubscription(nextId, picked)
      OBVIOUS
    <3> HIDE DEF new
    <3>3. /\ new \subseteq Nat \X ChanIds /\ bind' \subseteq Nat \X Topics /\ nextId' \in Nat
          /\ toServer' \in Seq(Request)
      BY <1>4, <3>1, <3>2, SubscribingTypes
    <3> QED
      BY <2>2, <3>1, <3>3, TypedFacts
  <2> QED
    BY <1>1, <2>1, <2>2
<1>6. {adv, found, chans}' \subseteq [ChanIds -> Topics \cup {None}] /\ {nextId, top}' \subseteq Nat
  BY <1>1, <1>3, <1>5, TypedFacts DEF Channels
<1> QED
  BY <1>1, <1>2, <1>5, <1>6 DEF Typed, TypeOK

(* An unadvertise keeps the types. *)
LEMMA TypedOnUnadvertise ==
  ASSUME Typed, unadvertise
  PROVE  Typed'
<1> DEFINE c == Head(batch).of
<1>1. /\ batch # <<>> /\ Head(batch).op = "unadvertise" /\ batch' = Tail(batch)
      /\ adv' = [adv EXCEPT ![c] = None]
      /\ subs' \subseteq subs /\ bind' \subseteq bind
      /\ listed' \in {listed, buildAvailableTopics(adv', selected)}
      /\ UNCHANGED <<pc, connected, pending, tick, demand, selected, nextId, slot, lastDesired, texts,
                     frames, found, link, auto, chans, top, table, toServer>>
  BY DEF unadvertise, server
<1>2. c \in ChanIds /\ Tail(batch) \in Seq(Text)
  BY <1>1, FirstText
<1>3. adv' \in Channels
  BY <1>1, <1>2, TypedFacts DEF Channels
<1>4. listed' \subseteq Topics
  BY <1>1, <1>3, TypedFacts, Filtering
<1>5. {adv, found, chans}' \subseteq [ChanIds -> Topics \cup {None}]
  BY <1>1, <1>3, TypedFacts DEF Channels
<1> QED
  BY <1>1, <1>2, <1>4, <1>5 DEF Typed, TypeOK

(* The other steps of the poll keep the types. *)
LEMMA TypedOnPoll ==
  ASSUME Typed, PollConnection \/ PollReset \/ TakeTexts \/ applyDesiredTopics \/ PollFrames
  PROVE  Typed'
<1>1. CASE PollConnection
  <2>1. /\ UNCHANGED <<connected, demand, selected, adv, subs, bind, nextId, slot, lastDesired, listed,
                       texts, batch, frames, found, auto, chans, top>>
        /\ pc' \in {"reset", "drain"}
        /\ pending' \in {pending, FALSE, TRUE}
        /\ link' \in {link, "connecting"}
        /\ tick' \in {tick, 0} \/ (tick + 1 < Ticks /\ tick' = tick + 1)
        /\ table' \in {table, {}} /\ toServer' \in {toServer, <<>>}
    BY <1>1 DEF PollConnection, AttemptFailed, queues
  <2>2. tick' \in 0..Ticks
    BY <2>1, FoxgloveAssumption DEF Typed, TypeOK
  <2>3. {connected, pending, demand, auto}' \subseteq BOOLEAN
    BY <2>1 DEF Typed, TypeOK
  <2>4. toServer' \in Seq(Request)
    BY <2>1, EmptyQueues DEF Typed
  <2> QED
    BY <2>1, <2>2, <2>3, <2>4 DEF Typed, TypeOK
<1>2. CASE PollReset
  <2>1. {adv, found, chans}' \subseteq [ChanIds -> Topics \cup {None}] /\ {nextId, top}' \subseteq Nat
    BY <1>2, TypedFacts, EmptyCatalog DEF PollReset, ForgetConnection, server, Channels
  <2>2. tick' \in 0..Ticks
    BY <1>2, FoxgloveAssumption DEF PollReset
  <2> QED
    BY <1>2, <2>1, <2>2 DEF PollReset, ForgetConnection, queues, server, Typed, TypeOK
<1>3. CASE TakeTexts
  BY <1>3, EmptyQueues DEF TakeTexts, client, server, Typed, TypeOK
<1>4. CASE applyDesiredTopics
  <2>1. /\ pc' = "frames"
        /\ UNCHANGED <<connected, pending, tick, demand, selected, adv, listed, texts, batch, frames,
                       found, link, auto, chans, top, table>>
    BY <1>4 DEF applyDesiredTopics, queues
  <2>2. CASE /\ slot # None /\ lastDesired' = slot /\ slot' = None
             /\ reconcileSubscriptions(adv, slot)
    <3>1. /\ subs' \subseteq Nat \X ChanIds /\ bind' \subseteq Nat \X Topics /\ nextId' \in Nat
          /\ toServer' \in Seq(Request) /\ slot \subseteq Topics
      BY <2>2, TypedFacts, Reconciling
    <3>2. {nextId, top}' \subseteq Nat
      BY <2>1, <3>1, TypedFacts
    <3> QED
      BY <2>1, <2>2, <3>1, <3>2 DEF Typed, TypeOK
  <2>3. CASE UNCHANGED <<lastDesired, slot, subs, bind, nextId, toServer>>
    BY <2>1, <2>3 DEF Typed, TypeOK
  <2> QED
    BY <1>4, <2>2, <2>3 DEF applyDesiredTopics
<1>5. CASE PollFrames
  BY <1>5, EmptyQueues DEF PollFrames, client, server, Typed, TypeOK
<1> QED
  BY <1>1, <1>2, <1>3, <1>4, <1>5

(* Losing, regaining and failing to regain a connection keeps the types. *)
LEMMA TypedOnSocket ==
  ASSUME Typed, Close \/ Open \/ AttemptFails
  PROVE  Typed'
<1>1. CASE Close
  <2>1. /\ found' \in {found, NoChannels} /\ link' = "closed" /\ table' = {} /\ toServer' = <<>>
        /\ connected' \in {connected, FALSE}
        /\ UNCHANGED <<pc, pending, tick, demand, selected, adv, subs, bind, nextId, slot, lastDesired,
                       listed, texts, batch, frames, auto, chans, top>>
    BY <1>1 DEF Close, onDisconnected, queues
  <2>2. {adv, found, chans}' \subseteq [ChanIds -> Topics \cup {None}]
    BY <2>1, TypedFacts, EmptyCatalog DEF Channels
  <2>3. {connected, pending, demand, auto}' \subseteq BOOLEAN
    BY <2>1 DEF Typed, TypeOK
  <2> QED
    BY <2>1, <2>2, <2>3, EmptyQueues DEF Typed, TypeOK
<1>2. CASE Open
  <2>1. PICK w \in Worlds \cup {chans} :
          /\ link' = "open" /\ chans' = w /\ top' = (IF w = chans THEN top ELSE Highest(w))
          /\ texts' \in {texts, Burst(texts, w)} /\ found' \in {w, found}
    BY <1>2 DEF Open
  <2>2. /\ table' = {}
        /\ UNCHANGED <<pc, connected, pending, tick, demand, selected, adv, subs, bind, nextId, slot,
                       lastDesired, listed, batch, frames, auto, toServer>>
    BY <1>2 DEF Open, client
  <2>3. w \in Channels /\ top' \in Nat /\ Burst(texts, w) \in Seq(Text)
    BY <2>1, Worldly
  <2>4. {adv, found, chans}' \subseteq [ChanIds -> Topics \cup {None}] /\ {nextId, top}' \subseteq Nat
    BY <2>1, <2>2, <2>3, TypedFacts DEF Channels
  <2>5. texts' \in Seq(Text)
    BY <2>1, <2>3, TypedFacts
  <2> QED
    BY <2>1, <2>2, <2>4, <2>5 DEF Typed, TypeOK
<1>3. CASE AttemptFails
  BY <1>3 DEF AttemptFails, client, queues, server, Typed, TypeOK
<1> QED
  BY <1>1, <1>2, <1>3

(* The server never streams a channel that it does not have. *)
LEMMA StreamsItsOwn ==
  ASSUME LinkInv, FrameInv
  PROVE  \A s \in table : chans[s[2]] # None
BY DEF LinkInv, FrameInv, Matched

(* A frame that arrives carries the topic of a channel of the server. *)
LEMMA FrameArrives ==
  ASSUME Typed, LinkInv, FrameInv, NEW s \in table,
         frames' = Append(frames, [sub |-> s[1], topic |-> chans[s[2]]])
  PROVE  /\ [sub |-> s[1], topic |-> chans[s[2]]] \in Frame
         /\ frames' \in Seq(Frame)
<1>1. s[1] \in Nat /\ s[2] \in ChanIds /\ chans \in Channels /\ frames \in Seq(Frame)
  BY TypedFacts
<1>2. chans[s[2]] # None
  BY StreamsItsOwn
<1>3. chans[s[2]] \in Topics
  BY <1>1, <1>2 DEF Channels
<1>4. [sub |-> s[1], topic |-> chans[s[2]]] \in Frame
  BY <1>1, <1>3 DEF Frame
<1> QED
  BY <1>1, <1>4

(* A text that arrives joins the queue. *)
LEMMA TextArrives ==
  ASSUME NEW q \in Seq(Text), NEW e \in Text
  PROVE  Append(q, e) \in Seq(Text)
OBVIOUS

(* The channel a server adds, and the text that announces it. *)
LEMMA Adding ==
  ASSUME Typed, AddChannel
  PROVE  \E t \in Topics :
           LET one == [NoChannels EXCEPT ![top + 1] = t]
               e == [op |-> "advertise", of |-> one]
           IN  /\ top + 1 \in ChanIds /\ top' = top + 1 /\ link = "open"
               /\ chans' = [chans EXCEPT ![top + 1] = t] /\ chans' \in Channels
               /\ one \in Channels /\ e \in Text
               /\ \/ texts' = texts /\ found' = Merge(one, found) /\ pc = "off"
                  \/ texts' = Append(texts, e) /\ found' = found
<1>1. PICK t \in Topics :
        /\ chans' = [chans EXCEPT ![top'] = t]
        /\ \/ /\ DialogOwns
              /\ found' = Merge([NoChannels EXCEPT ![top'] = t], found)
              /\ UNCHANGED texts
           \/ /\ ~DialogOwns
              /\ texts' = Append(texts, [op |-> "advertise", of |-> [NoChannels EXCEPT ![top'] = t]])
              /\ UNCHANGED found
  BY DEF AddChannel
<1>2. top + 1 \in ChanIds /\ top' = top + 1 /\ link = "open"
  BY DEF AddChannel
<1> DEFINE one == [NoChannels EXCEPT ![top + 1] = t]
           e == [op |-> "advertise", of |-> one]
<1>3. one \in Channels /\ [chans EXCEPT ![top + 1] = t] \in Channels
  BY <1>2, EmptyCatalog, TypedFacts DEF Channels
<1>4. e \in Text
  <2> HIDE DEF one
  <2> QED
    BY <1>3 DEF Text
<1>5. \/ texts' = texts /\ found' = Merge(one, found) /\ pc = "off"
      \/ texts' = Append(texts, e) /\ found' = found
  BY <1>1, <1>2 DEF DialogOwns
<1> QED
  BY <1>1, <1>2, <1>3, <1>4, <1>5

(* The server's steps keep the types. *)
LEMMA TypedOnServer ==
  ASSUME Typed, LinkInv, FrameInv, AddChannel \/ RemoveChannel \/ ServerHandles \/ onBinaryMessage
  PROVE  Typed'
<1>1. CASE AddChannel
  <2>1. /\ chans' \in Channels /\ top' \in Nat
        /\ \E one \in Channels, e \in Text :
             \/ texts' = texts /\ found' = Merge(one, found)
             \/ texts' = Append(texts, e) /\ found' = found
    <3>1. PICK t \in Topics :
            LET one == [NoChannels EXCEPT ![top + 1] = t]
                e == [op |-> "advertise", of |-> one]
            IN  /\ top + 1 \in ChanIds /\ top' = top + 1 /\ chans' \in Channels
                /\ one \in Channels /\ e \in Text
                /\ \/ texts' = texts /\ found' = Merge(one, found)
                   \/ texts' = Append(texts, e) /\ found' = found
      BY <1>1, Adding
    <3> DEFINE one == [NoChannels EXCEPT ![top + 1] = t]
               e == [op |-> "advertise", of |-> one]
    <3>2. /\ one \in Channels /\ e \in Text /\ chans' \in Channels
          /\ \/ texts' = texts /\ found' = Merge(one, found)
             \/ texts' = Append(texts, e) /\ found' = found
      BY <3>1
    <3>3. top' \in Nat
      BY <3>1, TypedFacts
    <3> HIDE DEF one, e
    <3> QED
      BY <3>2, <3>3
  <2>2. texts' \in Seq(Text) /\ found' \in Channels
    BY <2>1, TypedFacts, TextArrives, Merging
  <2>3. UNCHANGED <<pc, connected, pending, tick, demand, selected, adv, subs, bind, nextId, slot,
                    lastDesired, listed, batch, frames, link, auto, table, toServer>>
    BY <1>1 DEF AddChannel, client
  <2>4. {adv, found, chans}' \subseteq [ChanIds -> Topics \cup {None}] /\ {nextId, top}' \subseteq Nat
    BY <2>1, <2>2, <2>3, TypedFacts DEF Channels
  <2> QED
    BY <2>2, <2>3, <2>4 DEF Typed, TypeOK
<1>2. CASE RemoveChannel
  <2>1. PICK c \in Known(chans) :
          /\ chans' = [chans EXCEPT ![c] = None] /\ table' = {s \in table : s[2] # c}
          /\ texts' \in {texts, Append(texts, [op |-> "unadvertise", of |-> c])}
    BY <1>2 DEF RemoveChannel
  <2>2. UNCHANGED <<pc, connected, pending, tick, demand, selected, adv, subs, bind, nextId, slot,
                    lastDesired, listed, batch, frames, found, link, auto, top, toServer>>
    BY <1>2 DEF RemoveChannel, client
  <2>3. c \in ChanIds /\ chans' \in Channels
    <3>1. c \in ChanIds
      BY DEF Known
    <3> QED
      BY <2>1, <3>1, TypedFacts DEF Channels
  <2>4. [op |-> "unadvertise", of |-> c] \in Text
    BY <2>3 DEF Text
  <2>5. texts' \in Seq(Text)
    BY <2>1, <2>4, TypedFacts, TextArrives
  <2>6. {adv, found, chans}' \subseteq [ChanIds -> Topics \cup {None}]
    BY <2>2, <2>3, TypedFacts DEF Channels
  <2>7. (subs \cup table)' \subseteq Nat \X ChanIds
    BY <2>1, <2>2, TypedFacts
  <2> QED
    BY <2>2, <2>5, <2>6, <2>7 DEF Typed, TypeOK
<1>3. CASE ServerHandles
  <2>1. /\ toServer # <<>> /\ toServer' = Tail(toServer)
        /\ table' \subseteq table \cup Head(toServer).ss
        /\ UNCHANGED <<pc, connected, pending, tick, demand, selected, adv, subs, bind, nextId, slot,
                       lastDesired, listed, texts, batch, frames, found, link, auto, chans, top>>
    BY <1>3 DEF ServerHandles, client, queues
  <2>2. Head(toServer) \in Request /\ Tail(toServer) \in Seq(Request)
    BY <2>1, TypedFacts
  <2>3. Head(toServer).ss \subseteq Nat \X ChanIds
    BY <2>2 DEF Request
  <2>4. (subs \cup table)' \subseteq Nat \X ChanIds
    BY <2>1, <2>3, TypedFacts
  <2> QED
    BY <2>1, <2>2, <2>4 DEF Typed, TypeOK
<1>4. CASE onBinaryMessage
  <2>1. frames' \in Seq(Frame)
    BY <1>4, FrameArrives DEF onBinaryMessage
  <2> QED
    BY <1>4, <2>1 DEF onBinaryMessage, client, server, Typed, TypeOK
<1> QED
  BY <1>1, <1>2, <1>3, <1>4

(* Every step keeps the types. *)
LEMMA TypedStep ==
  ASSUME Races = {}, SourceInv, [Next]_vars
  PROVE  Typed'
<1>1. Typed /\ LinkInv /\ FrameInv
  BY DEF SourceInv
<1>2. CASE UNCHANGED vars
  BY <1>1, <1>2 DEF vars, client, queues, server, Typed, TypeOK
<1>3. CASE Next
  BY <1>1, <1>3, TypedOnDialog, TypedOnStart, TypedOnCalls, TypedOnAdvertise, TypedOnUnadvertise,
     TypedOnPoll, TypedOnSocket, TypedOnServer
     DEF Next, onPoll
<1> QED
  BY <1>2, <1>3

---------------------------------------------------------------------------
(***************************************************************************)
(* Connections: nothing of the last one is left when the ids start over.   *)
(***************************************************************************)

(* What the steps that may subscribe do to the requests under way. *)
LEMMA OnlyWhileOpen ==
  ASSUME Typed, advertise \/ applyDesiredTopics
  PROVE  link # "open" => toServer' = toServer
<1>1. CASE advertise
  <2> DEFINE of == Head(batch).of
             all == Merge(adv, of)
             picked == {c \in Known(of) : of[c] \in Supported /\ \E s \in selected : s[2] = of[c]}
  <2>1. /\ pc = "text" /\ batch # <<>> /\ Head(batch).op = "advertise"
        /\ reconcileSubscriptions(all, lastDesired) \/ SubscribeAll(picked, all)
    BY <1>1 DEF advertise
  <2>2. reconcileSubscriptions(all, lastDesired) /\ link # "open" => toServer' = toServer
    BY <2>1 DEF reconcileSubscriptions, Send
  <2>3. SubscribeAll(picked, all) /\ link # "open" => toServer' = toServer
    BY <2>1 DEF SubscribeAll, Send
  <2> QED
    BY <2>1, <2>2, <2>3
<1>2. CASE applyDesiredTopics
  <2>1. pc = "text" /\ (toServer' = toServer \/ reconcileSubscriptions(adv, slot))
    BY <1>2 DEF applyDesiredTopics
  <2> QED
    BY <2>1 DEF reconcileSubscriptions, Send
<1> QED
  BY <1>1, <1>2

(* No connection initially. *)
LEMMA LinkInit == Init => LinkInv
BY DEF Init, LinkInv

(* Every step keeps LinkInv. *)
LEMMA LinkStep ==
  ASSUME Races = {}, Typed, LinkInv, [Next]_vars
  PROVE  LinkInv'
<1>1. CASE connectToServer \/ disconnect
  BY <1>1 DEF connectToServer, disconnect, DialogOwns, client, queues, server, LinkInv
<1>2. CASE StartStolen
  <2>1. /\ pc = "off" /\ link = "open" /\ ~pending /\ frames = <<>> /\ pc' = "starting"
        /\ UNCHANGED <<connected, pending, batch, link>>
    BY <1>2 DEF StartStolen, DialogOwns, CleanStart, queues
  <2> QED
    BY <2>1 DEF LinkInv
<1>3. CASE StartFresh
  <2>1. /\ pc = "off" /\ link' = "open" /\ ~pending /\ pc' = "starting"
        /\ UNCHANGED <<connected, pending, batch>>
    BY <1>3 DEF StartFresh, CleanStart, Opens
  <2> QED
    BY <2>1 DEF LinkInv
<1>4. CASE StartEnds
  BY <1>4 DEF StartEnds, queues, server, LinkInv
<1>5. CASE setActiveTopics
  BY <1>5 DEF setActiveTopics, queues, server, LinkInv
<1>6. CASE onStop
  BY <1>6 DEF onStop, queues, LinkInv
<1>7. CASE PollConnection
  <2>1. /\ pc = "idle" /\ pc' = IF ~connected /\ pending /\ link = "open" THEN "reset" ELSE "drain"
        /\ UNCHANGED <<connected, batch, frames>>
    BY <1>7 DEF PollConnection, queues
  <2>2. CASE UNCHANGED <<pending, link, table, toServer>> /\ (connected \/ (pending /\ link # "closed"))
    BY <2>1, <2>2 DEF LinkInv
  <2>3. CASE /\ ~connected /\ pending /\ link = "closed" /\ ~pending'
             /\ UNCHANGED <<link, table, toServer>>
    BY <2>1, <2>3 DEF LinkInv
  <2>4. CASE ~connected /\ ~pending /\ UNCHANGED <<pending, link, table, toServer>>
    BY <2>1, <2>4 DEF LinkInv
  <2>5. CASE ~connected /\ ~pending /\ pending' /\ link' = "connecting" /\ table' = {} /\ toServer' = <<>>
    BY <2>1, <2>5 DEF LinkInv
  <2> QED
    BY <1>7, <2>2, <2>3, <2>4, <2>5 DEF PollConnection, AttemptFailed
<1>8. CASE PollReset
  BY <1>8 DEF PollReset, queues, server, LinkInv
<1>9. CASE TakeTexts \/ PollFrames
  BY <1>9 DEF TakeTexts, PollFrames, client, server, LinkInv
<1>10. CASE advertise \/ applyDesiredTopics
  <2>1. /\ pc = "text" /\ UNCHANGED <<connected, pending, demand, frames, link, table>>
        /\ pc' = "text" \/ (pc' = "frames" /\ batch' = <<>>)
    BY <1>10 DEF advertise, applyDesiredTopics, queues
  <2>2. link # "open" => toServer' = toServer
    BY <1>10, OnlyWhileOpen
  <2> QED
    BY <2>1, <2>2 DEF LinkInv
<1>11. CASE unadvertise
  <2>1. pc = "text" /\ UNCHANGED <<pc, connected, pending, frames, link, table, toServer>>
    BY <1>11 DEF unadvertise, server
  <2> QED
    BY <2>1 DEF LinkInv
<1>12. CASE Close
  BY <1>12 DEF Close, LossAllowed, DialogOwns, onDisconnected, queues, LinkInv
<1>13. CASE Open
  <2>1. /\ pc \in {"off", "idle"} /\ link # "open" /\ link' = "open" /\ table' = {}
        /\ UNCHANGED <<pc, client, batch, frames, toServer>>
    BY <1>13 DEF Open, BurstAllowed
  <2> QED
    BY <2>1 DEF LinkInv, client
<1>14. CASE AttemptFails
  BY <1>14 DEF AttemptFails, client, queues, server, LinkInv
<1>15. CASE AddChannel
  BY <1>15 DEF AddChannel, client, LinkInv
<1>16. CASE RemoveChannel
  <2>1. /\ table = {} => table' = {}
        /\ UNCHANGED <<pc, client, batch, frames, link, toServer>>
    BY <1>16 DEF RemoveChannel
  <2> QED
    BY <2>1 DEF LinkInv, client
<1>17. CASE ServerHandles
  <2>1. toServer # <<>> /\ UNCHANGED <<pc, client, queues, link>>
    BY <1>17 DEF ServerHandles
  <2> QED
    BY <2>1 DEF LinkInv, client, queues
<1>18. CASE onBinaryMessage
  <2>1. table # {} /\ UNCHANGED <<pc, client, batch, link, table, toServer>>
    BY <1>18 DEF onBinaryMessage, server
  <2> QED
    BY <2>1 DEF LinkInv, client
<1>19. CASE UNCHANGED vars
  BY <1>19 DEF vars, client, queues, server, LinkInv
<1> QED
  BY <1>1, <1>2, <1>3, <1>4, <1>5, <1>6, <1>7, <1>8, <1>9, <1>10, <1>11, <1>12, <1>13, <1>14, <1>15,
     <1>16, <1>17, <1>18, <1>19
     DEF Next, onPoll

---------------------------------------------------------------------------
(***************************************************************************)
(* Catalogs: what is said of the server's channels is right.               *)
(***************************************************************************)

(* Initially the server has used up the ids of its channels. *)
LEMMA ChannelInit == Init => ChannelInv
<1> SUFFICES ASSUME Init PROVE ChannelInv
  OBVIOUS
<1>1. chans \in Channels /\ top = Highest(chans) /\ pc = "off" /\ ~connected
  BY FoxgloveAssumption DEF Init, Channels
<1> QED
  BY <1>1, HighestIsHighest DEF ChannelInv

(* A steady server, catalog and queue of texts. *)
LEMMA ChannelFrame ==
  ASSUME ChannelInv, UNCHANGED <<chans, top, texts, batch, adv>>,
         pc' # "off" => pc # "off",
         connected' \/ pc' = "starting" => connected \/ pc = "starting"
  PROVE  ChannelInv'
BY DEF ChannelInv, Known

(* The start of a stream away from the races: which server it talks to, what is in the
   queues, and that the catalog and the selection are of that server. *)
LEMMA CleanStarts ==
  ASSUME Races = {}, Typed, LinkInv, ChannelInv, StartStolen \/ StartFresh
  PROVE  /\ pc = "off" /\ pc' = "starting" /\ connected' = connected /\ batch' = <<>>
         /\ lastDesired' = {} /\ frames = <<>> /\ frames' = frames
         /\ table = {} /\ table' = {} /\ toServer = <<>> /\ bind = {}
         /\ \A c \in Known(chans') : c <= top'
         /\ \A c \in ChanIds, t \in Topics : Says(texts', c, t) => Right(chans', top', c, t)
         /\ \E sel : /\ sel \subseteq ChanIds \X Topics /\ StartStreaming(sel, found)
                     /\ \A s \in sel : Right(chans', top', s[1], s[2])
         /\ \A c \in Known(found) : Right(chans', top', c, found[c])
<1>1. PICK w, v, sel :
        /\ w \in Channels /\ v \in Channels
        /\ chans' = w /\ Pairs(found) \subseteq Pairs(w)
        /\ sel \in Selections(v) /\ StartStreaming(sel, found) /\ v \in {w, found}
        /\ \A c \in Known(w) : c <= top'
        /\ \A c \in ChanIds, t \in Topics : Says(texts', c, t) => w[c] = t
  <2>1. CASE StartStolen
    <3>1. PICK sel \in Selections(found) : StartStreaming(sel, found)
      BY <2>1 DEF StartStolen
    <3>2. Pairs(found) \subseteq Pairs(chans) /\ texts' = <<>> /\ chans' = chans /\ top' = top
      BY <2>1 DEF StartStolen, CleanStart, queues
    <3>3. \A c \in Known(chans) : c <= top'
      BY <3>2 DEF ChannelInv
    <3>4. found \in Channels /\ chans \in Channels
      BY TypedFacts
    <3> QED
      BY <3>1, <3>2, <3>3, <3>4, SayingNothing
  <2>2. CASE StartFresh
    <3>1. PICK w \in Worlds \cup {chans} :
            /\ CleanStart(found, w) /\ Opens(w) /\ \E sel \in Saved(w) : StartStreaming(sel, found)
      BY <2>2 DEF StartFresh
    <3>2. PICK sel \in Saved(w) : StartStreaming(sel, found)
      BY <3>1
    <3>3. sel \in Selections(w)
      BY <3>2 DEF Saved
    <3>4. Pairs(found) \subseteq Pairs(w) /\ texts = <<>>
      BY <3>1 DEF CleanStart
    <3>5. chans' = w /\ top' = (IF w = chans THEN top ELSE Highest(w)) /\ texts' = Burst(texts, w)
      BY <3>1 DEF Opens
    <3>6. /\ w \in Channels
          /\ \A c \in ChanIds, t \in Topics : Says(Burst(texts, w), c, t) => Says(texts, c, t) \/ w[c] = t
          /\ \A c \in Known(w) : c <= top'
      BY <3>5, Worldly DEF ChannelInv
    <3>7. \A c \in ChanIds, t \in Topics : Says(texts', c, t) => w[c] = t
      BY <3>4, <3>5, <3>6, SayingNothing
    <3> QED
      BY <3>2, <3>3, <3>4, <3>5, <3>6, <3>7
  <2> QED
    BY <2>1, <2>2
<1>2. \A c \in Known(w) : Right(w, top', c, w[c])
  BY <1>1 DEF Right
<1>3. found \in Channels
  BY TypedFacts
<1>4. \A c \in Known(found) : c \in Known(w) /\ w[c] = found[c]
  <2> TAKE c \in Known(found)
  <2>1. <<c, found[c]>> \in Pairs(w)
    BY <1>1 DEF Pairs
  <2> QED
    BY <2>1 DEF Pairs
<1>5. sel \subseteq ChanIds \X Topics /\ \A s \in sel : s[1] \in Known(v) /\ s[2] = v[s[1]]
  BY <1>1, Selecting
<1>6. \A s \in sel : s[1] \in Known(w) /\ w[s[1]] = s[2]
  BY <1>1, <1>4, <1>5
<1>7. \A c \in ChanIds, t \in Topics : w[c] = t => c \in Known(w)
  BY FoxgloveAssumption DEF Known
<1>8. /\ pc = "off" /\ pc' = "starting" /\ frames = <<>>
      /\ UNCHANGED <<connected, batch, lastDesired, frames>>
      /\ table' = table \/ table' = {}
  BY DEF StartStolen, StartFresh, DialogOwns, CleanStart, Opens, queues
<1>9. batch = <<>> /\ lastDesired = {} /\ table = {} /\ toServer = <<>> /\ bind = {}
  BY <1>8 DEF LinkInv
<1>10. \A c \in ChanIds, t \in Topics : Says(texts', c, t) => Right(chans', top', c, t)
  BY <1>1, <1>2, <1>7
<1>11. \A s \in sel : Right(chans', top', s[1], s[2])
  BY <1>1, <1>2, <1>6
<1>12. \A c \in Known(found) : Right(chans', top', c, found[c])
  BY <1>1, <1>2, <1>4
<1> QED
  BY <1>1, <1>5, <1>8, <1>9, <1>10, <1>11, <1>12

(* A stream starts with a right catalog. *)
LEMMA ChannelOnStart ==
  ASSUME Races = {}, Typed, LinkInv, ChannelInv, StartStolen \/ StartFresh
  PROVE  ChannelInv'
<1>1. PICK sel : /\ sel \subseteq ChanIds \X Topics /\ StartStreaming(sel, found)
                 /\ \A s \in sel : Right(chans', top', s[1], s[2])
  BY CleanStarts
<1>2. /\ frames = <<>> /\ table = {} /\ toServer = <<>> /\ bind = {}
      /\ \A c \in Known(found) : Right(chans', top', c, found[c])
  BY CleanStarts
<1>3. \A c \in ChanIds : adv'[c] # None => Right(chans', top', c, adv'[c])
  BY <1>1, <1>2, TypedFacts, StartingMatches
<1>4. /\ batch' = <<>> /\ \A c \in Known(chans') : c <= top'
      /\ \A c \in ChanIds, t \in Topics : Says(texts', c, t) => Right(chans', top', c, t)
  BY CleanStarts
<1> QED
  BY <1>3, <1>4, SayingNothing DEF ChannelInv, Known

(* Folding the texts in keeps the catalog right. *)
LEMMA ChannelOnPoll ==
  ASSUME Typed, LinkInv, ChannelInv, PollReset \/ TakeTexts \/ advertise \/ unadvertise
  PROVE  ChannelInv'
<1>1. CASE PollReset
  <2>1. adv' = NoChannels /\ pc # "off" /\ UNCHANGED <<chans, top, texts, batch>>
    BY <1>1 DEF PollReset, ForgetConnection, queues, server
  <2> QED
    BY <2>1, EmptyCatalog DEF ChannelInv, Known
<1>2. CASE TakeTexts
  <2>1. /\ texts' = <<>> /\ batch' = texts /\ pc # "off" /\ pc' = "text" /\ pc # "starting"
        /\ UNCHANGED <<chans, top, adv, connected>>
    BY <1>2 DEF TakeTexts, client, server
  <2> QED
    BY <2>1, SayingNothing DEF ChannelInv, Known
<1>3. CASE advertise
  <2> DEFINE of == Head(batch).of
  <2>1. /\ pc = "text" /\ batch # <<>> /\ Head(batch).op = "advertise" /\ batch' = Tail(batch)
        /\ adv' = Merge(adv, of) /\ UNCHANGED <<pc, chans, top, texts, connected>>
    BY <1>3 DEF advertise
  <2>2. of \in Channels /\ adv \in Channels
    BY <2>1, FirstText, TypedFacts
  <2>3. \A c \in ChanIds : adv'[c] = adv[c] \/ (adv'[c] = of[c] /\ of[c] # None)
    BY <2>1, <2>2, Merging
  <2>4. \A c \in ChanIds : of[c] # None => Right(chans, top, c, of[c])
    <3> TAKE c \in ChanIds
    <3> HAVE of[c] # None
    <3>1. of[c] \in Topics
      BY <2>2 DEF Channels
    <3>2. Says(batch, c, of[c])
      BY <2>1, TypedFacts, SayingLess
    <3> QED
      BY <2>1, <3>1, <3>2 DEF ChannelInv
  <2>5. \A c, t : Says(batch', c, t) => Says(batch, c, t)
    BY <2>1, TypedFacts, SayingLess
  <2> HIDE DEF of
  <2> QED
    BY <2>1, <2>3, <2>4, <2>5 DEF ChannelInv, Known
<1>4. CASE unadvertise
  <2> DEFINE c == Head(batch).of
  <2>1. /\ pc = "text" /\ batch # <<>> /\ Head(batch).op = "unadvertise" /\ batch' = Tail(batch)
        /\ adv' = [adv EXCEPT ![c] = None] /\ UNCHANGED <<pc, chans, top, texts, connected>>
    BY <1>4 DEF unadvertise, server
  <2>2. c \in ChanIds /\ adv \in Channels
    BY <2>1, FirstText, TypedFacts
  <2>3. \A d \in ChanIds : adv'[d] \in {adv[d], None}
    BY <2>1, <2>2 DEF Channels
  <2>4. \A d, t : Says(batch', d, t) => Says(batch, d, t)
    BY <2>1, TypedFacts, SayingLess
  <2> HIDE DEF c
  <2> QED
    BY <2>1, <2>3, <2>4 DEF ChannelInv, Known
<1> QED
  BY <1>1, <1>2, <1>3, <1>4

(* The burst of a new connection is right of the server that sent it. *)
LEMMA ChannelOnOpen ==
  ASSUME Races = {}, Typed, LinkInv, ChannelInv, Open
  PROVE  ChannelInv'
<1>1. PICK w \in Worlds \cup {chans} :
        /\ chans' = w /\ top' = (IF w = chans THEN top ELSE Highest(w))
        /\ texts' = (IF pc = "off" THEN texts ELSE Burst(texts, w))
  BY DEF Open
<1>2. /\ pc \in {"off", "idle"} /\ texts = <<>> /\ link # "open"
      /\ UNCHANGED <<pc, connected, batch>>
  BY DEF Open, BurstAllowed, client
<1>3. ~connected /\ batch = <<>>
  BY <1>2 DEF LinkInv
<1>4. /\ w \in Channels
      /\ \A c \in ChanIds, t \in Topics : Says(Burst(texts, w), c, t) => Says(texts, c, t) \/ w[c] = t
      /\ \A c \in Known(w) : c <= top'
  BY <1>1, Worldly DEF ChannelInv
<1>5. pc # "off" => \A c \in ChanIds, t \in Topics : Says(texts', c, t) => w[c] = t
  BY <1>1, <1>2, <1>4, SayingNothing
<1>6. \A c \in ChanIds, t \in Topics : w[c] = t => Right(w, top', c, t)
  BY <1>4, FoxgloveAssumption DEF Known, Right
<1> QED
  BY <1>1, <1>2, <1>3, <1>4, <1>5, <1>6, SayingNothing DEF ChannelInv

(* A server that adds a channel gives it an id above the others; what was right before
   is right after. *)
LEMMA ChannelOnServer ==
  ASSUME Typed, LinkInv, ChannelInv, AddChannel \/ RemoveChannel
  PROVE  /\ ChannelInv'
         /\ \A c \in ChanIds : \A t : Right(chans, top, c, t) => Right(chans', top', c, t)
<1>1. CASE AddChannel
  <2>1. UNCHANGED <<pc, connected, adv, batch>>
    BY <1>1 DEF AddChannel, client
  <2>2. PICK u \in Topics :
          LET one == [NoChannels EXCEPT ![top + 1] = u]
              e == [op |-> "advertise", of |-> one]
          IN  /\ top + 1 \in ChanIds /\ top' = top + 1
              /\ chans' = [chans EXCEPT ![top + 1] = u]
              /\ one \in Channels /\ e \in Text
              /\ \/ texts' = texts /\ pc = "off"
                 \/ texts' = Append(texts, e)
    BY <1>1, Adding
  <2> DEFINE one == [NoChannels EXCEPT ![top + 1] = u]
             e == [op |-> "advertise", of |-> one]
  <2>3. /\ top + 1 \in ChanIds /\ top' = top + 1 /\ top \in Nat /\ chans \in Channels /\ ChanIds \subseteq Nat
        /\ e \in Text /\ e.of = one /\ (pc # "off" => texts' = Append(texts, e))
    BY <2>2, TypedFacts, FoxgloveAssumption
  <2>4. /\ chans'[top + 1] = u /\ \A c \in ChanIds : c # top + 1 => chans'[c] = chans[c]
    BY <2>2, <2>3 DEF Channels
  <2>5. \A c \in ChanIds : one[c] # None => c = top + 1 /\ one[c] = u
    BY <2>3, EmptyCatalog DEF NoChannels
  <2>6. \A c \in ChanIds : c <= top => c # top + 1 /\ c <= top + 1
    BY <2>3
  <2>7. \A c \in ChanIds : \A t : Right(chans, top, c, t) => Right(chans', top', c, t)
    BY <2>3, <2>4, <2>6 DEF Right
  <2>8. \A c \in Known(chans') : c <= top'
    <3> TAKE c \in Known(chans')
    <3>1. CASE c = top + 1
      BY <2>3, <3>1
    <3>2. CASE c # top + 1
      <4>1. c \in Known(chans)
        BY <2>4, <3>2 DEF Known
      <4>2. c <= top /\ c \in ChanIds
        BY <4>1 DEF ChannelInv, Known
      <4> QED
        BY <2>3, <2>6, <4>2
    <3> QED
      BY <3>1, <3>2
  <2>9. Right(chans', top', top + 1, u)
    BY <2>3, <2>4 DEF Right
  <2> HIDE DEF one, e
  <2>10. pc # "off" => \A c \in ChanIds, t \in Topics : Says(texts', c, t) => Says(texts, c, t) \/ one[c] = t
    BY <2>3, TypedFacts, SayingMore
  <2>11. pc # "off" => \A c \in ChanIds, t \in Topics : Says(texts', c, t) => Right(chans', top', c, t)
    BY <2>5, <2>7, <2>9, <2>10, FoxgloveAssumption DEF ChannelInv
  <2> QED
    BY <2>1, <2>7, <2>8, <2>11 DEF ChannelInv, Known
<1>2. CASE RemoveChannel
  <2>1. PICK c \in Known(chans) :
          /\ chans' = [chans EXCEPT ![c] = None]
          /\ texts' = IF DialogOwns THEN texts ELSE Append(texts, [op |-> "unadvertise", of |-> c])
    BY <1>2 DEF RemoveChannel
  <2>2. UNCHANGED <<pc, connected, adv, batch, top>>
    BY <1>2 DEF RemoveChannel, client
  <2>3. c \in ChanIds /\ chans \in Channels
    BY TypedFacts DEF Known
  <2>4. \A d \in ChanIds : chans'[d] \in {chans[d], None}
    BY <2>1, <2>3 DEF Channels
  <2>5. \A d \in ChanIds : \A t : Right(chans, top, d, t) => Right(chans', top', d, t)
    BY <2>2, <2>4 DEF Right
  <2>6. \A d \in ChanIds, t \in Topics : Says(texts', d, t) => Says(texts, d, t)
    <3> DEFINE e == [op |-> "unadvertise", of |-> c]
    <3>1. e \in Text /\ e.op = "unadvertise" /\ texts' \in {texts, Append(texts, e)}
      BY <2>1, <2>3 DEF Text
    <3> HIDE DEF e
    <3> QED
      BY <3>1, TypedFacts, SayingMore
  <2> QED
    BY <2>2, <2>4, <2>5, <2>6 DEF ChannelInv, Known
<1> QED
  BY <1>1, <1>2

(* Every step keeps ChannelInv. *)
LEMMA ChannelStep ==
  ASSUME Races = {}, Typed, LinkInv, ChannelInv, [Next]_vars
  PROVE  ChannelInv'
<1>1. CASE connectToServer \/ disconnect
  BY <1>1, ChannelFrame DEF connectToServer, disconnect, client, queues, server
<1>2. CASE StartStolen \/ StartFresh
  BY <1>2, ChannelOnStart
<1>3. CASE StartEnds
  <2>1. pc = "starting" /\ UNCHANGED <<chans, top, texts, batch, adv>>
    BY <1>3 DEF StartEnds, queues, server
  <2> QED
    BY <2>1, ChannelFrame
<1>4. CASE setActiveTopics
  <2>1. UNCHANGED <<pc, connected, chans, top, texts, batch, adv>>
    BY <1>4 DEF setActiveTopics, queues, server
  <2> QED
    BY <2>1, ChannelFrame
<1>5. CASE onStop
  <2>1. pc' = "off" /\ ~connected' /\ UNCHANGED <<chans, top>>
    BY <1>5 DEF onStop
  <2> QED
    BY <2>1 DEF ChannelInv
<1>6. CASE PollConnection \/ applyDesiredTopics
  <2>1. pc # "off" /\ pc' # "starting" /\ UNCHANGED <<connected, chans, top, texts, batch, adv>>
    BY <1>6 DEF PollConnection, applyDesiredTopics, queues
  <2> QED
    BY <2>1, ChannelFrame
<1>7. CASE PollFrames
  <2>1. pc # "off" /\ pc' # "starting" /\ UNCHANGED <<connected, chans, top, texts, batch, adv>>
    BY <1>7 DEF PollFrames, client, server
  <2> QED
    BY <2>1, ChannelFrame
<1>8. CASE PollReset \/ TakeTexts \/ advertise \/ unadvertise
  BY <1>8, ChannelOnPoll
<1>9. CASE Close
  <2>1. (connected' => connected) /\ UNCHANGED <<pc, chans, top, texts, batch, adv>>
    BY <1>9 DEF Close, onDisconnected, queues
  <2> QED
    BY <2>1, ChannelFrame
<1>10. CASE Open
  BY <1>10, ChannelOnOpen
<1>11. CASE AttemptFails \/ ServerHandles
  <2>1. UNCHANGED <<pc, connected, chans, top, texts, batch, adv>>
    BY <1>11 DEF AttemptFails, ServerHandles, client, queues, server
  <2> QED
    BY <2>1, ChannelFrame
<1>12. CASE AddChannel \/ RemoveChannel
  BY <1>12, ChannelOnServer
<1>13. CASE onBinaryMessage \/ UNCHANGED vars
  <2>1. UNCHANGED <<pc, connected, chans, top, texts, batch, adv>>
    BY <1>13 DEF onBinaryMessage, vars, client, queues, server
  <2> QED
    BY <2>1, ChannelFrame
<1> QED
  BY <1>1, <1>2, <1>3, <1>4, <1>5, <1>6, <1>7, <1>8, <1>9, <1>10, <1>11, <1>12, <1>13 DEF Next, onPoll

---------------------------------------------------------------------------
(***************************************************************************)
(* The wanted set is followed.                                             *)
(***************************************************************************)

(* Nothing is wanted initially. *)
LEMMA WantedInit == Init => WantedInv
BY DEF Init, WantedInv

(* Steps that leave catalog, wanted set and subscriptions alone. *)
LEMMA WantedFrame ==
  ASSUME WantedInv, UNCHANGED <<demand, selected, adv, subs, lastDesired>>
  PROVE  WantedInv'
BY DEF WantedInv, filteredAdvertisedTopics

(* A stream starts with nothing wanted. *)
LEMMA WantedOnStart ==
  ASSUME Races = {}, Typed, LinkInv, ChannelInv, StartStolen \/ StartFresh
  PROVE  WantedInv'
BY CleanStarts DEF WantedInv

(* The poll steps that change the catalog or the wanted set follow it. *)
LEMMA WantedOnPoll ==
  ASSUME Typed, WantedInv, PollReset \/ advertise \/ unadvertise \/ applyDesiredTopics
  PROVE  WantedInv'
<1>1. CASE PollReset
  <2>1. adv' = NoChannels /\ lastDesired' = lastDesired
    BY <1>1 DEF PollReset, ForgetConnection
  <2>2. \A c \in ChanIds : filteredAdvertisedTopics(adv', selected')[c] = None
    BY <2>1, EmptyCatalog DEF filteredAdvertisedTopics
  <2>3. None \notin lastDesired
    BY TypedFacts, FoxgloveAssumption
  <2> QED
    BY <2>1, <2>2, <2>3 DEF WantedInv
<1>2. CASE advertise
  <2> DEFINE all == Merge(adv, Head(batch).of)
  <2>1. /\ batch # <<>> /\ Head(batch).op = "advertise" /\ adv' = all
        /\ UNCHANGED <<demand, selected, lastDesired>>
        /\ demand => reconcileSubscriptions(all, lastDesired)
    BY <1>2 DEF advertise
  <2>2. all \in Channels
    BY <2>1, FirstText, TypedFacts, Merging
  <2> HIDE DEF all
  <2>3. demand => \A c \in ChanIds : filteredAdvertisedTopics(all, selected)[c] \in lastDesired
                                       => \E s \in subs' : s[2] = c
    BY <2>1, <2>2, TypedFacts, Reconciling
  <2> QED
    BY <2>1, <2>3 DEF WantedInv
<1>3. CASE unadvertise
  <2> DEFINE c == Head(batch).of
  <2>1. /\ batch # <<>> /\ Head(batch).op = "unadvertise"
        /\ adv' = [adv EXCEPT ![c] = None] /\ subs' = subs \ {s \in subs : s[2] = c}
        /\ UNCHANGED <<demand, selected, lastDesired>>
    BY <1>3 DEF unadvertise
  <2>2. c \in ChanIds /\ adv \in Channels
    BY <2>1, FirstText, TypedFacts
  <2>3. adv'[c] = None /\ \A d \in ChanIds : d # c => adv'[d] = adv[d]
    BY <2>1, <2>2 DEF Channels
  <2>4. filteredAdvertisedTopics(adv', selected)[c] = None
    BY <2>2, <2>3 DEF filteredAdvertisedTopics
  <2>5. \A d \in ChanIds : d # c =>
          filteredAdvertisedTopics(adv', selected)[d] = filteredAdvertisedTopics(adv, selected)[d]
    BY <2>3 DEF filteredAdvertisedTopics
  <2>6. None \notin lastDesired
    BY TypedFacts, FoxgloveAssumption
  <2> HIDE DEF c
  <2> QED
    BY <2>1, <2>4, <2>5, <2>6 DEF WantedInv
<1>4. CASE applyDesiredTopics
  <2>1. UNCHANGED <<demand, selected, adv>>
    BY <1>4 DEF applyDesiredTopics
  <2>2. CASE slot # None /\ lastDesired' = slot /\ reconcileSubscriptions(adv, slot)
    <3>1. \A c \in ChanIds : filteredAdvertisedTopics(adv, selected)[c] \in slot => \E s \in subs' : s[2] = c
      BY <2>2, TypedFacts, Reconciling
    <3> QED
      BY <2>1, <2>2, <3>1 DEF WantedInv
  <2>3. CASE UNCHANGED <<lastDesired, subs>>
    BY <2>1, <2>3, WantedFrame
  <2> QED
    BY <1>4, <2>2, <2>3 DEF applyDesiredTopics
<1> QED
  BY <1>1, <1>2, <1>3, <1>4

(* Every step keeps WantedInv. *)
LEMMA WantedStep ==
  ASSUME Races = {}, Typed, LinkInv, ChannelInv, WantedInv, [Next]_vars
  PROVE  WantedInv'
<1>1. CASE StartStolen \/ StartFresh
  BY <1>1, WantedOnStart
<1>2. CASE onStop
  BY <1>2 DEF onStop, WantedInv
<1>3. CASE PollReset \/ advertise \/ unadvertise \/ applyDesiredTopics
  BY <1>3, WantedOnPoll
<1>4. CASE connectToServer \/ disconnect \/ StartEnds \/ setActiveTopics \/ PollConnection
  BY <1>4, WantedFrame DEF connectToServer, disconnect, StartEnds, setActiveTopics, PollConnection, client
<1>5. CASE TakeTexts \/ PollFrames \/ Close \/ Open \/ AttemptFails
  BY <1>5, WantedFrame DEF TakeTexts, PollFrames, Close, Open, AttemptFails, client
<1>6. CASE AddChannel \/ RemoveChannel \/ ServerHandles \/ onBinaryMessage \/ UNCHANGED vars
  BY <1>6, WantedFrame DEF AddChannel, RemoveChannel, ServerHandles, onBinaryMessage, vars, client
<1> QED
  BY <1>1, <1>2, <1>3, <1>4, <1>5, <1>6 DEF Next, onPoll

---------------------------------------------------------------------------
(***************************************************************************)
(* Frames: a parser only ever meets frames of the topic it was bound for.  *)
(***************************************************************************)

(* Fewer subscriptions, requests, bindings and frames match as well. *)
LEMMA MatchedShrinks ==
  ASSUME NEW ch, NEW hi, NEW tb, NEW rq, NEW bd, NEW n, NEW fr, Matched(ch, hi, tb, rq, bd, n, fr),
         NEW tb2 \in SUBSET tb, NEW rq2, rq2 = rq \/ Asked(rq2) \subseteq Asked(rq), NEW bd2 \in SUBSET bd,
         NEW fr2, fr2 = fr \/ Len(fr2) = 0
  PROVE  Matched(ch, hi, tb2, rq2, bd2, n, fr2)
<1>1. 1..0 = {} /\ Asked(rq2) \subseteq Asked(rq)
  OBVIOUS
<1>2. CASE fr2 = fr
  BY <1>1, <1>2 DEF Matched
<1>3. CASE Len(fr2) = 0
  BY <1>1, <1>3 DEF Matched
<1> QED
  BY <1>2, <1>3

(* Steps that leave everything FrameInv speaks of alone. *)
LEMMA FrameFrame ==
  ASSUME FrameInv, pc' # "off" => pc # "off",
         UNCHANGED <<chans, top, table, toServer, bind, nextId, frames>>
  PROVE  FrameInv'
BY DEF FrameInv, Matched, Asked

(* The parsers bound by onStart match. *)
LEMMA FrameOnStart ==
  ASSUME Races = {}, Typed, LinkInv, ChannelInv, StartStolen \/ StartFresh
  PROVE  FrameInv'
<1>1. PICK sel : /\ sel \subseteq ChanIds \X Topics /\ StartStreaming(sel, found)
                 /\ \A s \in sel : Right(chans', top', s[1], s[2])
  BY CleanStarts
<1>2. /\ frames = <<>> /\ table = {} /\ toServer = <<>> /\ bind = {} /\ frames' = frames /\ table' = table
      /\ \A c \in Known(found) : Right(chans', top', c, found[c])
  BY CleanStarts
<1>3. Matched(chans', top', table, toServer', bind', nextId', frames)
  BY <1>1, <1>2, TypedFacts, StartingMatches
<1> QED
  BY <1>2, <1>3 DEF FrameInv

(* The poll keeps parsers, subscriptions and frames matched. *)
LEMMA FrameOnPoll ==
  ASSUME Typed, LinkInv, ChannelInv, WantedInv, FrameInv,
         PollConnection \/ PollReset \/ advertise \/ unadvertise \/ applyDesiredTopics \/ PollFrames
  PROVE  FrameInv'
<1> DEFINE now == Matched(chans, top, table, toServer, bind, nextId, frames)
<1>1. pc # "off"
  BY DEF PollConnection, PollReset, advertise, unadvertise, applyDesiredTopics, PollFrames
<1>2. now
  BY <1>1 DEF FrameInv
<1> HIDE DEF now
<1>3. CASE PollConnection
  <2>1. /\ UNCHANGED <<chans, top, bind, nextId, frames>>
        /\ table' \in {table, {}} /\ toServer' \in {toServer, <<>>}
    BY <1>3 DEF PollConnection, AttemptFailed, queues
  <2>2. /\ table' \in SUBSET table /\ bind \in SUBSET bind
        /\ toServer' = toServer \/ Asked(toServer') \subseteq Asked(toServer)
    BY <2>1, AskingNothing
  <2>3. Matched(chans, top, table', toServer', bind, nextId, frames)
    BY <1>2, <2>2, MatchedShrinks DEF now
  <2> QED
    BY <2>1, <2>3 DEF FrameInv
<1>4. CASE PollReset
  <2>1. /\ pc = "reset" /\ bind' = {} /\ UNCHANGED <<frames, table, toServer>>
    BY <1>4 DEF PollReset, ForgetConnection, queues, server
  <2>2. table' = {} /\ toServer' = <<>> /\ frames' = <<>>
    BY <2>1 DEF LinkInv
  <2>3. Len(frames') = 0 /\ 1..0 = {} /\ Asked(toServer') = {}
    BY <2>2, AskingNothing
  <2> QED
    BY <2>1, <2>2, <2>3 DEF FrameInv, Matched
<1>5. CASE advertise
  <2> DEFINE of == Head(batch).of
             all == Merge(adv, of)
             picked == {c \in Known(of) : of[c] \in Supported /\ \E s \in selected : s[2] = of[c]}
  <2>1. /\ pc = "text" /\ batch # <<>> /\ Head(batch).op = "advertise"
        /\ \/ demand /\ reconcileSubscriptions(all, lastDesired)
           \/ SubscribeAll(picked, all)
        /\ UNCHANGED <<frames, chans, top, table>>
    BY <1>5 DEF advertise
  <2>2. of \in Channels /\ adv \in Channels /\ all \in Channels
    BY <2>1, FirstText, TypedFacts, Merging
  <2>3. \A c \in ChanIds : of[c] # None => Right(chans, top, c, of[c])
    <3> TAKE c \in ChanIds
    <3> HAVE of[c] # None
    <3>1. of[c] \in Topics
      BY <2>2 DEF Channels
    <3>2. Says(batch, c, of[c])
      BY <2>1, TypedFacts, SayingLess
    <3> QED
      BY <2>1, <3>1, <3>2 DEF ChannelInv
  <2>4. \A c \in ChanIds : \/ all[c] = of[c] /\ of[c] # None
                           \/ all[c] = adv[c] /\ of[c] = None
    BY <2>2, Merging
  <2>5. picked \in SUBSET ChanIds /\ \A c \in picked : of[c] # None
    BY DEF Known
  <2> HIDE DEF of, all, picked
  <2>6. CASE demand /\ reconcileSubscriptions(all, lastDesired)
    <3>1. \A c \in ChanIds : all[c] = adv[c] =>
            filteredAdvertisedTopics(all, selected)[c] = filteredAdvertisedTopics(adv, selected)[c]
      BY DEF filteredAdvertisedTopics
    <3>2. \A c \in ChanIds : filteredAdvertisedTopics(all, selected)[c] \in lastDesired
                               /\ (\A s \in subs : s[2] # c) => Right(chans, top, c, all[c])
      BY <2>3, <2>4, <2>6, <3>1 DEF WantedInv
    <3>3. Matched(chans, top, table, toServer', bind', nextId', frames)
      BY <1>2, <2>2, <2>6, <3>2, TypedFacts, ReconcilingMatches DEF now
    <3> QED
      BY <2>1, <3>3 DEF FrameInv
  <2>7. CASE SubscribeAll(picked, all)
    <3> DEFINE new == registerSubscription(nextId, picked)
    <3>1. bind' = bindChannel({}, new, all) /\ TakeIds(Cardinality(new)) /\ Send({}, new)
      BY <2>7 DEF SubscribeAll
    <3>2. {} \in SUBSET (Nat \X ChanIds) /\ new = registerSubscription(nextId, picked)
      OBVIOUS
    <3>3. \A c \in picked : Right(chans, top, c, all[c])
      BY <2>3, <2>4, <2>5
    <3> HIDE DEF new
    <3>4. Matched(chans, top, table, toServer', bind', nextId', frames)
      BY <1>2, <2>5, <3>1, <3>2, <3>3, SubscribingMatches DEF now
    <3> QED
      BY <2>1, <3>4 DEF FrameInv
  <2> QED
    BY <2>1, <2>6, <2>7
<1>6. CASE unadvertise
  <2>1. bind' \in SUBSET bind /\ UNCHANGED <<chans, top, table, toServer, nextId, frames>>
    BY <1>6 DEF unadvertise, server
  <2>2. Matched(chans, top, table, toServer, bind', nextId, frames)
    BY <1>2, <2>1, MatchedShrinks DEF now
  <2> QED
    BY <2>1, <2>2 DEF FrameInv
<1>7. CASE applyDesiredTopics
  <2>1. UNCHANGED <<frames, chans, top, table>>
    BY <1>7 DEF applyDesiredTopics, queues
  <2>2. CASE connected /\ slot # None /\ reconcileSubscriptions(adv, slot)
    <3>1. \A c \in ChanIds : filteredAdvertisedTopics(adv, selected)[c] \in slot => adv[c] # None
      BY <2>2, TypedFacts, WantedHasTopic
    <3>2. \A c \in ChanIds : filteredAdvertisedTopics(adv, selected)[c] \in slot
                               /\ (\A s \in subs : s[2] # c) => Right(chans, top, c, adv[c])
      BY <2>2, <3>1 DEF ChannelInv, Known
    <3>3. Matched(chans, top, table, toServer', bind', nextId', frames)
      BY <1>2, <2>2, <3>2, TypedFacts, ReconcilingMatches DEF now
    <3> QED
      BY <2>1, <3>3 DEF FrameInv
  <2>3. CASE UNCHANGED <<bind, nextId, toServer>>
    BY <1>1, <2>1, <2>3, FrameFrame
  <2> QED
    BY <1>7, <2>2, <2>3 DEF applyDesiredTopics
<1>8. CASE PollFrames
  <2>1. frames' = <<>> /\ UNCHANGED <<chans, top, table, toServer, bind, nextId>>
    BY <1>8 DEF PollFrames, client, server
  <2>2. Len(frames') = 0
    BY <2>1
  <2>3. Matched(chans, top, table, toServer, bind, nextId, frames')
    BY <1>2, <2>2, MatchedShrinks DEF now
  <2> QED
    BY <2>1, <2>3 DEF FrameInv
<1> QED
  BY <1>3, <1>4, <1>5, <1>6, <1>7, <1>8

(* So does the loss of a connection and a new one: nothing is subscribed on it yet. *)
LEMMA FrameOnSocket ==
  ASSUME Typed, LinkInv, FrameInv, Close \/ Open
  PROVE  FrameInv'
<1>1. CASE pc = "off"
  <2>1. pc' = "off"
    BY <1>1 DEF Close, Open
  <2> QED
    BY <2>1 DEF FrameInv
<1>2. CASE pc # "off"
  <2>1. Matched(chans, top, table, toServer, bind, nextId, frames)
    BY <1>2 DEF FrameInv
  <2>2. UNCHANGED <<bind, nextId, frames>> /\ table' = {} /\ toServer' = <<>>
    BY DEF Close, Open, client, queues, LinkInv
  <2>3. Asked(toServer') = {}
    BY <2>2, AskingNothing
  <2> QED
    BY <2>1, <2>2, <2>3 DEF FrameInv, Matched
<1> QED
  BY <1>1, <1>2

(* So do the server's steps, a frame that arrives included. *)
LEMMA FrameOnServer ==
  ASSUME Typed, LinkInv, ChannelInv, FrameInv, AddChannel \/ RemoveChannel \/ ServerHandles \/ onBinaryMessage
  PROVE  FrameInv'
<1>1. CASE pc = "off"
  <2>1. pc' = "off"
    BY <1>1 DEF AddChannel, RemoveChannel, ServerHandles, onBinaryMessage
  <2> QED
    BY <2>1 DEF FrameInv
<1>2. CASE pc # "off"
  <2>1. Matched(chans, top, table, toServer, bind, nextId, frames)
    BY <1>2 DEF FrameInv
  <2>2. CASE AddChannel \/ RemoveChannel
    <3>1. UNCHANGED <<toServer, bind, nextId, frames>> /\ table' \subseteq table
      BY <2>2 DEF AddChannel, RemoveChannel, client
    <3>2. \A s \in table \cup Asked(toServer) : s[2] \in ChanIds
      BY TypedFacts DEF Asked
    <3>3. \A c \in ChanIds : \A t : Right(chans, top, c, t) => Right(chans', top', c, t)
      BY <2>2, ChannelOnServer
    <3>4. \A s \in table \cup Asked(toServer) : s[2] <= top'
      BY <2>1, <3>2, <3>3 DEF Matched, Right
    <3>5. \A s \in table \cup Asked(toServer), b \in bind : s[1] = b[1] => chans'[s[2]] \in {b[2], None}
      BY <2>1, <3>2, <3>3 DEF Matched, Right
    <3>6. \A s \in table' : chans'[s[2]] # None
      <4>1. CASE AddChannel
        <5>1. PICK u \in Topics : chans' = [chans EXCEPT ![top + 1] = u] /\ top + 1 \in ChanIds
          BY <4>1, Adding
        <5>2. \A c \in ChanIds : chans'[c] \in {chans[c], u}
          BY <5>1, TypedFacts DEF Channels
        <5> QED
          BY <2>1, <3>1, <3>2, <5>2, FoxgloveAssumption DEF Matched
      <4>2. CASE RemoveChannel
        <5>1. PICK c \in Known(chans) :
                chans' = [chans EXCEPT ![c] = None] /\ table' = {s \in table : s[2] # c}
          BY <4>2 DEF RemoveChannel
        <5>2. \A d \in ChanIds : d # c => chans'[d] = chans[d]
          BY <5>1, TypedFacts DEF Channels
        <5> QED
          BY <2>1, <3>2, <5>1, <5>2 DEF Matched
      <4> QED
        BY <2>2, <4>1, <4>2
    <3> QED
      BY <2>1, <3>1, <3>4, <3>5, <3>6 DEF FrameInv, Matched
  <2>3. CASE ServerHandles
    <3> DEFINE m == Head(toServer)
    <3>1. /\ toServer # <<>> /\ toServer' = Tail(toServer)
          /\ UNCHANGED <<bind, nextId, frames, chans, top>>
          /\ \A s \in table' : s \in table \/ (m.op # "unsubscribe" /\ s \in m.ss /\ chans[s[2]] # None)
      BY <2>3 DEF ServerHandles, client, queues
    <3>2. m \in Request
      BY <3>1, TypedFacts
    <3>3. m.op # "unsubscribe" => m.op = "subscribe"
      BY <3>2 DEF Request
    <3>4. Asked(toServer') \subseteq Asked(toServer) /\ (m.op = "subscribe" => m.ss \subseteq Asked(toServer))
      BY <3>1, TypedFacts, AskingLess
    <3> HIDE DEF m
    <3>5. \A s \in table' \cup Asked(toServer') : s \in table \cup Asked(toServer)
      BY <3>1, <3>3, <3>4
    <3>6. \A s \in table' : chans[s[2]] # None
      BY <2>1, <3>1 DEF Matched
    <3> QED
      BY <2>1, <3>1, <3>5, <3>6 DEF FrameInv, Matched
  <2>4. CASE onBinaryMessage
    <3>1. PICK s \in table : frames' = Append(frames, [sub |-> s[1], topic |-> chans[s[2]]])
      BY <2>4 DEF onBinaryMessage
    <3>2. UNCHANGED <<bind, nextId, chans, top, table, toServer>>
      BY <2>4 DEF onBinaryMessage, client, server
    <3> DEFINE e == [sub |-> s[1], topic |-> chans[s[2]]]
    <3>3. e.sub = s[1] /\ e.topic = chans[s[2]] /\ frames' = Append(frames, e) /\ e \in Frame
      BY <3>1, FrameArrives
    <3> HIDE DEF e
    <3>4. /\ Len(frames) \in Nat /\ Len(frames') = Len(frames) + 1 /\ frames'[Len(frames) + 1] = e
          /\ \A i \in 1..Len(frames) : frames'[i] = frames[i]
      BY <3>3, TypedFacts
    <3>5. \A i \in 1..Len(frames') : i \in 1..Len(frames) \/ i = Len(frames) + 1
      BY <3>4
    <3>6. s[1] < nextId /\ chans[s[2]] # None /\ \A b \in bind : s[1] = b[1] => chans[s[2]] = b[2]
      BY <2>1 DEF Matched
    <3>7. \A i \in 1..Len(frames') : frames'[i].sub < nextId
      BY <2>1, <3>3, <3>4, <3>5, <3>6 DEF Matched
    <3>8. \A i \in 1..Len(frames'), b \in bind : frames'[i].sub = b[1] => frames'[i].topic = b[2]
      BY <2>1, <3>3, <3>4, <3>5, <3>6 DEF Matched
    <3> QED
      BY <2>1, <3>2, <3>7, <3>8 DEF FrameInv, Matched
  <2> QED
    BY <2>2, <2>3, <2>4
<1> QED
  BY <1>1, <1>2

(* Every step keeps FrameInv. *)
LEMMA FrameStep ==
  ASSUME Races = {}, SourceInv, [Next]_vars
  PROVE  FrameInv'
<1>1. Typed /\ LinkInv /\ ChannelInv /\ WantedInv /\ FrameInv
  BY DEF SourceInv
<1>2. CASE connectToServer \/ disconnect \/ onStop
  <2>1. pc' = "off"
    BY <1>2 DEF connectToServer, disconnect, onStop, DialogOwns
  <2> QED
    BY <2>1 DEF FrameInv
<1>3. CASE StartStolen \/ StartFresh
  BY <1>1, <1>3, FrameOnStart
<1>4. CASE StartEnds \/ setActiveTopics
  <2>1. pc # "off" /\ UNCHANGED <<chans, top, table, toServer, bind, nextId, frames>>
    BY <1>4 DEF StartEnds, setActiveTopics, queues, server
  <2> QED
    BY <1>1, <2>1, FrameFrame
<1>5. CASE PollConnection \/ PollReset \/ advertise \/ unadvertise \/ applyDesiredTopics \/ PollFrames
  BY <1>1, <1>5, FrameOnPoll
<1>6. CASE TakeTexts
  <2>1. pc # "off" /\ UNCHANGED <<chans, top, table, toServer, bind, nextId, frames>>
    BY <1>6 DEF TakeTexts, client, server
  <2> QED
    BY <1>1, <2>1, FrameFrame
<1>7. CASE Close \/ Open
  BY <1>1, <1>7, FrameOnSocket
<1>8. CASE AttemptFails \/ UNCHANGED vars
  <2>1. UNCHANGED <<pc, chans, top, table, toServer, bind, nextId, frames>>
    BY <1>8 DEF AttemptFails, vars, client, queues, server
  <2> QED
    BY <1>1, <2>1, FrameFrame
<1>9. CASE AddChannel \/ RemoveChannel \/ ServerHandles \/ onBinaryMessage
  BY <1>1, <1>9, FrameOnServer
<1> QED
  BY <1>2, <1>3, <1>4, <1>5, <1>6, <1>7, <1>8, <1>9 DEF Next, onPoll

---------------------------------------------------------------------------
(* The invariant holds initially. *)
LEMMA SourceInit == Init => SourceInv
<1>1. Init => FrameInv
  BY DEF Init, FrameInv
<1> QED
  BY <1>1, TypedInit, LinkInit, ChannelInit, WantedInit DEF SourceInv

(* Every step keeps the invariant. *)
LEMMA SourceStep ==
  ASSUME Races = {}
  PROVE  SourceInv /\ [Next]_vars => SourceInv'
<1> SUFFICES ASSUME SourceInv, [Next]_vars PROVE SourceInv'
  OBVIOUS
<1>1. Typed /\ LinkInv /\ ChannelInv /\ WantedInv
  BY DEF SourceInv
<1> QED
  BY <1>1, TypedStep, LinkStep, ChannelStep, WantedStep, FrameStep DEF SourceInv

(* What IngestedAsSent says follows from the invariant. *)
LEMMA SourceInvImplies == SourceInv => IngestedAsSent
<1> SUFFICES ASSUME SourceInv PROVE IngestedAsSent
  OBVIOUS
<1>1. TypeOK /\ frames \in Seq(Frame) /\ FrameInv
  BY DEF SourceInv, Typed
<1>2. \A f \in ToSet(frames) : \E i \in 1..Len(frames) : f = frames[i]
  BY <1>1 DEF ToSet
<1>3. pc = "frames" => \A i \in 1..Len(frames), b \in bind : frames[i].sub = b[1] => frames[i].topic = b[2]
  BY <1>1 DEF FrameInv, Matched
<1> QED
  BY <1>1, <1>2, <1>3 DEF IngestedAsSent

(* Away from the four races, at every moment of every stream: the ids of the poll
   thread's subscriptions, the requests under way, the server's table, the parsers
   bound and the frames received belong to one connection, and each parser to one
   topic. *)
THEOREM SourceInvariant == Races = {} => (Spec => []SourceInv)
<1> SUFFICES ASSUME Races = {} PROVE Spec => []SourceInv
  OBVIOUS
<1> QED
  BY SourceInit, SourceStep, PTL DEF Spec

(* IngestedAsSent for every set of topics and channels, every server, however often it
   restarts and hands its ids out anew, and every host: without the races, a frame is
   given to the parser of the topic it was published on. *)
THEOREM IngestedAsSentHolds == Races = {} => (Spec => []IngestedAsSent)
<1> SUFFICES ASSUME Races = {} PROVE Spec => []IngestedAsSent
  OBVIOUS
<1>1. Spec => []SourceInv
  BY SourceInvariant
<1> QED
  BY <1>1, SourceInvImplies, PTL

---------------------------------------------------------------------------
(***************************************************************************)
(* Agreement at rest.                                                      *)
(***************************************************************************)

(* The source is, or is about to be, on the connection it has. *)
Live == connected \/ pc = "starting"

(* A text about channel c, and what it says of it; a queue of texts that turns what is
   known of c, x, into y. *)
Tells(e, c) == \/ e.op = "advertise" /\ e.of[c] # None
               \/ e.op = "unadvertise" /\ e.of = c
Told(e, c) == IF e.op = "advertise" THEN e.of[c] ELSE None
Leads(q, c, x, y) ==
  \/ \E i \in 1..Len(q) : /\ Tells(q[i], c) /\ Told(q[i], c) = y
                          /\ \A j \in 1..Len(q) : j > i => ~Tells(q[j], c)
  \/ x = y /\ \A i \in 1..Len(q) : ~Tells(q[i], c)
Unsays(q, c) == \E i \in 1..Len(q) : q[i].op = "unadvertise" /\ q[i].of = c

(* The server will have subscription s once the first n requests of q are handled, if
   it has it now exactly when x. *)
AsksFor(e, s) == e.op = "subscribe" /\ s \in e.ss
Ends(e, s) == e.op = "unsubscribe" /\ s[1] \in Ids(e.ss)
WillHave(q, n, s, x) ==
  \/ x /\ \A j \in 1..n : ~Ends(q[j], s)
  \/ \E i \in 1..n : AsksFor(q[i], s) /\ \A j \in 1..n : j > i => ~Ends(q[j], s)

(* For the channels the server has: what it will be subscribed to is sb, and no
   subscription is asked for before the one it replaces is ended. *)
Orderly(ch, tb, q, sb) ==
  \A s \in Nat \X ChanIds : ch[s[2]] # None =>
    /\ s \in sb <=> WillHave(q, Len(q), s, s \in tb)
    /\ \A i \in 1..Len(q), o \in Nat \X ChanIds :
         AsksFor(q[i], s) /\ o # s /\ o[2] = s[2] => ~WillHave(q, i - 1, o, o \in tb)

(* The dialog misses no channel of its server; the texts under way lead from the
   catalog to the server's channels, and what they take back is gone for good. *)
DialogInv == DialogOwns /\ link = "open" => Known(chans) \subseteq Known(found)
CatalogInv ==
  demand /\ pc # "off" /\ link = "open" /\ (Live \/ pending) =>
    \A c \in ChanIds : \E m : /\ Leads(batch, c, IF Live THEN adv[c] ELSE None, m)
                              /\ Leads(texts, c, m, chans[c])
UnsaidInv ==
  pc # "off" => \A c \in ChanIds : Unsays(texts, c) \/ Unsays(batch, c) => c <= top /\ chans[c] = None

(* In demand mode only wanted channels are subscribed, and the host was told of the
   catalog. *)
OnlyInv ==
  demand => /\ \A s \in subs : filteredAdvertisedTopics(adv, selected)[s[2]] \in lastDesired
            /\ listed = buildAvailableTopics(adv, selected) \/ Known(adv) = {}

(* A subscription id names one subscription. *)
IdsInv ==
  pc # "off" =>
    /\ \A s \in subs : s[1] < nextId
    /\ \A s, r \in subs \cup table \cup Asked(toServer) : s[1] = r[1] => s = r
    /\ Live => \A s \in subs : s[2] <= top

OrderInv == demand /\ Live => Orderly(chans, table, toServer, subs)
BoundInv ==
  Live => \A s \in subs : chans[s[2]] \notin Refused \cup {None} => <<s[1], chans[s[2]]>> \in bind
LegacyInv ==
  ~demand /\ Live => \A s \in table \cup Asked(toServer) :
    chans[s[2]] # None => s \in subs /\ \E p \in selected : p[2] = chans[s[2]]

RestInv ==
  DialogInv /\ CatalogInv /\ UnsaidInv /\ OnlyInv /\ IdsInv /\ OrderInv /\ BoundInv /\ LegacyInv

(* An empty queue of texts leads nowhere. *)
LEMMA LeadsNowhere == \A c, x, y : Leads(<<>>, c, x, y) <=> x = y
<1> TAKE c, x, y
<1>1. 1..Len(<<>>) = {}
  OBVIOUS
<1> DEFINE q == <<>>
<1>2. 1..Len(q) = {}
  BY <1>1
<1> HIDE DEF q
<1>3. Leads(q, c, x, y) <=> x = y
  BY <1>2 DEF Leads
<1> QED
  BY <1>3 DEF q

(* One text more at the end leads on to what it says. *)
LEMMA LeadsOn ==
  ASSUME NEW q \in Seq(Text), NEW e \in Text, NEW c, NEW x, NEW y, Leads(q, c, x, y)
  PROVE  Leads(Append(q, e), c, x, IF Tells(e, c) THEN Told(e, c) ELSE y)
<1> DEFINE u == Append(q, e)
<1>1. /\ Len(q) \in Nat /\ Len(u) = Len(q) + 1 /\ u[Len(q) + 1] = e
      /\ \A i \in 1..Len(q) : u[i] = q[i]
  OBVIOUS
<1> HIDE DEF u
<1>2. /\ \A i \in 1..Len(u) : i \in 1..Len(q) \/ i = Len(q) + 1
      /\ \A i \in 1..Len(q) : i \in 1..Len(u)
      /\ Len(q) + 1 \in 1..Len(u) /\ \A j \in 1..Len(u) : ~(j > Len(q) + 1)
  BY <1>1
<1>3. CASE Tells(e, c)
  <2>1. Leads(u, c, x, Told(e, c))
    BY <1>1, <1>2, <1>3 DEF Leads
  <2> QED
    BY <1>3, <2>1 DEF u
<1>4. CASE ~Tells(e, c)
  <2>1. Leads(u, c, x, y)
    <3>1. CASE \E i \in 1..Len(q) : /\ Tells(q[i], c) /\ Told(q[i], c) = y
                                    /\ \A j \in 1..Len(q) : j > i => ~Tells(q[j], c)
      BY <1>1, <1>2, <1>4, <3>1 DEF Leads
    <3>2. CASE x = y /\ \A i \in 1..Len(q) : ~Tells(q[i], c)
      BY <1>1, <1>2, <1>4, <3>2 DEF Leads
    <3> QED
      BY <3>1, <3>2 DEF Leads
  <2> QED
    BY <1>4, <2>1 DEF u
<1> QED
  BY <1>3, <1>4

(* Once the first text is handled, the rest leads from what it says. *)
LEMMA LeadsFrom ==
  ASSUME NEW q \in Seq(Text), q # <<>>, NEW c, NEW x, NEW y, Leads(q, c, x, y)
  PROVE  Leads(Tail(q), c, IF Tells(Head(q), c) THEN Told(Head(q), c) ELSE x, y)
<1> DEFINE u == Tail(q)
           z == IF Tells(Head(q), c) THEN Told(Head(q), c) ELSE x
<1>1. /\ Len(q) \in Nat /\ Len(q) >= 1 /\ Len(u) = Len(q) - 1 /\ Head(q) = q[1]
      /\ \A i \in 1..Len(u) : u[i] = q[i + 1]
  OBVIOUS
<1> HIDE DEF u
<1>2. /\ \A i \in 1..Len(q) : i = 1 \/ (i - 1 \in 1..Len(u) /\ q[i] = u[i - 1])
      /\ \A i \in 1..Len(u) : i + 1 \in 1..Len(q) /\ i + 1 > 1
      /\ \A i \in 1..Len(u), k \in 1..Len(q) : i > k - 1 => i + 1 > k
  BY <1>1
<1>3. CASE x = y /\ \A i \in 1..Len(q) : ~Tells(q[i], c)
  <2>1. z = y
    BY <1>1, <1>3
  <2>2. \A i \in 1..Len(u) : ~Tells(u[i], c)
    BY <1>1, <1>2, <1>3
  <2> QED
    BY <2>1, <2>2 DEF Leads, u
<1>4. CASE \E i \in 1..Len(q) : /\ Tells(q[i], c) /\ Told(q[i], c) = y
                                /\ \A j \in 1..Len(q) : j > i => ~Tells(q[j], c)
  <2>1. PICK i \in 1..Len(q) : /\ Tells(q[i], c) /\ Told(q[i], c) = y
                               /\ \A j \in 1..Len(q) : j > i => ~Tells(q[j], c)
    BY <1>4
  <2>2. CASE i = 1
    <3>1. z = y
      BY <1>1, <2>1, <2>2
    <3>2. \A j \in 1..Len(u) : ~Tells(u[j], c)
      BY <1>1, <1>2, <2>1, <2>2
    <3> QED
      BY <3>1, <3>2 DEF Leads, u
  <2>3. CASE i # 1
    <3>1. i - 1 \in 1..Len(u) /\ q[i] = u[i - 1]
      BY <1>2, <2>3
    <3>2. \A j \in 1..Len(u) : j > i - 1 => ~Tells(u[j], c)
      BY <1>1, <1>2, <2>1
    <3> QED
      BY <2>1, <3>1, <3>2 DEF Leads, u
  <2> QED
    BY <2>2, <2>3
<1> QED
  BY <1>3, <1>4 DEF Leads

(* The server's burst leads from nothing, or from a part of its channels, to all. *)
LEMMA BurstLeads ==
  ASSUME NEW w \in Channels, NEW c \in ChanIds, NEW x, x \in {w[c], None}
  PROVE  w[c] # None \/ x = w[c] => Leads(Burst(<<>>, w), c, x, w[c])
<1> HAVE w[c] # None \/ x = w[c]
<1>1. CASE Known(w) = {}
  <2>1. w[c] = None
    BY <1>1 DEF Known
  <2> QED
    BY <1>1, <2>1, LeadsNowhere DEF Burst
<1>2. CASE Known(w) # {}
  <2> DEFINE e == [op |-> "advertise", of |-> w]
  <2>1. e \in Text /\ e.op = "advertise" /\ e.of = w
    BY DEF Text
  <2>2. Burst(<<>>, w) = Append(<<>>, e)
    BY <1>2 DEF Burst
  <2> HIDE DEF e
  <2>3. Leads(<<>>, c, x, x) /\ <<>> \in Seq(Text)
    BY LeadsNowhere
  <2>4. Leads(Append(<<>>, e), c, x, IF Tells(e, c) THEN Told(e, c) ELSE x)
    BY <2>1, <2>3, LeadsOn
  <2>5. (IF Tells(e, c) THEN Told(e, c) ELSE x) = w[c]
    BY <2>1 DEF Tells, Told
  <2> QED
    BY <2>2, <2>4, <2>5
<1> QED
  BY <1>1, <1>2

(* Together they are the agreement at rest. *)
LEMMA RestAgrees == SourceInv /\ RestInv => AtRestAgree
<1> SUFFICES ASSUME SourceInv, RestInv, AtRest
             PROVE  LET shown == filteredAdvertisedTopics(chans, selected)
                    IN  /\ demand => /\ adv = chans /\ table = subs
                                     /\ {s[2] : s \in table} = {c \in ChanIds : shown[c] \in lastDesired}
                                     /\ Known(chans) # {} => listed = buildAvailableTopics(chans, selected)
                        /\ ~demand => \A s \in table : \E p \in selected : p[2] = chans[s[2]]
                        /\ \A s \in table : chans[s[2]] \notin Refused => <<s[1], chans[s[2]]>> \in bind
  BY DEF AtRestAgree
<1> DEFINE shown == filteredAdvertisedTopics(chans, selected)
<1>1. pc = "idle" /\ connected /\ link = "open" /\ texts = <<>> /\ toServer = <<>> /\ Live
  BY DEF AtRest, Live
<1>2. Typed /\ LinkInv /\ FrameInv /\ WantedInv
  BY DEF SourceInv
<1>3. CatalogInv /\ OnlyInv /\ OrderInv /\ BoundInv /\ LegacyInv
  BY DEF RestInv
<1>4. batch = <<>> /\ \A s \in table : chans[s[2]] # None
  BY <1>1, <1>2, StreamsItsOwn DEF LinkInv
<1>5. Len(<<>>) = 0 /\ 1..0 = {}
  OBVIOUS
<1>6. ASSUME demand
      PROVE  /\ adv = chans /\ table = subs
             /\ {s[2] : s \in table} = {c \in ChanIds : shown[c] \in lastDesired}
             /\ Known(chans) # {} => listed = buildAvailableTopics(chans, selected)
  <2>1. \A c \in ChanIds : adv[c] = chans[c]
    <3>1. \A c \in ChanIds : \E m : Leads(<<>>, c, adv[c], m) /\ Leads(<<>>, c, m, chans[c])
      BY <1>1, <1>3, <1>4, <1>6 DEF CatalogInv
    <3> QED
      BY <3>1, LeadsNowhere
  <2>2. adv = chans
    BY <1>2, <2>1, TypedFacts DEF Channels
  <2>3. \A s \in subs : s[2] \in ChanIds /\ shown[s[2]] \in lastDesired
    BY <1>2, <1>3, <1>6, <2>2, TypedFacts DEF OnlyInv
  <2>4. \A s \in subs : chans[s[2]] # None
    BY <1>2, <2>3, TypedFacts, WantedHasTopic
  <2>5. \A s : WillHave(<<>>, 0, s, s \in table) <=> s \in table
    BY <1>5 DEF WillHave
  <2>6. \A s \in Nat \X ChanIds : chans[s[2]] # None => (s \in subs <=> s \in table)
    <3>1. \A s \in Nat \X ChanIds : chans[s[2]] # None => (s \in subs <=> WillHave(<<>>, 0, s, s \in table))
      BY <1>1, <1>3, <1>5, <1>6 DEF OrderInv, Orderly
    <3> QED
      BY <2>5, <3>1
  <2>7. table = subs
    <3>1. table \subseteq Nat \X ChanIds /\ subs \subseteq Nat \X ChanIds
      BY <1>2, TypedFacts
    <3> QED
      BY <1>4, <2>4, <2>6, <3>1
  <2>8. \A c \in ChanIds : shown[c] \in lastDesired => \E s \in subs : s[2] = c
    BY <1>2, <1>6, <2>2 DEF WantedInv
  <2>9. {s[2] : s \in table} = {c \in ChanIds : shown[c] \in lastDesired}
    <3> HIDE DEF shown
    <3> QED
      BY <2>3, <2>7, <2>8
  <2> QED
    BY <1>3, <1>6, <2>2, <2>7, <2>9 DEF OnlyInv
<1>7. ~demand => \A s \in table : s \in subs /\ \E p \in selected : p[2] = chans[s[2]]
  BY <1>1, <1>3, <1>4 DEF LegacyInv
<1>8. \A s \in table : chans[s[2]] \notin Refused => <<s[1], chans[s[2]]>> \in bind
  <2>1. table \subseteq subs
    BY <1>6, <1>7
  <2> QED
    BY <1>1, <1>3, <1>4, <2>1 DEF BoundInv
<1> QED
  BY <1>6, <1>7, <1>8

(* What texts take back. *)
LEMMA UnsayingNothing == \A c : ~Unsays(<<>>, c)
<1>1. Len(<<>>) = 0 /\ 1..0 = {}
  OBVIOUS
<1> QED
  BY <1>1 DEF Unsays

(* The first text handled, the rest takes back no more. *)
LEMMA UnsayingLess ==
  ASSUME NEW q \in Seq(Text), q # <<>>, NEW c
  PROVE  /\ Unsays(Tail(q), c) => Unsays(q, c)
         /\ Head(q).op = "unadvertise" /\ Head(q).of = c => Unsays(q, c)
<1>1. /\ Len(q) \in Nat /\ Len(q) >= 1 /\ Len(Tail(q)) = Len(q) - 1 /\ Head(q) = q[1]
      /\ \A i \in 1..Len(Tail(q)) : Tail(q)[i] = q[i + 1] /\ i + 1 \in 1..Len(q)
  OBVIOUS
<1>2. 1 \in 1..Len(q)
  BY <1>1
<1> QED
  BY <1>1, <1>2 DEF Unsays

(* One more text takes back no more than it says itself. *)
LEMMA UnsayingMore ==
  ASSUME NEW q \in Seq(Text), NEW e \in Text, NEW c, Unsays(Append(q, e), c)
  PROVE  Unsays(q, c) \/ (e.op = "unadvertise" /\ e.of = c)
<1> DEFINE u == Append(q, e)
<1>1. /\ Len(q) \in Nat /\ Len(u) = Len(q) + 1 /\ u[Len(q) + 1] = e
      /\ \A i \in 1..Len(q) : u[i] = q[i]
  OBVIOUS
<1> HIDE DEF u
<1>2. PICK i \in 1..Len(u) : u[i].op = "unadvertise" /\ u[i].of = c
  BY DEF Unsays, u
<1>3. i \in 1..Len(q) \/ i = Len(q) + 1
  BY <1>1
<1> QED
  BY <1>1, <1>2, <1>3 DEF Unsays

(* The burst of a connection takes nothing back. *)
LEMMA BurstUnsays ==
  ASSUME NEW w \in Channels, NEW c
  PROVE  ~Unsays(Burst(<<>>, w), c)
<1>1. CASE Known(w) = {}
  BY <1>1, UnsayingNothing DEF Burst
<1>2. CASE Known(w) # {}
  <2> DEFINE e == [op |-> "advertise", of |-> w]
  <2>1. e \in Text /\ e.op = "advertise" /\ <<>> \in Seq(Text)
    BY DEF Text
  <2>2. Burst(<<>>, w) = Append(<<>>, e)
    BY <1>2 DEF Burst
  <2> HIDE DEF e
  <2>3. Unsays(Append(<<>>, e), c) => FALSE
    <3> SUFFICES ASSUME Unsays(Append(<<>>, e), c) PROVE FALSE
      OBVIOUS
    <3>1. Unsays(<<>>, c) \/ (e.op = "unadvertise" /\ e.of = c)
      BY <2>1, UnsayingMore
    <3> QED
      BY <2>1, <3>1, UnsayingNothing
  <2> QED
    BY <2>2, <2>3
<1> QED
  BY <1>1, <1>2

---------------------------------------------------------------------------
(* The dialog's catalog. *)
LEMMA DialogStep ==
  ASSUME Races = {}, SourceInv, DialogInv, [Next]_vars
  PROVE  DialogInv'
<1>1. Typed
  BY DEF SourceInv
<1>2. CASE connectToServer
  <2>1. found' = Merge(chans, found) /\ chans' = chans
    BY <1>2 DEF connectToServer, server
  <2>2. \A c \in ChanIds : chans[c] # None => found'[c] # None
    BY <1>1, <2>1, TypedFacts, Merging
  <2> QED
    BY <2>1, <2>2 DEF DialogInv, Known
<1>3. CASE disconnect \/ onStop \/ Close \/ AttemptFails
  BY <1>3 DEF disconnect, onStop, Close, AttemptFails, DialogInv
<1>4. CASE StartStolen \/ StartFresh \/ StartEnds \/ onPoll
  <2>1. pc' # "off"
    BY <1>4 DEF StartStolen, StartFresh, StartEnds, onPoll, PollConnection, PollReset, TakeTexts, advertise,
       unadvertise, applyDesiredTopics, PollFrames
  <2> QED
    BY <2>1 DEF DialogInv, DialogOwns
<1>5. CASE Open
  <2>1. pc' = "off" => found' = chans'
    BY <1>5 DEF Open
  <2> QED
    BY <2>1 DEF DialogInv, DialogOwns, Known
<1>6. CASE AddChannel
  <2>1. PICK u \in Topics :
          LET one == [NoChannels EXCEPT ![top + 1] = u]
          IN  /\ top + 1 \in ChanIds /\ link = "open" /\ chans' = [chans EXCEPT ![top + 1] = u]
              /\ one \in Channels
              /\ found' = Merge(one, found) \/ found' = found
    BY <1>1, <1>6, Adding
  <2>2. pc' = pc /\ link' = link /\ (DialogOwns => found' = Merge([NoChannels EXCEPT ![top'] = chans'[top']], found))
    <3>1. \E t \in Topics : /\ chans' = [chans EXCEPT ![top'] = t]
                            /\ DialogOwns => found' = Merge([NoChannels EXCEPT ![top'] = t], found)
      BY <1>6 DEF AddChannel
    <3>2. top' \in ChanIds /\ chans \in Channels
      BY <1>1, <1>6, TypedFacts DEF AddChannel
    <3> QED
      BY <1>6, <3>1, <3>2 DEF AddChannel, Channels
  <2>3. top' = top + 1 /\ chans \in Channels /\ found \in Channels
    BY <1>1, <1>6, TypedFacts DEF AddChannel
  <2> DEFINE one == [NoChannels EXCEPT ![top + 1] = u]
  <2>4. one \in Channels /\ one[top + 1] = u /\ u # None /\ chans'[top + 1] = u
    BY <2>1, <2>3, EmptyCatalog, FoxgloveAssumption DEF Channels
  <2>5. \A c \in ChanIds : c # top + 1 => chans'[c] = chans[c]
    BY <2>1, <2>3 DEF Channels
  <2>6. DialogOwns => found' = Merge(one, found)
    BY <2>2, <2>3, <2>4
  <2> HIDE DEF one
  <2>7. \A c \in ChanIds : DialogOwns /\ (found[c] # None \/ one[c] # None) => found'[c] # None
    BY <2>3, <2>4, <2>6, Merging
  <2> QED
    BY <2>1, <2>2, <2>4, <2>5, <2>7 DEF DialogInv, DialogOwns, Known
<1>7. CASE RemoveChannel
  <2>1. PICK c \in Known(chans) : chans' = [chans EXCEPT ![c] = None]
    BY <1>7 DEF RemoveChannel
  <2>2. UNCHANGED <<pc, link, found>>
    BY <1>7 DEF RemoveChannel
  <2>3. \A d \in ChanIds : chans'[d] # None => chans[d] # None
    BY <1>1, <2>1, TypedFacts DEF Known, Channels
  <2> QED
    BY <2>2, <2>3 DEF DialogInv, DialogOwns, Known
<1>8. CASE setActiveTopics \/ ServerHandles \/ onBinaryMessage \/ UNCHANGED vars
  <2>1. UNCHANGED <<pc, link, found, chans>>
    BY <1>8 DEF setActiveTopics, ServerHandles, onBinaryMessage, vars, server
  <2> QED
    BY <2>1 DEF DialogInv, DialogOwns, Known
<1> QED
  BY <1>2, <1>3, <1>4, <1>5, <1>6, <1>7, <1>8 DEF Next

(* What a stream starts with. *)
LEMMA StartingOnDemand ==
  ASSUME NEW sel, NEW seed, StartStreaming(sel, seed)
  PROVE  /\ selected' = sel
         /\ demand' => /\ adv' = seed /\ listed' = buildAvailableTopics(seed, sel)
                       /\ UNCHANGED <<subs, bind, nextId, toServer>>
BY DEF StartStreaming

(* A stream starts with texts that lead from the dialog's catalog to the server's
   channels, and that take nothing back. *)
LEMMA StartingCatalog ==
  ASSUME Races = {}, SourceInv, DialogInv, StartStolen \/ StartFresh
  PROVE  \A c \in ChanIds : /\ Leads(texts', c, found[c], chans'[c])
                            /\ ~Unsays(texts', c)
<1>1. Typed /\ found \in Channels /\ chans \in Channels
  BY TypedFacts DEF SourceInv
<1>2. CASE StartStolen
  <2>1. /\ DialogOwns /\ link = "open" /\ Pairs(found) \subseteq Pairs(chans) /\ texts' = <<>> /\ chans' = chans
    BY <1>2 DEF StartStolen, CleanStart, queues
  <2>2. Known(chans) \subseteq Known(found)
    BY <2>1 DEF DialogInv
  <2>3. \A c \in Known(found) : found[c] = chans[c]
    <3> TAKE c \in Known(found)
    <3>1. <<c, found[c]>> \in Pairs(chans)
      BY <2>1 DEF Pairs
    <3> QED
      BY <3>1 DEF Pairs
  <2>4. \A c \in ChanIds : found[c] = chans[c]
    BY <2>2, <2>3 DEF Known
  <2> QED
    BY <2>1, <2>4, LeadsNowhere, UnsayingNothing
<1>3. CASE StartFresh
  <2>1. PICK w \in Worlds \cup {chans} :
          Pairs(found) \subseteq Pairs(w) /\ chans' = w /\ texts' = Burst(texts, w) /\ texts = <<>>
    BY <1>3 DEF StartFresh, CleanStart, Opens
  <2>2. w \in Channels
    BY <1>1, Worldly
  <2>3. \A c \in Known(found) : found[c] = w[c]
    <3> TAKE c \in Known(found)
    <3>1. <<c, found[c]>> \in Pairs(w)
      BY <2>1 DEF Pairs
    <3> QED
      BY <3>1 DEF Pairs
  <2>4. \A c \in ChanIds : found[c] \in {w[c], None} /\ (w[c] # None \/ found[c] = w[c])
    BY <2>3 DEF Known
  <2> QED
    BY <2>1, <2>2, <2>4, BurstLeads, BurstUnsays
<1> QED
  BY <1>2, <1>3

(* A channel that is taken back is gone for good: the server uses no id twice. *)
LEMMA UnsaidStep ==
  ASSUME Races = {}, SourceInv, DialogInv, UnsaidInv, [Next]_vars
  PROVE  UnsaidInv'
<1>1. Typed /\ LinkInv /\ ChannelInv
  BY DEF SourceInv
<1>2. ASSUME UNCHANGED <<chans, top, texts, batch>>, pc' # "off" => pc # "off"
      PROVE  UnsaidInv'
  BY <1>2 DEF UnsaidInv
<1>3. CASE connectToServer \/ disconnect \/ onStop
  <2>1. pc' = "off"
    BY <1>3 DEF connectToServer, disconnect, onStop, DialogOwns
  <2> QED
    BY <2>1 DEF UnsaidInv
<1>4. CASE StartStolen \/ StartFresh
  <2>1. batch' = <<>>
    BY <1>1, <1>4, CleanStarts
  <2> QED
    BY <1>4, <2>1, StartingCatalog, UnsayingNothing DEF UnsaidInv
<1>5. CASE StartEnds \/ setActiveTopics \/ PollConnection \/ PollReset \/ applyDesiredTopics
  <2>1. UNCHANGED <<chans, top, texts, batch>> /\ pc # "off"
    BY <1>5 DEF StartEnds, setActiveTopics, PollConnection, PollReset, applyDesiredTopics, queues, server
  <2> QED
    BY <1>2, <2>1
<1>6. CASE TakeTexts
  <2>1. texts' = <<>> /\ batch' = texts /\ pc # "off" /\ UNCHANGED <<chans, top>>
    BY <1>6 DEF TakeTexts, server
  <2> QED
    BY <2>1, UnsayingNothing DEF UnsaidInv
<1>7. CASE advertise \/ unadvertise
  <2>1. batch # <<>> /\ batch' = Tail(batch) /\ UNCHANGED <<pc, chans, top, texts>>
    BY <1>7 DEF advertise, unadvertise, server
  <2>2. \A c : Unsays(batch', c) => Unsays(batch, c)
    BY <1>1, <2>1, TypedFacts, UnsayingLess
  <2> QED
    BY <2>1, <2>2 DEF UnsaidInv
<1>8. CASE PollFrames \/ Close \/ AttemptFails
  <2>1. UNCHANGED <<chans, top, texts, batch>> /\ (pc' # "off" => pc # "off")
    BY <1>8 DEF PollFrames, Close, AttemptFails, queues, server
  <2> QED
    BY <1>2, <2>1
<1>9. CASE Open
  <2>1. PICK w \in Worlds \cup {chans} : texts' = (IF pc = "off" THEN texts ELSE Burst(texts, w))
    BY <1>9 DEF Open
  <2>2. texts = <<>> /\ pc \in {"off", "idle"} /\ UNCHANGED <<pc, batch>>
    BY <1>9 DEF Open, BurstAllowed
  <2>3. batch = <<>>
    BY <1>1, <2>2 DEF LinkInv
  <2>4. w \in Channels
    BY <1>1, Worldly
  <2> QED
    BY <2>1, <2>2, <2>3, <2>4, UnsayingNothing, BurstUnsays DEF UnsaidInv
<1>10. CASE AddChannel
  <2>1. PICK u \in Topics :
          LET one == [NoChannels EXCEPT ![top + 1] = u]
              e == [op |-> "advertise", of |-> one]
          IN  /\ top + 1 \in ChanIds /\ top' = top + 1 /\ chans' = [chans EXCEPT ![top + 1] = u]
              /\ e \in Text
              /\ texts' = texts \/ texts' = Append(texts, e)
    BY <1>1, <1>10, Adding
  <2> DEFINE e == [op |-> "advertise", of |-> [NoChannels EXCEPT ![top + 1] = u]]
  <2>2. e \in Text /\ e.op = "advertise" /\ (texts' = texts \/ texts' = Append(texts, e))
    BY <2>1
  <2>3. UNCHANGED <<pc, batch>>
    BY <1>10 DEF AddChannel
  <2> HIDE DEF e
  <2>4. \A c : Unsays(texts', c) => Unsays(texts, c)
    <3>1. \A c : Unsays(Append(texts, e), c) => Unsays(texts, c) \/ e.op = "unadvertise"
      BY <1>1, <2>2, TypedFacts, UnsayingMore
    <3> QED
      BY <2>2, <3>1
  <2>5. top \in Nat /\ ChanIds \subseteq Nat /\ chans \in Channels
    BY <1>1, TypedFacts, FoxgloveAssumption
  <2>6. \A c \in ChanIds : c <= top => c <= top' /\ chans'[c] = chans[c]
    <3>1. \A c \in ChanIds : c <= top => c <= top + 1 /\ c # top + 1
      BY <2>5
    <3> QED
      BY <2>1, <2>5, <3>1 DEF Channels
  <2> QED
    BY <2>3, <2>4, <2>6 DEF UnsaidInv
<1>11. CASE RemoveChannel
  <2>1. PICK c \in Known(chans) :
          /\ chans' = [chans EXCEPT ![c] = None]
          /\ texts' \in {texts, Append(texts, [op |-> "unadvertise", of |-> c])}
    BY <1>11 DEF RemoveChannel
  <2>2. UNCHANGED <<pc, batch, top>>
    BY <1>11 DEF RemoveChannel
  <2>3. c \in ChanIds /\ c <= top /\ chans \in Channels
    BY <1>1, TypedFacts DEF ChannelInv, Known
  <2> DEFINE e == [op |-> "unadvertise", of |-> c]
  <2>4. e \in Text /\ e.of = c /\ texts' \in {texts, Append(texts, e)}
    BY <2>1, <2>3 DEF Text
  <2> HIDE DEF e
  <2>5. \A d : Unsays(texts', d) => Unsays(texts, d) \/ d = c
    BY <1>1, <2>4, TypedFacts, UnsayingMore
  <2>6. chans'[c] = None /\ \A d \in ChanIds : chans'[d] \in {chans[d], None}
    BY <2>1, <2>3 DEF Channels
  <2> QED
    BY <2>2, <2>3, <2>5, <2>6 DEF UnsaidInv
<1>12. CASE ServerHandles \/ onBinaryMessage \/ UNCHANGED vars
  <2>1. UNCHANGED <<pc, chans, top, texts, batch>>
    BY <1>12 DEF ServerHandles, onBinaryMessage, vars, queues, server
  <2> QED
    BY <1>2, <2>1
<1> QED
  BY <1>3, <1>4, <1>5, <1>6, <1>7, <1>8, <1>9, <1>10, <1>11, <1>12 DEF Next, onPoll

(* The steps that leave catalog, texts and channels alone. *)
LEMMA CatalogFrame ==
  ASSUME CatalogInv, UNCHANGED <<demand, adv, chans, texts, batch>>,
         pc' # "off" => pc # "off", link' = "open" => link = "open", Live' <=> Live,
         link' = "open" /\ pending' => pending
  PROVE  CatalogInv'
BY DEF CatalogInv

(* The poll's own steps: what it has handled of the texts is in the catalog. *)
LEMMA CatalogOnPoll ==
  ASSUME SourceInv, CatalogInv, PollReset \/ TakeTexts \/ advertise \/ unadvertise
  PROVE  CatalogInv'
<1>1. Typed /\ LinkInv
  BY DEF SourceInv
<1>2. CASE PollReset
  <2>1. /\ pc = "reset" /\ connected' /\ adv' = NoChannels
        /\ UNCHANGED <<demand, chans, texts, batch, link>>
    BY <1>2 DEF PollReset, ForgetConnection, queues, server
  <2>2. link = "open" /\ pending /\ ~connected /\ ~Live /\ Live'
    BY <1>1, <2>1 DEF LinkInv, Live
  <2>3. demand => \A c \in ChanIds : \E m : Leads(batch, c, None, m) /\ Leads(texts, c, m, chans[c])
    BY <2>1, <2>2 DEF CatalogInv
  <2>4. \A c \in ChanIds : adv'[c] = None
    BY <2>1, EmptyCatalog
  <2> QED
    BY <2>1, <2>2, <2>3, <2>4 DEF CatalogInv
<1>3. CASE TakeTexts
  <2>1. /\ pc = "drain" /\ pc' = "text" /\ batch' = texts /\ texts' = <<>>
        /\ UNCHANGED <<connected, pending, demand, adv, chans, link>>
    BY <1>3 DEF TakeTexts, client, server
  <2>2. batch = <<>> /\ (Live' <=> Live)
    BY <1>1, <2>1 DEF LinkInv, Live
  <2> QED
    BY <2>1, <2>2, LeadsNowhere DEF CatalogInv
<1>4. CASE advertise \/ unadvertise
  <2> SUFFICES ASSUME demand', link' = "open", Live' \/ pending', NEW c \in ChanIds
               PROVE  \E m : Leads(batch', c, IF Live' THEN adv'[c] ELSE None, m) /\ Leads(texts', c, m, chans'[c])
    BY DEF CatalogInv
  <2>1. /\ pc = "text" /\ batch # <<>> /\ batch' = Tail(batch)
        /\ UNCHANGED <<pc, connected, pending, demand, texts, chans, link>>
    BY <1>4 DEF advertise, unadvertise, server
  <2>2. Live /\ Live' /\ demand /\ link = "open"
    BY <1>1, <2>1 DEF LinkInv, Live
  <2>3. PICK m : Leads(batch, c, adv[c], m) /\ Leads(texts, c, m, chans[c])
    BY <2>1, <2>2 DEF CatalogInv
  <2>4. Leads(Tail(batch), c, IF Tells(Head(batch), c) THEN Told(Head(batch), c) ELSE adv[c], m)
    BY <1>1, <2>1, <2>3, TypedFacts, LeadsFrom
  <2>5. adv'[c] = IF Tells(Head(batch), c) THEN Told(Head(batch), c) ELSE adv[c]
    <3>1. CASE advertise
      <4> DEFINE of == Head(batch).of
      <4>1. Head(batch).op = "advertise" /\ adv' = Merge(adv, of)
        BY <3>1 DEF advertise
      <4>2. of \in Channels /\ adv \in Channels
        BY <1>1, <2>1, <4>1, FirstText, TypedFacts
      <4>3. \/ adv'[c] = of[c] /\ of[c] # None
            \/ adv'[c] = adv[c] /\ of[c] = None
        BY <4>1, <4>2, Merging
      <4> QED
        BY <4>1, <4>3 DEF Tells, Told
    <3>2. CASE unadvertise
      <4> DEFINE d == Head(batch).of
      <4>1. Head(batch).op = "unadvertise" /\ adv' = [adv EXCEPT ![d] = None]
        BY <3>2 DEF unadvertise
      <4>2. adv \in Channels
        BY <1>1, TypedFacts
      <4>3. adv'[c] = IF d = c THEN None ELSE adv[c]
        BY <4>1, <4>2 DEF Channels
      <4> QED
        BY <4>1, <4>3 DEF Tells, Told
    <3> QED
      BY <1>4, <3>1, <3>2
  <2> QED
    BY <2>1, <2>2, <2>3, <2>4, <2>5
<1> QED
  BY <1>2, <1>3, <1>4

(* A change of the server's channels is announced by the text it sends. *)
LEMMA CatalogOnServer ==
  ASSUME SourceInv, CatalogInv, AddChannel \/ RemoveChannel
  PROVE  CatalogInv'
<1>1. Typed /\ texts \in Seq(Text) /\ chans \in Channels
  BY TypedFacts DEF SourceInv
<1>2. UNCHANGED <<pc, connected, pending, demand, adv, batch, link>>
  BY DEF AddChannel, RemoveChannel, client
<1>3. pc # "off" => \E e \in Text : /\ texts' = Append(texts, e)
                                    /\ \A c \in ChanIds : chans'[c] = IF Tells(e, c) THEN Told(e, c) ELSE chans[c]
  <2> HAVE pc # "off"
  <2>1. CASE AddChannel
    <3>1. PICK u \in Topics :
            LET one == [NoChannels EXCEPT ![top + 1] = u]
                e == [op |-> "advertise", of |-> one]
            IN  /\ top + 1 \in ChanIds /\ chans' = [chans EXCEPT ![top + 1] = u]
                /\ e \in Text
                /\ texts' = Append(texts, e)
      BY <1>1, <2>1, Adding
    <3> DEFINE one == [NoChannels EXCEPT ![top + 1] = u]
               e == [op |-> "advertise", of |-> one]
    <3>2. e \in Text /\ e.op = "advertise" /\ e.of = one /\ texts' = Append(texts, e)
      BY <3>1
    <3>3. \A c \in ChanIds : one[c] = IF c = top + 1 THEN u ELSE None
      BY <3>1 DEF NoChannels
    <3>4. \A c \in ChanIds : chans'[c] = IF c = top + 1 THEN u ELSE chans[c]
      BY <1>1, <3>1 DEF Channels
    <3> HIDE DEF one, e
    <3>5. \A c \in ChanIds : chans'[c] = IF Tells(e, c) THEN Told(e, c) ELSE chans[c]
      BY <3>2, <3>3, <3>4, FoxgloveAssumption DEF Tells, Told
    <3> QED
      BY <3>2, <3>5
  <2>2. CASE RemoveChannel
    <3>1. PICK d \in Known(chans) :
            /\ chans' = [chans EXCEPT ![d] = None]
            /\ texts' = Append(texts, [op |-> "unadvertise", of |-> d])
      BY <2>2 DEF RemoveChannel, DialogOwns
    <3> DEFINE e == [op |-> "unadvertise", of |-> d]
    <3>2. d \in ChanIds
      BY DEF Known
    <3>3. e \in Text /\ e.op = "unadvertise" /\ e.of = d /\ texts' = Append(texts, e)
      BY <3>1, <3>2 DEF Text
    <3>4. \A c \in ChanIds : chans'[c] = IF d = c THEN None ELSE chans[c]
      BY <1>1, <3>1 DEF Channels
    <3> HIDE DEF e
    <3>5. \A c \in ChanIds : chans'[c] = IF Tells(e, c) THEN Told(e, c) ELSE chans[c]
      BY <3>3, <3>4 DEF Tells, Told
    <3> QED
      BY <3>3, <3>5
  <2> QED
    BY <2>1, <2>2
<1>4. \A c \in ChanIds : \A m : pc # "off" /\ Leads(texts, c, m, chans[c]) => Leads(texts', c, m, chans'[c])
  BY <1>1, <1>3, LeadsOn
<1>5. Live' <=> Live
  BY <1>2 DEF Live
<1> QED
  BY <1>2, <1>4, <1>5 DEF CatalogInv

(* The texts under way lead from the catalog to the server's channels. *)
LEMMA CatalogStep ==
  ASSUME Races = {}, SourceInv, DialogInv, CatalogInv, [Next]_vars
  PROVE  CatalogInv'
<1>1. Typed /\ LinkInv /\ ChannelInv
  BY DEF SourceInv
<1>2. CASE connectToServer \/ disconnect \/ onStop
  <2>1. pc' = "off"
    BY <1>2 DEF connectToServer, disconnect, onStop, DialogOwns
  <2> QED
    BY <2>1 DEF CatalogInv
<1>3. CASE StartStolen \/ StartFresh
  <2>1. PICK sel : StartStreaming(sel, found)
    BY <1>3 DEF StartStolen, StartFresh
  <2>2. demand' => adv' = found
    BY <2>1, StartingOnDemand
  <2>3. batch' = <<>> /\ pc' = "starting"
    BY <1>1, <1>3, CleanStarts
  <2>4. Live'
    BY <2>3 DEF Live
  <2>5. \A c \in ChanIds : Leads(texts', c, found[c], chans'[c])
    BY <1>3, StartingCatalog
  <2> QED
    BY <2>2, <2>3, <2>4, <2>5, LeadsNowhere DEF CatalogInv
<1>4. CASE StartEnds
  <2>1. UNCHANGED <<demand, adv, chans, texts, batch, link, pending>> /\ pc = "starting" /\ connected'
    BY <1>4 DEF StartEnds, queues, server
  <2> QED
    BY <2>1, CatalogFrame DEF Live
<1>5. CASE setActiveTopics \/ applyDesiredTopics
  <2>1. /\ UNCHANGED <<demand, adv, chans, texts, batch, link, pending, connected>> /\ pc # "off"
        /\ pc' = "starting" <=> pc = "starting"
    BY <1>5 DEF setActiveTopics, applyDesiredTopics, queues, server
  <2> QED
    BY <2>1, CatalogFrame DEF Live
<1>6. CASE PollConnection
  <2>1. /\ UNCHANGED <<demand, adv, chans, texts, batch, connected>>
        /\ pc = "idle" /\ pc' # "starting"
        /\ link' = "open" => link = "open" /\ (pending' => pending)
    BY <1>6 DEF PollConnection, AttemptFailed, queues
  <2> QED
    BY <2>1, CatalogFrame DEF Live
<1>7. CASE PollReset \/ TakeTexts \/ advertise \/ unadvertise
  BY <1>7, CatalogOnPoll
<1>8. CASE PollFrames
  <2>1. /\ UNCHANGED <<demand, adv, chans, texts, batch, link, pending, connected>> /\ pc = "frames" /\ pc' = "idle"
    BY <1>8 DEF PollFrames, client, server
  <2> QED
    BY <2>1, CatalogFrame DEF Live
<1>9. CASE Close \/ AttemptFails
  BY <1>9 DEF Close, AttemptFails, CatalogInv
<1>10. CASE Open
  <2>1. PICK w \in Worlds \cup {chans} : chans' = w /\ texts' = (IF pc = "off" THEN texts ELSE Burst(texts, w))
    BY <1>10 DEF Open
  <2>2. /\ texts = <<>> /\ pc \in {"off", "idle"} /\ link # "open"
        /\ UNCHANGED <<pc, connected, batch>>
    BY <1>10 DEF Open, BurstAllowed, client
  <2>3. batch = <<>> /\ ~Live'
    BY <1>1, <2>2 DEF LinkInv, Live
  <2>4. w \in Channels
    BY <1>1, Worldly
  <2>5. \A c \in ChanIds : Leads(Burst(<<>>, w), c, None, w[c])
    BY <2>4, BurstLeads
  <2> QED
    BY <2>1, <2>2, <2>3, <2>5, LeadsNowhere DEF CatalogInv
<1>11. CASE AddChannel \/ RemoveChannel
  BY <1>11, CatalogOnServer
<1>12. CASE ServerHandles \/ onBinaryMessage \/ UNCHANGED vars
  <2>1. UNCHANGED <<pc, demand, adv, chans, texts, batch, link, pending, connected>>
    BY <1>12 DEF ServerHandles, onBinaryMessage, vars, client, queues, server
  <2> QED
    BY <2>1, CatalogFrame DEF Live
<1> QED
  BY <1>2, <1>3, <1>4, <1>5, <1>6, <1>7, <1>8, <1>9, <1>10, <1>11, <1>12 DEF Next, onPoll

(* Reconciling leaves only wanted channels subscribed. *)
LEMMA ReconcilingOnly ==
  ASSUME Typed, NEW f, NEW desired, reconcileSubscriptions(f, desired)
  PROVE  \A s \in subs' : filteredAdvertisedTopics(f, selected)[s[2]] \in desired
<1> DEFINE cs == to_subscribe(f, desired)
           gone == to_unsubscribe(f, desired)
           new == registerSubscription(nextId, cs)
<1>1. subs' = (subs \ gone) \cup new
  BY DEF reconcileSubscriptions
<1>2. /\ \A s \in subs \ gone : filteredAdvertisedTopics(f, selected)[s[2]] \in desired
      /\ cs \in SUBSET ChanIds /\ \A c \in cs : filteredAdvertisedTopics(f, selected)[c] \in desired
      /\ new = registerSubscription(nextId, cs) /\ nextId \in Nat
  BY TypedFacts DEF to_subscribe, to_unsubscribe
<1> HIDE DEF cs, gone, new
<1>3. \A s \in new : s[2] \in cs
  BY <1>2, Registered
<1> QED
  BY <1>1, <1>2, <1>3

(* In demand mode only wanted channels stay subscribed, and the host is told. *)
LEMMA OnlyStep ==
  ASSUME Races = {}, SourceInv, OnlyInv, [Next]_vars
  PROVE  OnlyInv'
<1>1. Typed /\ LinkInv /\ ChannelInv
  BY DEF SourceInv
<1>2. ASSUME UNCHANGED <<demand, selected, adv, subs, lastDesired, listed>>
      PROVE  OnlyInv'
  BY <1>2 DEF OnlyInv, filteredAdvertisedTopics, buildAvailableTopics, passesAdvertiseFilter, Known
<1>3. CASE StartStolen \/ StartFresh
  <2>1. PICK sel : StartStreaming(sel, found)
    BY <1>3 DEF StartStolen, StartFresh
  <2>2. selected' = sel /\ (demand' => adv' = found /\ listed' = buildAvailableTopics(found, sel) /\ subs' = subs)
    BY <2>1, StartingOnDemand
  <2>3. pc = "off"
    BY <1>3 DEF StartStolen, StartFresh, DialogOwns
  <2>4. subs = {}
    BY <1>1, <2>3 DEF LinkInv
  <2> QED
    BY <2>2, <2>4 DEF OnlyInv
<1>4. CASE onStop
  BY <1>4 DEF onStop, OnlyInv
<1>5. CASE PollReset
  <2>1. adv' = NoChannels /\ subs' = {}
    BY <1>5 DEF PollReset, ForgetConnection
  <2> QED
    BY <2>1, EmptyCatalog DEF OnlyInv, Known
<1>6. CASE advertise
  <2> DEFINE all == Merge(adv, Head(batch).of)
  <2>1. /\ adv' = all /\ UNCHANGED <<demand, selected, lastDesired>>
        /\ demand => reconcileSubscriptions(all, lastDesired) /\ listed' = buildAvailableTopics(all, selected)
    BY <1>6 DEF advertise
  <2> HIDE DEF all
  <2>2. demand => \A s \in subs' : filteredAdvertisedTopics(all, selected)[s[2]] \in lastDesired
    BY <1>1, <2>1, ReconcilingOnly
  <2> QED
    BY <2>1, <2>2 DEF OnlyInv
<1>7. CASE unadvertise
  <2> DEFINE c == Head(batch).of
  <2>1. /\ batch # <<>> /\ Head(batch).op = "unadvertise"
        /\ adv' = [adv EXCEPT ![c] = None] /\ subs' = subs \ {s \in subs : s[2] = c}
        /\ listed' = IF demand /\ adv[c] # None THEN buildAvailableTopics(adv', selected) ELSE listed
        /\ UNCHANGED <<demand, selected, lastDesired>>
    BY <1>7 DEF unadvertise
  <2>2. c \in ChanIds /\ adv \in Channels /\ subs \subseteq Nat \X ChanIds
    BY <1>1, <2>1, FirstText, TypedFacts
  <2>3. \A d \in ChanIds : d # c => adv'[d] = adv[d]
    BY <2>1, <2>2 DEF Channels
  <2>4. \A d \in ChanIds : d # c =>
          filteredAdvertisedTopics(adv', selected)[d] = filteredAdvertisedTopics(adv, selected)[d]
    BY <2>3 DEF filteredAdvertisedTopics
  <2>5. adv[c] = None => adv' = adv
    BY <2>1, <2>2 DEF Channels
  <2> HIDE DEF c
  <2>6. demand => \A s \in subs' : filteredAdvertisedTopics(adv', selected)[s[2]] \in lastDesired
    <3>1. \A s \in subs' : s \in subs /\ s[2] # c /\ s[2] \in ChanIds
      BY <2>1, <2>2
    <3> QED
      BY <2>4, <3>1 DEF OnlyInv
  <2>7. demand => listed' = buildAvailableTopics(adv', selected) \/ Known(adv') = {}
    <3>1. CASE adv[c] # None
      BY <2>1, <3>1
    <3>2. CASE adv[c] = None
      BY <2>1, <2>5, <3>2 DEF OnlyInv
    <3> QED
      BY <3>1, <3>2
  <2> QED
    BY <2>1, <2>6, <2>7 DEF OnlyInv
<1>8. CASE applyDesiredTopics
  <2>1. UNCHANGED <<demand, selected, adv, listed>>
    BY <1>8 DEF applyDesiredTopics
  <2>2. CASE lastDesired' = slot /\ reconcileSubscriptions(adv, slot)
    <3>1. \A s \in subs' : filteredAdvertisedTopics(adv, selected)[s[2]] \in slot
      BY <1>1, <2>2, ReconcilingOnly
    <3> QED
      BY <2>1, <2>2, <3>1 DEF OnlyInv, buildAvailableTopics, filteredAdvertisedTopics, Known
  <2>3. CASE UNCHANGED <<lastDesired, subs>>
    BY <1>2, <2>1, <2>3
  <2> QED
    BY <1>8, <2>2, <2>3 DEF applyDesiredTopics
<1>9. CASE connectToServer \/ disconnect \/ StartEnds \/ setActiveTopics \/ PollConnection
  BY <1>2, <1>9 DEF connectToServer, disconnect, StartEnds, setActiveTopics, PollConnection, client
<1>10. CASE TakeTexts \/ PollFrames \/ Close \/ Open \/ AttemptFails
  BY <1>2, <1>10 DEF TakeTexts, PollFrames, Close, Open, AttemptFails, client
<1>11. CASE AddChannel \/ RemoveChannel \/ ServerHandles \/ onBinaryMessage \/ UNCHANGED vars
  BY <1>2, <1>11 DEF AddChannel, RemoveChannel, ServerHandles, onBinaryMessage, vars, client
<1> QED
  BY <1>3, <1>4, <1>5, <1>6, <1>7, <1>8, <1>9, <1>10, <1>11 DEF Next, onPoll

---------------------------------------------------------------------------
(* A step that subscribes to cs and ends gone, with the topics of f. *)
Registers(cs, gone, f) ==
  LET new == registerSubscription(nextId, cs)
  IN  /\ subs' = (subs \ gone) \cup new
      /\ bind' = bindChannel(gone, new, f)
      /\ TakeIds(Cardinality(new))
      /\ Send(gone, new)

(* Every step that subscribes, in whatever mode, subscribes to channels of whose topics
   it is right; in demand mode to channels it is not subscribed to, in legacy mode to
   selected topics, ending nothing. *)
LEMMA Registrations ==
  ASSUME Races = {}, SourceInv, advertise \/ applyDesiredTopics \/ StartStolen \/ StartFresh
  PROVE  \/ UNCHANGED <<subs, bind, nextId, toServer>>
         \/ \E cs \in SUBSET ChanIds, gone \in SUBSET subs : \E f :
              /\ Registers(cs, gone, f)
              /\ \A c \in cs : f[c] \in Topics /\ Right(chans', top', c, f[c])
              /\ demand' => \A c \in cs : \A s \in subs : s[2] # c
              /\ ~demand' => gone = {} /\ \A c \in cs : \E p \in selected' : p[2] = f[c]
<1>1. Typed /\ LinkInv /\ ChannelInv /\ WantedInv
  BY DEF SourceInv
<1>2. ASSUME NEW f \in Channels, NEW desired \in SUBSET Topics, reconcileSubscriptions(f, desired)
      PROVE  \E gone \in SUBSET subs, cs \in SUBSET ChanIds :
               /\ Registers(cs, gone, f)
               /\ \A c \in cs : /\ filteredAdvertisedTopics(f, selected)[c] \in desired
                                /\ f[c] \in Topics /\ \A s \in subs : s[2] # c
  <2> DEFINE cs == to_subscribe(f, desired)
             gone == to_unsubscribe(f, desired)
  <2>1. Registers(cs, gone, f)
    BY <1>2 DEF reconcileSubscriptions, Registers
  <2>2. /\ gone \in SUBSET subs /\ cs \in SUBSET ChanIds
        /\ \A c \in cs : filteredAdvertisedTopics(f, selected)[c] \in desired /\ \A s \in subs : s[2] # c
    BY DEF to_subscribe, to_unsubscribe
  <2> HIDE DEF cs, gone
  <2>3. \A c \in cs : f[c] \in Topics
    BY <1>2, <2>2, WantedHasTopic
  <2> QED
    BY <2>1, <2>2, <2>3
<1>3. CASE advertise
  <2> DEFINE of == Head(batch).of
             all == Merge(adv, of)
             picked == {c \in Known(of) : of[c] \in Supported /\ \E s \in selected : s[2] = of[c]}
  <2>1. /\ pc = "text" /\ batch # <<>> /\ Head(batch).op = "advertise"
        /\ \/ demand /\ reconcileSubscriptions(all, lastDesired)
           \/ ~demand /\ SubscribeAll(picked, all)
        /\ UNCHANGED <<chans, top, demand, selected>>
    BY <1>3 DEF advertise
  <2>2. of \in Channels /\ adv \in Channels /\ all \in Channels
    BY <1>1, <2>1, FirstText, TypedFacts, Merging
  <2>3. \A c \in ChanIds : of[c] # None => of[c] \in Topics /\ Right(chans, top, c, of[c])
    <3> TAKE c \in ChanIds
    <3> HAVE of[c] # None
    <3>1. of[c] \in Topics
      BY <2>2 DEF Channels
    <3>2. Says(batch, c, of[c])
      BY <1>1, <2>1, TypedFacts, SayingLess
    <3> QED
      BY <1>1, <2>1, <3>1, <3>2 DEF ChannelInv
  <2>4. \A c \in ChanIds : \/ all[c] = of[c] /\ of[c] # None
                           \/ all[c] = adv[c] /\ of[c] = None
    BY <2>2, Merging
  <2>5. picked \in SUBSET ChanIds /\ \A c \in picked : of[c] # None /\ \E s \in selected : s[2] = of[c]
    BY DEF Known
  <2> HIDE DEF of, all, picked
  <2>6. CASE demand /\ reconcileSubscriptions(all, lastDesired)
    <3>1. PICK gone \in SUBSET subs, cs \in SUBSET ChanIds :
            /\ Registers(cs, gone, all)
            /\ \A c \in cs : /\ filteredAdvertisedTopics(all, selected)[c] \in lastDesired
                             /\ all[c] \in Topics /\ \A s \in subs : s[2] # c
      BY <1>1, <1>2, <2>2, <2>6, TypedFacts
    <3>2. \A c \in ChanIds : all[c] = adv[c] =>
            filteredAdvertisedTopics(all, selected)[c] = filteredAdvertisedTopics(adv, selected)[c]
      BY DEF filteredAdvertisedTopics
    <3>3. \A c \in cs : Right(chans, top, c, all[c])
      BY <1>1, <2>3, <2>4, <2>6, <3>1, <3>2 DEF WantedInv
    <3> QED
      BY <2>1, <2>6, <3>1, <3>3
  <2>7. CASE ~demand /\ SubscribeAll(picked, all)
    <3>1. Registers(picked, {}, all)
      BY <2>7 DEF SubscribeAll, Registers
    <3>2. \A c \in picked : /\ all[c] \in Topics /\ Right(chans, top, c, all[c])
                            /\ \E p \in selected : p[2] = all[c]
      BY <2>3, <2>4, <2>5
    <3>3. {} \in SUBSET subs
      OBVIOUS
    <3> QED
      BY <2>1, <2>5, <2>7, <3>1, <3>2, <3>3
  <2> QED
    BY <2>1, <2>6, <2>7
<1>4. CASE applyDesiredTopics
  <2>1. UNCHANGED <<chans, top, demand, selected>>
    BY <1>4 DEF applyDesiredTopics
  <2>2. CASE demand /\ connected /\ slot # None /\ reconcileSubscriptions(adv, slot)
    <3>1. PICK gone \in SUBSET subs, cs \in SUBSET ChanIds :
            /\ Registers(cs, gone, adv)
            /\ \A c \in cs : adv[c] \in Topics /\ \A s \in subs : s[2] # c
      BY <1>1, <1>2, <2>2, TypedFacts
    <3>2. \A c \in cs : Right(chans, top, c, adv[c])
      BY <1>1, <2>2, <3>1, FoxgloveAssumption DEF ChannelInv, Known
    <3> QED
      BY <2>1, <2>2, <3>1, <3>2
  <2>3. CASE UNCHANGED <<subs, bind, nextId, toServer>>
    BY <2>3
  <2> QED
    BY <1>4, <2>2, <2>3 DEF applyDesiredTopics
<1>5. CASE StartStolen \/ StartFresh
  <2>1. PICK sel : /\ sel \subseteq ChanIds \X Topics /\ StartStreaming(sel, found)
                   /\ \A s \in sel : Right(chans', top', s[1], s[2])
    BY <1>1, <1>5, CleanStarts
  <2>2. /\ frames = <<>> /\ table = {} /\ toServer = <<>> /\ bind = {}
        /\ \A c \in Known(found) : Right(chans', top', c, found[c])
    BY <1>1, <1>5, CleanStarts
  <2>3. \A c \in ChanIds : adv'[c] # None => Right(chans', top', c, adv'[c])
    BY <1>1, <2>1, <2>2, TypedFacts, StartingMatches
  <2>4. selected' = sel /\ (demand' => UNCHANGED <<subs, bind, nextId, toServer>>)
    BY <2>1, StartingOnDemand
  <2>5. PICK cs \in SUBSET ChanIds :
          /\ \A c \in cs : adv'[c] \in Topics /\ \E s \in sel : s[2] = adv'[c]
          /\ \/ UNCHANGED <<subs, bind, nextId, toServer>>
             \/ SubscribeAll(cs, adv')
    BY <1>1, <2>1, TypedFacts, Starting
  <2>6. CASE ~demand' /\ SubscribeAll(cs, adv')
    <3>1. Registers(cs, {}, adv')
      BY <2>6 DEF SubscribeAll, Registers
    <3>2. \A c \in cs : adv'[c] \in Topics /\ Right(chans', top', c, adv'[c]) /\ \E p \in selected' : p[2] = adv'[c]
      BY <2>3, <2>4, <2>5, FoxgloveAssumption
    <3>3. {} \in SUBSET subs
      OBVIOUS
    <3> QED
      BY <2>6, <3>1, <3>2, <3>3
  <2> QED
    BY <2>4, <2>5, <2>6
<1> QED
  BY <1>3, <1>4, <1>5

(* What a registration does to the ids in use. *)
LEMMA RegisteringIds ==
  ASSUME Typed, IdsInv, FrameInv, LinkInv,
         NEW cs \in SUBSET ChanIds, NEW gone \in SUBSET subs, NEW f, Registers(cs, gone, f),
         NEW new, new = registerSubscription(nextId, cs)
  PROVE  /\ nextId \in Nat /\ nextId' \in Nat /\ nextId <= nextId'
         /\ new \subseteq Nat \X ChanIds
         /\ \A s \in new : s[1] < nextId' /\ s[2] \in cs
         /\ \A s, r \in new : s[1] = r[1] => s = r
         /\ \A s \in new : \A r \in subs : s[1] # r[1]
         /\ \A s \in new : \A r \in table : s[1] # r[1]
         /\ \A s \in new : \A r \in Asked(toServer) : s[1] # r[1]
         /\ Asked(toServer') \subseteq Asked(toServer) \cup new
         /\ \A s \in subs : s[1] < nextId'
<1>1. /\ nextId \in Nat /\ subs \subseteq Nat \X ChanIds /\ table \subseteq Nat \X ChanIds
      /\ toServer \in Seq(Request)
  BY TypedFacts
<1>2. /\ Cardinality(new) \in Nat /\ new \subseteq Nat \X ChanIds
      /\ \A s \in new : nextId <= s[1] /\ s[1] < nextId + Cardinality(new) /\ s[2] \in cs
      /\ \A s, r \in new : s[1] = r[1] => s = r
  BY <1>1, Registered
<1>3. TakeIds(Cardinality(new)) /\ Send(gone, new)
  BY DEF Registers
<1>4. nextId' = nextId + Cardinality(new)
  BY <1>3 DEF TakeIds
<1>5. nextId' \in Nat /\ nextId <= nextId'
  BY <1>1, <1>2, <1>4
<1>6. gone \in SUBSET (Nat \X ChanIds) /\ new \in SUBSET (Nat \X ChanIds)
  BY <1>1, <1>2
<1>7. Asked(toServer') \subseteq Asked(toServer) \cup new
  BY <1>1, <1>3, <1>6, SendAsks
<1>8. \A r \in subs \cup table \cup Asked(toServer) : r[1] \in Nat /\ r[1] < nextId
  <2>1. \A r \in subs \cup table \cup Asked(toServer) : r[1] \in Nat
    BY <1>1 DEF Asked
  <2>2. CASE pc = "off"
    <3>1. subs = {} /\ table = {} /\ Asked(toServer) = {}
      BY <2>2, AskingNothing DEF LinkInv
    <3> QED
      BY <3>1
  <2>3. CASE pc # "off"
    BY <2>1, <2>3 DEF IdsInv, FrameInv, Matched
  <2> QED
    BY <2>2, <2>3
<1>9. \A s \in new, r \in subs \cup table \cup Asked(toServer) : s[1] # r[1]
  BY <1>1, <1>2, <1>8
<1>10. \A s \in subs : s[1] < nextId'
  BY <1>1, <1>5, <1>8
<1> QED
  BY <1>1, <1>2, <1>4, <1>5, <1>7, <1>9, <1>10

---------------------------------------------------------------------------
(***************************************************************************)
(* The requests under way.                                                 *)
(***************************************************************************)

(* With no request handled the server has what it has. *)
LEMMA HavingNow ==
  ASSUME NEW q, NEW s, NEW tb
  PROVE  WillHave(q, 0, s, s \in tb) <=> s \in tb
<1>1. 1..0 = {}
  OBVIOUS
<1> QED
  BY <1>1 DEF WillHave

(* A request more at the end changes nothing before it, and then has its say. *)
LEMMA HavingMore ==
  ASSUME NEW q \in Seq(Request), NEW e \in Request, NEW s, NEW tb
  PROVE  /\ \A n \in 0..Len(q) : WillHave(Append(q, e), n, s, s \in tb) <=> WillHave(q, n, s, s \in tb)
         /\ WillHave(Append(q, e), Len(q) + 1, s, s \in tb)
              <=> AsksFor(e, s) \/ (~Ends(e, s) /\ WillHave(q, Len(q), s, s \in tb))
<1> DEFINE u == Append(q, e)
<1>1. /\ Len(q) \in Nat /\ u[Len(q) + 1] = e
      /\ \A i \in 1..Len(q) : u[i] = q[i]
  OBVIOUS
<1> HIDE DEF u
<1>2. \A n \in 0..Len(q) : \A i \in 1..n : u[i] = q[i]
  BY <1>1
<1>3. \A n \in 0..Len(q) : WillHave(u, n, s, s \in tb) <=> WillHave(q, n, s, s \in tb)
  BY <1>2 DEF WillHave
<1>4. /\ \A i \in 1..(Len(q) + 1) : i \in 1..Len(q) \/ i = Len(q) + 1
      /\ \A i \in 1..Len(q) : i \in 1..(Len(q) + 1) /\ Len(q) + 1 > i
      /\ Len(q) + 1 \in 1..(Len(q) + 1) /\ \A j \in 1..(Len(q) + 1) : ~(j > Len(q) + 1)
  BY <1>1
<1>5. AsksFor(e, s) => ~Ends(e, s)
  BY DEF AsksFor, Ends
<1>6. WillHave(u, Len(q) + 1, s, s \in tb) => AsksFor(e, s) \/ (~Ends(e, s) /\ WillHave(q, Len(q), s, s \in tb))
  BY <1>1, <1>4 DEF WillHave
<1>7. AsksFor(e, s) => WillHave(u, Len(q) + 1, s, s \in tb)
  BY <1>1, <1>4 DEF WillHave
<1>8. ~Ends(e, s) /\ WillHave(q, Len(q), s, s \in tb) => WillHave(u, Len(q) + 1, s, s \in tb)
  BY <1>1, <1>4 DEF WillHave
<1> QED
  BY <1>3, <1>6, <1>7, <1>8 DEF u

(* Handling the first request changes nothing of what the server will have. *)
LEMMA HavingLess ==
  ASSUME NEW q \in Seq(Request), q # <<>>, NEW s, NEW tb, NEW tc,
         s \in tc <=> AsksFor(Head(q), s) \/ (~Ends(Head(q), s) /\ s \in tb)
  PROVE  \A n \in 0..Len(Tail(q)) : WillHave(Tail(q), n, s, s \in tc) <=> WillHave(q, n + 1, s, s \in tb)
<1> DEFINE u == Tail(q)
<1>1. /\ Len(q) \in Nat /\ Len(u) \in Nat /\ Len(q) = Len(u) + 1 /\ Head(q) = q[1]
      /\ \A i \in 1..Len(u) : u[i] = q[i + 1]
  OBVIOUS
<1> HIDE DEF u
<1> SUFFICES ASSUME NEW n \in 0..Len(u)
             PROVE  WillHave(u, n, s, s \in tc) <=> WillHave(q, n + 1, s, s \in tb)
  BY DEF u
<1>2. /\ \A i \in 1..(n + 1) : i = 1 \/ (i - 1 \in 1..n /\ q[i] = u[i - 1])
      /\ \A i \in 1..n : i + 1 \in 1..(n + 1) /\ u[i] = q[i + 1] /\ i + 1 > 1
      /\ 1 \in 1..(n + 1)
      /\ \A i, j \in 1..n : j > i <=> j + 1 > i + 1
      /\ \A i, j \in 1..(n + 1) : j > i => j # 1
      /\ \A i, j \in 1..(n + 1) : j > i => j - 1 > i - 1
  BY <1>1
<1>3. AsksFor(q[1], s) => ~Ends(q[1], s)
  BY DEF AsksFor, Ends
<1>4. s \in tc <=> AsksFor(q[1], s) \/ (~Ends(q[1], s) /\ s \in tb)
  BY <1>1
<1>5. ASSUME WillHave(u, n, s, s \in tc) PROVE WillHave(q, n + 1, s, s \in tb)
  <2>1. CASE s \in tc /\ \A j \in 1..n : ~Ends(u[j], s)
    <3>1. \A j \in 1..(n + 1) : j > 1 => ~Ends(q[j], s)
      BY <1>2, <2>1
    <3>2. CASE AsksFor(q[1], s)
      BY <1>2, <3>1, <3>2 DEF WillHave
    <3>3. CASE ~Ends(q[1], s) /\ s \in tb
      <4>1. \A j \in 1..(n + 1) : ~Ends(q[j], s)
        BY <1>2, <2>1, <3>3
      <4> QED
        BY <3>3, <4>1 DEF WillHave
    <3> QED
      BY <1>4, <2>1, <3>2, <3>3
  <2>2. CASE \E i \in 1..n : AsksFor(u[i], s) /\ \A j \in 1..n : j > i => ~Ends(u[j], s)
    <3>1. PICK i \in 1..n : AsksFor(u[i], s) /\ \A j \in 1..n : j > i => ~Ends(u[j], s)
      BY <2>2
    <3>2. i + 1 \in 1..(n + 1) /\ AsksFor(q[i + 1], s)
      BY <1>2, <3>1
    <3>3. \A j \in 1..(n + 1) : j > i + 1 => ~Ends(q[j], s)
      BY <1>2, <3>1
    <3> QED
      BY <3>2, <3>3 DEF WillHave
  <2> QED
    BY <1>5, <2>1, <2>2 DEF WillHave
<1>6. ASSUME WillHave(q, n + 1, s, s \in tb) PROVE WillHave(u, n, s, s \in tc)
  <2>1. CASE s \in tb /\ \A j \in 1..(n + 1) : ~Ends(q[j], s)
    <3>1. s \in tc
      BY <1>2, <1>4, <2>1
    <3>2. \A j \in 1..n : ~Ends(u[j], s)
      BY <1>2, <2>1
    <3> QED
      BY <3>1, <3>2 DEF WillHave
  <2>2. CASE \E i \in 1..(n + 1) : AsksFor(q[i], s) /\ \A j \in 1..(n + 1) : j > i => ~Ends(q[j], s)
    <3>1. PICK i \in 1..(n + 1) : AsksFor(q[i], s) /\ \A j \in 1..(n + 1) : j > i => ~Ends(q[j], s)
      BY <2>2
    <3>2. CASE i = 1
      <4>1. s \in tc
        BY <1>4, <3>1, <3>2
      <4>2. \A j \in 1..n : ~Ends(u[j], s)
        BY <1>2, <3>1, <3>2
      <4> QED
        BY <4>1, <4>2 DEF WillHave
    <3>3. CASE i # 1
      <4>1. i - 1 \in 1..n /\ AsksFor(u[i - 1], s)
        BY <1>2, <3>1, <3>3
      <4>2. \A j \in 1..n : j > i - 1 => j + 1 > i
        OBVIOUS
      <4>3. \A j \in 1..n : j > i - 1 => ~Ends(u[j], s)
        BY <1>2, <3>1, <4>2
      <4> QED
        BY <4>1, <4>3 DEF WillHave
    <3> QED
      BY <3>2, <3>3
  <2> QED
    BY <1>6, <2>1, <2>2 DEF WillHave
<1> QED
  BY <1>5, <1>6

(* A request more: what it does to the subscriptions to be had. *)
LEMMA OrderlyMore ==
  ASSUME NEW ch, NEW tb, NEW q \in Seq(Request), NEW sb, NEW sc, NEW e \in Request, Orderly(ch, tb, q, sb),
         \A s \in Nat \X ChanIds : s \in sc <=> AsksFor(e, s) \/ (~Ends(e, s) /\ s \in sb),
         \A s, o \in Nat \X ChanIds : AsksFor(e, s) /\ o # s /\ o[2] = s[2] => o \notin sb
  PROVE  Orderly(ch, tb, Append(q, e), sc)
<1> DEFINE u == Append(q, e)
<1>1. /\ Len(q) \in Nat /\ Len(u) = Len(q) + 1 /\ u[Len(q) + 1] = e
      /\ \A i \in 1..Len(q) : u[i] = q[i]
  OBVIOUS
<1>2. \A s : \A n \in 0..Len(q) : WillHave(u, n, s, s \in tb) <=> WillHave(q, n, s, s \in tb)
  BY HavingMore
<1>3. \A s : WillHave(u, Len(q) + 1, s, s \in tb)
                <=> AsksFor(e, s) \/ (~Ends(e, s) /\ WillHave(q, Len(q), s, s \in tb))
  BY HavingMore
<1> HIDE DEF u
<1>4. SUFFICES ASSUME NEW s \in Nat \X ChanIds, ch[s[2]] # None
               PROVE  /\ s \in sc <=> WillHave(u, Len(u), s, s \in tb)
                      /\ \A i \in 1..Len(u), o \in Nat \X ChanIds :
                           AsksFor(u[i], s) /\ o # s /\ o[2] = s[2] => ~WillHave(u, i - 1, o, o \in tb)
  BY DEF Orderly, u
<1>5. /\ s \in sb <=> WillHave(q, Len(q), s, s \in tb)
      /\ \A i \in 1..Len(q), o \in Nat \X ChanIds :
           AsksFor(q[i], s) /\ o # s /\ o[2] = s[2] => ~WillHave(q, i - 1, o, o \in tb)
  BY <1>4 DEF Orderly
<1>6. s \in sc <=> WillHave(u, Len(u), s, s \in tb)
  BY <1>1, <1>3, <1>5
<1>7. ASSUME NEW i \in 1..Len(u), NEW o \in Nat \X ChanIds, AsksFor(u[i], s), o # s, o[2] = s[2]
      PROVE  ~WillHave(u, i - 1, o, o \in tb)
  <2>1. i \in 1..Len(q) \/ i = Len(q) + 1
    BY <1>1
  <2>2. i - 1 \in 0..Len(q)
    BY <1>1
  <2>3. WillHave(u, i - 1, o, o \in tb) <=> WillHave(q, i - 1, o, o \in tb)
    BY <1>2, <2>2
  <2>4. CASE i \in 1..Len(q)
    BY <1>1, <1>5, <1>7, <2>3, <2>4
  <2>5. CASE i = Len(q) + 1
    <3>1. o \notin sb
      BY <1>1, <1>7, <2>5
    <3>2. o \in sb <=> WillHave(q, Len(q), o, o \in tb)
      BY <1>4, <1>7 DEF Orderly
    <3>3. i - 1 = Len(q)
      BY <1>1, <2>5
    <3> QED
      BY <2>3, <3>1, <3>2, <3>3
  <2> QED
    BY <2>1, <2>4, <2>5
<1> QED
  BY <1>6, <1>7

(* The first request handled: the server does as it is asked, for nothing is asked
   for that it would ignore. *)
LEMMA OrderlyLess ==
  ASSUME NEW ch, NEW tb, NEW q \in Seq(Request), NEW sb, NEW tc, q # <<>>, Orderly(ch, tb, q, sb),
         NEW m, m = Head(q), tb \subseteq Nat \X ChanIds,
         tc = IF m.op = "unsubscribe" THEN {s \in tb : s[1] \notin Ids(m.ss)}
              ELSE tb \cup {s \in m.ss : ch[s[2]] # None /\ \A o \in tb : o[2] # s[2]}
  PROVE  Orderly(ch, tc, Tail(q), sb)
<1> DEFINE u == Tail(q)
<1>1. /\ Len(q) \in Nat /\ Len(u) \in Nat /\ Len(q) = Len(u) + 1 /\ m = q[1] /\ q[1] \in Request
      /\ \A i \in 1..Len(u) : u[i] = q[i + 1]
  OBVIOUS
<1>2. 1 \in 1..Len(q) /\ m.op \in {"unsubscribe", "subscribe"}
  BY <1>1 DEF Request
<1>3. ASSUME NEW s \in Nat \X ChanIds, ch[s[2]] # None
      PROVE  s \in tc <=> AsksFor(m, s) \/ (~Ends(m, s) /\ s \in tb)
  <2>1. CASE m.op = "unsubscribe"
    BY <2>1 DEF AsksFor, Ends
  <2>2. CASE m.op = "subscribe"
    <3>1. \A o \in Nat \X ChanIds : AsksFor(m, s) /\ o # s /\ o[2] = s[2] => o \notin tb
      <4> SUFFICES ASSUME NEW o \in Nat \X ChanIds, AsksFor(m, s), o # s, o[2] = s[2] PROVE o \notin tb
        OBVIOUS
      <4>1. ~WillHave(q, 1 - 1, o, o \in tb)
        BY <1>1, <1>2, <1>3 DEF Orderly
      <4>2. 1 - 1 = 0
        OBVIOUS
      <4> QED
        BY <4>1, <4>2, HavingNow
    <3>2. AsksFor(m, s) <=> s \in m.ss
      BY <2>2 DEF AsksFor
    <3>3. ~Ends(m, s)
      BY <2>2 DEF Ends
    <3>4. s \in tc <=> s \in tb \/ (s \in m.ss /\ ch[s[2]] # None /\ \A o \in tb : o[2] # s[2])
      BY <2>2
    <3> QED
      BY <1>3, <3>1, <3>2, <3>3, <3>4
  <2> QED
    BY <1>2, <2>1, <2>2
<1>4. ASSUME NEW s \in Nat \X ChanIds, ch[s[2]] # None, NEW n \in 0..Len(u)
      PROVE  WillHave(u, n, s, s \in tc) <=> WillHave(q, n + 1, s, s \in tb)
  <2>1. s \in tc <=> AsksFor(Head(q), s) \/ (~Ends(Head(q), s) /\ s \in tb)
    BY <1>3, <1>4
  <2> QED
    BY <2>1, HavingLess
<1> HIDE DEF u
<1>5. SUFFICES ASSUME NEW s \in Nat \X ChanIds, ch[s[2]] # None
               PROVE  /\ s \in sb <=> WillHave(u, Len(u), s, s \in tc)
                      /\ \A i \in 1..Len(u), o \in Nat \X ChanIds :
                           AsksFor(u[i], s) /\ o # s /\ o[2] = s[2] => ~WillHave(u, i - 1, o, o \in tc)
  BY DEF Orderly, u
<1>6. /\ s \in sb <=> WillHave(q, Len(q), s, s \in tb)
      /\ \A i \in 1..Len(q), o \in Nat \X ChanIds :
           AsksFor(q[i], s) /\ o # s /\ o[2] = s[2] => ~WillHave(q, i - 1, o, o \in tb)
  BY <1>5 DEF Orderly
<1>7. s \in sb <=> WillHave(u, Len(u), s, s \in tc)
  <2>1. Len(u) \in 0..Len(u) /\ Len(u) + 1 = Len(q)
    BY <1>1
  <2>2. WillHave(u, Len(u), s, s \in tc) <=> WillHave(q, Len(u) + 1, s, s \in tb)
    BY <1>4, <1>5, <2>1
  <2> QED
    BY <1>6, <2>1, <2>2
<1>8. ASSUME NEW i \in 1..Len(u), NEW o \in Nat \X ChanIds, AsksFor(u[i], s), o # s, o[2] = s[2]
      PROVE  ~WillHave(u, i - 1, o, o \in tc)
  <2>1. i + 1 \in 1..Len(q) /\ u[i] = q[i + 1] /\ i - 1 \in 0..Len(u) /\ (i - 1) + 1 = (i + 1) - 1
    BY <1>1
  <2>2. ~WillHave(q, (i + 1) - 1, o, o \in tb)
    BY <1>6, <1>8, <2>1
  <2>3. WillHave(u, i - 1, o, o \in tc) <=> WillHave(q, (i - 1) + 1, o, o \in tb)
    BY <1>4, <1>5, <1>8, <2>1
  <2> QED
    BY <2>1, <2>2, <2>3
<1> QED
  BY <1>7, <1>8

(* Only the server's channels matter, and what each of them has. *)
LEMMA OrderlyFrame ==
  ASSUME NEW ch, NEW tb, NEW q, NEW sb, NEW ci, NEW tc, NEW sc, Orderly(ch, tb, q, sb),
         \A s \in Nat \X ChanIds : ci[s[2]] # None /\ ch[s[2]] # None =>
           (s \in tc <=> s \in tb) /\ (s \in sc <=> s \in sb),
         \A s \in Nat \X ChanIds : ci[s[2]] # None /\ ch[s[2]] = None =>
           s \notin tc /\ s \notin sc /\ \A i \in 1..Len(q) : ~AsksFor(q[i], s)
  PROVE  Orderly(ci, tc, q, sc)
<1>1. SUFFICES ASSUME NEW s \in Nat \X ChanIds, ci[s[2]] # None
               PROVE  /\ s \in sc <=> WillHave(q, Len(q), s, s \in tc)
                      /\ \A i \in 1..Len(q), o \in Nat \X ChanIds :
                           AsksFor(q[i], s) /\ o # s /\ o[2] = s[2] => ~WillHave(q, i - 1, o, o \in tc)
  BY DEF Orderly
<1>2. CASE ch[s[2]] # None
  <2>1. \A o \in Nat \X ChanIds : \A n : o[2] = s[2] => (WillHave(q, n, o, o \in tc) <=> WillHave(q, n, o, o \in tb))
    BY <1>1, <1>2 DEF WillHave
  <2>2. /\ s \in sb <=> WillHave(q, Len(q), s, s \in tb)
        /\ \A i \in 1..Len(q), o \in Nat \X ChanIds :
             AsksFor(q[i], s) /\ o # s /\ o[2] = s[2] => ~WillHave(q, i - 1, o, o \in tb)
    BY <1>2 DEF Orderly
  <2>3. s \in sc <=> s \in sb
    BY <1>1, <1>2
  <2>4. s \in sc <=> WillHave(q, Len(q), s, s \in tc)
    BY <2>1, <2>2, <2>3
  <2> QED
    BY <2>1, <2>2, <2>4
<1>3. CASE ch[s[2]] = None
  <2>1. s \notin tc /\ s \notin sc /\ \A i \in 1..Len(q) : ~AsksFor(q[i], s)
    BY <1>1, <1>3
  <2> QED
    BY <2>1 DEF WillHave
<1> QED
  BY <1>2, <1>3

(* A registration on an open connection: the old subscriptions end before the new
   ones are asked for. *)
LEMMA OrderlyRegistered ==
  ASSUME NEW ch, NEW tb, toServer \in Seq(Request), subs \subseteq Nat \X ChanIds, link = "open",
         NEW cs \in SUBSET ChanIds, NEW gone \in SUBSET subs, NEW f, Registers(cs, gone, f),
         NEW new \in SUBSET (Nat \X ChanIds), new = registerSubscription(nextId, cs),
         \A s \in new : s[2] \in cs,
         \A s, r \in subs : s[1] = r[1] => s = r,
         \A c \in cs : \A s \in subs : s[2] # c,
         Orderly(ch, tb, toServer, subs)
  PROVE  Orderly(ch, tb, toServer', subs')
<1> DEFINE g == [op |-> "unsubscribe", ss |-> gone]
           n == [op |-> "subscribe", ss |-> new]
           mid == IF gone = {} THEN toServer ELSE Append(toServer, g)
           end == IF new = {} THEN mid ELSE Append(mid, n)
<1>1. /\ g \in Request /\ n \in Request /\ g.op = "unsubscribe" /\ n.op = "subscribe"
      /\ n.ss = new /\ g.ss = gone
  BY DEF Request
<1>2. subs' = (subs \ gone) \cup new /\ Send(gone, new)
  BY DEF Registers
<1>3. mid \in Seq(Request) /\ Orderly(ch, tb, mid, subs \ gone)
  <2> HIDE DEF g
  <2>1. CASE gone = {}
    <3>1. subs \ gone = subs
      BY <2>1
    <3> QED
      BY <2>1, <3>1
  <2>2. CASE gone # {}
    <3>1. \A s \in Nat \X ChanIds : s \in subs \ gone <=> AsksFor(g, s) \/ (~Ends(g, s) /\ s \in subs)
      BY <1>1 DEF AsksFor, Ends, Ids
    <3>2. \A s : ~AsksFor(g, s)
      BY <1>1 DEF AsksFor
    <3> DEFINE sc == subs \ gone
    <3>3. \A s \in Nat \X ChanIds : s \in sc <=> AsksFor(g, s) \/ (~Ends(g, s) /\ s \in subs)
      BY <3>1
    <3> HIDE DEF sc
    <3>4. Orderly(ch, tb, Append(toServer, g), sc)
      BY <1>1, <3>2, <3>3, OrderlyMore
    <3> QED
      BY <1>1, <2>2, <3>4, AskingMore DEF sc
  <2> QED
    BY <2>1, <2>2
<1>4. Orderly(ch, tb, end, (subs \ gone) \cup new)
  <2> HIDE DEF n, mid
  <2> DEFINE sb == subs \ gone
             sc == (subs \ gone) \cup new
  <2>1. CASE new = {}
    <3>1. (subs \ gone) \cup new = subs \ gone
      BY <2>1
    <3> QED
      BY <1>3, <2>1, <3>1
  <2>2. CASE new # {}
    <3>1. \A s \in Nat \X ChanIds : s \in sc <=> AsksFor(n, s) \/ (~Ends(n, s) /\ s \in sb)
      BY <1>1 DEF AsksFor, Ends
    <3>2. \A s, o \in Nat \X ChanIds : AsksFor(n, s) /\ o # s /\ o[2] = s[2] => o \notin sb
      BY <1>1 DEF AsksFor
    <3>3. Orderly(ch, tb, mid, sb)
      BY <1>3
    <3> HIDE DEF sb, sc
    <3>4. Orderly(ch, tb, Append(mid, n), sc)
      BY <1>1, <1>3, <3>1, <3>2, <3>3, OrderlyMore
    <3> QED
      BY <2>2, <3>4 DEF sc
  <2> QED
    BY <2>1, <2>2
<1>5. toServer' = end
  <2>1. mid = toServer \o (IF gone = {} THEN <<>> ELSE <<g>>)
    BY <1>1
  <2>2. end = mid \o (IF new = {} THEN <<>> ELSE <<n>>)
    <3> HIDE DEF mid
    <3> QED
      BY <1>1, <1>3
  <2> HIDE DEF mid, end
  <2> QED
    BY <1>2, <2>1, <2>2 DEF Send
<1> HIDE DEF end
<1> QED
  BY <1>2, <1>4, <1>5

---------------------------------------------------------------------------
(* A step that starts no stream and resets no connection leaves the source no more
   alive than it was; a source that is alive has an open connection. *)
LEMMA Lives ==
  ASSUME LinkInv, [Next]_vars
  PROVE  /\ Live /\ pc # "off" => link = "open" /\ ~pending
         /\ StartStolen \/ StartFresh \/ PollReset \/ (Live' => Live)
<1>1. Live /\ pc # "off" => link = "open" /\ ~pending
  BY DEF LinkInv, Live
<1>2. CASE connectToServer \/ disconnect \/ setActiveTopics \/ AddChannel \/ RemoveChannel
  BY <1>1, <1>2 DEF connectToServer, disconnect, setActiveTopics, AddChannel, RemoveChannel, Live, client
<1>3. CASE StartEnds \/ onStop \/ PollConnection \/ TakeTexts \/ advertise \/ unadvertise
  BY <1>1, <1>3 DEF StartEnds, onStop, PollConnection, TakeTexts, advertise, unadvertise, Live, client
<1>4. CASE applyDesiredTopics \/ PollFrames \/ Open \/ AttemptFails
  BY <1>1, <1>4 DEF applyDesiredTopics, PollFrames, Open, AttemptFails, Live, client
<1>5. CASE Close
  BY <1>1, <1>5 DEF Close, onDisconnected, Live
<1>6. CASE ServerHandles \/ onBinaryMessage \/ UNCHANGED vars
  BY <1>1, <1>6 DEF ServerHandles, onBinaryMessage, vars, client, Live
<1> QED
  BY <1>1, <1>2, <1>3, <1>4, <1>5, <1>6 DEF Next, onPoll

(* Handling a request claims nothing new. *)
LEMMA HandlingClaims ==
  ASSUME Typed, ServerHandles
  PROVE  /\ UNCHANGED <<pc, demand, selected, connected, subs, bind, nextId, chans, top>>
         /\ table' \cup Asked(toServer') \subseteq table \cup Asked(toServer)
<1>1. toServer # <<>> /\ toServer' = Tail(toServer) /\ toServer \in Seq(Request)
  BY TypedFacts DEF ServerHandles
<1>2. /\ UNCHANGED <<pc, demand, selected, connected, subs, bind, nextId, chans, top>>
      /\ table' \subseteq table \cup (IF Head(toServer).op = "unsubscribe" THEN {} ELSE Head(toServer).ss)
  BY DEF ServerHandles, client
<1>3. Asked(Tail(toServer)) \subseteq Asked(toServer)
  BY <1>1, AskingLess
<1>4. Head(toServer).op = "subscribe" => Head(toServer).ss \subseteq Asked(toServer)
  BY <1>1, AskingLess
<1>5. Head(toServer).op \in {"unsubscribe", "subscribe"}
  <2>1. Head(toServer) \in Request
    BY <1>1
  <2> QED
    BY <2>1 DEF Request
<1> QED
  BY <1>1, <1>2, <1>3, <1>4, <1>5

(* A subscription id names one subscription. *)
LEMMA IdsStep ==
  ASSUME Races = {}, SourceInv, IdsInv, [Next]_vars
  PROVE  IdsInv'
<1>1. Typed /\ LinkInv /\ FrameInv /\ top \in Nat /\ subs \subseteq Nat \X ChanIds /\ nextId \in Nat
  BY TypedFacts DEF SourceInv
<1>2. ASSUME pc' # "off" => pc # "off", nextId' = nextId, subs' \subseteq subs,
             table' \cup Asked(toServer') \subseteq table \cup Asked(toServer),
             Live' => Live /\ top' = top
      PROVE  IdsInv'
  <2>1. (subs \cup table \cup Asked(toServer))' \subseteq subs \cup table \cup Asked(toServer)
    BY <1>2
  <2> QED
    BY <1>2, <2>1 DEF IdsInv
<1>3. CASE connectToServer \/ disconnect \/ onStop
  <2>1. pc' = "off"
    BY <1>3 DEF connectToServer, disconnect, onStop, DialogOwns
  <2> QED
    BY <2>1 DEF IdsInv
<1>4. CASE StartStolen \/ StartFresh \/ advertise \/ applyDesiredTopics
  <2>1. table' \subseteq table /\ (pc = "off" \/ (pc # "off" /\ top' = top))
    BY <1>4 DEF StartStolen, StartFresh, Opens, advertise, applyDesiredTopics
  <2>2. Live' => Live \/ pc = "off"
    BY <1>4 DEF advertise, applyDesiredTopics, StartStolen, StartFresh, DialogOwns, Live
  <2>3. pc = "off" => subs = {} /\ table = {} /\ Asked(toServer) = {}
    BY <1>1, AskingNothing DEF LinkInv
  <2>5. CASE UNCHANGED <<subs, bind, nextId, toServer>>
    <3>1. CASE pc = "off"
      <4>1. subs' = {} /\ table' = {} /\ Asked(toServer') = {}
        BY <2>1, <2>3, <2>5, <3>1
      <4> QED
        BY <4>1 DEF IdsInv
    <3>2. CASE pc # "off"
      BY <1>2, <2>1, <2>2, <2>5, <3>2
    <3> QED
      BY <3>1, <3>2
  <2>6. CASE \E cs \in SUBSET ChanIds, gone \in SUBSET subs : \E f :
               /\ Registers(cs, gone, f)
               /\ \A c \in cs : f[c] \in Topics /\ Right(chans', top', c, f[c])
    <3>1. PICK cs \in SUBSET ChanIds, gone \in SUBSET subs : \E f :
               /\ Registers(cs, gone, f)
               /\ \A c \in cs : f[c] \in Topics /\ Right(chans', top', c, f[c])
      BY <2>6
    <3>2. PICK f :
               /\ Registers(cs, gone, f)
               /\ \A c \in cs : f[c] \in Topics /\ Right(chans', top', c, f[c])
      BY <3>1
    <3>3. PICK new : new = registerSubscription(nextId, cs)
      OBVIOUS
    <3>4. subs' = (subs \ gone) \cup new /\ \A c \in cs : c <= top'
      BY <3>2, <3>3 DEF Registers, Right
    <3>5. /\ \A s \in new : s[1] < nextId' /\ s[2] \in cs
          /\ \A s, r \in new : s[1] = r[1] => s = r
          /\ \A s \in new : \A r \in subs : s[1] # r[1]
          /\ \A s \in new : \A r \in table : s[1] # r[1]
          /\ \A s \in new : \A r \in Asked(toServer) : s[1] # r[1]
          /\ Asked(toServer') \subseteq Asked(toServer) \cup new
          /\ \A s \in subs : s[1] < nextId'
      <4>1. Typed /\ FrameInv /\ LinkInv /\ Registers(cs, gone, f)
        BY <1>1, <3>2
      <4>2. \A s \in new : s[1] < nextId' /\ s[2] \in cs
        BY <3>3, <4>1, RegisteringIds
      <4>3. \A s, r \in new : s[1] = r[1] => s = r
        BY <1>1, <3>3, Registered
      <4>4. \A s \in new : \A r \in subs : s[1] # r[1]
        BY <3>3, <4>1, RegisteringIds
      <4>5. \A s \in new : \A r \in table : s[1] # r[1]
        BY <3>3, <4>1, RegisteringIds
      <4>6. \A s \in new : \A r \in Asked(toServer) : s[1] # r[1]
        BY <3>3, <4>1, RegisteringIds
      <4>7. Asked(toServer') \subseteq Asked(toServer) \cup new
        BY <3>3, <4>1, RegisteringIds
      <4>8. \A s \in subs : s[1] < nextId'
        BY <3>3, <4>1, RegisteringIds
      <4> QED
        BY <4>2, <4>3, <4>4, <4>5, <4>6, <4>7, <4>8
    <3>6. \A s \in subs' : s[1] < nextId'
      BY <3>4, <3>5
    <3>7. (subs \cup table \cup Asked(toServer))' \subseteq (subs \cup table \cup Asked(toServer)) \cup new
      BY <2>1, <3>4, <3>5
    <3>8. \A s, r \in subs \cup table \cup Asked(toServer) : s[1] = r[1] => s = r
      BY <2>3 DEF IdsInv
    <3>9. \A s, r \in (subs \cup table \cup Asked(toServer))' : s[1] = r[1] => s = r
      BY <3>5, <3>7, <3>8
    <3>10. Live' => \A s \in subs : s[2] <= top'
      BY <2>1, <2>2, <2>3 DEF IdsInv
    <3>11. Live' => \A s \in subs' : s[2] <= top'
      BY <3>4, <3>5, <3>10
    <3> QED
      BY <3>6, <3>9, <3>11 DEF IdsInv
  <2> QED
    BY <1>4, <2>5, <2>6, Registrations
<1>5. CASE StartEnds \/ setActiveTopics \/ PollConnection \/ TakeTexts \/ PollFrames \/ onBinaryMessage
  <2>1. /\ UNCHANGED <<subs, nextId, top>> /\ (pc # "off" \/ pc' = pc)
        /\ table' \subseteq table /\ (toServer' = toServer \/ toServer' = <<>>)
    BY <1>5 DEF StartEnds, setActiveTopics, PollConnection, TakeTexts, PollFrames, onBinaryMessage, client, server
  <2>2. Live' => Live
    BY <1>1, <1>5, Lives DEF StartEnds, setActiveTopics, PollConnection, TakeTexts, PollFrames, onBinaryMessage,
       client, Live
  <2>3. Asked(toServer') \subseteq Asked(toServer)
    BY <2>1, AskingNothing
  <2> QED
    BY <1>2, <2>1, <2>2, <2>3
<1>6. CASE PollReset
  <2>1. subs' = {} /\ UNCHANGED <<table, toServer>> /\ pc = "reset"
    BY <1>6 DEF PollReset, ForgetConnection, server
  <2>2. table = {} /\ Asked(toServer) = {}
    BY <1>1, <2>1, AskingNothing DEF LinkInv
  <2> QED
    BY <2>1, <2>2 DEF IdsInv
<1>7. CASE unadvertise
  <2>1. subs' \subseteq subs /\ UNCHANGED <<pc, connected, nextId, table, toServer, top>>
    BY <1>7 DEF unadvertise, server
  <2> QED
    BY <1>2, <2>1 DEF Live
<1>8. CASE Close \/ Open \/ AttemptFails
  <2>1. /\ UNCHANGED <<pc, subs, nextId>> /\ table' \subseteq table
        /\ (toServer' = toServer \/ toServer' = <<>>) /\ (Open \/ top' = top)
    BY <1>8 DEF Close, Open, AttemptFails, client, server
  <2>2. Asked(toServer') \subseteq Asked(toServer)
    BY <2>1, AskingNothing
  <2>3. Live' => Live /\ ~Open
    BY <1>1, <1>8 DEF Close, Open, AttemptFails, client, Live, LinkInv, onDisconnected
  <2> QED
    BY <1>2, <2>1, <2>2, <2>3
<1>9. CASE AddChannel
  <2>1. top' = top + 1 /\ UNCHANGED <<pc, subs, nextId, table, toServer, connected>>
    BY <1>9 DEF AddChannel, client
  <2>2. \A s \in subs : s[2] \in Nat
    BY <1>1, FoxgloveAssumption
  <2>3. \A s \in subs : s[2] <= top => s[2] <= top'
    BY <1>1, <2>1, <2>2
  <2> QED
    BY <2>1, <2>3 DEF IdsInv, Live
<1>10. CASE RemoveChannel
  <2>1. table' \subseteq table /\ UNCHANGED <<pc, subs, nextId, toServer, connected, top>>
    BY <1>10 DEF RemoveChannel, client
  <2> QED
    BY <1>2, <2>1 DEF Live
<1>11. CASE ServerHandles
  BY <1>1, <1>2, <1>11, HandlingClaims DEF Live
<1>12. CASE UNCHANGED vars
  BY <1>2, <1>12 DEF vars, client, server, Live
<1> QED
  BY <1>3, <1>4, <1>5, <1>6, <1>7, <1>8, <1>9, <1>10, <1>11, <1>12 DEF Next, onPoll

(* With nothing subscribed and nothing asked for all is in order. *)
LEMMA OrderlyEmpty == \A ch : Orderly(ch, {}, <<>>, {})
<1>1. Len(<<>>) = 0 /\ 1..0 = {}
  OBVIOUS
<1> DEFINE q == <<>>
<1>2. Len(q) = 0 /\ 1..Len(q) = {}
  BY <1>1
<1> HIDE DEF q
<1>3. \A ch : Orderly(ch, {}, q, {})
  BY <1>1, <1>2 DEF Orderly, WillHave
<1> QED
  BY <1>3 DEF q

(* Who asks for a subscription asks the server for it. *)
LEMMA AskingIsAsked ==
  ASSUME NEW q, NEW s \in Nat \X ChanIds, NEW i \in 1..Len(q), AsksFor(q[i], s)
  PROVE  s \in Asked(q)
BY DEF AsksFor, Asked

(* The requests under way, when the catalog or the active set changes. *)
LEMMA OrderOnPoll ==
  ASSUME Races = {}, SourceInv, UnsaidInv, IdsInv, OrderInv, advertise \/ applyDesiredTopics \/ unadvertise
  PROVE  OrderInv'
<1>1. /\ Typed /\ LinkInv /\ FrameInv /\ subs \subseteq Nat \X ChanIds /\ nextId \in Nat
      /\ toServer \in Seq(Request) /\ batch \in Seq(Text)
  BY TypedFacts DEF SourceInv
<1>2. UNCHANGED <<demand, connected, chans, table>> /\ pc = "text" /\ pc' # "starting"
  BY DEF advertise, applyDesiredTopics, unadvertise, server
<1>3. SUFFICES ASSUME demand, connected
               PROVE  Orderly(chans, table, toServer', subs')
  BY <1>2 DEF OrderInv, Live
<1>4. Orderly(chans, table, toServer, subs) /\ link = "open"
  BY <1>1, <1>3 DEF OrderInv, Live, LinkInv
<1>5. CASE advertise \/ applyDesiredTopics
  <2>1. CASE UNCHANGED <<subs, bind, nextId, toServer>>
    BY <1>4, <2>1
  <2>2. CASE \E cs \in SUBSET ChanIds, gone \in SUBSET subs : \E f :
               Registers(cs, gone, f) /\ \A c \in cs : \A s \in subs : s[2] # c
    <3>1. PICK cs \in SUBSET ChanIds, gone \in SUBSET subs : \E f :
               Registers(cs, gone, f) /\ \A c \in cs : \A s \in subs : s[2] # c
      BY <2>2
    <3>2. PICK f : Registers(cs, gone, f) /\ \A c \in cs : \A s \in subs : s[2] # c
      BY <3>1
    <3>3. PICK new : new = registerSubscription(nextId, cs)
      OBVIOUS
    <3>4. new \in SUBSET (Nat \X ChanIds) /\ \A s \in new : s[2] \in cs
      BY <1>1, <3>3, Registered
    <3>5. \A s, r \in subs : s[1] = r[1] => s = r
      BY <1>2 DEF IdsInv
    <3>6. \A c \in cs : \A s \in subs : s[2] # c
      BY <3>2
    <3>7. Registers(cs, gone, f)
      BY <3>2
    <3> QED
      BY <1>1, <1>4, <3>3, <3>4, <3>5, <3>6, <3>7, OrderlyRegistered
  <2> QED
    BY <1>2, <1>3, <1>5, <2>1, <2>2, Registrations
<1>6. CASE unadvertise
  <2> DEFINE c == Head(batch).of
  <2>1. /\ batch # <<>> /\ Head(batch).op = "unadvertise"
        /\ toServer' = toServer /\ subs' = subs \ {s \in subs : s[2] = c}
    BY <1>6 DEF unadvertise, server
  <2>2. Unsays(batch, c) /\ c \in ChanIds
    BY <1>1, <2>1, UnsayingLess, FirstText
  <2>3. chans[c] = None
    BY <1>2, <2>2 DEF UnsaidInv
  <2> HIDE DEF c
  <2>4. \A s \in Nat \X ChanIds : chans[s[2]] # None => (s \in subs' <=> s \in subs)
    BY <2>1, <2>3
  <2>5. PICK sc : sc = subs'
    OBVIOUS
  <2>6. Orderly(chans, table, toServer, sc)
    BY <1>4, <2>4, <2>5, OrderlyFrame
  <2> QED
    BY <2>1, <2>5, <2>6
<1> QED
  BY <1>5, <1>6

(* The requests under way, when the server changes or handles one. *)
LEMMA OrderOnServer ==
  ASSUME Races = {}, SourceInv, IdsInv, OrderInv, AddChannel \/ RemoveChannel \/ ServerHandles
  PROVE  OrderInv'
<1>1. /\ Typed /\ LinkInv /\ FrameInv /\ subs \subseteq Nat \X ChanIds /\ table \subseteq Nat \X ChanIds
      /\ toServer \in Seq(Request) /\ chans \in Channels /\ top \in Nat
  BY TypedFacts DEF SourceInv
<1>2. UNCHANGED <<pc, demand, connected, subs>>
  BY DEF AddChannel, RemoveChannel, ServerHandles, client
<1>3. SUFFICES ASSUME demand, Live
               PROVE  Orderly(chans', table', toServer', subs)
  BY <1>2 DEF OrderInv, Live
<1>4. Orderly(chans, table, toServer, subs) /\ pc # "off"
  BY <1>1, <1>3 DEF OrderInv, LinkInv
<1>5. CASE AddChannel
  <2>1. PICK t : chans' = [chans EXCEPT ![top + 1] = t] /\ UNCHANGED <<table, toServer>> /\ top + 1 \in ChanIds
    BY <1>5 DEF AddChannel
  <2>2. \A c \in ChanIds : c # top + 1 => chans'[c] = chans[c]
    BY <1>1, <2>1 DEF Channels
  <2>3. \A c \in ChanIds : c <= top => c # top + 1
    BY <1>1, FoxgloveAssumption
  <2>4. /\ \A s \in table : s[2] <= top
        /\ \A s \in Asked(toServer) : s[2] <= top
        /\ \A s \in subs : s[2] <= top
    BY <1>1, <1>3, <1>4 DEF FrameInv, Matched, IdsInv
  <2>5. \A s \in Nat \X ChanIds : s[2] = top + 1 =>
          s \notin table /\ s \notin subs /\ \A i \in 1..Len(toServer) : ~AsksFor(toServer[i], s)
    BY <2>3, <2>4, AskingIsAsked
  <2>6. PICK ci : ci = chans'
    OBVIOUS
  <2>7. \A s \in Nat \X ChanIds : ci[s[2]] # None /\ chans[s[2]] = None =>
          s \notin table /\ s \notin subs /\ \A i \in 1..Len(toServer) : ~AsksFor(toServer[i], s)
    BY <2>2, <2>5, <2>6
  <2>8. Orderly(ci, table, toServer, subs)
    BY <1>4, <2>7, OrderlyFrame
  <2> QED
    BY <2>1, <2>6, <2>8
<1>6. CASE RemoveChannel
  <2>1. PICK c \in Known(chans) : /\ chans' = [chans EXCEPT ![c] = None] /\ toServer' = toServer
                                  /\ table' = {s \in table : s[2] # c}
    BY <1>6 DEF RemoveChannel
  <2>2. c \in ChanIds /\ chans'[c] = None /\ \A d \in ChanIds : d # c => chans'[d] = chans[d]
    BY <1>1, <2>1 DEF Channels, Known
  <2>3. PICK ci, tc : ci = chans' /\ tc = table'
    OBVIOUS
  <2>4. /\ \A s \in Nat \X ChanIds : ci[s[2]] # None => chans[s[2]] # None
        /\ \A s \in Nat \X ChanIds : ci[s[2]] # None => (s \in tc <=> s \in table)
    BY <2>1, <2>2, <2>3
  <2>5. Orderly(ci, tc, toServer, subs)
    BY <1>4, <2>4, OrderlyFrame
  <2> QED
    BY <2>1, <2>3, <2>5
<1>7. CASE ServerHandles
  <2>1. PICK m, tc : m = Head(toServer) /\ tc = table'
    OBVIOUS
  <2>2. /\ toServer # <<>> /\ toServer' = Tail(toServer) /\ chans' = chans
        /\ tc = IF m.op = "unsubscribe" THEN {s \in table : s[1] \notin Ids(m.ss)}
                ELSE table \cup {s \in m.ss : chans[s[2]] # None /\ \A o \in table : o[2] # s[2]}
    BY <1>7, <2>1 DEF ServerHandles
  <2>3. Orderly(chans, tc, Tail(toServer), subs)
    BY <1>1, <1>4, <2>1, <2>2, OrderlyLess
  <2> QED
    BY <2>1, <2>2, <2>3
<1> QED
  BY <1>5, <1>6, <1>7

(* The requests under way stay in order. *)
LEMMA OrderStep ==
  ASSUME Races = {}, SourceInv, UnsaidInv, IdsInv, OrderInv, [Next]_vars
  PROVE  OrderInv'
<1>1. Typed /\ LinkInv /\ ChannelInv
  BY DEF SourceInv
<1>2. ASSUME UNCHANGED <<chans, table, toServer, subs, demand>>, Live' => Live
      PROVE  OrderInv'
  BY <1>2 DEF OrderInv
<1>3. CASE StartStolen \/ StartFresh
  <2>1. pc = "off" /\ table' = {} /\ toServer = <<>>
    BY <1>1, <1>3, CleanStarts
  <2>2. PICK sel : StartStreaming(sel, found)
    BY <1>3 DEF StartStolen, StartFresh
  <2>3. demand' => UNCHANGED <<subs, bind, nextId, toServer>>
    BY <2>2, StartingOnDemand
  <2>4. subs = {}
    BY <1>1, <2>1 DEF LinkInv
  <2> QED
    BY <2>1, <2>3, <2>4, OrderlyEmpty DEF OrderInv
<1>4. CASE PollReset
  <2>1. subs' = {} /\ UNCHANGED <<chans, table, toServer>> /\ pc = "reset"
    BY <1>4 DEF PollReset, ForgetConnection, server
  <2>2. table = {} /\ toServer = <<>>
    BY <1>1, <2>1 DEF LinkInv
  <2> QED
    BY <2>1, <2>2, OrderlyEmpty DEF OrderInv
<1>5. CASE onStop
  BY <1>5 DEF onStop, OrderInv
<1>6. CASE advertise \/ applyDesiredTopics \/ unadvertise
  BY <1>6, OrderOnPoll
<1>7. CASE AddChannel \/ RemoveChannel \/ ServerHandles
  BY <1>7, OrderOnServer
<1>8. CASE PollConnection
  <2>1. /\ UNCHANGED <<demand, connected, chans, subs>> /\ pc' # "starting" /\ pc = "idle"
        /\ connected => UNCHANGED <<table, toServer>>
    BY <1>8 DEF PollConnection
  <2> QED
    BY <2>1 DEF OrderInv, Live
<1>9. CASE Close \/ Open
  <2>1. ~demand' \/ ~Live'
    BY <1>1, <1>9 DEF Close, Open, LossAllowed, BurstAllowed, onDisconnected, DialogOwns, LinkInv, Live, client
  <2> QED
    BY <2>1 DEF OrderInv
<1>10. CASE connectToServer \/ disconnect \/ StartEnds \/ setActiveTopics \/ TakeTexts
  BY <1>2, <1>10 DEF connectToServer, disconnect, StartEnds, setActiveTopics, TakeTexts, client, server, Live
<1>11. CASE PollFrames \/ AttemptFails \/ onBinaryMessage \/ UNCHANGED vars
  BY <1>2, <1>11 DEF PollFrames, AttemptFails, onBinaryMessage, vars, client, server, Live
<1> QED
  BY <1>3, <1>4, <1>5, <1>6, <1>7, <1>8, <1>9, <1>10, <1>11 DEF Next, onPoll

---------------------------------------------------------------------------
(* A source that loses its connection, or has none, is not alive. *)
LEMMA NotAlive ==
  ASSUME Races = {}, LinkInv, connectToServer \/ disconnect \/ onStop \/ Close \/ Open
  PROVE  ~Live'
<1>1. CASE connectToServer \/ disconnect
  BY <1>1 DEF connectToServer, disconnect, DialogOwns, LinkInv, Live, client
<1>2. CASE onStop
  BY <1>2 DEF onStop, Live
<1>3. CASE Close
  BY <1>3 DEF Close, LossAllowed, onDisconnected, DialogOwns, LinkInv, Live
<1>4. CASE Open
  BY <1>4 DEF Open, BurstAllowed, LinkInv, Live, client
<1> QED
  BY <1>1, <1>2, <1>3, <1>4

(* A channel that is subscribed or asked for is not the next that the server adds. *)
LEMMA AddingApart ==
  ASSUME SourceInv, IdsInv, Live, pc # "off", AddChannel
  PROVE  \A s \in subs \cup table \cup Asked(toServer) : chans'[s[2]] = chans[s[2]]
<1>1. /\ Typed /\ FrameInv /\ subs \subseteq Nat \X ChanIds /\ table \subseteq Nat \X ChanIds
      /\ chans \in Channels /\ top \in Nat
  BY TypedFacts DEF SourceInv
<1>2. PICK t : chans' = [chans EXCEPT ![top + 1] = t] /\ top + 1 \in ChanIds
  BY DEF AddChannel
<1>3. \A c \in ChanIds : c # top + 1 => chans'[c] = chans[c]
  BY <1>1, <1>2 DEF Channels
<1>4. \A c \in ChanIds : c <= top => c # top + 1
  BY <1>1, FoxgloveAssumption
<1>5. \A s \in subs \cup table \cup Asked(toServer) : s[2] \in ChanIds
  BY <1>1 DEF Asked
<1>6. /\ \A s \in table : s[2] <= top
      /\ \A s \in Asked(toServer) : s[2] <= top
      /\ \A s \in subs : s[2] <= top
  BY <1>1 DEF FrameInv, Matched, IdsInv
<1>7. \A s \in subs \cup table \cup Asked(toServer) : s[2] <= top
  BY <1>6
<1> QED
  BY <1>3, <1>4, <1>5, <1>7

(* The parsers of the subscriptions after a registration. *)
LEMMA BoundRegistered ==
  ASSUME NEW cs, NEW gone \in SUBSET subs, NEW f, Registers(cs, gone, f), NEW ch,
         NEW new, new = registerSubscription(nextId, cs), \A s \in new : s[2] \in cs,
         \A c \in cs : ch[c] \in {f[c], None},
         \A s, r \in subs : s[1] = r[1] => s = r,
         \A s \in new : \A r \in subs : s[1] # r[1],
         \A s \in subs : ch[s[2]] \notin Refused \cup {None} => <<s[1], ch[s[2]]>> \in bind
  PROVE  \A s \in subs' : ch[s[2]] \notin Refused \cup {None} => <<s[1], ch[s[2]]>> \in bind'
<1>1. subs' = (subs \ gone) \cup new /\ bind' = bindChannel(gone, new, f)
  BY DEF Registers
<1>2. ASSUME NEW s \in subs \ gone, ch[s[2]] \notin Refused \cup {None}
      PROVE  <<s[1], ch[s[2]]>> \in bind'
  <2> DEFINE b == <<s[1], ch[s[2]]>>
  <2>1. b \in bind /\ b[1] = s[1]
    BY <1>2
  <2>2. s[1] \notin Ids(gone)
    BY DEF Ids
  <2>3. s[1] \notin Ids({r \in new : f[r[2]] \notin Refused})
    BY DEF Ids
  <2> HIDE DEF b
  <2>4. b \in bind'
    BY <1>1, <2>1, <2>2, <2>3 DEF bindChannel
  <2> QED
    BY <2>4 DEF b
<1>3. ASSUME NEW s \in new, ch[s[2]] \notin Refused \cup {None}
      PROVE  <<s[1], ch[s[2]]>> \in bind'
  <2>1. ch[s[2]] = f[s[2]]
    BY <1>3
  <2>2. s \in {r \in new : f[r[2]] \notin Refused}
    BY <1>3, <2>1
  <2>3. <<s[1], f[s[2]]>> \in bind'
    BY <1>1, <2>2 DEF bindChannel
  <2> QED
    BY <2>1, <2>3
<1> QED
  BY <1>1, <1>2, <1>3

(* Whoever subscribes, whatever for, has the parsers. *)
LEMMA BoundOnRegister ==
  ASSUME Races = {}, SourceInv, IdsInv, BoundInv, Live',
         advertise \/ applyDesiredTopics \/ StartStolen \/ StartFresh
  PROVE  BoundInv'
<1>1. Typed /\ LinkInv /\ FrameInv /\ nextId \in Nat
  BY TypedFacts DEF SourceInv
<1>2. \/ pc = "off"
      \/ pc # "off" /\ chans' = chans /\ Live
  BY DEF advertise, applyDesiredTopics, StartStolen, StartFresh, DialogOwns, Live
<1>3. \A s, r \in subs : s[1] = r[1] => s = r
  BY <1>1 DEF IdsInv, LinkInv
<1>4. \A s \in subs : chans'[s[2]] \notin Refused \cup {None} => <<s[1], chans'[s[2]]>> \in bind
  BY <1>1, <1>2 DEF LinkInv, BoundInv
<1>5. CASE UNCHANGED <<subs, bind, nextId, toServer>>
  BY <1>4, <1>5 DEF BoundInv
<1>6. CASE \E cs \in SUBSET ChanIds, gone \in SUBSET subs : \E f :
             Registers(cs, gone, f) /\ \A c \in cs : Right(chans', top', c, f[c])
  <2>1. PICK cs \in SUBSET ChanIds, gone \in SUBSET subs : \E f :
             Registers(cs, gone, f) /\ \A c \in cs : Right(chans', top', c, f[c])
    BY <1>6
  <2>2. PICK f : Registers(cs, gone, f) /\ \A c \in cs : Right(chans', top', c, f[c])
    BY <2>1
  <2>3. PICK new, ch : new = registerSubscription(nextId, cs) /\ ch = chans'
    OBVIOUS
  <2>4. \A s \in new : s[2] \in cs
    BY <1>1, <2>3, Registered
  <2>5. Typed /\ FrameInv /\ LinkInv /\ Registers(cs, gone, f)
    BY <1>1, <2>2
  <2>6. \A s \in new : \A r \in subs : s[1] # r[1]
    BY <2>3, <2>5, RegisteringIds
  <2>7. \A c \in cs : ch[c] \in {f[c], None}
    BY <2>2, <2>3 DEF Right
  <2>8. \A s \in subs : ch[s[2]] \notin Refused \cup {None} => <<s[1], ch[s[2]]>> \in bind
    BY <1>4, <2>3
  <2>9. new = registerSubscription(nextId, cs)
    BY <2>3
  <2>10. \A s \in subs' : ch[s[2]] \notin Refused \cup {None} => <<s[1], ch[s[2]]>> \in bind'
    BY <1>3, <2>4, <2>5, <2>6, <2>7, <2>8, <2>9, BoundRegistered
  <2> QED
    BY <2>3, <2>10 DEF BoundInv
<1> QED
  BY <1>5, <1>6, Registrations

(* Every subscription keeps its topic's parser. *)
LEMMA BoundStep ==
  ASSUME Races = {}, SourceInv, UnsaidInv, IdsInv, BoundInv, [Next]_vars
  PROVE  BoundInv'
<1>1. Typed /\ LinkInv /\ chans \in Channels /\ subs \subseteq Nat \X ChanIds
  BY TypedFacts DEF SourceInv
<1>2. ASSUME UNCHANGED <<chans, subs, bind>>, Live' => Live
      PROVE  BoundInv'
  BY <1>2 DEF BoundInv
<1>3. CASE connectToServer \/ disconnect \/ onStop \/ Close \/ Open
  BY <1>1, <1>3, NotAlive DEF BoundInv
<1>4. CASE advertise \/ applyDesiredTopics \/ StartStolen \/ StartFresh
  BY <1>4, BoundOnRegister DEF BoundInv
<1>5. CASE PollReset
  BY <1>5 DEF PollReset, ForgetConnection, BoundInv
<1>6. CASE unadvertise
  <2>1. PICK gone \in SUBSET subs : /\ subs' = subs \ gone
                                    /\ bind' = {b \in bind : b[1] \notin Ids(gone)}
    BY <1>6 DEF unadvertise
  <2>2. UNCHANGED <<chans, connected, pc>> /\ pc # "off"
    BY <1>6 DEF unadvertise, server
  <2>3. \A s \in subs' : s \in subs /\ s[1] \notin Ids(gone)
    BY <2>1, <2>2 DEF IdsInv, Ids
  <2>4. ASSUME Live, NEW s \in subs', chans[s[2]] \notin Refused \cup {None}
        PROVE  <<s[1], chans[s[2]]>> \in bind'
    <3>1. <<s[1], chans[s[2]]>> \in bind
      BY <2>3, <2>4 DEF BoundInv
    <3> QED
      BY <2>1, <2>3, <3>1
  <2> QED
    BY <2>2, <2>4 DEF BoundInv, Live
<1>7. CASE AddChannel
  <2>1. UNCHANGED <<pc, connected, subs, bind>>
    BY <1>7 DEF AddChannel, client
  <2>2. CASE Live
    <3>1. pc # "off"
      BY <1>1, <2>2 DEF Live, LinkInv
    <3>2. \A s \in subs : chans'[s[2]] = chans[s[2]]
      BY <1>7, <2>2, <3>1, AddingApart
    <3> QED
      BY <2>1, <2>2, <3>2 DEF BoundInv
  <2> QED
    BY <2>1, <2>2 DEF BoundInv, Live
<1>8. CASE RemoveChannel
  <2>1. UNCHANGED <<pc, connected, subs, bind>>
    BY <1>8 DEF RemoveChannel, client
  <2>2. PICK c \in Known(chans) : chans' = [chans EXCEPT ![c] = None]
    BY <1>8 DEF RemoveChannel
  <2>3. \A d \in ChanIds : chans'[d] = chans[d] \/ chans'[d] = None
    BY <1>1, <2>2 DEF Channels
  <2>4. \A s \in subs : s[2] \in ChanIds
    BY <1>1
  <2> QED
    BY <2>1, <2>3, <2>4 DEF BoundInv, Live
<1>9. CASE ServerHandles \/ StartEnds \/ setActiveTopics \/ PollConnection \/ TakeTexts
  BY <1>2, <1>9 DEF ServerHandles, StartEnds, setActiveTopics, PollConnection, TakeTexts, client, server, Live
<1>10. CASE PollFrames \/ AttemptFails \/ onBinaryMessage \/ UNCHANGED vars
  BY <1>2, <1>10 DEF PollFrames, AttemptFails, onBinaryMessage, vars, client, server, Live
<1> QED
  BY <1>3, <1>4, <1>5, <1>6, <1>7, <1>8, <1>9, <1>10 DEF Next, onPoll

(* In legacy mode every subscription is one of the source's, and of a selected topic. *)
LEMMA LegacyOnRegister ==
  ASSUME Races = {}, SourceInv, IdsInv, LegacyInv, ~demand', Live',
         advertise \/ applyDesiredTopics \/ StartStolen \/ StartFresh
  PROVE  LegacyInv'
<1>1. Typed /\ LinkInv /\ FrameInv /\ nextId \in Nat
  BY TypedFacts DEF SourceInv
<1>2. /\ table' \subseteq table
      /\ \/ pc = "off"
         \/ pc # "off" /\ chans' = chans /\ Live /\ ~demand /\ selected' = selected
  BY DEF advertise, applyDesiredTopics, StartStolen, StartFresh, Opens, DialogOwns, Live
<1>3. pc = "off" => table = {} /\ Asked(toServer) = {}
  BY <1>1, AskingNothing DEF LinkInv
<1>4. \A s \in table \cup Asked(toServer) :
        chans'[s[2]] # None => s \in subs /\ \E p \in selected' : p[2] = chans'[s[2]]
  BY <1>2, <1>3 DEF LegacyInv
<1>5. CASE UNCHANGED <<subs, bind, nextId, toServer>>
  BY <1>2, <1>4, <1>5 DEF LegacyInv
<1>6. CASE \E cs \in SUBSET ChanIds, gone \in SUBSET subs : \E f :
             /\ Registers(cs, gone, f) /\ \A c \in cs : Right(chans', top', c, f[c])
             /\ gone = {} /\ \A c \in cs : \E p \in selected' : p[2] = f[c]
  <2>1. PICK cs \in SUBSET ChanIds, gone \in SUBSET subs : \E f :
             /\ Registers(cs, gone, f) /\ \A c \in cs : Right(chans', top', c, f[c])
             /\ gone = {} /\ \A c \in cs : \E p \in selected' : p[2] = f[c]
    BY <1>6
  <2>2. PICK f :
             /\ Registers(cs, gone, f) /\ \A c \in cs : Right(chans', top', c, f[c])
             /\ gone = {} /\ \A c \in cs : \E p \in selected' : p[2] = f[c]
    BY <2>1
  <2>3. PICK new : new = registerSubscription(nextId, cs)
    OBVIOUS
  <2>4. subs' = subs \cup new
    BY <2>2, <2>3 DEF Registers
  <2>5. \A s \in new : s[2] \in cs
    BY <1>1, <2>3, Registered
  <2>6. Typed /\ FrameInv /\ LinkInv /\ Registers(cs, gone, f)
    BY <1>1, <2>2
  <2>7. Asked(toServer') \subseteq Asked(toServer) \cup new
    BY <2>3, <2>6, RegisteringIds
  <2>8. \A s \in new : chans'[s[2]] # None => \E p \in selected' : p[2] = chans'[s[2]]
    BY <2>2, <2>5 DEF Right
  <2> QED
    BY <1>2, <1>4, <2>4, <2>7, <2>8 DEF LegacyInv
<1> QED
  BY <1>5, <1>6, Registrations

(* The same for every step. *)
LEMMA LegacyStep ==
  ASSUME Races = {}, SourceInv, UnsaidInv, IdsInv, LegacyInv, [Next]_vars
  PROVE  LegacyInv'
<1>1. /\ Typed /\ LinkInv /\ chans \in Channels /\ table \subseteq Nat \X ChanIds /\ batch \in Seq(Text)
  BY TypedFacts DEF SourceInv
<1>2. ASSUME UNCHANGED <<chans, subs, selected, demand>>, Live' => Live,
             table' \cup Asked(toServer') \subseteq table \cup Asked(toServer)
      PROVE  LegacyInv'
  BY <1>2 DEF LegacyInv
<1>3. CASE connectToServer \/ disconnect \/ onStop \/ Close \/ Open
  BY <1>1, <1>3, NotAlive DEF LegacyInv
<1>4. CASE advertise \/ applyDesiredTopics \/ StartStolen \/ StartFresh
  BY <1>4, LegacyOnRegister DEF LegacyInv
<1>5. CASE PollReset
  <2>1. UNCHANGED <<table, toServer>> /\ pc = "reset"
    BY <1>5 DEF PollReset, server
  <2>2. table = {} /\ Asked(toServer) = {}
    BY <1>1, <2>1, AskingNothing DEF LinkInv
  <2> QED
    BY <2>1, <2>2 DEF LegacyInv
<1>6. CASE unadvertise
  <2> DEFINE c == Head(batch).of
  <2>1. /\ batch # <<>> /\ Head(batch).op = "unadvertise" /\ pc # "off"
        /\ subs' = subs \ {s \in subs : s[2] = c}
        /\ UNCHANGED <<pc, connected, demand, selected, chans, table, toServer>>
    BY <1>6 DEF unadvertise, server
  <2>2. Unsays(batch, c) /\ c \in ChanIds
    BY <1>1, <2>1, UnsayingLess, FirstText
  <2>3. chans[c] = None
    BY <2>1, <2>2 DEF UnsaidInv
  <2> HIDE DEF c
  <2> QED
    BY <2>1, <2>3 DEF LegacyInv, Live
<1>7. CASE AddChannel
  <2>1. UNCHANGED <<pc, connected, demand, selected, subs, table, toServer>>
    BY <1>7 DEF AddChannel, client
  <2>2. CASE Live
    <3>1. pc # "off"
      BY <1>1, <2>2 DEF Live, LinkInv
    <3>2. \A s \in table \cup Asked(toServer) : chans'[s[2]] = chans[s[2]]
      BY <1>7, <2>2, <3>1, AddingApart
    <3> QED
      BY <2>1, <2>2, <3>2 DEF LegacyInv
  <2> QED
    BY <2>1, <2>2 DEF LegacyInv, Live
<1>8. CASE RemoveChannel
  <2>1. UNCHANGED <<pc, connected, demand, selected, subs, toServer>> /\ table' \subseteq table
    BY <1>8 DEF RemoveChannel, client
  <2>2. PICK c \in Known(chans) : chans' = [chans EXCEPT ![c] = None]
    BY <1>8 DEF RemoveChannel
  <2>3. \A d \in ChanIds : chans'[d] = chans[d] \/ chans'[d] = None
    BY <1>1, <2>2 DEF Channels
  <2>4. \A s \in table \cup Asked(toServer) : s[2] \in ChanIds
    BY <1>1 DEF Asked
  <2> QED
    BY <2>1, <2>3, <2>4 DEF LegacyInv, Live
<1>9. CASE ServerHandles
  BY <1>1, <1>2, <1>9, HandlingClaims DEF Live
<1>10. CASE PollConnection
  <2>1. /\ UNCHANGED <<demand, selected, connected, chans, subs>> /\ pc' # "starting" /\ pc = "idle"
        /\ connected => UNCHANGED <<table, toServer>>
    BY <1>10 DEF PollConnection
  <2> QED
    BY <2>1 DEF LegacyInv, Live
<1>11. CASE StartEnds \/ setActiveTopics \/ TakeTexts
  BY <1>2, <1>11 DEF StartEnds, setActiveTopics, TakeTexts, client, server, Live
<1>12. CASE PollFrames \/ AttemptFails \/ onBinaryMessage \/ UNCHANGED vars
  BY <1>2, <1>12 DEF PollFrames, AttemptFails, onBinaryMessage, vars, client, server, Live
<1> QED
  BY <1>3, <1>4, <1>5, <1>6, <1>7, <1>8, <1>9, <1>10, <1>11, <1>12 DEF Next, onPoll

---------------------------------------------------------------------------
(* It all holds initially: nothing streams. *)
LEMMA RestInit == Init => RestInv
<1> SUFFICES ASSUME Init PROVE RestInv
  OBVIOUS
<1>1. pc = "off" /\ ~connected /\ ~demand /\ link = "none" /\ ~Live
  BY DEF Init, Live
<1> QED
  BY <1>1 DEF RestInv, DialogInv, DialogOwns, CatalogInv, UnsaidInv, OnlyInv, IdsInv, OrderInv, BoundInv, LegacyInv

(* It is kept by every step. *)
LEMMA RestStep ==
  ASSUME Races = {}, SourceInv, RestInv, [Next]_vars
  PROVE  RestInv'
<1>1. DialogInv /\ CatalogInv /\ UnsaidInv /\ OnlyInv /\ IdsInv /\ OrderInv /\ BoundInv /\ LegacyInv
  BY DEF RestInv
<1>2. DialogInv' /\ UnsaidInv' /\ OnlyInv' /\ IdsInv'
  BY <1>1, DialogStep, UnsaidStep, OnlyStep, IdsStep
<1>3. CatalogInv'
  BY <1>1, CatalogStep
<1>4. OrderInv' /\ BoundInv' /\ LegacyInv'
  BY <1>1, OrderStep, BoundStep, LegacyStep
<1> QED
  BY <1>2, <1>3, <1>4 DEF RestInv

(* The source, the host and the server are in step at all times, as far as the texts
   and the requests under way allow. *)
THEOREM RestInvariant == Races = {} => (Spec => [](SourceInv /\ RestInv))
<1> SUFFICES ASSUME Races = {}
             PROVE  Spec => [](SourceInv /\ RestInv)
  OBVIOUS
<1>1. Init => RestInv
  BY RestInit
<1>2. SourceInv /\ RestInv /\ [Next]_vars => RestInv'
  BY RestStep
<1>3. Spec => []SourceInv
  BY SourceInvariant
<1> QED
  BY <1>1, <1>2, <1>3, PTL DEF Spec

(* At rest the source, the host and the server agree, whatever losses, restarts and
   changes of the catalog and of the active set came before. *)
THEOREM AtRestAgreeHolds == Races = {} => (Spec => []AtRestAgree)
<1> SUFFICES ASSUME Races = {}
             PROVE  Spec => []AtRestAgree
  OBVIOUS
<1>1. SourceInv /\ RestInv => AtRestAgree
  BY RestAgrees
<1>2. Spec => [](SourceInv /\ RestInv)
  BY RestInvariant
<1> QED
  BY <1>1, <1>2, PTL
=============================================================================
