---------------------- MODULE AssistantConversationsProofs ----------------------
(***************************************************************************)
(* The panel's conversations for every set of backends, session ids and    *)
(* listings.  What each helper does to the panel's record is proved first, *)
(* field by field; the action lemmas cite those facts.                     *)
(***************************************************************************)
EXTENDS AssistantConversations, TLAPS

Panel == [memory : [Keys -> HarnessMemory], saved : [Keys -> OptId],
          active : OptId, drawer : SUBSET Ids, titles : [Keys -> SUBSET Ids],
          names : SUBSET Ids, renaming : OptId, dangling : SUBSET Keys,
          listed : [Keys -> SUBSET Ids]]

Turn == [phase : {"none", "queued", "begun", "ended"}, of : Keys,
         now : [Kinds -> OptVersion], before : HarnessMemory,
         carries : SUBSET Kinds, session : OptId, answered : BOOLEAN]

Sid(k) == panel.memory[k].sid

(* A session belongs to the backend that gave it out, wherever it is named. *)
OwnedInv ==
  \A k \in Keys :
    /\ \A id \in store[k] : owner[id] = k
    /\ Sid(k) # NoId => owner[Sid(k)] = k
    /\ panel.saved[k] # NoId => owner[panel.saved[k]] = k

(* A panel without settings has remembered nothing yet, and the backend is
   swapped between turns only. *)
BindInv ==
  /\ ~bound => /\ ~Busy /\ panel.active = NoId /\ panel.renaming = NoId
               /\ panel.drawer = {} /\ \A k \in Keys : panel.memory[k] = Blank
  /\ Busy => bound /\ turn.of = key
  /\ bound /\ ~pending => key = choice

(* How far the turn is, and which session its worker writes to. *)
TurnInv ==
  /\ turn.phase = "none" => turn = NoTurn
  /\ turn.phase = "queued" => turn.session = NoId /\ ~turn.answered
  /\ turn.answered => turn.session # NoId
  /\ turn.session # NoId => owner[turn.session] = turn.of
  /\ turn.phase = "begun" =>
       /\ turn.before.sid # NoId => owner[turn.before.sid] = turn.of
       /\ Sid(turn.of) = IF turn.session = NoId THEN turn.before.sid ELSE turn.session

(* The panel is of one mind, but for what the turn in flight has learnt and
   for a session that could not be read when its backend was activated: that
   backend has persisted nothing since, and still remembers the session. *)
MindInv ==
  /\ \A k \in Keys :
       /\ k \in panel.dangling => panel.saved[k] = NoId /\ Sid(k) # NoId
       /\ k # key /\ k \notin panel.dangling => Sid(k) \in {NoId, panel.saved[k]}
  /\ bound => /\ panel.saved[key] = panel.active
              /\ \/ Sid(key) = panel.active \/ key \in panel.dangling
                 \/ turn.session # NoId /\ Sid(key) = turn.session

Says(id, told) == \A l \in Kinds : told[l] # Empty => id # NoId /\ heard[id][l] = told[l]

(* What a memory takes for told is in the history of its session. *)
ToldInv ==
  /\ \A k \in Keys : ~(turn.phase = "begun" /\ turn.of = k) => Says(Sid(k), panel.memory[k].told)
  /\ turn.phase = "begun" =>
       /\ panel.memory[turn.of].told =
            [l \in Kinds |-> IF l \in turn.carries THEN turn.now[l] ELSE turn.before.told[l]]
       /\ \A l \in Kinds \ turn.carries : turn.now[l] # Empty => turn.now[l] = turn.before.told[l]
       /\ Says(Sid(turn.of), IF turn.answered THEN panel.memory[turn.of].told ELSE turn.before.told)
  /\ ModelIsCurrent

ConversationInv ==
  /\ TypeOK /\ OwnedInv /\ BindInv /\ TurnInv /\ MindInv
  /\ RecordsUnanswered \/ ToldInv

(* The memory of a session that is taken up again. *)
Resume(id) == [Blank EXCEPT !.sid = id, !.resumed = TRUE]

(* A memory that remembers nothing, and the one of a session taken up again. *)
LEMMA MemoryTypes ==
  /\ Nothing \in [Kinds -> OptVersion]
  /\ Blank \in HarnessMemory /\ Blank.sid = NoId /\ Blank.told = Nothing
  /\ \A id \in OptId :
       Resume(id) \in HarnessMemory /\ Resume(id).sid = id /\ Resume(id).told = Nothing
<1>1. Nothing \in [Kinds -> OptVersion]
  BY DEF Nothing, OptVersion
<1> QED
  BY <1>1 DEF Resume, Blank, HarnessMemory, OptId

(* startNewConversation's reset, field by field. *)
LEMMA ClearedFacts ==
  ASSUME NEW p \in Panel, NEW k \in Keys
  PROVE  /\ Cleared(p, k) \in Panel
         /\ Cleared(p, k).memory = [p.memory EXCEPT ![k] = Blank]
         /\ Cleared(p, k).saved = [p.saved EXCEPT ![k] = NoId]
         /\ Cleared(p, k).active = NoId /\ Cleared(p, k).dangling = p.dangling \ {k}
         /\ Cleared(p, k).listed = p.listed /\ Cleared(p, k).titles = p.titles
         /\ Cleared(p, k).renaming = p.renaming
<1>1. NoId \in OptId
  BY DEF OptId
<1> QED
  BY <1>1, MemoryTypes DEF Cleared, Panel

(* A conversation is taken up again, or forgotten: the names stay as they are. *)
LEMMA SwitchedKeeps ==
  ASSUME NEW p \in Panel, NEW k \in Keys, NEW id \in OptId
  PROVE  /\ Switched(p, k, id) \in Panel
         /\ Switched(p, k, id).titles = p.titles /\ Switched(p, k, id).listed = p.listed
         /\ Switched(p, k, id).renaming = p.renaming
<1>1. Resume(id) \in HarnessMemory
  BY MemoryTypes
<1> DEFINE q == [p EXCEPT !.memory[k] = Resume(id), !.active = id, !.saved[k] = id,
                          !.dangling = @ \ {k}]
<1>2. Switched(p, k, id) = q
  BY DEF Switched, Resume
<1>3. q.titles = p.titles /\ q.listed = p.listed /\ q.renaming = p.renaming
  BY DEF Panel
<1>4. q \in Panel
  BY <1>1 DEF Panel
<1> QED
  BY <1>2, <1>3, <1>4

(* A conversation is taken up again, field by field. *)
LEMMA SwitchedFacts ==
  ASSUME NEW p \in Panel, NEW k \in Keys, NEW id \in OptId
  PROVE  /\ Switched(p, k, id) \in Panel
         /\ Switched(p, k, id).memory = [p.memory EXCEPT ![k] = Resume(id)]
         /\ Switched(p, k, id).saved = [p.saved EXCEPT ![k] = id]
         /\ Switched(p, k, id).active = id
         /\ Switched(p, k, id).dangling = p.dangling \ {k}
<1>1. Resume(id) \in HarnessMemory
  BY MemoryTypes
<1> DEFINE q == [p EXCEPT !.memory[k] = Resume(id), !.active = id, !.saved[k] = id,
                          !.dangling = @ \ {k}]
<1>2. Switched(p, k, id) = q
  BY DEF Switched, Resume
<1>3. /\ q.memory = [p.memory EXCEPT ![k] = Resume(id)]
      /\ q.saved = [p.saved EXCEPT ![k] = id] /\ q.active = id
      /\ q.dangling = p.dangling \ {k}
  BY DEF Panel
<1>4. q \in Panel
  BY <1>1 DEF Panel
<1> QED
  BY <1>2, <1>3, <1>4

(* A saved session that cannot be read is forgotten; the memory is not. *)
LEMMA ForgottenFacts ==
  ASSUME NEW p \in Panel, NEW k \in Keys
  PROVE  /\ Forgotten(p, k) \in Panel /\ Forgotten(p, k).memory = p.memory
         /\ Forgotten(p, k).saved = [p.saved EXCEPT ![k] = NoId]
         /\ Forgotten(p, k).active = NoId
         /\ Forgotten(p, k).dangling = p.dangling \cup {j \in {k} : p.memory[j].sid # NoId}
         /\ Forgotten(p, k).titles = p.titles /\ Forgotten(p, k).renaming = p.renaming
<1> DEFINE more == p.dangling \cup {j \in {k} : p.memory[j].sid # NoId}
<1>1. NoId \in OptId /\ more \in SUBSET Keys
  BY DEF OptId, Panel
<1>2. Forgotten(p, k) = [p EXCEPT !.saved[k] = NoId, !.active = NoId, !.dangling = more]
  BY DEF Forgotten, Panel
<1> HIDE DEF more
<1> DEFINE q == [p EXCEPT !.saved[k] = NoId, !.active = NoId, !.dangling = more]
<1>3. /\ q.memory = p.memory /\ q.saved = [p.saved EXCEPT ![k] = NoId]
      /\ q.active = NoId /\ q.dangling = more
      /\ q.titles = p.titles /\ q.renaming = p.renaming
  BY DEF Panel
<1>4. q \in Panel
  BY <1>1 DEF Panel
<1> HIDE DEF q
<1>5. Forgotten(p, k) = q
  BY <1>2 DEF q
<1> QED
  BY <1>3, <1>4, <1>5 DEF more

(* The drawer is listed anew: no memory and no session id changes. *)
LEMMA RefreshedFacts ==
  ASSUME NEW p \in Panel, NEW k \in Keys, NEW live \in SUBSET Ids
  PROVE  /\ Refreshed(p, k, live) \in Panel
         /\ Refreshed(p, k, live).memory = p.memory /\ Refreshed(p, k, live).saved = p.saved
         /\ Refreshed(p, k, live).active = p.active
         /\ Refreshed(p, k, live).dangling = p.dangling
         /\ Refreshed(p, k, live).titles = [p.titles EXCEPT ![k] = @ \cap live]
         /\ Refreshed(p, k, live).listed = [p.listed EXCEPT ![k] = live]
         /\ Refreshed(p, k, live).renaming = p.renaming
BY DEF Refreshed, Pruned, Panel

(* A listing is a set of session ids. *)
LEMMA ListedType ==
  ASSUME NEW files \in SUBSET Ids, NEW live \in Listed(files)
  PROVE  live \in SUBSET Ids
BY DEF Listed

(* A backend is activated: its saved session is taken up, or forgotten, and its
   conversations are listed. *)
LEMMA ActivatedFacts ==
  ASSUME NEW p \in Panel, NEW k \in Keys, store \in [Keys -> SUBSET Ids],
         NEW q \in Activated(p, k)
  PROVE  /\ q \in Panel /\ q.renaming = p.renaming
         /\ q.titles[k] = p.titles[k] \cap q.listed[k]
         /\ \A j \in Keys \ {k} :
              /\ q.memory[j] = p.memory[j] /\ q.saved[j] = p.saved[j]
              /\ q.titles[j] = p.titles[j] /\ q.listed[j] = p.listed[j]
              /\ j \in q.dangling <=> j \in p.dangling
         /\ \/ /\ p.saved[k] \in store[k]
               /\ q.memory[k] = Resume(p.saved[k]) /\ q.saved[k] = p.saved[k]
               /\ q.active = p.saved[k] /\ k \notin q.dangling
            \/ /\ q.memory[k] = p.memory[k] /\ q.saved[k] = NoId /\ q.active = NoId
               /\ k \in q.dangling <=> (k \in p.dangling \/ p.memory[k].sid # NoId)
<1>1. PICK found \in HasTranscript(k, p.saved[k]), live \in Listed(store[k]) :
        q = Refreshed(Restored(p, k, found), k, live)
  BY DEF Activated
<1>2. /\ live \in SUBSET Ids /\ p.saved[k] \in OptId
      /\ p.memory \in [Keys -> HarnessMemory] /\ p.saved \in [Keys -> OptId]
      /\ p.titles \in [Keys -> SUBSET Ids] /\ p.listed \in [Keys -> SUBSET Ids]
  BY <1>1, ListedType DEF Panel
<1>3. found => p.saved[k] \in store[k]
  BY <1>1 DEF HasTranscript
<1> DEFINE r == Restored(p, k, found)
<1>4. /\ found => r = Switched(p, k, p.saved[k])
      /\ ~found => r = Forgotten(p, k)
  BY DEF Restored
<1> HIDE DEF r
<1>5. r \in Panel /\ r.titles = p.titles /\ r.listed = p.listed /\ r.renaming = p.renaming
  <2>1. CASE found
    <3>1. /\ Switched(p, k, p.saved[k]) \in Panel
          /\ Switched(p, k, p.saved[k]).titles = p.titles
          /\ Switched(p, k, p.saved[k]).listed = p.listed
          /\ Switched(p, k, p.saved[k]).renaming = p.renaming
      BY <1>2, SwitchedKeeps
    <3> QED
      BY <1>4, <2>1, <3>1
  <2>2. CASE ~found
    <3>1. Forgotten(p, k).listed = p.listed
      BY DEF Forgotten, Panel
    <3> QED
      BY <1>4, <2>2, <3>1, ForgottenFacts
  <2> QED
    BY <2>1, <2>2
<1>6. /\ q \in Panel /\ q.memory = r.memory /\ q.saved = r.saved /\ q.active = r.active
      /\ q.dangling = r.dangling /\ q.renaming = r.renaming
      /\ q.titles = [r.titles EXCEPT ![k] = @ \cap live]
      /\ q.listed = [r.listed EXCEPT ![k] = live]
  BY <1>1, <1>2, <1>5, RefreshedFacts DEF r
<1>7. /\ q.titles[k] = p.titles[k] \cap q.listed[k]
      /\ \A j \in Keys \ {k} : q.titles[j] = p.titles[j] /\ q.listed[j] = p.listed[j]
  BY <1>2, <1>5, <1>6
<1>8. CASE found
  <2>1. /\ r.memory = [p.memory EXCEPT ![k] = Resume(p.saved[k])]
        /\ r.saved = [p.saved EXCEPT ![k] = p.saved[k]] /\ r.active = p.saved[k]
        /\ r.dangling = p.dangling \ {k}
    BY <1>2, <1>4, <1>8, SwitchedFacts
  <2> QED
    BY <1>2, <1>3, <1>5, <1>6, <1>7, <1>8, <2>1
<1>9. CASE ~found
  <2>1. /\ r.memory = p.memory /\ r.saved = [p.saved EXCEPT ![k] = NoId] /\ r.active = NoId
        /\ r.dangling = p.dangling \cup {j \in {k} : p.memory[j].sid # NoId}
    BY <1>4, <1>9, ForgottenFacts
  <2>2. /\ k \in q.dangling <=> (k \in p.dangling \/ p.memory[k].sid # NoId)
        /\ \A j \in Keys \ {k} : j \in q.dangling <=> j \in p.dangling
    BY <1>6, <2>1
  <2>3. /\ \A j \in Keys \ {k} : q.memory[j] = p.memory[j] /\ q.saved[j] = p.saved[j]
        /\ q.memory[k] = p.memory[k] /\ q.saved[k] = NoId /\ q.active = NoId
    BY <1>2, <1>6, <2>1
  <2> QED
    BY <1>5, <1>6, <1>7, <2>2, <2>3
<1> QED
  BY <1>1, <1>8, <1>9 DEF HasTranscript

(* A completed turn's session becomes the one shown and persisted. *)
LEMMA PersistedFacts ==
  ASSUME NEW p \in Panel, key \in Keys
  PROVE  /\ Persisted(p) \in Panel /\ Persisted(p).memory = p.memory
         /\ Persisted(p).titles = p.titles /\ Persisted(p).listed = p.listed
         /\ \/ /\ p.memory[key].sid \in {NoId, p.active}
               /\ Persisted(p) = p
            \/ /\ p.memory[key].sid \notin {NoId, p.active}
               /\ Persisted(p).active = p.memory[key].sid
               /\ Persisted(p).saved = [p.saved EXCEPT ![key] = p.memory[key].sid]
               /\ Persisted(p).dangling = p.dangling \ {key}
<1>1. p.memory[key].sid \in OptId
  BY DEF Panel, HarnessMemory
<1> QED
  BY <1>1 DEF Persisted, Panel

(* What is not the panel's record or the turn's. *)
RestTyped ==
  /\ key \in Keys /\ choice \in Keys /\ pending \in BOOLEAN /\ bound \in BOOLEAN
  /\ current \in [Kinds -> OptVersion]
  /\ store \in [Keys -> SUBSET Ids] /\ owner \in [Ids -> Keys \cup {NoId}]
  /\ heard \in [Ids -> [Kinds -> OptVersion]]

(* The type invariant in the parts the argument uses. *)
LEMMA TypeParts ==
  /\ TypeOK <=> panel \in Panel /\ turn \in Turn /\ RestTyped /\ (pending => Busy)
  /\ (TypeOK <=> panel \in Panel /\ turn \in Turn /\ RestTyped /\ (pending => Busy))'
BY DEF TypeOK, Panel, Turn, RestTyped, Busy

(* The fields of a memory and of the turn. *)
LEMMA FieldTypes ==
  ASSUME TypeOK
  PROVE  /\ panel.memory \in [Keys -> HarnessMemory] /\ panel.saved \in [Keys -> OptId]
         /\ panel.active \in OptId
         /\ \A k \in Keys : Sid(k) \in OptId /\ panel.memory[k].told \in [Kinds -> OptVersion]
         /\ turn.of \in Keys /\ turn.session \in OptId /\ turn.now \in [Kinds -> OptVersion]
         /\ turn.before \in HarnessMemory
<1>1. panel \in Panel /\ turn \in Turn
  BY TypeParts
<1> QED
  BY <1>1 DEF Panel, Turn, HarnessMemory, Sid

(* No turn is in flight. *)
LEMMA NoTurnFacts ==
  /\ NoTurn \in Turn /\ NoTurn.phase = "none" /\ NoTurn.session = NoId /\ NoTurn.answered = FALSE
BY ConversationsAssumption, MemoryTypes DEF NoTurn, Turn, OptId

(* What a step leaves alone keeps what is said of it. *)
LEMMA Frames ==
  /\ OwnedInv /\ UNCHANGED <<panel, store, owner>> => OwnedInv'
  /\ TurnInv /\ UNCHANGED <<turn, panel, owner>> => TurnInv'
  /\ MindInv /\ UNCHANGED <<panel, key, bound, turn>> => MindInv'
  /\ ToldInv /\ UNCHANGED <<panel, turn, heard>> => ToldInv'
<1>1. OwnedInv /\ UNCHANGED <<panel, store, owner>> => OwnedInv'
  BY DEF OwnedInv, Sid
<1>2. TurnInv /\ UNCHANGED <<turn, panel, owner>> => TurnInv'
  BY DEF TurnInv, Sid
<1>3. MindInv /\ UNCHANGED <<panel, key, bound, turn>> => MindInv'
  BY DEF MindInv, Sid
<1>4. ToldInv /\ UNCHANGED <<panel, turn, heard>> => ToldInv'
  BY DEF ToldInv, Sid, Says, ModelIsCurrent
<1> QED
  BY <1>1, <1>2, <1>3, <1>4

(* Whatever is done to the panel between two turns: a memory is kept, cleared or
   set to a session of its backend, and so is a persisted id.  That the panel is
   of one mind afterwards is left to the action. *)
LEMMA BetweenTurns ==
  ASSUME ConversationInv, turn.phase \in {"none", "ended"}, turn' = NoTurn,
         UNCHANGED <<current, owner, heard>>, panel' \in Panel, bound', bound' \in BOOLEAN,
         key' \in Keys, choice' = key', pending' = FALSE,
         store' \in [Keys -> SUBSET Ids], \A k \in Keys : store'[k] \subseteq store[k],
         \A k \in Keys : \/ panel'.memory[k] \in {Blank, panel.memory[k]}
                         \/ \E id \in store[k] : panel'.memory[k] = Resume(id),
         \A k \in Keys : panel'.saved[k] \in {NoId, panel.saved[k], Sid(k)} \cup store[k],
         MindInv'
  PROVE  ConversationInv'
<1>1. TypeOK /\ OwnedInv /\ TurnInv /\ (RecordsUnanswered \/ ToldInv)
  BY DEF ConversationInv
<1>2. RestTyped /\ panel \in Panel
  BY <1>1, TypeParts
<1>3. RestTyped'
  BY <1>2 DEF RestTyped
<1>4. turn' \in Turn /\ turn'.phase = "none" /\ turn'.session = NoId /\ turn'.answered = FALSE
  BY NoTurnFacts
<1>5. TypeOK'
  BY <1>3, <1>4, TypeParts
<1>6. ASSUME NEW k \in Keys
      PROVE  /\ panel'.memory[k] = panel.memory[k] \/ panel'.memory[k].told = Nothing
             /\ panel'.memory[k] = panel.memory[k] \/ Sid(k)' \in {NoId} \cup store[k]
  <2>1. \A id \in store[k] : id \in OptId
    BY <1>2 DEF RestTyped, OptId
  <2> QED
    BY <2>1, MemoryTypes DEF Sid
<1>7. OwnedInv'
  <2> SUFFICES ASSUME NEW k \in Keys
               PROVE  /\ \A id \in store'[k] : owner'[id] = k
                      /\ Sid(k)' # NoId => owner'[Sid(k)'] = k
                      /\ panel'.saved[k] # NoId => owner'[panel'.saved[k]] = k
    BY DEF OwnedInv
  <2>1. \A id \in store[k] : owner[id] = k
    BY <1>1 DEF OwnedInv
  <2>2. Sid(k) # NoId => owner[Sid(k)] = k
    BY <1>1 DEF OwnedInv
  <2>3. panel.saved[k] # NoId => owner[panel.saved[k]] = k
    BY <1>1 DEF OwnedInv
  <2>4. Sid(k)' = Sid(k) \/ Sid(k)' \in {NoId} \cup store[k]
    BY <1>6 DEF Sid
  <2> QED
    BY <2>1, <2>2, <2>3, <2>4
<1>8. BindInv'
  BY <1>4 DEF BindInv, Busy
<1>9. TurnInv'
  BY <1>4 DEF TurnInv
<1>10. RecordsUnanswered \/ ToldInv'
  <2> SUFFICES ASSUME ToldInv PROVE ToldInv'
    BY <1>1
  <2>1. ASSUME NEW k \in Keys PROVE Says(Sid(k), panel.memory[k].told)'
    <3>1. Says(Sid(k), panel.memory[k].told)
      BY DEF ToldInv
    <3>2. CASE panel'.memory[k] = panel.memory[k]
      BY <3>1, <3>2 DEF Says, Sid
    <3>3. CASE panel'.memory[k].told = Nothing
      BY <3>3 DEF Says, Nothing
    <3> QED
      BY <1>6, <3>2, <3>3
  <2> QED
    BY <1>4, <2>1 DEF ToldInv, ModelIsCurrent
<1> QED
  BY <1>5, <1>7, <1>8, <1>9, <1>10 DEF ConversationInv

(* Renaming and listing touch no memory and no session id. *)
LEMMA TitlesOnly ==
  ASSUME ConversationInv, panel' \in Panel, panel'.memory = panel.memory,
         panel'.saved = panel.saved, panel'.active = panel.active,
         panel'.dangling = panel.dangling, bound,
         UNCHANGED <<key, choice, pending, bound, turn, current, store, owner, heard>>
  PROVE  ConversationInv'
<1>1. TypeOK'
  BY TypeParts DEF ConversationInv, RestTyped, Busy
<1>2. \A k : Sid(k)' = Sid(k)
  BY DEF Sid
<1>3. OwnedInv'
  BY <1>2 DEF ConversationInv, OwnedInv
<1>4. BindInv'
  BY DEF ConversationInv, BindInv, Busy
<1>5. TurnInv'
  BY <1>2 DEF ConversationInv, TurnInv
<1>6. MindInv'
  BY <1>2 DEF ConversationInv, MindInv
<1>7. RecordsUnanswered \/ ToldInv'
  BY <1>2 DEF ConversationInv, ToldInv, Says, ModelIsCurrent
<1> QED
  BY <1>1, <1>3, <1>4, <1>5, <1>6, <1>7 DEF ConversationInv

(* A panel at rest is of one mind. *)
LEMMA RestFacts ==
  ASSUME ConversationInv, ~Busy
  PROVE  /\ turn.phase = "none" /\ turn = NoTurn /\ ~pending /\ RestTyped /\ panel \in Panel
         /\ bound => key = choice
         /\ MindInv
         /\ bound => /\ panel.saved[key] = panel.active
                     /\ Sid(key) = panel.active \/ key \in panel.dangling
<1>1. turn.phase = "none" /\ turn = NoTurn
  BY DEF ConversationInv, TurnInv, Busy
<1>2. ~pending /\ RestTyped /\ panel \in Panel
  BY TypeParts DEF ConversationInv
<1>3. bound => key = choice
  BY <1>2 DEF ConversationInv, BindInv
<1>4. /\ MindInv
      /\ bound => /\ panel.saved[key] = panel.active
                  /\ Sid(key) = panel.active \/ key \in panel.dangling
  BY <1>1, NoTurnFacts DEF ConversationInv, MindInv
<1> QED
  BY <1>1, <1>2, <1>3, <1>4

(* Activating a backend leaves the panel of one mind, but for a session that could
   not be read. *)
LEMMA ActivatedKeepsMind ==
  ASSUME ConversationInv, NEW p \in Panel, NEW k \in Keys, panel' \in Activated(p, k),
         key' = k, bound',
         \A j \in Keys : /\ j \in p.dangling => p.saved[j] = NoId /\ p.memory[j].sid # NoId
                         /\ j \notin p.dangling => p.memory[j].sid \in {NoId, p.saved[j]}
  PROVE  MindInv'
<1>1. store \in [Keys -> SUBSET Ids]
  BY TypeParts DEF ConversationInv, RestTyped
<1>2. p.saved[k] \in OptId /\ NoId \notin store[k]
  BY <1>1, ConversationsAssumption DEF Panel
<1>3. /\ \A j \in Keys \ {k} :
           /\ panel'.memory[j] = p.memory[j] /\ panel'.saved[j] = p.saved[j]
           /\ j \in panel'.dangling <=> j \in p.dangling
      /\ \/ /\ p.saved[k] \in store[k]
            /\ panel'.memory[k] = Resume(p.saved[k]) /\ panel'.saved[k] = p.saved[k]
            /\ panel'.active = p.saved[k] /\ k \notin panel'.dangling
         \/ /\ panel'.memory[k] = p.memory[k] /\ panel'.saved[k] = NoId /\ panel'.active = NoId
            /\ k \in panel'.dangling <=> (k \in p.dangling \/ p.memory[k].sid # NoId)
  BY <1>1, ActivatedFacts
<1>4. \A j \in Keys \ {k} : Sid(j)' = p.memory[j].sid
  BY <1>3 DEF Sid
<1>5. /\ panel'.saved[k] = panel'.active
      /\ Sid(k)' = panel'.active \/ k \in panel'.dangling
      /\ k \in panel'.dangling => panel'.saved[k] = NoId /\ Sid(k)' # NoId
  BY <1>2, <1>3, MemoryTypes DEF Sid
<1>6. \A j \in Keys :
        /\ j \in panel'.dangling => panel'.saved[j] = NoId /\ Sid(j)' # NoId
        /\ j # k /\ j \notin panel'.dangling => Sid(j)' \in {NoId, panel'.saved[j]}
  BY <1>3, <1>4, <1>5
<1> QED
  BY <1>5, <1>6 DEF MindInv

(* What activation does to memories and persisted ids, as BetweenTurns asks. *)
LEMMA ActivatedIsTame ==
  ASSUME NEW p \in Panel, NEW k \in Keys, store \in [Keys -> SUBSET Ids],
         NEW q \in Activated(p, k), NEW j \in Keys
  PROVE  /\ q \in Panel
         /\ q.memory[j] = p.memory[j] \/ \E id \in store[j] : q.memory[j] = Resume(id)
         /\ q.saved[j] \in {NoId, p.saved[j]}
BY ActivatedFacts

(* The panel is bound to its settings, for the first time or again. *)
LEMMA setSettingsPreserves ==
  ASSUME ConversationInv, setSettings
  PROVE  ConversationInv'
<1>1. bound' /\ bound' = TRUE /\ UNCHANGED <<choice, turn, current, store, owner, heard>>
  BY DEF setSettings
<1>2. CASE ~bound
  <2>1. panel' \in Activated(panel, choice)
    BY <1>2 DEF setSettings
  <2>2. key' = choice /\ pending' = FALSE
    BY <1>2 DEF setSettings
  <2>3. ~Busy /\ \A k \in Keys : panel.memory[k] = Blank
    BY <1>2 DEF ConversationInv, BindInv
  <2>4. turn = NoTurn /\ turn.phase = "none" /\ RestTyped /\ panel \in Panel
    BY <2>3, RestFacts
  <2>5. store \in [Keys -> SUBSET Ids] /\ choice \in Keys
    BY <2>4 DEF RestTyped
  <2>6. MindInv'
    <3>1. \A j \in Keys : panel.memory[j].sid = NoId /\ j \notin panel.dangling
      BY <2>3, <2>4, RestFacts, MemoryTypes DEF MindInv, Sid
    <3> QED
      BY <1>1, <2>1, <2>2, <2>4, <2>5, <3>1, ActivatedKeepsMind
  <2>7. \A j \in Keys :
          /\ panel' \in Panel
          /\ panel'.memory[j] = panel.memory[j] \/ \E id \in store[j] : panel'.memory[j] = Resume(id)
          /\ panel'.saved[j] \in {NoId, panel.saved[j]}
    BY <2>1, <2>4, <2>5, ActivatedIsTame
  <2> QED
    BY <1>1, <2>2, <2>4, <2>5, <2>6, <2>7, BetweenTurns
<1>3. CASE bound /\ Busy
  <2>1. UNCHANGED <<panel, key>> /\ pending' = TRUE /\ bound' = bound
    BY <1>1, <1>3 DEF setSettings, ConversationInv, TypeOK
  <2>2. TypeOK'
    BY <1>1, <1>3, <2>1, TypeParts DEF ConversationInv, RestTyped, Busy
  <2>3. BindInv'
    BY <1>1, <1>3, <2>1 DEF ConversationInv, BindInv, Busy
  <2> QED
    BY <1>1, <2>1, <2>2, <2>3, Frames DEF ConversationInv
<1>4. CASE bound /\ ~Busy
  <2>1. UNCHANGED panel /\ pending' = FALSE /\ key' = choice
    BY <1>4 DEF setSettings
  <2>2. /\ turn = NoTurn /\ turn.phase = "none" /\ RestTyped /\ panel \in Panel
        /\ key = choice /\ MindInv
    BY <1>4, RestFacts
  <2>3. UNCHANGED key /\ UNCHANGED bound
    BY <1>1, <1>4, <2>1, <2>2 DEF RestTyped
  <2>4. MindInv'
    BY <1>1, <2>1, <2>2, <2>3, Frames
  <2> QED
    BY <1>1, <2>1, <2>2, <2>3, <2>4, BetweenTurns DEF RestTyped
<1> QED
  BY <1>2, <1>3, <1>4

(* The settings are committed: the backend is swapped, now or after the turn. *)
LEMMA commitSettingsPreserves ==
  ASSUME ConversationInv, NEW k \in Keys, commitSettings(k)
  PROVE  ConversationInv'
<1>1. bound /\ choice' = k /\ UNCHANGED <<bound, turn, current, store, owner, heard>>
  BY DEF commitSettings
<1>2. CASE Busy
  <2>1. pending' = TRUE /\ UNCHANGED <<panel, key>>
    BY <1>2 DEF commitSettings, Rebuild
  <2>2. TypeOK'
    BY <1>1, <1>2, <2>1, TypeParts DEF ConversationInv, RestTyped, Busy
  <2>3. BindInv'
    BY <1>1, <1>2, <2>1 DEF ConversationInv, BindInv, Busy
  <2> QED
    BY <1>1, <2>1, <2>2, <2>3, Frames DEF ConversationInv
<1>3. CASE ~Busy
  <2>1. /\ turn = NoTurn /\ turn.phase = "none" /\ RestTyped /\ panel \in Panel
        /\ MindInv /\ panel.saved[key] = panel.active
        /\ Sid(key) = panel.active \/ key \in panel.dangling
    BY <1>1, <1>3, RestFacts
  <2>2. store \in [Keys -> SUBSET Ids] /\ key \in Keys /\ bound \in BOOLEAN
    BY <2>1 DEF RestTyped
  <2>3. key' = k /\ pending' = FALSE
    BY <1>3 DEF commitSettings, Rebuild
  <2>4. CASE k # key
    <3>1. panel' \in Activated(panel, k)
      BY <1>3, <2>4 DEF commitSettings, Rebuild
    <3>2. \A j \in Keys :
            /\ panel' \in Panel
            /\ panel'.memory[j] = panel.memory[j] \/ \E id \in store[j] : panel'.memory[j] = Resume(id)
            /\ panel'.saved[j] \in {NoId, panel.saved[j]}
      BY <2>1, <2>2, <3>1, ActivatedIsTame
    <3>3. MindInv'
      <4>1. \A j \in Keys :
              /\ j \in panel.dangling => panel.saved[j] = NoId /\ panel.memory[j].sid # NoId
              /\ j \notin panel.dangling => panel.memory[j].sid \in {NoId, panel.saved[j]}
        BY <2>1, <2>2 DEF MindInv, Sid
      <4> QED
        BY <1>1, <2>1, <2>3, <3>1, <4>1, ActivatedKeepsMind
    <3> QED
      BY <1>1, <2>1, <2>2, <2>3, <3>2, <3>3, BetweenTurns
  <2>5. CASE k = key
    <3>1. UNCHANGED panel
      BY <1>3, <2>5 DEF commitSettings, Rebuild
    <3>2. MindInv'
      BY <1>1, <2>1, <2>3, <2>5, <3>1, Frames
    <3> QED
      BY <1>1, <2>1, <2>2, <2>3, <3>1, <3>2, BetweenTurns
  <2> QED
    BY <2>4, <2>5
<1> QED
  BY <1>2, <1>3

(* The user starts anew. *)
LEMMA startNewConversationPreserves ==
  ASSUME ConversationInv, startNewConversation
  PROVE  ConversationInv'
<1>1. /\ bound /\ ~Busy /\ panel' = Cleared(panel, key)
      /\ UNCHANGED <<key, choice, pending, bound, turn, current, store, owner, heard>>
  BY DEF startNewConversation
<1>2. /\ turn = NoTurn /\ turn.phase = "none" /\ RestTyped /\ panel \in Panel /\ ~pending
      /\ key = choice /\ MindInv
  BY <1>1, RestFacts
<1>3. /\ key \in Keys /\ pending' = FALSE /\ bound' \in BOOLEAN
      /\ store' \in [Keys -> SUBSET Ids]
  BY <1>1, <1>2 DEF RestTyped
<1>4. /\ panel' \in Panel /\ panel'.memory = [panel.memory EXCEPT ![key] = Blank]
      /\ panel'.saved = [panel.saved EXCEPT ![key] = NoId] /\ panel'.active = NoId
      /\ panel'.dangling = panel.dangling \ {key}
  BY <1>1, <1>2, <1>3, ClearedFacts
<1>5. panel.memory \in [Keys -> HarnessMemory] /\ panel.saved \in [Keys -> OptId]
  BY <1>2 DEF Panel
<1>6. \A j \in Keys : /\ panel'.memory[j] \in {Blank, panel.memory[j]}
                      /\ panel'.saved[j] \in {NoId, panel.saved[j]}
                      /\ j # key => panel'.memory[j] = panel.memory[j] /\ panel'.saved[j] = panel.saved[j]
  BY <1>4, <1>5
<1>7. Sid(key)' = NoId /\ panel'.saved[key] = NoId /\ \A j \in Keys \ {key} : Sid(j)' = Sid(j)
  BY <1>1, <1>3, <1>4, <1>5, <1>6, MemoryTypes DEF Sid
<1>8. MindInv'
  BY <1>1, <1>2, <1>4, <1>6, <1>7 DEF MindInv
<1> QED
  BY <1>1, <1>2, <1>3, <1>4, <1>6, <1>8, BetweenTurns

(* The user takes a conversation up. *)
LEMMA onSelectionChangedPreserves ==
  ASSUME ConversationInv, NEW id \in Ids, onSelectionChanged(id)
  PROVE  ConversationInv'
<1>1. /\ bound /\ ~Busy /\ id \in store[key] /\ panel' = Switched(panel, key, id)
      /\ UNCHANGED <<key, choice, pending, bound, turn, current, store, owner, heard>>
  BY DEF onSelectionChanged, HasTranscript
<1>2. /\ turn = NoTurn /\ turn.phase = "none" /\ RestTyped /\ panel \in Panel /\ ~pending
      /\ key = choice /\ MindInv
  BY <1>1, RestFacts
<1>3. /\ key \in Keys /\ pending' = FALSE /\ bound' \in BOOLEAN /\ id \in OptId
      /\ store' \in [Keys -> SUBSET Ids]
  BY <1>1, <1>2 DEF RestTyped, OptId
<1>4. /\ panel' \in Panel /\ panel'.memory = [panel.memory EXCEPT ![key] = Resume(id)]
      /\ panel'.saved = [panel.saved EXCEPT ![key] = id] /\ panel'.active = id
      /\ panel'.dangling = panel.dangling \ {key}
  BY <1>1, <1>2, <1>3, SwitchedFacts
<1>5. panel.memory \in [Keys -> HarnessMemory] /\ panel.saved \in [Keys -> OptId]
  BY <1>2 DEF Panel
<1>6. /\ \A j \in Keys \ {key} : panel'.memory[j] = panel.memory[j] /\ panel'.saved[j] = panel.saved[j]
      /\ panel'.memory[key] = Resume(id) /\ panel'.saved[key] = id
  BY <1>3, <1>4, <1>5
<1>7. Sid(key)' = id /\ \A j \in Keys \ {key} : Sid(j)' = Sid(j)
  BY <1>1, <1>3, <1>6, MemoryTypes DEF Sid
<1>8. MindInv'
  BY <1>1, <1>2, <1>4, <1>6, <1>7 DEF MindInv
<1>9. \A j \in Keys : /\ \/ panel'.memory[j] \in {Blank, panel.memory[j]}
                         \/ \E i \in store[j] : panel'.memory[j] = Resume(i)
                      /\ panel'.saved[j] \in {NoId, panel.saved[j], Sid(j)} \cup store[j]
  BY <1>1, <1>6
<1> QED
  BY <1>1, <1>2, <1>3, <1>4, <1>8, <1>9, BetweenTurns

(* A conversation is deleted; if it is the one shown, the panel starts anew. *)
LEMMA onItemDeleteRequestedPreserves ==
  ASSUME ConversationInv, NEW id \in Ids, onItemDeleteRequested(id)
  PROVE  ConversationInv'
<1>1. /\ bound /\ ~Busy /\ store' \in AfterDelete(key, id)
      /\ UNCHANGED <<key, choice, pending, bound, turn, current, owner, heard>>
  BY DEF onItemDeleteRequested
<1>2. /\ turn = NoTurn /\ turn.phase = "none" /\ RestTyped /\ panel \in Panel /\ ~pending
      /\ key = choice
      /\ MindInv
  BY <1>1, RestFacts
<1>3. /\ key \in Keys /\ pending' = FALSE /\ bound' \in BOOLEAN
      /\ store \in [Keys -> SUBSET Ids]
  BY <1>1, <1>2 DEF RestTyped
<1>4. /\ store' \in [Keys -> SUBSET Ids]
      /\ \A j \in Keys : store'[j] \subseteq store[j] /\ store[j] \subseteq store'[j] \cup {id}
      /\ \A j \in Keys \ {key} : store'[j] = store[j]
  BY <1>1, <1>3 DEF AfterDelete
<1>5. PICK live \in Listed(store'[key]) :
        panel' = IF id = panel.active THEN Cleared(Refreshed(panel, key, live), key)
                 ELSE Refreshed(panel, key, live)
  BY DEF onItemDeleteRequested
<1> DEFINE p == Refreshed(panel, key, live)
<1>6. live \in SUBSET Ids
  BY <1>3, <1>4, ListedType
<1>7. /\ p \in Panel /\ p.memory = panel.memory /\ p.saved = panel.saved
      /\ p.active = panel.active /\ p.dangling = panel.dangling
  <2>1. panel \in Panel /\ key \in Keys
    BY <1>2, <1>3
  <2> QED
    BY <1>6, <2>1, RefreshedFacts
<1>8. panel' = IF id = panel.active THEN Cleared(p, key) ELSE p
  BY <1>5
<1> HIDE DEF p
<1>9. panel.memory \in [Keys -> HarnessMemory] /\ panel.saved \in [Keys -> OptId]
  BY <1>2 DEF Panel
<1>10. CASE id = panel.active
  <2>1. /\ panel' \in Panel /\ panel'.memory = [panel.memory EXCEPT ![key] = Blank]
        /\ panel'.saved = [panel.saved EXCEPT ![key] = NoId] /\ panel'.active = NoId
        /\ panel'.dangling = panel.dangling \ {key}
    <3>1. panel' = Cleared(p, key)
      BY <1>8, <1>10
    <3>2. p \in Panel /\ key \in Keys
      BY <1>3, <1>7
    <3>3. /\ Cleared(p, key) \in Panel /\ Cleared(p, key).memory = [p.memory EXCEPT ![key] = Blank]
          /\ Cleared(p, key).saved = [p.saved EXCEPT ![key] = NoId] /\ Cleared(p, key).active = NoId
          /\ Cleared(p, key).dangling = p.dangling \ {key}
      BY <3>2, ClearedFacts
    <3> QED
      BY <1>7, <3>1, <3>3
  <2>2. \A j \in Keys : /\ panel'.memory[j] \in {Blank, panel.memory[j]}
                        /\ panel'.saved[j] \in {NoId, panel.saved[j]}
                        /\ j # key => panel'.memory[j] = panel.memory[j] /\ panel'.saved[j] = panel.saved[j]
    BY <1>9, <2>1
  <2>3. Sid(key)' = NoId /\ panel'.saved[key] = NoId /\ \A j \in Keys \ {key} : Sid(j)' = Sid(j)
    BY <1>1, <1>3, <1>9, <2>1, <2>2, MemoryTypes DEF Sid
  <2>4. MindInv'
    BY <1>1, <1>2, <1>4, <2>1, <2>2, <2>3 DEF MindInv
  <2> QED
    BY <1>1, <1>2, <1>3, <1>4, <2>1, <2>2, <2>4, BetweenTurns
<1>11. CASE id # panel.active
  <2>1. /\ panel' \in Panel /\ panel'.memory = panel.memory /\ panel'.saved = panel.saved
        /\ panel'.active = panel.active /\ panel'.dangling = panel.dangling
    BY <1>7, <1>8, <1>11
  <2>2. \A j \in Keys : Sid(j)' = Sid(j)
    BY <2>1 DEF Sid
  <2>3. MindInv'
    BY <1>1, <1>2, <1>3, <2>1, <2>2 DEF MindInv
  <2> QED
    BY <1>1, <1>2, <1>3, <1>4, <2>1, <2>3, BetweenTurns
<1> QED
  BY <1>10, <1>11

(* A name is about to be edited. *)
LEMMA onItemContextActionPreserves ==
  ASSUME ConversationInv, NEW id \in Ids, onItemContextAction(id)
  PROVE  ConversationInv'
<1>1. panel \in Panel /\ id \in OptId
  BY TypeParts DEF ConversationInv, OptId
<1>2. panel' = [panel EXCEPT !.renaming = id]
  BY DEF onItemContextAction
<1>3. /\ panel' \in Panel /\ panel'.memory = panel.memory /\ panel'.saved = panel.saved
      /\ panel'.active = panel.active /\ panel'.dangling = panel.dangling
  BY <1>1, <1>2 DEF Panel
<1> QED
  BY <1>3, TitlesOnly DEF onItemContextAction

(* The name is kept. *)
LEMMA commitRenamePreserves ==
  ASSUME ConversationInv, commitRename
  PROVE  ConversationInv'
<1>1. panel \in Panel /\ key \in Keys
  BY TypeParts DEF ConversationInv, RestTyped
<1>2. PICK t \in Retitled(panel.titles[key], panel.renaming) :
        panel' = [panel EXCEPT !.renaming = NoId, !.titles[key] = t, !.names = t]
  BY DEF commitRename
<1>3. panel.renaming # NoId /\ bound
  BY DEF commitRename, ConversationInv, BindInv
<1>4. t \in SUBSET Ids
  BY <1>1, <1>2, <1>3 DEF Retitled, Panel, OptId
<1>5. /\ panel' \in Panel /\ panel'.memory = panel.memory /\ panel'.saved = panel.saved
      /\ panel'.active = panel.active /\ panel'.dangling = panel.dangling
  BY <1>1, <1>2, <1>4 DEF Panel, OptId
<1> QED
  BY <1>3, <1>5, TitlesOnly DEF commitRename

(* A message is sent. *)
LEMMA sendCurrentInputPreserves ==
  ASSUME ConversationInv, sendCurrentInput
  PROVE  ConversationInv'
<1>1. /\ bound /\ ~Busy
      /\ turn' = [NoTurn EXCEPT !.phase = "queued", !.of = key, !.now = current]
      /\ UNCHANGED <<panel, key, choice, pending, bound, current, store, owner, heard>>
  BY DEF sendCurrentInput
<1>2. turn.phase = "none" /\ turn = NoTurn /\ ~pending /\ RestTyped /\ panel \in Panel
  BY <1>1, RestFacts
<1>3. key \in Keys /\ current \in [Kinds -> OptVersion]
  BY <1>2 DEF RestTyped
<1>4. /\ turn' \in Turn /\ turn'.phase = "queued" /\ turn'.of = key
      /\ turn'.session = NoId /\ turn'.answered = FALSE
  BY <1>1, <1>3, NoTurnFacts DEF Turn
<1>5. TypeOK'
  BY <1>1, <1>2, <1>4, TypeParts DEF RestTyped
<1>6. OwnedInv'
  BY <1>1, Frames DEF ConversationInv
<1>7. BindInv'
  BY <1>1, <1>2, <1>4 DEF ConversationInv, BindInv, Busy
<1>8. TurnInv'
  BY <1>4 DEF TurnInv
<1>9. MindInv'
  BY <1>1, <1>2, NoTurnFacts DEF ConversationInv, MindInv, Sid
<1>10. RecordsUnanswered \/ ToldInv'
  <2> SUFFICES ASSUME ToldInv PROVE ToldInv'
    BY DEF ConversationInv
  <2>1. \A k \in Keys : Says(Sid(k), panel.memory[k].told)
    BY <1>2 DEF ToldInv
  <2>2. \A k \in Keys : Says(Sid(k), panel.memory[k].told)'
    BY <1>1, <2>1 DEF Says, Sid
  <2> QED
    BY <1>4, <2>2 DEF ToldInv, ModelIsCurrent
<1> QED
  BY <1>5, <1>6, <1>7, <1>8, <1>9, <1>10 DEF ConversationInv

(* A turn that cannot start ends. *)
LEMMA LaunchFailsPreserves ==
  ASSUME ConversationInv, LaunchFails
  PROVE  ConversationInv'
<1>1. /\ turn.phase = "queued" /\ turn' = [turn EXCEPT !.phase = "ended"]
      /\ UNCHANGED <<panel, key, choice, pending, bound, current, store, owner, heard>>
  BY DEF LaunchFails
<1>2. turn \in Turn /\ RestTyped /\ panel \in Panel
  BY TypeParts DEF ConversationInv
<1>3. /\ turn' \in Turn /\ turn'.phase = "ended" /\ turn'.of = turn.of
      /\ turn'.session = turn.session /\ turn'.answered = turn.answered
      /\ turn.session = NoId /\ ~turn.answered
  BY <1>1, <1>2 DEF Turn, ConversationInv, TurnInv
<1>4. TypeOK'
  BY <1>1, <1>2, <1>3, TypeParts DEF RestTyped, Busy
<1>5. OwnedInv'
  BY <1>1, Frames DEF ConversationInv
<1>6. BindInv'
  BY <1>1, <1>3 DEF ConversationInv, BindInv, Busy
<1>7. TurnInv'
  BY <1>3 DEF TurnInv
<1>8. MindInv'
  BY <1>1, <1>3 DEF ConversationInv, MindInv, Sid
<1>9. RecordsUnanswered \/ ToldInv'
  <2> SUFFICES ASSUME ToldInv PROVE ToldInv'
    BY DEF ConversationInv
  <2>1. \A k \in Keys : Says(Sid(k), panel.memory[k].told)'
    BY <1>1 DEF ToldInv, Says, Sid
  <2> QED
    BY <1>3, <2>1 DEF ToldInv, ModelIsCurrent
<1> QED
  BY <1>4, <1>5, <1>6, <1>7, <1>8, <1>9 DEF ConversationInv

(* What the worker writes to its memory, field by field. *)
LEMMA WorkerSetsFacts ==
  ASSUME TypeOK, NEW m \in HarnessMemory, WorkerSets(m)
  PROVE  /\ panel' \in Panel /\ panel'.memory[turn.of] = m
         /\ \A k \in Keys \ {turn.of} : panel'.memory[k] = panel.memory[k]
         /\ panel'.saved = panel.saved /\ panel'.active = panel.active
         /\ panel'.drawer = panel.drawer /\ panel'.renaming = panel.renaming
         /\ panel'.titles = panel.titles /\ panel'.dangling = panel.dangling
<1>1. panel \in Panel /\ turn.of \in Keys
  BY TypeParts, FieldTypes
<1>2. panel' = [panel EXCEPT !.memory[turn.of] = m]
  BY DEF WorkerSets
<1> QED
  BY <1>1, <1>2 DEF Panel

(* The payload is composed: the memory takes what it carries for told. *)
LEMMA composePayloadPreserves ==
  ASSUME ConversationInv, composePayload
  PROVE  ConversationInv'
<1> DEFINE out == {l \in Kinds : Carries(l)}
           told == [l \in Kinds |-> IF l \in out THEN turn.now[l] ELSE Worker.told[l]]
           m == [Worker EXCEPT !.told = told, !.resumed = @ /\ out = {}]
<1>1. /\ turn.phase = "queued"
      /\ turn' = [turn EXCEPT !.phase = "begun", !.before = Worker, !.carries = out]
      /\ WorkerSets(m)
      /\ UNCHANGED <<key, choice, pending, bound, current, store, owner, heard>>
  BY DEF composePayload
<1>2. TypeOK /\ turn \in Turn /\ RestTyped /\ turn.of \in Keys /\ Worker \in HarnessMemory
  BY TypeParts, FieldTypes DEF ConversationInv, Worker
<1>3. told \in [Kinds -> OptVersion]
  BY <1>2 DEF Turn, HarnessMemory
<1>4. m \in HarnessMemory /\ m.sid = Worker.sid /\ m.told = told
  <2>1. (Worker.resumed /\ out = {}) \in BOOLEAN
    OBVIOUS
  <2> HIDE DEF told, out
  <2> QED
    BY <1>2, <1>3, <2>1 DEF HarnessMemory
<1> HIDE DEF m
<1>5. /\ panel' \in Panel /\ panel'.memory[turn.of] = m
      /\ \A k \in Keys \ {turn.of} : panel'.memory[k] = panel.memory[k]
      /\ panel'.saved = panel.saved /\ panel'.active = panel.active
      /\ panel'.drawer = panel.drawer /\ panel'.renaming = panel.renaming
      /\ panel'.dangling = panel.dangling
  BY <1>1, <1>2, <1>4, WorkerSetsFacts
<1>6. /\ turn' \in Turn /\ turn'.phase = "begun" /\ turn'.before = Worker /\ turn'.carries = out
      /\ turn'.of = turn.of /\ turn'.now = turn.now
      /\ turn'.session = turn.session /\ turn'.answered = turn.answered
  <2>1. out \in SUBSET Kinds
    OBVIOUS
  <2> HIDE DEF out
  <2> QED
    BY <1>1, <1>2, <2>1 DEF Turn
<1>7. turn.session = NoId /\ ~turn.answered
  BY <1>1 DEF ConversationInv, TurnInv
<1>8. \A k \in Keys : Sid(k)' = Sid(k)
  BY <1>2, <1>4, <1>5 DEF Sid, Worker
<1>9. TypeOK'
  BY <1>1, <1>2, <1>5, <1>6, TypeParts DEF RestTyped, Busy
<1>10. OwnedInv'
  BY <1>1, <1>5, <1>8 DEF ConversationInv, OwnedInv
<1>11. BindInv'
  BY <1>1, <1>5, <1>6 DEF ConversationInv, BindInv, Busy
<1>12. TurnInv'
  <2>1. Sid(turn.of) # NoId => owner[Sid(turn.of)] = turn.of
    BY <1>2 DEF ConversationInv, OwnedInv
  <2>2. turn'.before.sid = Sid(turn.of)
    BY <1>6 DEF Worker, Sid
  <2>3. Sid(turn.of)' = Sid(turn.of)
    BY <1>2, <1>4, <1>5, <1>6 DEF Sid, Worker
  <2> QED
    BY <1>1, <1>6, <1>7, <2>1, <2>2, <2>3 DEF TurnInv
<1>13. MindInv'
  <2>1. key \in Keys
    BY <1>2 DEF RestTyped
  <2> QED
    BY <1>1, <1>5, <1>6, <1>8, <2>1 DEF ConversationInv, MindInv
<1>14. RecordsUnanswered \/ ToldInv'
  <2> SUFFICES ASSUME ToldInv PROVE ToldInv'
    BY DEF ConversationInv
  <2>1. \A k \in Keys : Says(Sid(k), panel.memory[k].told)
    BY <1>1 DEF ToldInv
  <2>2. \A k \in Keys \ {turn.of} : Says(Sid(k), panel.memory[k].told)'
    BY <1>1, <1>5, <2>1 DEF Says, Sid
  <2>3. Says(Sid(turn.of), turn.before.told)'
    <3>1. Says(Sid(turn.of), Worker.told)
      BY <1>2, <2>1 DEF Worker
    <3> QED
      BY <1>1, <1>2, <1>6, <1>8, <3>1 DEF Says
  <2>4. panel'.memory[turn.of].told =
          [l \in Kinds |-> IF l \in turn'.carries THEN turn'.now[l] ELSE turn'.before.told[l]]
    BY <1>4, <1>5, <1>6
  <2>5. \A l \in Kinds \ turn'.carries : turn'.now[l] # Empty => turn'.now[l] = turn'.before.told[l]
    BY <1>6 DEF Carries
  <2> QED
    BY <1>6, <1>7, <2>2, <2>3, <2>4, <2>5 DEF ToldInv, ModelIsCurrent
<1> QED
  BY <1>9, <1>10, <1>11, <1>12, <1>13, <1>14 DEF ConversationInv

(* The stream names the session: a new one, or the one resumed. *)
LEMMA SessionNamedPreserves ==
  ASSUME ConversationInv, NEW id \in Ids, SessionNamed(id)
  PROVE  ConversationInv'
<1> DEFINE resume == turn.before.sid
           m == [Worker EXCEPT !.sid = id]
<1>1. /\ turn.phase = "begun" /\ turn.session = NoId
      /\ id = resume \/ owner[id] \notin Keys
      /\ turn' = [turn EXCEPT !.session = id]
      /\ WorkerSets(m)
      /\ store' = [store EXCEPT ![turn.of] = @ \cup {id}]
      /\ owner' = [owner EXCEPT ![id] = turn.of]
      /\ heard' = [heard EXCEPT ![id] = IF resume = NoId THEN Nothing ELSE heard[resume]]
      /\ UNCHANGED <<key, choice, pending, bound, current>>
  BY DEF SessionNamed
<1>2. /\ TypeOK /\ turn \in Turn /\ RestTyped /\ turn.of \in Keys /\ Worker \in HarnessMemory
      /\ resume \in OptId /\ id # NoId /\ id \in OptId
  BY TypeParts, FieldTypes, ConversationsAssumption
     DEF ConversationInv, Worker, HarnessMemory, OptId
<1>3. m \in HarnessMemory /\ m.sid = id /\ m.told = Worker.told
  BY <1>2 DEF HarnessMemory
<1> HIDE DEF m
<1>4. /\ panel' \in Panel /\ panel'.memory[turn.of] = m
      /\ \A k \in Keys \ {turn.of} : panel'.memory[k] = panel.memory[k]
      /\ panel'.saved = panel.saved /\ panel'.active = panel.active
      /\ panel'.drawer = panel.drawer /\ panel'.renaming = panel.renaming
      /\ panel'.dangling = panel.dangling
  BY <1>1, <1>2, <1>3, WorkerSetsFacts
<1>5. /\ turn' \in Turn /\ turn'.phase = "begun" /\ turn'.before = turn.before
      /\ turn'.carries = turn.carries /\ turn'.of = turn.of /\ turn'.now = turn.now
      /\ turn'.session = id /\ turn'.answered = turn.answered
  BY <1>1, <1>2 DEF Turn
<1>6. ~turn.answered /\ Sid(turn.of) = resume /\ (resume # NoId => owner[resume] = turn.of)
  BY <1>1 DEF ConversationInv, TurnInv
<1>7. owner[id] = turn.of \/ owner[id] \notin Keys
  BY <1>1, <1>2, <1>6
<1>8. /\ Sid(turn.of)' = id /\ \A k \in Keys \ {turn.of} : Sid(k)' = Sid(k)
      /\ \A k \in Keys : k = turn.of => Sid(k)' = id
  <2>1. Sid(turn.of)' = panel'.memory[turn'.of].sid
    BY DEF Sid
  <2> QED
    BY <1>2, <1>3, <1>4, <1>5, <2>1 DEF Sid
<1>9. \A k \in Keys \ {turn.of} : Sid(k) # id
  <2>1. \A k \in Keys : Sid(k) # NoId => owner[Sid(k)] = k
    BY DEF ConversationInv, OwnedInv
  <2> QED
    BY <1>2, <1>7, <2>1
<1>10. /\ owner \in [Ids -> Keys \cup {NoId}] /\ store \in [Keys -> SUBSET Ids]
       /\ heard \in [Ids -> [Kinds -> OptVersion]] /\ key \in Keys
  BY <1>2 DEF RestTyped
<1>11. TypeOK'
  <2>1. Nothing \in [Kinds -> OptVersion] /\ (resume # NoId => resume \in Ids)
    BY <1>2, MemoryTypes DEF OptId
  <2>2. /\ owner' \in [Ids -> Keys \cup {NoId}] /\ store' \in [Keys -> SUBSET Ids]
        /\ heard' \in [Ids -> [Kinds -> OptVersion]]
    BY <1>1, <1>2, <1>10, <2>1
  <2>3. RestTyped'
    BY <1>1, <1>2, <2>2 DEF RestTyped
  <2>4. Busy'
    BY <1>5 DEF Busy
  <2> QED
    BY <1>4, <1>5, <2>3, <2>4, TypeParts
<1>12. /\ owner'[id] = turn.of /\ \A i \in Ids \ {id} : owner'[i] = owner[i]
       /\ \A k \in Keys \ {turn.of} : store'[k] = store[k]
       /\ store'[turn.of] = store[turn.of] \cup {id}
  BY <1>1, <1>2, <1>10
<1>13. OwnedInv'
  <2> SUFFICES ASSUME NEW k \in Keys
               PROVE  /\ \A i \in store'[k] : owner'[i] = k
                      /\ Sid(k)' # NoId => owner'[Sid(k)'] = k
                      /\ panel'.saved[k] # NoId => owner'[panel'.saved[k]] = k
    BY DEF OwnedInv
  <2>1. /\ \A i \in store[k] : owner[i] = k
        /\ Sid(k) # NoId => owner[Sid(k)] = k
        /\ panel.saved[k] # NoId => owner[panel.saved[k]] = k
    BY DEF ConversationInv, OwnedInv
  <2>2. \A i \in Ids : owner[i] = k => owner'[i] = k
    BY <1>7, <1>12
  <2>3. /\ store[k] \subseteq Ids /\ Sid(k) \in OptId /\ panel.saved[k] \in OptId
    BY <1>2, <1>10, FieldTypes
  <2>4. Sid(k)' # NoId => owner'[Sid(k)'] = k
    <3>1. CASE k = turn.of
      BY <1>8, <1>12, <3>1
    <3>2. CASE k # turn.of
      BY <1>8, <2>1, <2>2, <2>3, <3>2 DEF OptId
    <3> QED
      BY <3>1, <3>2
  <2>5. panel'.saved[k] # NoId => owner'[panel'.saved[k]] = k
    BY <1>4, <2>1, <2>2, <2>3 DEF OptId
  <2>6. \A i \in store'[k] : owner'[i] = k
    BY <1>12, <2>1, <2>2, <2>3
  <2> QED
    BY <2>4, <2>5, <2>6
<1>14. BindInv'
  BY <1>1, <1>4, <1>5 DEF ConversationInv, BindInv, Busy
<1>15. TurnInv'
  <2>1. resume # NoId => owner'[resume] = turn.of
    BY <1>2, <1>6, <1>12 DEF OptId
  <2> QED
    BY <1>2, <1>5, <1>6, <1>8, <1>12, <2>1 DEF TurnInv, Sid
<1>16. MindInv'
  <2>1. bound /\ turn.of = key
    BY <1>1 DEF ConversationInv, BindInv, Busy
  <2>2. \A k \in Keys :
          /\ k \in panel'.dangling => panel'.saved[k] = NoId /\ Sid(k)' # NoId
          /\ k # key /\ k \notin panel'.dangling => Sid(k)' \in {NoId, panel'.saved[k]}
    BY <1>2, <1>4, <1>8, <2>1 DEF ConversationInv, MindInv
  <2>3. panel'.saved[key] = panel'.active
    BY <1>4, <2>1 DEF ConversationInv, MindInv
  <2> QED
    BY <1>1, <1>2, <1>5, <1>8, <2>1, <2>2, <2>3 DEF MindInv
<1>17. RecordsUnanswered \/ ToldInv'
  <2> SUFFICES ASSUME ToldInv PROVE ToldInv'
    BY DEF ConversationInv
  <2>1. \A i \in Ids \ {id} : heard'[i] = heard[i]
    BY <1>1, <1>10
  <2>2. ASSUME NEW k \in Keys \ {turn.of} PROVE Says(Sid(k), panel.memory[k].told)'
    <3>1. Says(Sid(k), panel.memory[k].told)
      BY <1>1, <2>2 DEF ToldInv
    <3>2. Sid(k) \in OptId /\ Sid(k) # id /\ Sid(k)' = Sid(k) /\ panel'.memory[k] = panel.memory[k]
      BY <1>2, <1>4, <1>8, <1>9, <2>2, FieldTypes
    <3> QED
      BY <2>1, <3>1, <3>2 DEF Says, OptId
  <2>3. Says(Sid(turn.of), turn.before.told)'
    <3>1. Says(resume, turn.before.told)
      BY <1>1, <1>6 DEF ToldInv
    <3>2. resume # NoId => heard'[id] = heard[resume]
      BY <1>1, <1>10
    <3>3. Sid(turn.of)' = id
      BY <1>8
    <3> QED
      BY <1>2, <1>5, <3>1, <3>2, <3>3 DEF Says
  <2>4. panel'.memory[turn'.of].told =
          [l \in Kinds |-> IF l \in turn'.carries THEN turn'.now[l] ELSE turn'.before.told[l]]
    BY <1>1, <1>3, <1>4, <1>5 DEF ToldInv, Worker
  <2>5. \A l \in Kinds \ turn'.carries : turn'.now[l] # Empty => turn'.now[l] = turn'.before.told[l]
    BY <1>1, <1>5 DEF ToldInv
  <2> QED
    BY <1>5, <1>6, <2>2, <2>3, <2>4, <2>5 DEF ToldInv, ModelIsCurrent
<1> QED
  BY <1>11, <1>13, <1>14, <1>15, <1>16, <1>17 DEF ConversationInv

(* The history of the turn's session after the payload, and of the others. *)
LEMMA HearsFacts ==
  ASSUME TypeOK, turn.session # NoId
  PROVE  /\ Hears \in [Ids -> [Kinds -> OptVersion]]
         /\ \A i \in Ids \ {turn.session} : Hears[i] = heard[i]
         /\ \A l \in Kinds : Hears[turn.session][l] =
                               IF l \in turn.carries THEN turn.now[l] ELSE heard[turn.session][l]
<1>1. turn.session \in Ids /\ turn.now \in [Kinds -> OptVersion]
  BY FieldTypes DEF OptId
<1>2. heard \in [Ids -> [Kinds -> OptVersion]]
  BY TypeParts DEF RestTyped
<1>3. [l \in Kinds |-> IF l \in turn.carries THEN turn.now[l] ELSE heard[turn.session][l]]
        \in [Kinds -> OptVersion]
  BY <1>1, <1>2
<1> QED
  BY <1>1, <1>2, <1>3 DEF Hears

(* Once the payload is heard, what the memory took for told is said by the
   session's history, and so is what was loaded when the question was asked; no
   other backend's session changes. *)
LEMMA HearingMakesTrue ==
  ASSUME ConversationInv, ToldInv, turn.phase = "begun", turn.session # NoId, ~turn.answered,
         heard' = Hears, panel' = panel
  PROVE  /\ \A k \in Keys : Says(Sid(k), panel.memory[k].told)'
         /\ \A l \in Kinds : turn.now[l] # Empty => heard'[turn.session][l] = turn.now[l]
<1>1. TypeOK /\ turn.of \in Keys /\ Sid(turn.of) = turn.session
  BY FieldTypes DEF ConversationInv, TurnInv
<1>2. /\ \A i \in Ids \ {turn.session} : heard'[i] = heard[i]
      /\ \A l \in Kinds : heard'[turn.session][l] =
                            IF l \in turn.carries THEN turn.now[l] ELSE heard[turn.session][l]
  BY <1>1, HearsFacts
<1>3. Says(turn.session, turn.before.told)
  BY <1>1 DEF ToldInv
<1>4. /\ panel.memory[turn.of].told =
           [l \in Kinds |-> IF l \in turn.carries THEN turn.now[l] ELSE turn.before.told[l]]
      /\ \A l \in Kinds \ turn.carries : turn.now[l] # Empty => turn.now[l] = turn.before.told[l]
  BY DEF ToldInv
<1>5. \A l \in Kinds : turn.now[l] # Empty => heard'[turn.session][l] = turn.now[l]
  BY <1>2, <1>3, <1>4 DEF Says
<1>6. ASSUME NEW k \in Keys PROVE Says(Sid(k), panel.memory[k].told)'
  <2>1. Sid(k)' = Sid(k) /\ Sid(k) \in OptId
    BY <1>1, FieldTypes DEF Sid
  <2>2. CASE k = turn.of
    <3>1. \A l \in Kinds : panel.memory[k].told[l] # Empty =>
                             heard'[turn.session][l] = panel.memory[k].told[l]
      BY <1>2, <1>3, <1>4, <2>2 DEF Says
    <3> QED
      BY <1>1, <2>1, <2>2, <3>1 DEF Says
  <2>3. CASE k # turn.of
    <3>1. Says(Sid(k), panel.memory[k].told)
      BY <2>3 DEF ToldInv
    <3>2. Sid(k) # turn.session
      BY <1>1, <2>3 DEF ConversationInv, OwnedInv, TurnInv
    <3> QED
      BY <1>2, <2>1, <3>1, <3>2 DEF Says, OptId
  <2> QED
    BY <2>2, <2>3
<1> QED
  BY <1>5, <1>6

(* The model answers. *)
LEMMA ModelAnswersPreserves ==
  ASSUME ConversationInv, ModelAnswers
  PROVE  ConversationInv'
<1>1. /\ turn.phase = "begun" /\ turn.session # NoId /\ ~turn.answered
      /\ turn' = [turn EXCEPT !.answered = TRUE] /\ heard' = Hears
      /\ UNCHANGED <<panel, key, choice, pending, bound, current, store, owner>>
  BY DEF ModelAnswers
<1>2. TypeOK /\ turn \in Turn /\ RestTyped /\ panel \in Panel
  BY TypeParts DEF ConversationInv
<1>3. /\ turn' \in Turn /\ turn'.phase = "begun" /\ turn'.before = turn.before
      /\ turn'.carries = turn.carries /\ turn'.of = turn.of /\ turn'.now = turn.now
      /\ turn'.session = turn.session /\ turn'.answered = TRUE
  BY <1>1, <1>2 DEF Turn
<1>4. TypeOK'
  <2>1. RestTyped'
    BY <1>1, <1>2, HearsFacts DEF RestTyped
  <2> QED
    BY <1>1, <1>2, <1>3, <2>1, TypeParts DEF Busy
<1>5. OwnedInv'
  BY <1>1, Frames DEF ConversationInv
<1>6. BindInv'
  BY <1>1, <1>3 DEF ConversationInv, BindInv, Busy
<1>7. TurnInv'
  BY <1>1, <1>3 DEF ConversationInv, TurnInv, Sid
<1>8. MindInv'
  BY <1>1, <1>3 DEF ConversationInv, MindInv, Sid
<1>9. RecordsUnanswered \/ ToldInv'
  <2> SUFFICES ASSUME ToldInv PROVE ToldInv'
    BY DEF ConversationInv
  <2>1. /\ \A k \in Keys : Says(Sid(k), panel.memory[k].told)'
        /\ \A l \in Kinds : turn.now[l] # Empty => heard'[turn.session][l] = turn.now[l]
    BY <1>1, HearingMakesTrue
  <2>2. turn.of \in Keys
    BY <1>2, FieldTypes
  <2>3. Says(Sid(turn.of), panel.memory[turn.of].told)'
    BY <1>3, <2>1, <2>2
  <2>4. /\ panel'.memory[turn'.of].told =
             [l \in Kinds |-> IF l \in turn'.carries THEN turn'.now[l] ELSE turn'.before.told[l]]
        /\ \A l \in Kinds \ turn'.carries : turn'.now[l] # Empty => turn'.now[l] = turn'.before.told[l]
    BY <1>1, <1>3 DEF ToldInv
  <2>5. ModelIsCurrent'
    BY <1>3, <2>1 DEF ModelIsCurrent
  <2> QED
    BY <1>3, <2>1, <2>3, <2>4, <2>5 DEF ToldInv
<1> QED
  BY <1>4, <1>5, <1>6, <1>7, <1>8, <1>9 DEF ConversationInv


(* The turn ends: where it failed unanswered, what it was going to tell counts as
   untold again. *)
LEMMA TurnEndsPreserves ==
  ASSUME ConversationInv, NEW failed \in BOOLEAN, TurnEnds(failed)
  PROVE  ConversationInv'
<1> DEFINE m == [Worker EXCEPT !.told = turn.before.told, !.resumed = turn.before.resumed]
<1>1. /\ turn.phase = "begun" /\ turn' = [turn EXCEPT !.phase = "ended"] /\ finish(failed)
      /\ failed \/ turn.session # NoId
      /\ UNCHANGED <<key, choice, pending, bound, current, store, owner>>
  BY DEF TurnEnds
<1>2. heard' \in IF turn.session = NoId \/ turn.answered THEN {heard}
                 ELSE IF ~failed THEN {Hears}
                 ELSE IF RecordsUnanswered THEN {heard, Hears} ELSE {heard}
  BY DEF TurnEnds
<1>3. /\ TypeOK /\ turn \in Turn /\ RestTyped /\ panel \in Panel /\ turn.of \in Keys
      /\ Worker \in HarnessMemory /\ turn.before \in HarnessMemory
  BY TypeParts, FieldTypes DEF ConversationInv, Worker
<1>4. /\ turn' \in Turn /\ turn'.phase = "ended" /\ turn'.of = turn.of /\ turn'.now = turn.now
      /\ turn'.session = turn.session /\ turn'.answered = turn.answered
  BY <1>1, <1>3 DEF Turn
<1>5. heard' = heard \/ (turn.session # NoId /\ heard' = Hears)
  BY <1>2
<1>6. heard' \in [Ids -> [Kinds -> OptVersion]]
  BY <1>3, <1>5, HearsFacts DEF RestTyped
<1>7. m \in HarnessMemory /\ m.sid = Worker.sid /\ m.told = turn.before.told
  BY <1>3 DEF HarnessMemory
<1>8. \/ failed /\ ~turn.answered /\ WorkerSets(m)
      \/ ~(failed /\ ~turn.answered) /\ panel' = panel
  BY <1>1 DEF finish
<1> HIDE DEF m
<1>9. /\ panel' \in Panel /\ panel'.saved = panel.saved /\ panel'.active = panel.active
      /\ panel'.drawer = panel.drawer /\ panel'.renaming = panel.renaming
      /\ panel'.dangling = panel.dangling
      /\ \A k \in Keys : Sid(k)' = Sid(k)
      /\ \A k \in Keys \ {turn.of} : panel'.memory[k] = panel.memory[k]
      /\ failed /\ ~turn.answered => panel'.memory[turn.of] = m
  <2>1. CASE WorkerSets(m)
    <3>1. /\ panel' \in Panel /\ panel'.memory[turn.of] = m
          /\ \A k \in Keys \ {turn.of} : panel'.memory[k] = panel.memory[k]
          /\ panel'.saved = panel.saved /\ panel'.active = panel.active
          /\ panel'.drawer = panel.drawer /\ panel'.renaming = panel.renaming
          /\ panel'.dangling = panel.dangling
      BY <1>3, <1>7, <2>1, WorkerSetsFacts
    <3>2. \A k \in Keys : Sid(k)' = Sid(k)
      BY <1>3, <1>7, <3>1 DEF Sid, Worker
    <3> QED
      BY <3>1, <3>2
  <2>2. CASE ~(failed /\ ~turn.answered) /\ panel' = panel
    BY <1>3, <2>2 DEF Sid
  <2> QED
    BY <1>8, <2>1, <2>2
<1>10. TypeOK'
  <2>1. RestTyped'
    BY <1>1, <1>3, <1>6 DEF RestTyped
  <2> QED
    BY <1>1, <1>4, <1>9, <2>1, TypeParts DEF Busy
<1>11. OwnedInv'
  BY <1>1, <1>9 DEF ConversationInv, OwnedInv
<1>12. BindInv'
  BY <1>1, <1>4, <1>9 DEF ConversationInv, BindInv, Busy
<1>13. TurnInv'
  BY <1>1, <1>4 DEF ConversationInv, TurnInv
<1>14. MindInv'
  <2>1. key \in Keys
    BY <1>3 DEF RestTyped
  <2> QED
    BY <1>1, <1>4, <1>9, <2>1 DEF ConversationInv, MindInv
<1>15. RecordsUnanswered \/ ToldInv'
  <2> SUFFICES ASSUME ToldInv, ~RecordsUnanswered PROVE ToldInv'
    BY DEF ConversationInv
  <2>1. CASE ~failed /\ ~turn.answered
    <3>1. turn.session # NoId /\ heard' = Hears /\ panel' = panel
      BY <1>1, <1>2, <1>8, <2>1
    <3>2. \A k \in Keys : Says(Sid(k), panel.memory[k].told)'
      BY <1>1, <2>1, <3>1, HearingMakesTrue
    <3> QED
      BY <1>4, <2>1, <3>2 DEF ToldInv, ModelIsCurrent
  <2>2. CASE failed \/ turn.answered
    <3>1. heard' = heard
      BY <1>2, <2>2
    <3>2. ASSUME NEW k \in Keys PROVE Says(Sid(k), panel.memory[k].told)'
      <4>1. CASE k # turn.of
        <5>1. Says(Sid(k), panel.memory[k].told)
          BY <4>1 DEF ToldInv
        <5> QED
          BY <1>9, <3>1, <4>1, <5>1 DEF Says
      <4>2. CASE k = turn.of /\ turn.answered
        <5>1. Says(Sid(k), panel.memory[k].told)
          BY <1>1, <4>2 DEF ToldInv
        <5>2. panel' = panel
          BY <1>8, <4>2
        <5> QED
          BY <1>9, <3>1, <5>1, <5>2 DEF Says
      <4>3. CASE k = turn.of /\ ~turn.answered
        <5>1. Says(Sid(k), turn.before.told)
          BY <1>1, <4>3 DEF ToldInv
        <5>2. panel'.memory[k].told = turn.before.told
          BY <1>7, <1>9, <2>2, <4>3
        <5> QED
          BY <1>9, <3>1, <5>1, <5>2 DEF Says
      <4> QED
        BY <4>1, <4>2, <4>3
    <3>3. ModelIsCurrent'
      BY <1>4, <3>1 DEF ToldInv, ModelIsCurrent
    <3> QED
      BY <1>4, <3>2, <3>3 DEF ToldInv
  <2> QED
    BY <2>1, <2>2
<1> QED
  BY <1>10, <1>11, <1>12, <1>13, <1>14, <1>15 DEF ConversationInv

(* The turn is applied on the GUI thread, and then the swap that had to wait. *)
LEMMA TurnCompletePreserves ==
  ASSUME ConversationInv, TurnComplete
  PROVE  ConversationInv'
<1>1. /\ turn.phase = "ended" /\ turn' = NoTurn
      /\ UNCHANGED <<choice, bound, current, store, owner, heard>>
  BY DEF TurnComplete
<1>2. PICK live \in Listed(store[key]) : DeferredRebuild(Refreshed(Persisted(panel), key, live))
  BY DEF TurnComplete
<1> DEFINE p == Refreshed(Persisted(panel), key, live)
<1>3. /\ TypeOK /\ RestTyped /\ panel \in Panel /\ bound
      /\ bound /\ ~pending => key = choice
  BY <1>1, TypeParts DEF ConversationInv, BindInv, Busy
<1>4. /\ store \in [Keys -> SUBSET Ids] /\ key \in Keys /\ choice \in Keys /\ live \in SUBSET Ids
      /\ bound \in BOOLEAN
  BY <1>3, ListedType DEF RestTyped
<1>5. /\ Persisted(panel) \in Panel /\ Persisted(panel).memory = panel.memory
      /\ \/ /\ Sid(key) \in {NoId, panel.active}
            /\ Persisted(panel) = panel
         \/ /\ Sid(key) \notin {NoId, panel.active}
            /\ Persisted(panel).active = Sid(key)
            /\ Persisted(panel).saved = [panel.saved EXCEPT ![key] = Sid(key)]
            /\ Persisted(panel).dangling = panel.dangling \ {key}
  BY <1>3, <1>4, PersistedFacts DEF Sid
<1>6. /\ p \in Panel /\ p.memory = panel.memory /\ p.saved = Persisted(panel).saved
      /\ p.active = Persisted(panel).active /\ p.dangling = Persisted(panel).dangling
  <2> DEFINE r == Persisted(panel)
  <2>1. r \in Panel /\ r.memory = panel.memory
    BY <1>5
  <2> HIDE DEF r
  <2>2. /\ Refreshed(r, key, live) \in Panel /\ Refreshed(r, key, live).memory = r.memory
        /\ Refreshed(r, key, live).saved = r.saved
        /\ Refreshed(r, key, live).active = r.active
        /\ Refreshed(r, key, live).dangling = r.dangling
    BY <1>4, <2>1, RefreshedFacts
  <2> QED
    BY <2>1, <2>2 DEF r
<1>7. DeferredRebuild(p)
  BY <1>2
<1> HIDE DEF p
<1>8. panel.saved \in [Keys -> OptId]
  BY <1>3 DEF Panel
<1>9. \A j \in Keys : p.saved[j] \in {panel.saved[j], Sid(j)}
  BY <1>4, <1>5, <1>6, <1>8
<1>10. /\ \A j \in Keys :
            /\ j \in p.dangling => p.saved[j] = NoId /\ p.memory[j].sid # NoId
            /\ j \notin p.dangling => p.memory[j].sid \in {NoId, p.saved[j]}
       /\ p.saved[key] = p.active /\ p.memory[key].sid = p.active
  <2>1. /\ panel.saved[key] = panel.active
        /\ \/ Sid(key) = panel.active \/ key \in panel.dangling
           \/ turn.session # NoId /\ Sid(key) = turn.session
        /\ key \in panel.dangling => panel.saved[key] = NoId /\ Sid(key) # NoId
    BY <1>3, <1>4 DEF ConversationInv, MindInv
  <2>2. p.saved[key] = p.active /\ Sid(key) = p.active /\ key \notin p.dangling
    BY <1>4, <1>5, <1>6, <1>8, <2>1
  <2>3. \A j \in Keys \ {key} :
          p.saved[j] = panel.saved[j] /\ (j \in p.dangling <=> j \in panel.dangling)
    BY <1>4, <1>5, <1>6, <1>8
  <2>4. \A j \in Keys : p.memory[j].sid = Sid(j)
    BY <1>6 DEF Sid
  <2>5. \A j \in Keys \ {key} :
          /\ j \in panel.dangling => panel.saved[j] = NoId /\ Sid(j) # NoId
          /\ j \notin panel.dangling => Sid(j) \in {NoId, panel.saved[j]}
    BY DEF ConversationInv, MindInv
  <2> QED
    BY <1>4, <2>2, <2>3, <2>4, <2>5
<1>12. pending' = FALSE
  BY <1>7 DEF DeferredRebuild
<1>13. CASE pending /\ choice # key
  <2>1. panel' \in Activated(p, choice)
    BY <1>7, <1>13 DEF DeferredRebuild
  <2>2. key' = choice
    BY <1>7, <1>13 DEF DeferredRebuild
  <2>3. \A j \in Keys :
          /\ panel' \in Panel
          /\ panel'.memory[j] = p.memory[j] \/ \E id \in store[j] : panel'.memory[j] = Resume(id)
          /\ panel'.saved[j] \in {NoId, p.saved[j]}
    BY <1>4, <1>6, <2>1, ActivatedIsTame
  <2>4. MindInv'
    BY <1>1, <1>3, <1>4, <1>6, <1>10, <2>1, <2>2, ActivatedKeepsMind
  <2>5. \A j \in Keys :
          /\ panel'.memory[j] \in {Blank, panel.memory[j]} \/ \E id \in store[j] : panel'.memory[j] = Resume(id)
          /\ panel'.saved[j] \in {NoId, panel.saved[j], Sid(j)} \cup store[j]
    BY <1>6, <1>9, <2>3
  <2> QED
    BY <1>1, <1>3, <1>4, <1>12, <2>2, <2>3, <2>4, <2>5, BetweenTurns
<1>14. CASE ~pending \/ choice = key
  <2>1. panel' = p /\ key' = key /\ choice = key
    BY <1>3, <1>7, <1>14 DEF DeferredRebuild
  <2>2. MindInv'
    <3>1. \A j \in Keys : Sid(j)' = p.memory[j].sid
      BY <2>1 DEF Sid
    <3> QED
      BY <1>1, <1>4, <1>10, <2>1, <3>1 DEF MindInv
  <2>3. \A j \in Keys :
          /\ panel'.memory[j] \in {Blank, panel.memory[j]}
          /\ panel'.saved[j] \in {NoId, panel.saved[j], Sid(j)} \cup store[j]
    BY <1>6, <1>9, <2>1
  <2> QED
    BY <1>1, <1>3, <1>4, <1>6, <1>12, <2>1, <2>2, <2>3, BetweenTurns
<1> QED
  BY <1>13, <1>14

(* The host's files and plugins change; a turn in flight keeps what it was asked with. *)
LEMMA HostChangesPreserves ==
  ASSUME ConversationInv, NEW l \in Kinds, NEW v \in OptVersion, HostChanges(l, v)
  PROVE  ConversationInv'
<1>1. /\ current' = [current EXCEPT ![l] = v]
      /\ UNCHANGED <<panel, key, choice, pending, bound, turn, store, owner, heard>>
  BY DEF HostChanges
<1>2. TypeOK'
  BY <1>1, TypeParts DEF ConversationInv, RestTyped, Busy
<1>3. BindInv'
  BY <1>1 DEF ConversationInv, BindInv, Busy
<1> QED
  BY <1>1, <1>2, <1>3, Frames DEF ConversationInv

(* A harness purges a session, one that a memory points to or another. *)
LEMMA PurgePreserves ==
  ASSUME ConversationInv, NEW k \in Keys, NEW id \in Ids, Purge(k, id)
  PROVE  ConversationInv'
<1>1. /\ store' = [store EXCEPT ![k] = @ \ {id}]
      /\ UNCHANGED <<panel, key, choice, pending, bound, turn, current, owner, heard>>
  BY DEF Purge
<1>2. RestTyped /\ store \in [Keys -> SUBSET Ids]
  BY TypeParts DEF ConversationInv, RestTyped
<1>3. /\ store' \in [Keys -> SUBSET Ids] /\ store'[k] = store[k] \ {id}
      /\ \A j \in Keys \ {k} : store'[j] = store[j]
  BY <1>1, <1>2
<1>4. \A j \in Keys : Sid(j)' = Sid(j)
  BY <1>1 DEF Sid
<1>5. TypeOK'
  BY <1>1, <1>3, TypeParts DEF ConversationInv, RestTyped, Busy
<1>6. OwnedInv'
  BY <1>1, <1>3, <1>4 DEF ConversationInv, OwnedInv
<1>7. BindInv'
  BY <1>1 DEF ConversationInv, BindInv, Busy
<1>8. MindInv'
  BY <1>1, Frames DEF ConversationInv
<1> QED
  BY <1>1, <1>5, <1>6, <1>7, <1>8, Frames DEF ConversationInv

(* The panel before its first settings: what an earlier run has persisted is all
   it has. *)
LEMMA InitEstablishes ==
  ASSUME Init
  PROVE  ConversationInv
<1>1. PICK s \in [Keys -> OptId] :
        /\ \A k \in Keys : s[k] \in store[k] \cup {NoId}
        /\ panel = [memory |-> [k \in Keys |-> Blank], saved |-> s, active |-> NoId,
                    drawer |-> {}, titles |-> [k \in Keys |-> store[k] \cap Nameable],
                    names |-> {}, renaming |-> NoId,
                    dangling |-> {}, listed |-> [k \in Keys |-> {}]]
  BY DEF Init
<1>2. /\ owner \in [Ids -> Keys \cup {NoId}]
      /\ store = [k \in Keys |-> {i \in Ids : owner[i] = k}]
      /\ key = DefaultKey /\ choice \in Keys
      /\ pending = FALSE /\ bound = FALSE /\ turn = NoTurn /\ current = Nothing
      /\ heard = [i \in Ids |-> Nothing]
  BY DEF Init
<1>3. /\ turn \in Turn /\ turn.phase = "none" /\ turn.session = NoId /\ turn.answered = FALSE
  BY <1>2, NoTurnFacts
<1>4. store \in [Keys -> SUBSET Ids] /\ \A k \in Keys : \A i \in store[k] : owner[i] = k
  BY <1>2
<1>5. /\ panel \in Panel /\ panel.memory = [k \in Keys |-> Blank] /\ panel.saved = s
      /\ panel.active = NoId /\ panel.renaming = NoId /\ panel.drawer = {}
      /\ panel.dangling = {}
  BY <1>1, <1>4, MemoryTypes DEF Panel, OptId
<1>6. \A k \in Keys : Sid(k) = NoId /\ panel.memory[k] = Blank /\ panel.memory[k].told = Nothing
  BY <1>5, MemoryTypes DEF Sid
<1>7. TypeOK
  <2>1. RestTyped
    BY <1>2, <1>4, ConversationsAssumption, MemoryTypes DEF RestTyped
  <2> QED
    BY <1>2, <1>3, <1>5, <2>1, TypeParts
<1>8. OwnedInv
  BY <1>1, <1>4, <1>5, <1>6 DEF OwnedInv
<1>9. BindInv
  BY <1>2, <1>3, <1>5, <1>6 DEF BindInv, Busy
<1>10. TurnInv
  BY <1>2, <1>3 DEF TurnInv
<1>11. MindInv
  BY <1>2, <1>5, <1>6 DEF MindInv
<1>12. ToldInv
  BY <1>3, <1>6 DEF ToldInv, Says, ModelIsCurrent, Nothing
<1> QED
  BY <1>7, <1>8, <1>9, <1>10, <1>11, <1>12 DEF ConversationInv

(* A step of the panel, the worker or the world keeps the invariant. *)
LEMMA NextPreserves ==
  ASSUME ConversationInv, [Next]_vars
  PROVE  ConversationInv'
<1>1. CASE setSettings
  BY <1>1, setSettingsPreserves
<1>2. CASE startNewConversation
  BY <1>2, startNewConversationPreserves
<1>3. CASE commitRename
  BY <1>3, commitRenamePreserves
<1>4. CASE sendCurrentInput
  BY <1>4, sendCurrentInputPreserves
<1>5. CASE \E k \in Keys : commitSettings(k)
  BY <1>5, commitSettingsPreserves
<1>6. CASE \E id \in Ids : onSelectionChanged(id)
  BY <1>6, onSelectionChangedPreserves
<1>7. CASE \E id \in Ids : onItemDeleteRequested(id)
  BY <1>7, onItemDeleteRequestedPreserves
<1>8. CASE \E id \in Ids : onItemContextAction(id)
  BY <1>8, onItemContextActionPreserves
<1>9. CASE \E id \in Ids : SessionNamed(id)
  BY <1>9, SessionNamedPreserves
<1>10. CASE LaunchFails
  BY <1>10, LaunchFailsPreserves
<1>11. CASE composePayload
  BY <1>11, composePayloadPreserves
<1>12. CASE ModelAnswers
  BY <1>12, ModelAnswersPreserves
<1>13. CASE TurnComplete
  BY <1>13, TurnCompletePreserves
<1>14. CASE \E failed \in BOOLEAN : TurnEnds(failed)
  BY <1>14, TurnEndsPreserves
<1>15. CASE \E l \in Kinds, v \in OptVersion : HostChanges(l, v)
  BY <1>15, HostChangesPreserves
<1>16. CASE \E k \in Keys, id \in Ids : Purge(k, id)
  BY <1>16, PurgePreserves
<1>17. CASE UNCHANGED vars
  <2>1. UNCHANGED <<panel, key, choice, pending, bound, turn, current, store, owner, heard>>
    BY <1>17 DEF vars
  <2>2. TypeOK'
    BY <2>1, TypeParts DEF ConversationInv, RestTyped, Busy
  <2>3. BindInv'
    BY <2>1 DEF ConversationInv, BindInv, Busy
  <2> QED
    BY <2>1, <2>2, <2>3, Frames DEF ConversationInv
<1> QED
  BY <1>1, <1>2, <1>3, <1>4, <1>5, <1>6, <1>7, <1>8, <1>9, <1>10, <1>11, <1>12, <1>13,
     <1>14, <1>15, <1>16, <1>17 DEF Next

(* The invariant of the conversations: every id is with the backend that gave it
   out, the swap never overtakes a turn, and the panel is of one mind but for a
   session that could not be read; unless a history may hold a turn that was never
   answered, a memory takes for told only what its session's history says. *)
THEOREM ConversationInvariant == Spec => []ConversationInv
BY InitEstablishes, NextPreserves, PTL DEF Spec

(* A panel at rest would resume the session it shows, a reopened one would restore
   it, and the live backend is the chosen one, whatever was swapped, deleted, named,
   purged, unreadable or left unanswered before (assistant_dialog.cpp); the one
   exception shows nothing, after an activation that could not read the session it
   remembers. *)
THEOREM ResumeTargetHolds == Spec => []ResumeTarget
<1>1. ConversationInv => ResumeTarget
  <2> SUFFICES ASSUME ConversationInv, bound, ~Busy
               PROVE  /\ key = choice /\ panel.saved[key] = panel.active
                      /\ \/ Sid(key) = panel.active
                         \/ key \in panel.dangling /\ panel.active = NoId
    BY DEF ResumeTarget, Sid
  <2>1. key \in Keys
    BY RestFacts DEF RestTyped
  <2> QED
    BY <2>1, RestFacts DEF MindInv
<1> QED
  BY <1>1, ConversationInvariant, PTL

(* No backend ever resumes or restores another backend's session, in the middle of
   a turn and of a waiting swap too, and whatever is purged or cannot be read
   (harness_memory.hpp). *)
THEOREM NoCrossTalkHolds == Spec => []NoCrossTalk
<1>1. ConversationInv => NoCrossTalk
  <2> SUFFICES ASSUME ConversationInv, NEW k \in Keys
               PROVE  /\ \A id \in {Sid(k), panel.saved[k]} \ {NoId} : owner[id] = k
                      /\ k # key => IF k \in panel.dangling THEN panel.saved[k] = NoId
                                    ELSE Sid(k) \in {NoId, panel.saved[k]}
    BY DEF NoCrossTalk, ConversationInv, Sid
  <2> QED
    BY DEF ConversationInv, OwnedInv, MindInv
<1> QED
  BY <1>1, ConversationInvariant, PTL

(* The model never answers from a listing that is out of date: what was loaded when
   the question was asked is in the history it sees, although a payload leaves out
   what the memory takes for told (ListingsTurn, assistant_dialog.cpp) -- where a
   harness writes no unanswered turn to the history. *)
THEOREM ModelIsCurrentHolds ==
  ASSUME ~RecordsUnanswered
  PROVE  Spec => []ModelIsCurrent
<1>1. ConversationInv => ModelIsCurrent
  BY DEF ConversationInv, ToldInv
<1> QED
  BY <1>1, ConversationInvariant, PTL

(* What a step may do to the names of one backend's conversations. *)
Keeps(k) ==
  \A id \in panel.titles[k] \ panel'.titles[k] :
    panel.renaming = id \/ id \notin panel'.listed[k]

(* A panel whose names are those of the panel before, or pruned by the listing
   that goes with them. *)
PrunedWell(p, k) ==
  p.titles[k] = panel.titles[k] \/ p.titles[k] = panel.titles[k] \cap p.listed[k]

(* Activating a backend prunes the names of its conversations only. *)
LEMMA ActivatingKeeps ==
  ASSUME store \in [Keys -> SUBSET Ids], NEW p \in Panel, NEW c \in Keys,
         panel' \in Activated(p, c), NEW k \in Keys, PrunedWell(p, k),
         p.titles[c] = panel.titles[c]
  PROVE  Keeps(k)
<1>1. /\ panel'.titles[c] = p.titles[c] \cap panel'.listed[c]
      /\ \A j \in Keys \ {c} : panel'.titles[j] = p.titles[j] /\ panel'.listed[j] = p.listed[j]
  BY ActivatedFacts
<1>2. CASE k = c
  BY <1>1, <1>2 DEF Keeps
<1>3. CASE k # c
  BY <1>1, <1>3 DEF Keeps, PrunedWell
<1> QED
  BY <1>2, <1>3

(* The step of the swap, of the deletion and of the completed turn are the ones
   that list the drawer anew. *)
LEMMA NextKeeps ==
  ASSUME ConversationInv, Next, NEW k \in Keys
  PROVE  Keeps(k)
<1>1. TypeOK /\ panel \in Panel /\ RestTyped
  BY TypeParts DEF ConversationInv
<1>2. /\ store \in [Keys -> SUBSET Ids] /\ key \in Keys /\ choice \in Keys
      /\ panel.titles \in [Keys -> SUBSET Ids]
  BY <1>1 DEF RestTyped, Panel
<1>3. CASE panel'.titles = panel.titles
  BY <1>3 DEF Keeps
<1>4. CASE setSettings
  <2>1. panel' = panel \/ panel' \in Activated(panel, choice)
    BY <1>4 DEF setSettings
  <2>2. CASE panel' = panel
    BY <1>3, <2>2
  <2>3. CASE panel' \in Activated(panel, choice)
    BY <1>1, <1>2, <2>3, ActivatingKeeps DEF PrunedWell
  <2> QED
    BY <2>1, <2>2, <2>3
<1>5. CASE \E c \in Keys : commitSettings(c)
  <2>1. PICK c \in Keys : commitSettings(c)
    BY <1>5
  <2>2. panel' = panel \/ panel' \in Activated(panel, c)
    BY <2>1 DEF commitSettings, Rebuild
  <2>3. CASE panel' = panel
    BY <1>3, <2>3
  <2>4. CASE panel' \in Activated(panel, c)
    BY <1>1, <1>2, <2>4, ActivatingKeeps DEF PrunedWell
  <2> QED
    BY <2>2, <2>3, <2>4
<1>6. CASE startNewConversation
  BY <1>1, <1>2, <1>3, <1>6, ClearedFacts DEF startNewConversation
<1>7. CASE \E id \in Ids : onSelectionChanged(id)
  <2>1. PICK id \in Ids : panel' = Switched(panel, key, id)
    BY <1>7 DEF onSelectionChanged
  <2>2. id \in OptId
    BY DEF OptId
  <2> QED
    BY <1>1, <1>2, <1>3, <2>1, <2>2, SwitchedKeeps
<1>8. CASE \E id \in Ids : onItemDeleteRequested(id)
  <2>1. PICK id \in Ids : onItemDeleteRequested(id)
    BY <1>8
  <2>2. PICK live \in Listed(store'[key]) :
          panel' = IF id = panel.active THEN Cleared(Refreshed(panel, key, live), key)
                   ELSE Refreshed(panel, key, live)
    BY <2>1 DEF onItemDeleteRequested
  <2>3. store' \in [Keys -> SUBSET Ids]
    BY <1>2, <2>1 DEF onItemDeleteRequested, AfterDelete
  <2>4. live \in SUBSET Ids
    BY <1>2, <2>3, ListedType
  <2> DEFINE p == Refreshed(panel, key, live)
  <2>5. /\ p \in Panel /\ p.titles = [panel.titles EXCEPT ![key] = @ \cap live]
        /\ p.listed = [panel.listed EXCEPT ![key] = live]
    BY <1>1, <1>2, <2>4, RefreshedFacts
  <2>6. panel' = IF id = panel.active THEN Cleared(p, key) ELSE p
    BY <2>2
  <2> HIDE DEF p
  <2>7. panel'.titles = p.titles /\ panel'.listed = p.listed
    BY <1>2, <2>5, <2>6, ClearedFacts
  <2>8. panel.listed \in [Keys -> SUBSET Ids]
    BY <1>1 DEF Panel
  <2>9. IF k = key THEN panel'.titles[k] = panel.titles[k] \cap panel'.listed[k]
        ELSE panel'.titles[k] = panel.titles[k]
    BY <1>2, <2>5, <2>7, <2>8
  <2> QED
    BY <2>9 DEF Keeps
<1>9. CASE \E id \in Ids : onItemContextAction(id)
  <2>1. PICK id \in Ids : panel' = [panel EXCEPT !.renaming = id]
    BY <1>9 DEF onItemContextAction
  <2> QED
    BY <1>1, <1>3, <2>1 DEF Panel
<1>10. CASE commitRename
  <2>1. PICK t \in Retitled(panel.titles[key], panel.renaming) :
          panel' = [panel EXCEPT !.renaming = NoId, !.titles[key] = t, !.names = t]
    BY <1>10 DEF commitRename
  <2>2. panel'.titles = [panel.titles EXCEPT ![key] = t]
    BY <1>1, <2>1 DEF Panel
  <2>3. \A id \in panel.titles[k] \ panel'.titles[k] : panel.renaming = id
    BY <1>2, <2>1, <2>2 DEF Retitled
  <2> QED
    BY <2>3 DEF Keeps
<1>11. CASE \E m \in HarnessMemory : WorkerSets(m)
  BY <1>1, <1>3, <1>11, WorkerSetsFacts
<1>12. turn \in Turn /\ turn.of \in Keys /\ Worker \in HarnessMemory /\ turn.before \in HarnessMemory
  BY <1>1, FieldTypes, TypeParts DEF Worker
<1>13. CASE composePayload
  <2> DEFINE out == {l \in Kinds : Carries(l)}
             told == [l \in Kinds |-> IF l \in out THEN turn.now[l] ELSE Worker.told[l]]
             m == [Worker EXCEPT !.told = told, !.resumed = @ /\ out = {}]
  <2>1. WorkerSets(m)
    BY <1>13 DEF composePayload
  <2>2. told \in [Kinds -> OptVersion]
    BY <1>12 DEF Turn, HarnessMemory
  <2>3. m \in HarnessMemory
    <3>1. (Worker.resumed /\ out = {}) \in BOOLEAN
      OBVIOUS
    <3> HIDE DEF told, out
    <3> QED
      BY <1>12, <2>2, <3>1 DEF HarnessMemory
  <2> HIDE DEF m
  <2> QED
    BY <1>11, <2>1, <2>3
<1>14. CASE \E id \in Ids : SessionNamed(id)
  <2>1. PICK id \in Ids : WorkerSets([Worker EXCEPT !.sid = id])
    BY <1>14 DEF SessionNamed
  <2>2. [Worker EXCEPT !.sid = id] \in HarnessMemory
    BY <1>12 DEF HarnessMemory, OptId
  <2> QED
    BY <1>11, <2>1, <2>2
<1>15. CASE \E failed \in BOOLEAN : TurnEnds(failed)
  <2> DEFINE m == [Worker EXCEPT !.told = turn.before.told, !.resumed = turn.before.resumed]
  <2>1. WorkerSets(m) \/ panel' = panel
    BY <1>15 DEF TurnEnds, finish
  <2>2. m \in HarnessMemory
    BY <1>12 DEF HarnessMemory
  <2> HIDE DEF m
  <2> QED
    BY <1>3, <1>11, <2>1, <2>2
<1>16. CASE TurnComplete
  <2>1. PICK live \in Listed(store[key]) : DeferredRebuild(Refreshed(Persisted(panel), key, live))
    BY <1>16 DEF TurnComplete
  <2>2. UNCHANGED store
    BY <1>16 DEF TurnComplete
  <2> DEFINE p == Refreshed(Persisted(panel), key, live)
  <2>3. /\ live \in SUBSET Ids /\ Persisted(panel) \in Panel
        /\ Persisted(panel).titles = panel.titles /\ Persisted(panel).listed = panel.listed
    BY <1>1, <1>2, ListedType, PersistedFacts
  <2>4. /\ p \in Panel /\ p.titles = [panel.titles EXCEPT ![key] = @ \cap live]
        /\ p.listed = [panel.listed EXCEPT ![key] = live]
    BY <1>2, <2>3, RefreshedFacts
  <2>5. DeferredRebuild(p)
    BY <2>1
  <2> HIDE DEF p
  <2>6. panel.listed \in [Keys -> SUBSET Ids]
    BY <1>1 DEF Panel
  <2>7. /\ p.titles[key] = panel.titles[key] \cap p.listed[key]
        /\ \A j \in Keys \ {key} : p.titles[j] = panel.titles[j]
    BY <1>2, <2>4, <2>6
  <2>8. PrunedWell(p, k)
    BY <2>7 DEF PrunedWell
  <2>9. CASE panel' = p
    BY <2>8, <2>9 DEF Keeps, PrunedWell
  <2>10. CASE choice # key /\ panel' \in Activated(p, choice)
    <3>1. p.titles[choice] = panel.titles[choice]
      BY <1>2, <2>7, <2>10
    <3> QED
      BY <1>2, <2>4, <2>8, <2>10, <3>1, ActivatingKeeps
  <2> QED
    BY <2>5, <2>9, <2>10 DEF DeferredRebuild
<1>17. CASE sendCurrentInput \/ LaunchFails \/ ModelAnswers
  BY <1>3, <1>17 DEF sendCurrentInput, LaunchFails, ModelAnswers
<1>18. CASE \E l \in Kinds, v \in OptVersion : HostChanges(l, v)
  BY <1>3, <1>18 DEF HostChanges
<1>19. CASE \E j \in Keys, id \in Ids : Purge(j, id)
  BY <1>3, <1>19 DEF Purge
<1> QED
  BY <1>4, <1>5, <1>6, <1>7, <1>8, <1>9, <1>10, <1>13, <1>14, <1>15, <1>16, <1>17, <1>18, <1>19
  DEF Next

(* A name the user gave goes only by the user's hand or because the last listing of
   its own backend does not show the conversation (pruneConversationTitles): no swap
   and no other backend's listing takes it, whatever is purged, unreadable or
   unanswered. *)
THEOREM NamesKeptHolds == Spec => NamesKept
<1> DEFINE Kept ==
      \A k \in Keys : \A id \in panel.titles[k] \ panel'.titles[k] :
        panel.renaming = id \/ id \notin panel'.listed[k]
<1>1. ConversationInv /\ [Next]_vars => [Kept]_vars
  <2>1. ConversationInv /\ Next => \A k \in Keys : Keeps(k)
    BY NextKeeps
  <2> QED
    BY <2>1 DEF Keeps
<1>2. NamesKept <=> [][Kept]_vars
  BY DEF NamesKept
<1> HIDE DEF Kept
<1> QED
  BY <1>1, <1>2, ConversationInvariant, PTL DEF Spec
===========================================================================
