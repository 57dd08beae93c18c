---------------------- MODULE AssistantConversations ----------------------
(***************************************************************************)
(* Which conversation the assistant panel shows, resumes and remembers     *)
(* (toolbox_assistant_agent/src/assistant_dialog.cpp, harness_memory.hpp,  *)
(* conversation_state.cpp): one HarnessMemory and one persisted session id *)
(* per backend, the drawer with its custom names, the turn that runs on    *)
(* the worker thread, and the settings commits that swap the backend.      *)
(* Messages are left out: a transcript is empty or not, a listing (catalog *)
(* or features) is its version, which stands for its hash.                 *)
(***************************************************************************)
CONSTANTS
  Keys,       \* backends with a memory of their own
  DefaultKey, \* the backend of a panel that has no settings yet
  Ids,        \* session ids the harnesses may give out
  NoId,       \* the empty session id
  Kinds,      \* the listings a payload may carry
  Versions,   \* contents of a listing
  Empty,      \* an empty listing, or an empty hash
  RecordsUnanswered,   \* a turn without an answer may be in the history
  Unreadable,          \* sessions whose file, or directory, reading may miss
  Nameable             \* sessions the user names

ASSUME ConversationsAssumption ==
  /\ DefaultKey \in Keys /\ NoId \notin Ids /\ Empty \notin Versions
  /\ RecordsUnanswered \in BOOLEAN /\ Unreadable \cup Nameable \subseteq Ids

VARIABLES
  panel,     \* the GUI thread's state and the settings it persists
  key,       \* active_backend_key_ (and backend_, which is of that key)
  choice,    \* the persisted backend choice
  pending,   \* rebuild_pending
  bound,     \* conversation_loaded_
  turn,      \* the turn in flight
  current,   \* what the host has loaded, by kind of listing
  store,     \* the harnesses' session files, by backend
  owner,     \* history: the backend that gave out an id
  heard      \* history: what the history of a session says is loaded

vars == <<panel, key, choice, pending, bound, turn, current, store, owner, heard>>

OptId == Ids \cup {NoId}
OptVersion == Versions \cup {Empty}
Nothing == [l \in Kinds |-> Empty]
HarnessMemory == [sid : OptId, told : [Kinds -> OptVersion], resumed : BOOLEAN]
Blank == [sid |-> NoId, told |-> Nothing, resumed |-> FALSE]

NoTurn == [phase |-> "none", of |-> DefaultKey, now |-> Nothing, before |-> Blank,
           carries |-> {}, session |-> NoId, answered |-> FALSE]
Busy == turn.phase # "none"

(***************************************************************************)
(* What the handlers do to the panel p.  Two of its fields are history:    *)
(* dangling, the backends whose saved id an activation dropped while their *)
(* memory kept one, and listed, what a backend's last listing showed.      *)
(***************************************************************************)
Cleared(p, k) ==
  [p EXCEPT !.memory[k] = Blank, !.active = NoId, !.saved[k] = NoId,
            !.dangling = @ \ {k}]

Switched(p, k, id) ==
  [p EXCEPT !.memory[k] = [Blank EXCEPT !.sid = id, !.resumed = TRUE],
            !.active = id, !.saved[k] = id, !.dangling = @ \ {k}]

Forgotten(p, k) ==
  [p EXCEPT !.saved[k] = NoId, !.active = NoId,
            !.dangling = @ \cup {j \in {k} : p.memory[j].sid # NoId}]

(* The harness's session files: listConversations, loadTranscript,
   deleteConversation.  A directory or a file that cannot be read is passed
   over, and so is a file in which the model says nothing; a file that cannot
   be removed stays. *)
Listed(files) == {files \ missed : missed \in SUBSET Unreadable}
HasTranscript(k, id) == {(id \in store[k]), (id \in store[k] \ Unreadable)}
AfterDelete(k, id) == {store, [store EXCEPT ![k] = @ \ {id}]}

(* pruneConversationTitles *)
Pruned(titles, live) == titles \cap live

(* Mutant: the names are pruned by the listing shown so far. *)
MutPrunesByOldListing(p, k, live) ==
  [p EXCEPT !.drawer = live, !.listed[k] = live,
            !.titles[k] = Pruned(@, p.drawer), !.names = Pruned(p.titles[k], p.drawer)]

(* refreshConversationsLocked: list, prune the names, reload them. *)
Refreshed(p, k, live) ==
  [p EXCEPT !.drawer = live, !.listed[k] = live,
            !.titles[k] = Pruned(@, live), !.names = Pruned(p.titles[k], live)]

(* activateBackendConversation: the saved session is taken up where its
   transcript can be read, and is forgotten where it cannot. *)
Restored(p, k, found) == IF found THEN Switched(p, k, p.saved[k]) ELSE Forgotten(p, k)

Activated(p, k) ==
  {Refreshed(Restored(p, k, found), k, live) :
     found \in HasTranscript(k, p.saved[k]), live \in Listed(store[k])}

(* Mutant: a swap of the backend does not wait for the turn. *)
MutRebuildsMidTurn(p, k) ==
  /\ pending' = FALSE
  /\ key' = k
  /\ panel' \in IF k # key THEN Activated(p, k) ELSE {p}

(* rebuildBackend and, where the backend changed, activation. *)
Rebuild(p, k) ==
  IF Busy
  THEN pending' = TRUE /\ panel' = p /\ UNCHANGED key
  ELSE /\ pending' = FALSE
       /\ key' = k
       /\ panel' \in IF k # key THEN Activated(p, k) ELSE {p}

---------------------------------------------------------------------------
(***************************************************************************)
(* The user and the host, on the GUI thread.                               *)
(***************************************************************************)
setSettings ==
  /\ bound' = TRUE
  /\ \/ /\ ~bound
        /\ key' = choice /\ pending' = FALSE
        /\ panel' \in Activated(panel, choice)
     \/ /\ bound /\ Busy
        /\ pending' = TRUE
        /\ UNCHANGED <<panel, key>>
     \/ /\ bound /\ ~Busy
        /\ pending' = FALSE /\ key' = choice
        /\ UNCHANGED panel
  /\ UNCHANGED <<choice, turn, current, store, owner, heard>>

commitSettings(k) ==
  /\ bound
  /\ choice' = k
  /\ Rebuild(panel, k)
  /\ UNCHANGED <<bound, turn, current, store, owner, heard>>

startNewConversation ==
  /\ bound /\ ~Busy
  /\ panel' = Cleared(panel, key)
  /\ UNCHANGED <<key, choice, pending, bound, turn, current, store, owner, heard>>

onSelectionChanged(id) ==
  /\ bound /\ ~Busy
  /\ id \in panel.drawer \ {panel.active}
  /\ TRUE \in HasTranscript(key, id)
  /\ panel' = Switched(panel, key, id)
  /\ UNCHANGED <<key, choice, pending, bound, turn, current, store, owner, heard>>

onItemDeleteRequested(id) ==
  /\ bound /\ ~Busy
  /\ id \in panel.drawer
  /\ store' \in AfterDelete(key, id)
  /\ \E live \in Listed(store'[key]) :
       LET p == Refreshed(panel, key, live)
       IN  panel' = IF id = panel.active THEN Cleared(p, key) ELSE p
  /\ UNCHANGED <<key, choice, pending, bound, turn, current, owner, heard>>

onItemContextAction(id) ==
  /\ bound /\ ~Busy
  /\ id \in panel.drawer \cap Nameable
  /\ panel' = [panel EXCEPT !.renaming = id]
  /\ UNCHANGED <<key, choice, pending, bound, turn, current, store, owner, heard>>

(* setConversationTitle or, for a blank name, removeConversationTitle *)
Retitled(titles, id) == {titles \cup {id}, titles \ {id}}

commitRename ==
  /\ panel.renaming # NoId
  /\ \E t \in Retitled(panel.titles[key], panel.renaming) :
       panel' = [panel EXCEPT !.renaming = NoId, !.titles[key] = t, !.names = t]
  /\ UNCHANGED <<key, choice, pending, bound, turn, current, store, owner, heard>>

sendCurrentInput ==
  /\ bound /\ ~Busy
  /\ turn' = [NoTurn EXCEPT !.phase = "queued", !.of = key, !.now = current]
  /\ UNCHANGED <<panel, key, choice, pending, bound, current, store, owner, heard>>

(***************************************************************************)
(* The worker: sendUserMessage of the backend the turn was sent to.        *)
(***************************************************************************)
Worker == panel.memory[turn.of]
WorkerSets(m) == panel' = [panel EXCEPT !.memory[turn.of] = m]

LaunchFails ==
  /\ turn.phase = "queued"
  /\ turn' = [turn EXCEPT !.phase = "ended"]
  /\ UNCHANGED <<panel, key, choice, pending, bound, current, store, owner, heard>>

Carries(l) == turn.now[l] # Empty /\ (turn.now[l] # Worker.told[l] \/ Worker.resumed)

composePayload ==
  /\ turn.phase = "queued"
  /\ LET out == {l \in Kinds : Carries(l)}
     IN  /\ turn' = [turn EXCEPT !.phase = "begun", !.before = Worker, !.carries = out]
         /\ WorkerSets([Worker EXCEPT
              !.told = [l \in Kinds |-> IF l \in out THEN turn.now[l] ELSE @[l]],
              !.resumed = @ /\ out = {}])
  /\ UNCHANGED <<key, choice, pending, bound, current, store, owner, heard>>

(* The stream names the session: a new one, or the resumed one, which some
   CLIs continue under a new id. *)
SessionNamed(id) ==
  LET resume == turn.before.sid
  IN  /\ turn.phase = "begun" /\ turn.session = NoId
      /\ resume # NoId => resume \in store[turn.of]
      /\ id = resume \/ owner[id] \notin Keys
      /\ turn' = [turn EXCEPT !.session = id]
      /\ WorkerSets([Worker EXCEPT !.sid = id])
      /\ store' = [store EXCEPT ![turn.of] = @ \cup {id}]
      /\ owner' = [owner EXCEPT ![id] = turn.of]
      /\ heard' = [heard EXCEPT ![id] = IF resume = NoId THEN Nothing ELSE heard[resume]]
      /\ UNCHANGED <<key, choice, pending, bound, current>>

(* The session's history after the payload. *)
Hears ==
  [heard EXCEPT ![turn.session] =
     [l \in Kinds |-> IF l \in turn.carries THEN turn.now[l] ELSE @[l]]]

ModelAnswers ==
  /\ turn.phase = "begun" /\ turn.session # NoId /\ ~turn.answered
  /\ turn' = [turn EXCEPT !.answered = TRUE]
  /\ heard' = Hears
  /\ UNCHANGED <<panel, key, choice, pending, bound, current, store, owner>>

(* Mutant: a turn that failed unanswered counts as told. *)
MutNoRollback(failed) == UNCHANGED panel

(* ListingsTurn::finish *)
finish(failed) ==
  IF failed /\ ~turn.answered
  THEN WorkerSets([Worker EXCEPT !.told = turn.before.told,
                                 !.resumed = turn.before.resumed])
  ELSE UNCHANGED panel

TurnEnds(failed) ==
  /\ turn.phase = "begun"
  /\ failed \/ turn.session # NoId
  /\ turn' = [turn EXCEPT !.phase = "ended"]
  /\ finish(failed)
  /\ heard' \in IF turn.session = NoId \/ turn.answered THEN {heard}
                ELSE IF ~failed THEN {Hears}
                ELSE IF RecordsUnanswered THEN {heard, Hears} ELSE {heard}
  /\ UNCHANGED <<key, choice, pending, bound, current, store, owner>>

(***************************************************************************)
(* onTick applies the TurnComplete, then the rebuild that had to wait.     *)
(***************************************************************************)
Persisted(p) ==
  LET sid == p.memory[key].sid
  IN  IF sid = NoId \/ sid = p.active THEN p
      ELSE [p EXCEPT !.active = sid, !.saved[key] = sid, !.dangling = @ \ {key}]

(* Mutant: a swap that had to wait is forgotten. *)
MutForgetsSwap(p) == panel' = p /\ pending' = FALSE /\ UNCHANGED key

DeferredRebuild(p) ==
  /\ pending' = FALSE
  /\ \/ /\ pending /\ choice # key
        /\ key' = choice
        /\ panel' \in Activated(p, choice)
     \/ /\ ~pending \/ choice = key
        /\ panel' = p
        /\ UNCHANGED key

TurnComplete ==
  /\ turn.phase = "ended"
  /\ turn' = NoTurn
  /\ \E live \in Listed(store[key]) :
       DeferredRebuild(Refreshed(Persisted(panel), key, live))
  /\ UNCHANGED <<choice, bound, current, store, owner, heard>>

---------------------------------------------------------------------------
(***************************************************************************)
(* The world: files are loaded, plugins enabled, and the harness purges    *)
(* sessions on its own retention (one it named and never wrote is purged   *)
(* as soon as its turn is over).                                           *)
(***************************************************************************)
HostChanges(l, v) ==
  /\ current' = [current EXCEPT ![l] = v]
  /\ UNCHANGED <<panel, key, choice, pending, bound, turn, store, owner, heard>>

Purge(k, id) ==
  /\ id \in store[k] \ {turn.session}
  /\ store' = [store EXCEPT ![k] = @ \ {id}]
  /\ UNCHANGED <<panel, key, choice, pending, bound, turn, current, owner, heard>>

(* What an earlier run of the panel may have left: a session per backend,
   persisted as the one to resume or not. *)
Init ==
  /\ owner \in {o \in [Ids -> Keys \cup {NoId}] :
                  \A i, j \in Ids : o[i] = o[j] /\ o[i] \in Keys => i = j}
  /\ store = [k \in Keys |-> {i \in Ids : owner[i] = k}]
  /\ key = DefaultKey /\ choice \in Keys
  /\ \E s \in [Keys -> OptId] :
       /\ \A k \in Keys : s[k] \in store[k] \cup {NoId}
       /\ panel = [memory |-> [k \in Keys |-> Blank], saved |-> s, active |-> NoId,
                   drawer |-> {}, titles |-> [k \in Keys |-> store[k] \cap Nameable], names |-> {}, renaming |-> NoId,
                   dangling |-> {}, listed |-> [k \in Keys |-> {}]]
  /\ pending = FALSE /\ bound = FALSE
  /\ turn = NoTurn
  /\ current = Nothing
  /\ heard = [i \in Ids |-> Nothing]

Next ==
  \/ setSettings \/ startNewConversation \/ commitRename \/ sendCurrentInput
  \/ \E k \in Keys : commitSettings(k)
  \/ \E id \in Ids : \/ onSelectionChanged(id) \/ onItemDeleteRequested(id)
                     \/ onItemContextAction(id) \/ SessionNamed(id)
  \/ LaunchFails \/ composePayload \/ ModelAnswers \/ TurnComplete
  \/ \E failed \in BOOLEAN : TurnEnds(failed)
  \/ \E l \in Kinds, v \in OptVersion : HostChanges(l, v)
  \/ \E k \in Keys, id \in Ids : Purge(k, id)

Spec == Init /\ [][Next]_vars

---------------------------------------------------------------------------
(* The state has the types of the members it models. *)
TypeOK ==
  /\ panel \in [memory : [Keys -> HarnessMemory], saved : [Keys -> OptId],
                active : OptId, drawer : SUBSET Ids, titles : [Keys -> SUBSET Ids],
                names : SUBSET Ids, renaming : OptId, dangling : SUBSET Keys,
                listed : [Keys -> SUBSET Ids]]
  /\ key \in Keys /\ choice \in Keys /\ pending \in BOOLEAN /\ bound \in BOOLEAN
  /\ turn \in [phase : {"none", "queued", "begun", "ended"}, of : Keys,
               now : [Kinds -> OptVersion], before : HarnessMemory,
               carries : SUBSET Kinds, session : OptId, answered : BOOLEAN]
  /\ current \in [Kinds -> OptVersion]
  /\ store \in [Keys -> SUBSET Ids] /\ owner \in [Ids -> Keys \cup {NoId}]
  /\ heard \in [Ids -> [Kinds -> OptVersion]]
  /\ pending => Busy

(* At rest the live backend is the chosen one, so that a swap that arrives
   mid-turn is late and never lost, and the panel is of one mind: the session
   the next turn resumes is the conversation shown, and the one a reopened
   panel would restore.  Only a backend that was activated while its saved
   session could not be read shows nothing and would resume a session. *)
ResumeTarget ==
  bound /\ ~Busy =>
    /\ key = choice
    /\ panel.saved[key] = panel.active
    /\ \/ panel.memory[key].sid = panel.active
       \/ key \in panel.dangling /\ panel.active = NoId

(* A panel that shows no conversation has none to resume.  "Nothing was
   persisted for this backend, or it was purged since the last time it was
   active either way, there is no --resume target to dangle."
   (assistant_dialog.cpp:328) *)
NothingDangles ==
  bound /\ ~Busy /\ panel.active = NoId => panel.memory[key].sid = NoId

(* A backend resumes and restores only sessions of its own harness.  The
   memory of one that is set aside matches what it has persisted, or it has
   persisted nothing since its saved session could not be read. *)
NoCrossTalk ==
  /\ TypeOK
  /\ \A k \in Keys :
       /\ \A id \in {panel.memory[k].sid, panel.saved[k]} \ {NoId} : owner[id] = k
       /\ k # key => IF k \in panel.dangling THEN panel.saved[k] = NoId
                     ELSE panel.memory[k].sid \in {NoId, panel.saved[k]}

(* When the model answers, the history it sees says what was loaded when
   the question was asked. *)
ModelIsCurrent ==
  turn.answered =>
    \A l \in Kinds : turn.now[l] # Empty => heard[turn.session][l] = turn.now[l]

(* A name goes only by the user's hand or with its conversation, where the
   last listing of its own backend does not show it: neither a swap nor the
   listing of another backend takes it.  A listing that passes over a file that
   cannot be read does take the name, although the conversation exists. *)
NamesKept ==
  [][\A k \in Keys : \A id \in panel.titles[k] \ panel'.titles[k] :
       panel.renaming = id \/ id \notin panel'.listed[k]]_vars

===========================================================================
