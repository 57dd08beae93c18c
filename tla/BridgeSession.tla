--------------------------- MODULE BridgeSession ---------------------------
(***************************************************************************)
(* One WebSocket session of the PJ bridge: the socket as its owner sees it *)
(* (pj_bridge_websocket.hpp), the two FIFO directions, and the server's    *)
(* control plane as the repository's own servers implement it              *)
(* (test_scripts/pj_bridge_test_server.py, common/test_support/            *)
(* pj_bridge_protocol.py).  The owner of the socket is the dialog or the   *)
(* source; see PjBridgeSource.                                             *)
(***************************************************************************)
EXTENDS Naturals, Sequences, FiniteSets

CONSTANTS
  Topics,         \* topic names
  Types,          \* message types; a type stands for schema name, encoding and definition
  None,           \* absence
  ServerSchemas,  \* does the server honour include_schemas?
  ServerKinds,    \* subset of BOOLEAN: may the server speak a newer protocol?
  InitialTopics,  \* topics the server knows at first
  InitialType,    \* their type
  ChangeKinds,    \* subset of {"add", "remove", "retype"}
  Budgets         \* bounds: how often each environment event may happen; a
                  \* behaviour has one of them

BudgetKinds == {"host", "pause", "change", "conn", "data", "get", "drop"}

ASSUME SessionAssumption ==
  /\ None \notin Topics \cup Types
  /\ ServerSchemas \in BOOLEAN
  /\ ServerKinds \subseteq BOOLEAN /\ ServerKinds # {}
  /\ InitialTopics \subseteq Topics
  /\ InitialType \in Types
  /\ ChangeKinds \subseteq {"add", "remove", "retype"}
  /\ Budgets \subseteq [BudgetKinds -> Nat]

VARIABLES
  conn,         \* the socket: "none", "opening", "open" or "closed"
  inbox,        \* the owner's BridgeEventQueue, events in arrival order
  toServer,     \* text frames sent and not yet handled by the server
  srvCatalog,   \* the server's topics: topic -> type
  srvSubs,      \* state["subscribed"] of this session
  srvUpdates,   \* state["topic_updates"]
  srvPaused,    \* state["paused"]
  srvNewer,     \* this session's responses carry a higher protocol_version
  budget        \* what is left of the behaviour's budget

srvVars == <<srvSubs, srvUpdates, srvPaused, srvNewer>>
sessionVars == <<conn, inbox, toServer, srvCatalog, srvSubs, srvUpdates,
                 srvPaused, srvNewer, budget>>

(***************************************************************************)
(* Data.  A TopicInfo is bare (name and type only) or full (with encoding  *)
(* and definition), so a full entry differs from the bare one of the same  *)
(* type.                                                                   *)
(***************************************************************************)
TopicInfo == [ty : Types, full : BOOLEAN]
Catalog == [Topics -> TopicInfo \cup {None}]
NoCatalog == [t \in Topics |-> None]

Event ==
  [k : {"open", "closed", "error", "newer"}]
    \cup [k : {"schemas"}, id : Nat, schemas : [Topics -> Types \cup {None}],
          failures : SUBSET Topics]
    \cup [k : {"changed"}, added : Catalog, removed : SUBSET Topics]
    \cup [k : {"topics"}, topics : Catalog]
    \cup [k : {"data"}, topic : Topics, ty : Types]

Command ==
  [c : {"updates", "pause", "resume"}]
    \cup [c : {"get_topics"}, full : BOOLEAN]
    \cup [c : {"subscribe"}, id : Nat, topics : SUBSET Topics]
    \cup [c : {"unsubscribe"}, topics : SUBSET Topics]

Spend(kind) ==
  /\ budget[kind] > 0
  /\ budget' = [budget EXCEPT ![kind] = @ - 1]

(***************************************************************************)
(* The socket.  sendText drops the frame unless the socket is open.        *)
(***************************************************************************)
isOpen == conn = "open"

sendText(frames) ==
  toServer' = IF isOpen THEN toServer \o frames ELSE toServer

NewSession == srvSubs' = {} /\ srvUpdates' = FALSE /\ srvPaused' = FALSE

(* BridgeWebSocket::start: a fresh queue and a connection attempt. *)
SocketStart ==
  /\ Spend("conn")
  /\ conn' = "opening"
  /\ inbox' = <<>>
  /\ toServer' = <<>>
  /\ NewSession
  /\ srvNewer' \in ServerKinds
  /\ UNCHANGED srvCatalog

(* BridgeWebSocket::stop: the queue is closed and the session is gone. *)
SocketStop ==
  /\ conn' = "none"
  /\ inbox' = <<>>
  /\ toServer' = <<>>
  /\ NewSession
  /\ UNCHANGED <<srvCatalog, srvNewer, budget>>

ConnOpen ==
  /\ conn = "opening"
  /\ conn' = "open"
  /\ inbox' = Append(inbox, [k |-> "open"])
  /\ UNCHANGED <<toServer, srvCatalog, srvVars, budget>>

ConnError ==
  /\ conn = "opening"
  /\ Spend("drop")
  /\ conn' = "closed"
  /\ inbox' = Append(inbox, [k |-> "error"])
  /\ UNCHANGED <<toServer, srvCatalog, srvVars>>

ConnClose ==
  /\ conn = "open"
  /\ Spend("drop")
  /\ conn' = "closed"
  /\ inbox' = Append(inbox, [k |-> "closed"])
  /\ toServer' = <<>>
  /\ NewSession
  /\ UNCHANGED <<srvCatalog, srvNewer>>

(***************************************************************************)
(* The server handles one command.  A newer server's response is the same  *)
(* to this client whatever it carries.                                     *)
(***************************************************************************)
Reply(e) == inbox' = Append(inbox, IF srvNewer THEN [k |-> "newer"] ELSE e)

(* Responses the client ignores unless they come from a newer server. *)
Acknowledge == inbox' = IF srvNewer THEN Append(inbox, [k |-> "newer"]) ELSE inbox

InfoOf(t, full) ==
  IF srvCatalog[t] = None THEN None
  ELSE [ty |-> srvCatalog[t], full |-> full /\ ServerSchemas]

build_subscribe_response(cmd) ==
  LET fresh == {t \in cmd.topics \ srvSubs : srvCatalog[t] # None}
  IN  /\ srvSubs' = srvSubs \cup fresh
      /\ Reply([k |-> "schemas", id |-> cmd.id,
                schemas |-> [t \in Topics |-> IF t \in fresh THEN srvCatalog[t] ELSE None],
                failures |-> {t \in cmd.topics \ srvSubs : srvCatalog[t] = None}])

on_message ==
  /\ conn = "open"
  /\ toServer # <<>>
  /\ toServer' = Tail(toServer)
  /\ UNCHANGED <<conn, srvCatalog, srvNewer, budget>>
  /\ LET cmd == Head(toServer)
     IN  \/ /\ cmd.c = "get_topics"
            /\ Reply([k |-> "topics", topics |-> [t \in Topics |-> InfoOf(t, cmd.full)]])
            /\ UNCHANGED <<srvSubs, srvUpdates, srvPaused>>
         \/ /\ cmd.c = "subscribe"
            /\ build_subscribe_response(cmd)
            /\ UNCHANGED <<srvUpdates, srvPaused>>
         \/ /\ cmd.c = "unsubscribe"
            /\ srvSubs' = srvSubs \ cmd.topics
            /\ Acknowledge
            /\ UNCHANGED <<srvUpdates, srvPaused>>
         \/ /\ cmd.c = "updates"
            /\ srvUpdates' = TRUE
            /\ Acknowledge
            /\ UNCHANGED <<srvSubs, srvPaused>>
         \/ /\ cmd.c \in {"pause", "resume"}
            /\ srvPaused' = (cmd.c = "pause")
            /\ Acknowledge
            /\ UNCHANGED <<srvSubs, srvUpdates>>

(***************************************************************************)
(* The server's topic set changes; opted-in sessions are told, WITH        *)
(* schemas as the source asked.  A session's subscriptions are untouched.  *)
(***************************************************************************)
ChangeKind(old, new) ==
  IF old = None THEN "add" ELSE IF new = None THEN "remove" ELSE "retype"

CatalogChange ==
  \E t \in Topics, ty \in Types \cup {None} :
    /\ ty # srvCatalog[t]
    /\ ChangeKind(srvCatalog[t], ty) \in ChangeKinds
    /\ Spend("change")
    /\ srvCatalog' = [srvCatalog EXCEPT ![t] = ty]
    /\ LET note == [k |-> "changed",
                    added |-> [u \in Topics |->
                                 IF u = t /\ ty # None
                                 THEN [ty |-> ty, full |-> ServerSchemas] ELSE None],
                    removed |-> IF ty = None THEN {t} ELSE {}]
       IN  IF conn = "open" /\ srvUpdates THEN Reply(note) ELSE UNCHANGED inbox
    /\ UNCHANGED <<conn, toServer, srvVars>>

(* emit_loop: a data frame for a subscribed topic of a session not paused. *)
emit_loop ==
  /\ conn = "open" /\ ~srvPaused
  /\ \E t \in srvSubs :
       /\ srvCatalog[t] # None
       /\ Spend("data")
       /\ inbox' = Append(inbox, [k |-> "data", topic |-> t, ty |-> srvCatalog[t]])
  /\ UNCHANGED <<conn, toServer, srvCatalog, srvVars>>

SessionInit ==
  /\ conn = "none" /\ inbox = <<>> /\ toServer = <<>>
  /\ srvCatalog = [t \in Topics |-> IF t \in InitialTopics THEN InitialType ELSE None]
  /\ srvSubs = {} /\ srvUpdates = FALSE /\ srvPaused = FALSE
  /\ srvNewer \in ServerKinds
  /\ budget \in Budgets

SessionNext ==
  \/ ConnOpen \/ ConnError \/ ConnClose
  \/ on_message \/ CatalogChange \/ emit_loop

SessionTypeOK ==
  /\ conn \in {"none", "opening", "open", "closed"}
  /\ inbox \in Seq(Event)
  /\ toServer \in Seq(Command)
  /\ srvCatalog \in [Topics -> Types \cup {None}]
  /\ srvSubs \subseteq Topics
  /\ srvUpdates \in BOOLEAN /\ srvPaused \in BOOLEAN /\ srvNewer \in BOOLEAN
  /\ budget \in [BudgetKinds -> Nat]

===========================================================================
