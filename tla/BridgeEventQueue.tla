------------------------- MODULE BridgeEventQueue -------------------------
(***************************************************************************)
(* BridgeEventQueue (data_stream_pj_bridge/pj_bridge_websocket.hpp): the   *)
(* bounded FIFO between a WebSocket transport's callback thread and the    *)
(* thread that owns the connection.  Every method runs under the queue's   *)
(* mutex, so each is one action.  Pending data frames are capped; control  *)
(* events are not.                                                         *)
(***************************************************************************)
EXTENDS Integers, Sequences, FiniteSets, FiniteSetsExt, SequencesExt

CONSTANTS
  MaxBytes,             \* max_bytes_, the cap on pending data frames
  kFrameOverheadBytes,  \* charged per data frame
  PayloadSizes,         \* payload sizes of data frames
  MaxPushes             \* bound: events the transport produces

ASSUME QueueAssumption ==
  /\ MaxBytes \in Nat
  /\ kFrameOverheadBytes \in Nat \ {0}
  /\ PayloadSizes \subseteq Nat
  /\ MaxPushes \in Nat

VARIABLES
  events,            \* events_: pending, in arrival order
  queuedDataBytes,   \* queued_data_bytes_
  closed,            \* closed_
  droppedFrames,     \* dropped_.frames
  droppedBytes,      \* dropped_.bytes
  accepted,          \* history: every event that entered the queue
  delivered,         \* history: every event the owner drained
  produced           \* history: number of callbacks so far

vars == <<events, queuedDataBytes, closed, droppedFrames, droppedBytes,
          accepted, delivered, produced>>

Event == [id : 1..MaxPushes, data : BOOLEAN, size : PayloadSizes \cup {0}]

IsData(e) == e.data
IsControl(e) == ~e.data

cost(e) == e.size + kFrameOverheadBytes

SumSeq(q, Op(_)) == FoldSeq(LAMBDA e, acc : Op(e) + acc, 0, q)

(***************************************************************************)
(* dropOldestDataPastBudget, called right after a data frame was appended: *)
(* erase data frames from the oldest on, never the newest, until the cap   *)
(* is met.  OldestData(q, k) are the k oldest data frames.                 *)
(***************************************************************************)
(* Mutant: the drop starts at the newest of the older frames. *)
MutDropsFromTheNewEnd(q, k) ==
  LET d == SelectSeq(q, IsData) IN SubSeq(d, Len(d) - k, Len(d) - 1)

OldestData(q, k) == SubSeq(SelectSeq(q, IsData), 1, k)

DropLength(q, bytes) ==
  LET older == Len(SelectSeq(q, IsData)) - 1
  IN  Min({k \in 0..older : bytes <= MaxBytes + SumSeq(OldestData(q, k), cost)}
            \cup {older})

dropOldestDataPastBudget(q, bytes) ==
  LET gone == OldestData(q, DropLength(q, bytes))
      Kept(e) == e \notin ToSet(gone)
  IN  /\ events' = SelectSeq(q, Kept)
      /\ queuedDataBytes' = bytes - SumSeq(gone, cost)
      /\ droppedFrames' = droppedFrames + Len(gone)
      /\ droppedBytes' = droppedBytes + SumSeq(gone, LAMBDA e : e.size)

(***************************************************************************)
(* push, on the transport thread.  A closed queue ignores it.              *)
(***************************************************************************)
push(e) ==
  /\ produced' = produced + 1
  /\ UNCHANGED <<closed, delivered>>
  /\ \/ /\ closed
        /\ UNCHANGED <<events, queuedDataBytes, droppedFrames, droppedBytes, accepted>>
     \/ /\ ~closed
        /\ accepted' = Append(accepted, e)
        /\ \/ /\ IsControl(e)
              /\ events' = Append(events, e)
              /\ UNCHANGED <<queuedDataBytes, droppedFrames, droppedBytes>>
           \/ /\ IsData(e)
              /\ dropOldestDataPastBudget(Append(events, e), queuedDataBytes + cost(e))

(***************************************************************************)
(* drain, on the owner thread: hand over everything pending.               *)
(***************************************************************************)
(* Mutant: the byte counter survives the drain. *)
MutDrainKeepsBytes ==
  /\ events' = <<>>
  /\ delivered' = delivered \o events
  /\ UNCHANGED <<queuedDataBytes, closed, droppedFrames, droppedBytes, accepted, produced>>

drain ==
  /\ events' = <<>>
  /\ queuedDataBytes' = 0
  /\ delivered' = delivered \o events
  /\ UNCHANGED <<closed, droppedFrames, droppedBytes, accepted, produced>>

close ==
  /\ closed' = TRUE
  /\ events' = <<>>
  /\ queuedDataBytes' = 0
  /\ UNCHANGED <<droppedFrames, droppedBytes, accepted, delivered, produced>>

Init ==
  /\ events = <<>> /\ accepted = <<>> /\ delivered = <<>>
  /\ queuedDataBytes = 0 /\ droppedFrames = 0 /\ droppedBytes = 0
  /\ closed = FALSE
  /\ produced = 0

PushControl == produced < MaxPushes /\ push([id |-> produced + 1, data |-> FALSE, size |-> 0])

PushData ==
  /\ produced < MaxPushes
  /\ \E n \in PayloadSizes : push([id |-> produced + 1, data |-> TRUE, size |-> n])

Next == PushControl \/ PushData \/ drain \/ close

Spec == Init /\ [][Next]_vars

---------------------------------------------------------------------------
(* Everything the owner saw or can still see, in the order it sees it. *)
Visible == delivered \o events

(* The state of the queue has the types of its members. *)
TypeOK ==
  /\ events \in Seq(Event) /\ accepted \in Seq(Event) /\ delivered \in Seq(Event)
  /\ {queuedDataBytes, droppedFrames, droppedBytes, produced} \subseteq Nat
  /\ closed \in BOOLEAN

(* queued_data_bytes_ is what the pending data frames cost, and it exceeds
   the cap only when a single oversized data frame is pending: push, drain
   and close keep the counter and the deque in step. *)
BudgetRespected ==
  /\ TypeOK
  /\ queuedDataBytes = SumSeq(SelectSeq(events, IsData), cost)
  /\ queuedDataBytes > MaxBytes => Len(SelectSeq(events, IsData)) = 1

(* Control events are never lost or reordered, and the newest data frame
   survives every overflow. *)
ControlNeverLost ==
  /\ SelectSeq(Visible, IsControl) = SelectSeq(accepted, IsControl)
  /\ SelectSeq(accepted, IsData) # <<>> =>
       Last(SelectSeq(accepted, IsData)) \in ToSet(Visible)

(* The owner sees events in arrival order, and every frame lost to overflow
   is older than every data frame still pending: the gap is at the old end. *)
LossIsOldest ==
  /\ \A i, j \in 1..Len(Visible) : i < j => Visible[i].id < Visible[j].id
  /\ \A lost \in ToSet(accepted) \ ToSet(Visible) :
       \A e \in ToSet(events) : e.data => lost.id < e.id

(* dropped() reports exactly the data frames and bytes the owner never got. *)
LossIsCounted ==
  LET gone == SelectSeq(accepted, LAMBDA e : e \notin ToSet(Visible))
  IN  /\ droppedFrames = Len(gone)
      /\ droppedBytes = SumSeq(gone, LAMBDA e : e.size)

(* Until close() an overflow loses the oldest data frames, nothing else, and
   counts what it loses; after close() a late callback leaves nothing pending. *)
OverflowLoss ==
  IF closed THEN events = <<>> ELSE ControlNeverLost /\ LossIsOldest /\ LossIsCounted

===========================================================================
