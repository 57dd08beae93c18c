-------------------------- MODULE MC_PjBridgeSource --------------------------
(* Instances of PjBridgeSource for TLC.  The budgets bound how often the host,
   the server and the network act in one behaviour. *)
EXTENDS PjBridgeSource, TLC

CONSTANTS a, b, T1, T2

MCTopics == {a, b}
MCTypes == {T1, T2}

Bounds(host, pause, change, connections, data, get, drop) ==
  "host" :> host @@ "pause" :> pause @@ "change" :> change @@ "conn" :> connections
    @@ "data" :> data @@ "get" :> get @@ "drop" :> drop

DemandBudgets == {Bounds(2, 0, 2, 1, 1, 0, 0)}

(* A topic that comes and goes under a connection that may drop; two sessions;
   and two pauses or resumes over two sessions. *)
RemovalBudget == Bounds(4, 0, 2, 1, 1, 0, 1)
TwoSessionsBudget == Bounds(1, 1, 0, 2, 0, 1, 1)
TwoPausesBudget == Bounds(0, 2, 0, 2, 0, 0, 1)
SessionsBudgets == {RemovalBudget, TwoSessionsBudget, TwoPausesBudget}

PromisesBudgets == {Bounds(1, 2, 1, 1, 0, 0, 0)}
=============================================================================
