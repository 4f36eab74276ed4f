----------------------------- MODULE ClientPool -----------------------------
(* TasqClientPool of src/tasq/remote/client.py: one ZMQTasqClient per    *)
(* configured endpoint, map() spreading jobs over the raw client list with *)
(* a lazy connect, schedule() going through the RoundRobinRouter of the   *)
(* pool's actor system, and shutdown().  The router and the actor system  *)
(* live outside src/ and are modelled from the spec (4.2, 4.3): route     *)
(* dispatches to the worker at the cursor and advances it atomically.    *)
(* A client is reduced to its is_connected flag; TasqClient models it.   *)
EXTENDS Naturals, Sequences

CONSTANTS
    NClients,    \* len(config): clients, and so router workers
    Callers,     \* threads calling pool.schedule
    MaxItems,    \* length of the iterable given to map
    MaxRoutes    \* pool.schedule calls in all

ASSUME PoolAssumption ==
    /\ NClients \in Nat \ {0}
    /\ MaxItems \in Nat
    /\ MaxRoutes \in Nat

Clients == 0..NClients - 1

VARIABLES
    connected,   \* self._clients[c].is_connected
    idx,         \* map's local idx
    left,        \* items of map's iterable not yet consumed
    mapTo,       \* history: the client each map item was scheduled on
    cursor,      \* the router's cursor
    routed,      \* history: the worker each route call dispatched to
    nresults,    \* len(self._results): futures stored by schedule
    down         \* shutdown() has run

vars == <<connected, idx, left, mapTo, cursor, routed, nresults, down>>

(* __init__: the clients are built disconnected; router_of builds the    *)
(* workers and a router whose cursor starts at the first worker.         *)
Init ==
    /\ connected = [c \in Clients |-> FALSE]
    /\ idx = 0
    /\ left = MaxItems
    /\ mapTo = <<>>
    /\ cursor = 0
    /\ routed = <<>>
    /\ nresults = 0
    /\ down = FALSE

----------------------------------------------------------------------------
(* One iteration of map's loop: reset idx at the last client, connect the *)
(* client at idx if it is not connected, schedule the item on it.  idx is *)
(* never advanced.                                                         *)
MapStep ==
    /\ ~down
    /\ left > 0
    /\ LET i == IF idx = NClients - 1 THEN 0 ELSE idx
       IN  /\ idx' = i
           /\ connected' = [connected EXCEPT ![i] = TRUE]
           /\ mapTo' = Append(mapTo, i)
    /\ left' = left - 1
    /\ UNCHANGED <<cursor, routed, nresults, down>>

(* Bug variant of Route: the cursor is advanced without the wrap.         *)
RouteNoWrap(c) ==
    /\ ~down
    /\ Len(routed) < MaxRoutes
    /\ routed' = Append(routed, cursor)
    /\ cursor' = cursor + 1
    /\ nresults' = nresults + 1
    /\ UNCHANGED <<connected, idx, left, mapTo, down>>

(* pool.schedule: build the Job, self._workers.route(job) (dispatch to   *)
(* the worker at the cursor, advance it with wrap, atomically), store the *)
(* future under the job id.                                                *)
Route(c) ==
    /\ ~down
    /\ Len(routed) < MaxRoutes
    /\ routed' = Append(routed, cursor)
    /\ cursor' = (cursor + 1) % NClients
    /\ nresults' = nresults + 1
    /\ UNCHANGED <<connected, idx, left, mapTo, down>>

(* shutdown(): close every client (disconnecting it), then shut down the *)
(* actor system.                                                           *)
Shutdown ==
    /\ ~down
    /\ connected' = [c \in Clients |-> FALSE]
    /\ down' = TRUE
    /\ UNCHANGED <<idx, left, mapTo, cursor, routed, nresults>>

Next ==
    \/ MapStep
    \/ \E c \in Callers : Route(c)
    \/ Shutdown

Spec == Init /\ [][Next]_vars

----------------------------------------------------------------------------
TypeOK ==
    /\ connected \in [Clients -> BOOLEAN]
    /\ idx \in Clients
    /\ left \in 0..MaxItems
    /\ mapTo \in Seq(Clients)
    /\ cursor \in Clients
    /\ routed \in Seq(Clients)
    /\ nresults \in Nat
    /\ down \in BOOLEAN

(* map distributes round-robin over the client list (spec 4.5): the k-th *)
(* item goes to client k mod K.                                            *)
MapRoundRobin ==
    \A k \in 1..Len(mapTo) : mapTo[k] = (k - 1) % NClients

=============================================================================
