----------------------------- MODULE RouteAOrders -----------------------------
(***************************************************************************)
(* What the Route A dispatcher components share: the route_a_orders rows   *)
(* in the database, the dispatcher processes with the row snapshot each is *)
(* working from, and the Redis lease that decides who may tick.            *)
(***************************************************************************)
EXTENDS Naturals

CONSTANTS
    Orders,       \* ids of the RouteAOrder rows
    Workers,      \* dispatcher instances (one per process)
    Nil,          \* no worker, no order
    LeaseHolds,   \* TRUE when no tick outlasts the lease and Redis always answers
    MaxCrashes,   \* bound: process crashes explored
    GatewayIds    \* ids createOrder on Base hands out to one order, 1 .. n

ASSUME RouteAAssumption ==
    /\ Nil \notin Orders \cup Workers
    /\ LeaseHolds \in BOOLEAN
    /\ MaxCrashes \in Nat
    /\ 0 \notin GatewayIds

VARIABLES
    row,      \* [Orders -> RowRec], the database
    pc,       \* [Workers -> step names], where each instance is in a handler
    cur,      \* [Workers -> Orders \cup {Nil}], the order it handles
    snap,     \* [Workers -> RowRec], the row as its phase query returned it
    ticking,  \* instances inside Tick
    lease,    \* holder of the Redis key, Nil when it has expired
    crashes

sharedVars == <<row, pc, cur, snap, ticking, lease, crashes>>

Statuses == { "pending", "awaiting_funds", "bridging", "bridge_uncertain",
              "bridged", "dispatching", "settled", "failed", "refunded" }

Terminal == {"settled", "failed", "refunded"}

Rails == {"lifi", "cctp"}

\* digest stands for bridge_tx_sui, bridged_amount for its being set at all,
\* gateway for gateway_order_id (0: empty).
RowRec == [ status : Statuses, provider : Rails, digest : BOOLEAN,
            bridged_amount : BOOLEAN, gateway : GatewayIds \cup {0} ]

NewRow(rail) == [ status |-> "pending", provider |-> rail, digest |-> FALSE,
                  bridged_amount |-> FALSE, gateway |-> 0 ]

-----------------------------------------------------------------------------
(* A handler: pick a row, work on the snapshot, stop. *)

\* A phase of Tick queries its rows once and loops over that result: from here on the
\* handler sees the row as it was now.
Fetch(w, o, step) ==
    /\ w \in ticking
    /\ pc[w] = "idle"
    /\ pc' = [pc EXCEPT ![w] = step]
    /\ cur' = [cur EXCEPT ![w] = o]
    /\ snap' = [snap EXCEPT ![w] = row[o]]

Go(w, step) == pc' = [pc EXCEPT ![w] = step] /\ UNCHANGED <<cur, snap>>

Done(w) ==
    /\ pc' = [pc EXCEPT ![w] = "idle"]
    /\ cur' = [cur EXCEPT ![w] = Nil]
    /\ snap' = [snap EXCEPT ![w] = NewRow("lifi")]

\* order.Update().Where(BridgeStatusIn(from...)): the guarded write lands only if the
\* row's present status is one of from; otherwise isStaleTransition and no write.
Cas(o, from, new) ==
    row' = IF row[o].status \in from THEN [row EXCEPT ![o] = new] ELSE row

\* What no handler step touches.
Frame == UNCHANGED <<ticking, lease, crashes>>

-----------------------------------------------------------------------------
(* The lease *)

\* acquireLease: SetNX, or the key already names this instance, or Redis is down and
\* the check fails open.
AcquireLease(w) ==
    \/ lease \in {Nil, w} /\ lease' = w
    \/ ~LeaseHolds /\ UNCHANGED lease

\* The key's 90 s TTL is renewed at the start of a tick and never during one.
LeaseExpires ==
    /\ lease # Nil
    /\ LeaseHolds => lease \notin ticking
    /\ lease' = Nil
    /\ UNCHANGED <<row, pc, cur, snap, ticking, crashes>>

EndTick(w) ==
    /\ w \in ticking
    /\ pc[w] = "idle"
    /\ ticking' = ticking \ {w}
    /\ UNCHANGED <<row, pc, cur, snap, lease, crashes>>

Crash(w) ==
    /\ crashes < MaxCrashes
    /\ crashes' = crashes + 1
    /\ Done(w)
    /\ ticking' = ticking \ {w}
    /\ UNCHANGED <<row, lease>>

=============================================================================
