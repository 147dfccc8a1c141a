------------------------------ MODULE Deposits ------------------------------
(***************************************************************************)
(* How a customer's coins get from a receive address to the aggregator     *)
(* wallet: the deposit watcher's passes, the gateway contract's escrow,    *)
(* the event indexer and the sender's PaymentOrder, for Route A orders.    *)
(* Nothing keeps two passes of the watcher apart: the cron starts one a    *)
(* minute in every process, whether or not the last one is over.           *)
(***************************************************************************)
EXTENDS Naturals

CONSTANTS
    Orders,      \* PaymentOrders with a receive address and a RouteAOrder row
    Coins,       \* Sui coin objects customers may send
    For,         \* [Coins -> Orders], whose receive address each is sent to
    Full,        \* the coins worth at least their order's expected_amount
    Passes,      \* watcher passes that may overlap
    MaxFaults,   \* bound: crashes, lost answers, failed writes explored
    Nil

ASSUME DepositsAssumption ==
    /\ For \in [Coins -> Orders]
    /\ Full \subseteq Coins
    /\ MaxFaults \in Nat
    /\ Nil \notin Orders \cup Coins

\* An order on the gateway holds the one coin create_order was given, so the coin's name
\* serves as the Gateway order id and as the digest of the forward transaction.
VARIABLES
    addr,       \* [Orders -> AddrRec], sui_receive_addresses
    po,         \* [Orders -> OrderRec], payment_orders
    row,        \* [Orders -> row status], route_a_orders
    recorded,   \* orders with a succeeded self_settle event
    coin,       \* [Coins -> places], where each coin is
    watch,      \* [Passes -> WorkRec], what each pass is doing
    index,      \* WorkRec, the indexer's OrderCreated handler
    faults

db == <<addr, po, row, recorded>>
vars == <<db, coin, watch, index, faults>>

\* "settled" is in the schema and never written.
AddrStatuses == {"unused", "deposited", "forwarded", "settled", "expired"}

AddrRec == [ status : AddrStatuses, digest : Coins \cup {Nil} ]
\* "over": refunded, cancelled or expired, which CreateOrder treats alike.
OrderRec == [ status : {"initiated", "settled", "over"}, gateway : Coins \cup {Nil} ]
\* "waiting": pending or awaiting_funds.  "taken": every other state but settled.
Rows == {"waiting", "taken", "settled"}
Places == {"unsent", "held", "escrow", "home"}
Steps == {"idle", "mark", "load", "submit", "persist", "look", "settle", "record", "stamp"}
WorkRec == [ at : Steps, order : Orders \cup {Nil}, coin : Coins \cup {Nil} ]

Idle == [ at |-> "idle", order |-> Nil, coin |-> Nil ]
Work(step, o, c) == [ at |-> step, order |-> o, coin |-> c ]

Held(o) == { c \in Coins : For[c] = o /\ coin[c] = "held" }
Home(o) == \E c \in Coins : For[c] = o /\ coin[c] = "home"
\* CreateOrder's list of orders not to forward; settled is not on it.
Terminal(o) == po[o].status = "over"

Init ==
    /\ addr = [o \in Orders |-> [ status |-> "unused", digest |-> Nil ]]
    /\ po = [o \in Orders |-> [ status |-> "initiated", gateway |-> Nil ]]
    /\ row = [o \in Orders |-> "waiting"]
    /\ recorded = {}
    /\ coin = [c \in Coins |-> "unsent"]
    /\ watch = [p \in Passes |-> Idle]
    /\ index = Idle
    /\ faults = 0

Fault == faults < MaxFaults /\ faults' = faults + 1
At(p, step) == watch[p].at = step
Go(p, work) == watch' = [watch EXCEPT ![p] = work]
Stop(p) == Go(p, Idle)

-----------------------------------------------------------------------------
(* Receive addresses *)

\* The customer sends a coin; TLC's instances give every order a few.
Send(c) ==
    /\ coin[c] = "unsent"
    /\ coin' = [coin EXCEPT ![c] = "held"]
    /\ UNCHANGED <<db, watch, index, faults>>

\* expireStale: one guarded update, at any time, as valid_until may be any.
ExpireStale(o) ==
    /\ addr[o].status = "unused"
    /\ addr' = [addr EXCEPT ![o].status = "expired"]
    /\ UNCHANGED <<po, row, recorded, coin, watch, index, faults>>

\* ExtendAddress with reactivate, refused unless the address is expired.
ExtendAddress(o) ==
    /\ addr[o].status = "expired"
    /\ addr' = [addr EXCEPT ![o].status = "unused"]
    /\ UNCHANGED <<po, row, recorded, coin, watch, index, faults>>

-----------------------------------------------------------------------------
(* detectDeposits and forwardDeposits *)

\* Fetched as unused and valid, and one coin is worth the expected amount.
Detect(p, o) ==
    /\ At(p, "idle")
    /\ addr[o].status = "unused"
    /\ Held(o) \cap Full # {}
    /\ Go(p, Work("mark", o, Nil))
    /\ UNCHANGED <<db, coin, index, faults>>

\* The write is not guarded: another pass may have forwarded the address meanwhile.
MarkDeposited(p) ==
    /\ At(p, "mark")
    /\ \/ /\ addr' = [addr EXCEPT ![watch[p].order].status = "deposited"]
          /\ UNCHANGED faults
       \/ Fault /\ UNCHANGED addr
    /\ Stop(p)
    /\ UNCHANGED <<po, row, recorded, coin, index>>

FetchDeposited(p, o) ==
    /\ At(p, "idle")
    /\ addr[o].status = "deposited"
    /\ Go(p, Work("load", o, Nil))
    /\ UNCHANGED <<db, coin, index, faults>>

\* Mutant: CreateOrder does not look at the digest.
SkipsForwardTerminal(o) == Terminal(o)

\* CreateOrder's two early ways out, both written as forwarded: the PaymentOrder is over,
\* or the forward transaction is on record already.
SkipsForward(o) == Terminal(o) \/ addr[o].digest # Nil

\* Mutant: a first coin below the expected amount is refused.
CreateOrderRefusesPart(p) ==
    LET o == watch[p].order
    IN  /\ At(p, "load")
        /\ \/ /\ SkipsForward(o)
              /\ addr' = [addr EXCEPT ![o].status = "forwarded"]
              /\ Stop(p)
           \/ /\ ~SkipsForward(o)
              /\ UNCHANGED addr
              /\ IF addr[o].status = "deposited" /\ Held(o) # {}
                 THEN \E c \in Held(o) :
                         Go(p, IF c \in Full THEN Work("submit", o, c) ELSE Idle)
                 ELSE Stop(p)
        /\ UNCHANGED <<po, row, recorded, coin, index, faults>>

\* CreateOrder loads order and address anew and takes the first coin the address owns.
\* Coins are listed by object id, which says nothing of their amount.
CreateOrder(p) ==
    LET o == watch[p].order
    IN  /\ At(p, "load")
        /\ \/ /\ SkipsForward(o)
              /\ addr' = [addr EXCEPT ![o].status = "forwarded"]
              /\ Stop(p)
           \/ /\ ~SkipsForward(o)
              /\ UNCHANGED addr
              /\ IF addr[o].status = "deposited" /\ Held(o) # {}
                 THEN \E c \in Held(o) : Go(p, Work("submit", o, c))
                 ELSE Stop(p)
        /\ UNCHANGED <<po, row, recorded, coin, index, faults>>

\* create_order: the coin goes into escrow under a new Gateway order, once.
Escrows(c) == coin[c] = "held" /\ coin' = [coin EXCEPT ![c] = "escrow"]

ForwardReturns(p) ==
    /\ At(p, "submit")
    /\ Escrows(watch[p].coin)
    /\ Go(p, [watch[p] EXCEPT !.at = "persist"])
    /\ UNCHANGED <<db, index, faults>>

\* No sponsor, an abort, or a coin that was spent already.
ForwardFails(p) ==
    /\ At(p, "submit")
    /\ Stop(p)
    /\ UNCHANGED <<db, coin, index, faults>>

\* The transaction took effect and its answer was lost: the address stays deposited.
ForwardUnanswered(p) ==
    /\ At(p, "submit")
    /\ Escrows(watch[p].coin)
    /\ Fault /\ Stop(p)
    /\ UNCHANGED <<db, index>>

PersistForwarded(p) ==
    /\ At(p, "persist")
    /\ \/ /\ addr' = [addr EXCEPT ![watch[p].order] =
                        [ status |-> "forwarded", digest |-> watch[p].coin ]]
          /\ UNCHANGED faults
       \/ Fault /\ UNCHANGED addr
    /\ Stop(p)
    /\ UNCHANGED <<po, row, recorded, coin, index>>

-----------------------------------------------------------------------------
(* reconcileForwardedRouteA *)

\* Mutant: an order whose gateway id is set is left to the indexer.
FetchUnstamped(p, o) ==
    /\ At(p, "idle")
    /\ addr[o].status = "forwarded" /\ addr[o].digest # Nil
    /\ row[o] = "waiting" /\ po[o].gateway = Nil
    /\ Go(p, Work("look", o, addr[o].digest))
    /\ UNCHANGED <<db, coin, index, faults>>

\* The pass works from address and PaymentOrder as fetched.
FetchForwarded(p, o) ==
    /\ At(p, "idle")
    /\ addr[o].status = "forwarded" /\ addr[o].digest # Nil
    /\ row[o] = "waiting"
    /\ Go(p, IF po[o].gateway = Nil THEN Work("look", o, addr[o].digest)
             ELSE Work("settle", o, po[o].gateway))
    /\ UNCHANGED <<db, coin, index, faults>>

\* The gateway id is read from the forward transaction's events and written.
LookUpGateway(p) ==
    /\ At(p, "look")
    /\ \/ /\ po' = [po EXCEPT ![watch[p].order].gateway = watch[p].coin]
          /\ Go(p, [watch[p] EXCEPT !.at = "settle"])
          /\ UNCHANGED faults
       \/ Fault /\ Stop(p) /\ UNCHANGED po
    /\ UNCHANGED <<addr, row, recorded, coin, index>>

\* settle_order for the whole escrow, to the aggregator's own wallet.
ComesHome(c) == coin[c] = "escrow" /\ coin' = [coin EXCEPT ![c] = "home"]

SelfSettle(p) ==
    /\ At(p, "settle") /\ watch[p].order \notin recorded
    /\ ComesHome(watch[p].coin)
    /\ Go(p, [watch[p] EXCEPT !.at = "record"])
    /\ UNCHANGED <<db, index, faults>>

\* Already on record, or the call fails, as it does on an escrow that was settled before.
SelfSettleEnds(p) ==
    /\ At(p, "settle")
    /\ Stop(p)
    /\ UNCHANGED <<db, coin, index, faults>>

\* It took effect and its answer was lost.
SelfSettleUnanswered(p) ==
    /\ At(p, "settle") /\ watch[p].order \notin recorded
    /\ ComesHome(watch[p].coin)
    /\ Fault /\ Stop(p)
    /\ UNCHANGED <<db, index>>

\* LogOnce; a write that fails is only logged.
RecordSelfSettle(p) ==
    /\ At(p, "record")
    /\ \/ recorded' = recorded \cup {watch[p].order} /\ UNCHANGED faults
       \/ Fault /\ UNCHANGED recorded
    /\ Stop(p)
    /\ UNCHANGED <<addr, po, row, coin, index>>

-----------------------------------------------------------------------------
(* The event indexer.  The subscription is live only: an event reaches a handler any    *)
(* number of times or never.                                                            *)

\* handleOrderCreated finds the PaymentOrder by the reference in the message.
OrderCreated(c) ==
    /\ coin[c] \in {"escrow", "home"}
    /\ index = Idle
    /\ index' = Work("settle", For[c], c)
    /\ UNCHANGED <<db, coin, watch, faults>>

\* Mutant: the outcome of the call is not looked at before it is recorded.
IndexSelfSettleBlind ==
    /\ index.at = "settle"
    /\ ComesHome(index.coin) \/ UNCHANGED coin
    /\ index' = [index EXCEPT !.at = "record"]
    /\ UNCHANGED <<db, watch, faults>>

IndexSelfSettle ==
    /\ index.at = "settle"
    /\ \/ /\ ComesHome(index.coin)
          /\ \/ index' = [index EXCEPT !.at = "record"] /\ UNCHANGED faults
             \/ Fault /\ index' = Idle
       \/ index' = Idle /\ UNCHANGED <<coin, faults>>
    /\ UNCHANGED <<db, watch>>

IndexRecord ==
    /\ index.at = "record"
    /\ \/ recorded' = recorded \cup {index.order} /\ UNCHANGED faults
       \/ Fault /\ UNCHANGED recorded
    /\ index' = [index EXCEPT !.at = "stamp"]
    /\ UNCHANGED <<addr, po, row, coin, watch>>

\* GatewayID and TxHash, only now.
IndexStamp ==
    /\ index.at = "stamp"
    /\ \/ po' = [po EXCEPT ![index.order].gateway = index.coin] /\ UNCHANGED faults
       \/ Fault /\ UNCHANGED po
    /\ index' = Idle
    /\ UNCHANGED <<addr, row, recorded, coin, watch>>

\* updateOrderStatusSettled: the PaymentOrder that carries the event's id, if one does by
\* now, becomes settled whatever it was.
OrderSettled(c) ==
    /\ coin[c] = "home"
    /\ \E o \in Orders :
          /\ po[o].gateway = c
          /\ po' = [po EXCEPT ![o].status = "settled"]
    /\ UNCHANGED <<addr, row, recorded, coin, watch, index, faults>>

-----------------------------------------------------------------------------
(* The other writers of the rows *)

\* Mutant: the status is not one of the schema's.
EndPaymentMisspelt(o) ==
    /\ po[o].status # "over"
    /\ po' = [po EXCEPT ![o].status = "canceled"]
    /\ UNCHANGED <<addr, row, recorded, coin, watch, index, faults>>

\* The admin's RefundOrder, from any status, and the sender's CancelOrder, which reads the
\* order as active and later writes cancelled without a guard: as every order was active
\* once, such a request may be about to write at any time.
EndPayment(o) ==
    /\ po[o].status # "over"
    /\ po' = [po EXCEPT ![o].status = "over"]
    /\ UNCHANGED <<addr, row, recorded, coin, watch, index, faults>>

\* The dispatcher's side, in full in RouteABridge and RouteADispatch.  It may claim the
\* order at any time, as the wallet is pooled, and Tick fails an old one at any time; in
\* the end it settles row and PaymentOrder or has them refunded.
Dispatch(o) ==
    \/ row[o] = "waiting" /\ row' = [row EXCEPT ![o] = "taken"] /\ UNCHANGED po
    \/ /\ row[o] = "taken"
       /\ \/ row' = [row EXCEPT ![o] = "settled"] /\ po' = [po EXCEPT ![o].status = "settled"]
          \/ po' = [po EXCEPT ![o].status = "over"] /\ UNCHANGED row
    /\ UNCHANGED <<addr, recorded, coin, watch, index, faults>>

CrashPass(p) ==
    /\ watch[p] # Idle
    /\ Fault /\ Stop(p)
    /\ UNCHANGED <<db, coin, index>>

CrashIndexer ==
    /\ index # Idle
    /\ Fault /\ index' = Idle
    /\ UNCHANGED <<db, coin, watch>>

-----------------------------------------------------------------------------

\* What a pass does once it has fetched an address.
Advance(p) ==
    \/ MarkDeposited(p) \/ CreateOrder(p)
    \/ ForwardReturns(p) \/ ForwardFails(p) \/ ForwardUnanswered(p) \/ PersistForwarded(p)
    \/ LookUpGateway(p) \/ SelfSettle(p) \/ SelfSettleEnds(p) \/ SelfSettleUnanswered(p)
    \/ RecordSelfSettle(p)

Fetches(p, o) == Detect(p, o) \/ FetchDeposited(p, o) \/ FetchForwarded(p, o)

Index ==
    \/ \E c \in Coins : OrderCreated(c) \/ OrderSettled(c)
    \/ IndexSelfSettle \/ IndexRecord \/ IndexStamp \/ CrashIndexer

Address(o) == ExpireStale(o) \/ ExtendAddress(o)

Next ==
    \/ \E p \in Passes : Advance(p) \/ CrashPass(p) \/ \E o \in Orders : Fetches(p, o)
    \/ Index
    \/ \E c \in Coins : Send(c)
    \/ \E o \in Orders : Address(o) \/ EndPayment(o) \/ Dispatch(o)

Spec == Init /\ [][Next]_vars

\* The cron starts passes for ever and each ends; a deposited or forwarded address is
\* fetched again and again, and a transaction that can take effect does not fail for ever.
\* Nothing is assumed of the events, the customer, the dispatcher or the operators.
Fairness ==
    /\ \A p \in Passes : WF_vars(Advance(p))
    /\ SF_vars(\E p \in Passes : ForwardReturns(p))
    /\ SF_vars(\E p \in Passes : SelfSettle(p))
    /\ \A o \in Orders : /\ SF_vars(\E p \in Passes : FetchDeposited(p, o))
                         /\ SF_vars(\E p \in Passes : FetchForwarded(p, o))

FairSpec == Spec /\ Fairness

-----------------------------------------------------------------------------
(* Properties *)

\* Every variable keeps its type (sui_receive_addresses, payment_orders, route_a_orders).
TypeOK ==
    /\ addr \in [Orders -> AddrRec]
    /\ po \in [Orders -> OrderRec]
    /\ row \in [Orders -> Rows]
    /\ recorded \subseteq Orders
    /\ coin \in [Coins -> Places]
    /\ watch \in [Passes -> WorkRec]
    /\ index \in WorkRec
    /\ faults \in Nat

Left(o, c) == For[c] = o /\ coin[c] \in {"escrow", "home"}

\* What is on record of coins is so, whichever of reconciler and indexer wrote it, retried,
\* raced or cut short.  A self_settle event has a coin of its order in the aggregator wallet,
\* as RouteABridge takes for granted; a forward's digest and a Gateway id name a coin that left
\* the receive address of that order, which is then never unused or expired again
\* (handleRouteAIfApplicable, reconcileForwardedRouteA, CreateOrder's recovery).
RecordsAreTrue ==
    /\ \A o \in recorded : Home(o)
    /\ \A o \in Orders :
          /\ addr[o].digest # Nil => /\ Left(o, addr[o].digest)
                                     /\ addr[o].status \in {"deposited", "forwarded"}
          /\ po[o].gateway # Nil => Left(o, po[o].gateway)

\* A deposit that was forwarded gets to the aggregator wallet though every event be lost,
\* unless its row stops waiting for it (reconcileForwardedRouteA).
ForwardedComesHome ==
    \A o \in Orders : addr[o].digest # Nil ~> Home(o) \/ row[o] # "waiting"

\* A deposit that was detected is forwarded, through crashes and expiry: it leaves the
\* receive address, or its PaymentOrder turns out to be over (forwardDeposits).
DetectedIsForwarded ==
    \A o \in Orders :
        addr[o].status = "deposited" ~>
            \/ \E c \in Coins : For[c] = o /\ coin[c] \in {"escrow", "home"}
            \/ addr[o].status = "forwarded" /\ Terminal(o)

\* An address whose forward transaction is on record always comes back to forwarded,
\* whatever a pass that had read it as unused writes late (CreateOrder's recovery).
ForwardIsFinal ==
    \A o \in Orders : addr[o].digest # Nil ~> addr[o].status = "forwarded"

=============================================================================
