---------------------------- MODULE GatewayOrder ----------------------------
(***************************************************************************)
(* The Sui Move gateway: the shared Gateway object (config.move) and the   *)
(* escrowed orders (order.move).  A Move entry function either commits all *)
(* its effects or aborts with none, so each is one action and every        *)
(* assert!, overflow and division by zero is a guard.                      *)
(***************************************************************************)
EXTENDS Integers

CONSTANTS
    Orders,        \* ids the object table may hold
    Coins,         \* coin types T
    Parties,       \* addresses an AggregatorCap can be sent to
    Treasuries,    \* addresses the treasury can be set to
    Amounts,       \* values of the payment coin tried, 0 among them
    Fees,          \* sender_fee and refund-fee arguments tried
    BpsArgs,       \* arguments of set_protocol_fee, set_max_bps, settle_percent
    MAX_BPS,       \* 10_000 in the code
    MaxU64         \* 2^64 - 1 in the code

ASSUME GatewayAssumption ==
    /\ MAX_BPS \in Nat \ {0}
    /\ MaxU64 \in Nat
    /\ Amounts \subseteq 0 .. MaxU64
    /\ Fees \subseteq 0 .. MaxU64
    /\ BpsArgs \subseteq 0 .. MaxU64
    /\ MAX_BPS <= MaxU64
    /\ Treasuries # {}

VARIABLES
    gw,      \* the Gateway object
    caps,    \* addresses that hold an AggregatorCap
    order,   \* [Orders -> OrderRec], status "absent" before create_order
    paid     \* ghost: what each order has paid out, by role

vars == <<gw, caps, order, paid>>

Statuses == {"PENDING", "SETTLED", "REFUNDED"}

GatewayRec == [ supported : SUBSET Coins, protocol_fee_bps : 0 .. MAX_BPS,
                max_bps : 0 .. MAX_BPS, treasury : Treasuries, paused : BOOLEAN ]

OrderRec == [ status : Statuses \cup {"absent"}, amount : Nat, sender_fee : Nat,
              protocol_fee : Nat, escrow : Nat, settled_lp_amount : Nat ]

PaidRec == [ lp : Nat, sender_fee : Nat, protocol_fee : Nat,
             refund : Nat, refund_fee : Nat ]

NoOrder == [ status |-> "absent", amount |-> 0, sender_fee |-> 0,
             protocol_fee |-> 0, escrow |-> 0, settled_lp_amount |-> 0 ]

NothingPaid == [ lp |-> 0, sender_fee |-> 0, protocol_fee |-> 0,
                 refund |-> 0, refund_fee |-> 0 ]

\* A Move u64 operation aborts when its result does not fit.
Fits(n) == n <= MaxU64

\* (amount * bps) / base, as Move evaluates it: the product may overflow and the
\* base may be zero, and either aborts the transaction.
BpsDefined(amount, bps, base) == base > 0 /\ Fits(amount * bps)
\* Mutant: divides first, as one would to avoid the overflow.
BpsShareDivFirst(amount, bps, base) == (amount \div base) * bps

BpsShare(amount, bps, base) == (amount * bps) \div base

\* What is left of an order for the liquidity provider once both fees are set aside.
Distributable(o) == order[o].amount - order[o].protocol_fee - order[o].sender_fee

TotalPaid(o) == paid[o].lp + paid[o].sender_fee + paid[o].protocol_fee
                + paid[o].refund + paid[o].refund_fee

-----------------------------------------------------------------------------
(* config.move *)

Init ==
    /\ gw \in { g \in GatewayRec : /\ g.supported = {}
                                   /\ g.protocol_fee_bps = 0
                                   /\ g.max_bps = MAX_BPS
                                   /\ ~g.paused }
    /\ caps = {}
    /\ order = [o \in Orders |-> NoOrder]
    /\ paid = [o \in Orders |-> NothingPaid]

AddSupportedCoin(c) ==
    /\ c \notin gw.supported    \* VecSet.insert aborts on a key it holds
    /\ gw' = [gw EXCEPT !.supported = @ \cup {c}]
    /\ UNCHANGED <<caps, order, paid>>

RemoveSupportedCoin(c) ==
    /\ c \in gw.supported       \* VecSet.remove aborts on a key it lacks
    /\ gw' = [gw EXCEPT !.supported = @ \ {c}]
    /\ UNCHANGED <<caps, order, paid>>

\* Mutant: the MAX_BPS assertion is gone.
SetProtocolFeeUnbounded(bps) ==
    /\ gw' = [gw EXCEPT !.protocol_fee_bps = bps]
    /\ UNCHANGED <<caps, order, paid>>

SetProtocolFee(bps) ==
    /\ bps <= MAX_BPS
    /\ gw' = [gw EXCEPT !.protocol_fee_bps = bps]
    /\ UNCHANGED <<caps, order, paid>>

SetMaxBps(bps) ==
    /\ bps <= MAX_BPS
    /\ gw' = [gw EXCEPT !.max_bps = bps]
    /\ UNCHANGED <<caps, order, paid>>

SetTreasury(t) ==
    /\ gw' = [gw EXCEPT !.treasury = t]
    /\ UNCHANGED <<caps, order, paid>>

SetPaused(p) ==
    /\ gw' = [gw EXCEPT !.paused = p]
    /\ UNCHANGED <<caps, order, paid>>

MintAggregatorCap(p) ==
    /\ caps' = caps \cup {p}
    /\ UNCHANGED <<gw, order, paid>>

-----------------------------------------------------------------------------
(* order.move *)

CreateOrder(o, c, amount, sender_fee) ==
    LET protocol_fee == BpsShare(amount, gw.protocol_fee_bps, gw.max_bps)
    IN  /\ order[o].status = "absent"
        /\ ~gw.paused
        /\ c \in gw.supported
        /\ amount > 0
        /\ BpsDefined(amount, gw.protocol_fee_bps, gw.max_bps)
        /\ Fits(sender_fee + protocol_fee)
        /\ sender_fee + protocol_fee < amount
        /\ order' = [order EXCEPT ![o] =
               [ status |-> "PENDING", amount |-> amount, sender_fee |-> sender_fee,
                 protocol_fee |-> protocol_fee, escrow |-> amount,
                 settled_lp_amount |-> 0 ]]
        /\ UNCHANGED <<gw, caps, paid>>

\* The lp share of a settle_order call; `last` is the branch that pays the fees
\* out and closes the order.
SettleOrder(o, p, percent) ==
    LET lp   == BpsShare(Distributable(o), percent, gw.max_bps)
        last == order[o].settled_lp_amount + lp = Distributable(o)
        sfee == IF last THEN order[o].sender_fee ELSE 0
        pfee == IF last THEN order[o].protocol_fee ELSE 0
    IN  /\ p \in caps
        /\ order[o].status = "PENDING"
        /\ percent <= gw.max_bps
        /\ BpsDefined(Distributable(o), percent, gw.max_bps)
        /\ Fits(order[o].settled_lp_amount + lp)
        /\ order[o].settled_lp_amount + lp <= Distributable(o)
        /\ lp + sfee + pfee <= order[o].escrow      \* Balance.split aborts beyond it
        /\ order' = [order EXCEPT ![o].escrow = @ - lp - sfee - pfee,
                                  ![o].settled_lp_amount = @ + lp,
                                  ![o].status = IF last THEN "SETTLED" ELSE @]
        /\ paid' = [paid EXCEPT ![o].lp = @ + lp,
                                ![o].sender_fee = @ + sfee,
                                ![o].protocol_fee = @ + pfee]
        /\ UNCHANGED <<gw, caps>>

\* Mutant: the fee is split off but never transferred.
RefundOrderKeepsFee(o, p, fee) ==
    /\ p \in caps
    /\ order[o].status = "PENDING"
    /\ fee <= order[o].escrow
    /\ order' = [order EXCEPT ![o].escrow = fee, ![o].status = "REFUNDED"]
    /\ paid' = [paid EXCEPT ![o].refund = @ + (order[o].escrow - fee)]
    /\ UNCHANGED <<gw, caps>>

RefundOrder(o, p, fee) ==
    /\ p \in caps
    /\ order[o].status = "PENDING"
    /\ fee <= order[o].escrow
    /\ order' = [order EXCEPT ![o].escrow = 0, ![o].status = "REFUNDED"]
    /\ paid' = [paid EXCEPT ![o].refund_fee = @ + fee,
                            ![o].refund = @ + (order[o].escrow - fee)]
    /\ UNCHANGED <<gw, caps>>

-----------------------------------------------------------------------------

Admin ==
    \/ \E c \in Coins : AddSupportedCoin(c) \/ RemoveSupportedCoin(c)
    \/ \E bps \in BpsArgs : SetProtocolFee(bps) \/ SetMaxBps(bps)
    \/ \E t \in Treasuries : SetTreasury(t)
    \/ \E p \in BOOLEAN : SetPaused(p)
    \/ \E p \in Parties : MintAggregatorCap(p)

Next ==
    \/ Admin
    \/ \E o \in Orders :
        \/ \E c \in Coins, amount \in Amounts, fee \in Fees : CreateOrder(o, c, amount, fee)
        \/ \E p \in Parties, percent \in BpsArgs : SettleOrder(o, p, percent)
        \/ \E p \in Parties, fee \in Fees : RefundOrder(o, p, fee)

Spec == Init /\ [][Next]_vars

-----------------------------------------------------------------------------
(* Properties *)

\* Every variable keeps its type; in particular the fees the admin sets never
\* exceed MAX_BPS and no escrow goes negative (order.move Order, config.move Gateway).
TypeOK ==
    /\ gw \in GatewayRec
    /\ caps \subseteq Parties
    /\ order \in [Orders -> OrderRec]
    /\ paid \in [Orders -> PaidRec]

\* Coins are neither made nor lost: at every moment what an order holds and what
\* settle_order and refund_order have paid out add up to what create_order took,
\* however partial settlements, fee changes and max_bps changes interleave.
Conservation ==
    \A o \in Orders : order[o].escrow + TotalPaid(o) = order[o].amount

\* The fees leave an order only with the settlement that completes the provider's
\* share, both in full; a refund after partial settlements pays no fee to anybody
\* (settle_order's closing branch, refund_order's single withdraw_all).
FeesFollowTheProvider ==
    \A o \in Orders :
        IF order[o].status = "SETTLED"
        THEN /\ paid[o].lp = Distributable(o)
             /\ paid[o].sender_fee = order[o].sender_fee
             /\ paid[o].protocol_fee = order[o].protocol_fee
        ELSE paid[o].sender_fee = 0 /\ paid[o].protocol_fee = 0

\* A closed order has nothing left in it (no function could ever pay it out), and an
\* open one can always pay both fees and the rest of the provider's share, so the
\* Balance.split calls of settle_order never abort.
NothingStranded ==
    \A o \in Orders :
        /\ order[o].status \in {"SETTLED", "REFUNDED"} => order[o].escrow = 0
        /\ order[o].status = "PENDING" =>
             /\ order[o].settled_lp_amount <= Distributable(o)
             /\ order[o].escrow = (Distributable(o) - order[o].settled_lp_amount)
                                  + order[o].sender_fee + order[o].protocol_fee

\* The aggregator always settles with settle_percent = 10_000 and takes the
\* OrderSettled event for the end of the order (services/order/sui.go,
\* sui_event_indexer.go).  A settle_order with that percentage that does not abort
\* closes the order, whatever max_bps the admin has set and whatever was settled before.
FullPercentCloses ==
    [][ \A o \in Orders, p \in Parties :
            SettleOrder(o, p, MAX_BPS) => order'[o].status = "SETTLED" ]_vars

\* An order is a vault: create_order opens it, a partial settle_order releases from
\* it, the last settle_order and refund_order close and empty it for good.
OrderVault == INSTANCE Vault WITH
    Ids      <- Orders,
    phase    <- [o \in Orders |-> CASE order[o].status = "absent" -> "absent"
                                    [] order[o].status = "PENDING" -> "open"
                                    [] OTHER -> "closed"],
    held     <- [o \in Orders |-> order[o].escrow],
    received <- [o \in Orders |-> order[o].amount],
    released <- [o \in Orders |-> TotalPaid(o)]

ImplementsVault == OrderVault!Spec

=============================================================================
