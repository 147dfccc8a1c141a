------------------------- MODULE GatewayOrderProofs -------------------------
(***************************************************************************)
(* Proofs about GatewayOrder, for every set of orders, every amount, fee   *)
(* and basis-point argument, and every width of the integers.              *)
(***************************************************************************)
EXTENDS GatewayOrder, TLAPS

LEMMA ShareNat ==
    ASSUME NEW a \in Nat, NEW b \in Nat, NEW m \in Nat, m > 0
    PROVE  BpsShare(a, b, m) \in Nat
<1>1. a * b \in Nat
  OBVIOUS
<1> DEFINE n == a * b
<1>2. n \in Nat
  BY <1>1
<1> HIDE DEF n
<1>3. n \div m \in Nat
  BY <1>2
<1>4. QED
  BY <1>3 DEF n, BpsShare

LEMMA FullShare ==
    ASSUME NEW a \in Nat, NEW m \in Nat, m > 0
    PROVE  BpsShare(a, m, m) = a
  BY DEF BpsShare

-----------------------------------------------------------------------------
(***************************************************************************)
(* The inductive invariant: what each status says about the escrow and     *)
(* about what has been paid.  Conservation alone is not inductive: that    *)
(* the closing settlement empties the escrow needs the exact account of a  *)
(* PENDING order and the fees being smaller than the amount.               *)
(***************************************************************************)
FeesFit(o) == order[o].sender_fee + order[o].protocol_fee < order[o].amount

FeesUnpaid(o) == paid[o].sender_fee = 0 /\ paid[o].protocol_fee = 0

NoRefund(o) == paid[o].refund = 0 /\ paid[o].refund_fee = 0

Account(o) ==
    /\ order[o].status = "absent" =>
           order[o] = NoOrder /\ paid[o] = NothingPaid
    /\ order[o].status = "PENDING" =>
           /\ FeesFit(o) /\ FeesUnpaid(o) /\ NoRefund(o)
           /\ paid[o].lp = order[o].settled_lp_amount
           /\ order[o].settled_lp_amount <= Distributable(o)
           /\ order[o].escrow = order[o].amount - order[o].settled_lp_amount
    /\ order[o].status = "SETTLED" =>
           /\ FeesFit(o) /\ NoRefund(o)
           /\ order[o].escrow = 0
           /\ paid[o].lp = Distributable(o)
           /\ paid[o].sender_fee = order[o].sender_fee
           /\ paid[o].protocol_fee = order[o].protocol_fee
    /\ order[o].status = "REFUNDED" =>
           /\ FeesFit(o) /\ FeesUnpaid(o)
           /\ order[o].escrow = 0
           /\ paid[o].lp + paid[o].refund + paid[o].refund_fee = order[o].amount

IInv == TypeOK /\ \A o \in Orders : Account(o)

-----------------------------------------------------------------------------

LEMMA InitIInv == Init => IInv
<1> SUFFICES ASSUME Init PROVE IInv
  OBVIOUS
<1>1. NoOrder \in OrderRec /\ NothingPaid \in PaidRec
  BY DEF NoOrder, OrderRec, NothingPaid, PaidRec
<1>2. TypeOK
  BY <1>1 DEF Init, TypeOK
<1>3. ASSUME NEW o \in Orders PROVE Account(o)
  BY DEF Init, Account, NoOrder
<1>4. QED
  BY <1>2, <1>3 DEF IInv

\* The admin entries touch the Gateway object and the caps only.
LEMMA AdminIInv ==
    ASSUME IInv, Admin
    PROVE  IInv' /\ UNCHANGED <<order, paid>>
<1> USE GatewayAssumption
<1>1. UNCHANGED <<order, paid>>
  BY DEF Admin, AddSupportedCoin, RemoveSupportedCoin, SetProtocolFee, SetMaxBps,
         SetTreasury, SetPaused, MintAggregatorCap
<1>2. gw' \in GatewayRec /\ caps' \subseteq Parties
  <2>1. gw \in GatewayRec /\ caps \subseteq Parties
    BY DEF IInv, TypeOK
  <2>2. CASE \E c \in Coins : AddSupportedCoin(c) \/ RemoveSupportedCoin(c)
    BY <2>1, <2>2 DEF AddSupportedCoin, RemoveSupportedCoin, GatewayRec
  <2>3. CASE \E bps \in BpsArgs : SetProtocolFee(bps) \/ SetMaxBps(bps)
    <3>1. \A bps \in BpsArgs : bps <= MAX_BPS => bps \in 0 .. MAX_BPS
      OBVIOUS
    <3>2. QED
      BY <2>1, <2>3, <3>1 DEF SetProtocolFee, SetMaxBps, GatewayRec
  <2>4. CASE \E t \in Treasuries : SetTreasury(t)
    BY <2>1, <2>4 DEF SetTreasury, GatewayRec
  <2>5. CASE \E p \in BOOLEAN : SetPaused(p)
    BY <2>1, <2>5 DEF SetPaused, GatewayRec
  <2>6. CASE \E p \in Parties : MintAggregatorCap(p)
    BY <2>1, <2>6 DEF MintAggregatorCap
  <2>7. QED
    BY <2>2, <2>3, <2>4, <2>5, <2>6 DEF Admin
<1>3. TypeOK'
  BY <1>1, <1>2 DEF IInv, TypeOK
<1>4. ASSUME NEW o \in Orders PROVE Account(o)'
  BY <1>1 DEF IInv, Account, FeesFit, FeesUnpaid, NoRefund, Distributable
<1>5. QED
  BY <1>1, <1>3, <1>4 DEF IInv

\* What an order that is not touched keeps.
LEMMA OtherOrders ==
    ASSUME NEW o \in Orders, NEW q \in Orders, Account(q),
           order'[q] = order[q], paid'[q] = paid[q]
    PROVE  Account(q)'
  BY DEF Account, FeesFit, FeesUnpaid, NoRefund, Distributable

LEMMA CreateIInv ==
    ASSUME IInv, NEW o \in Orders, NEW c \in Coins, NEW amount \in Amounts,
           NEW fee \in Fees, CreateOrder(o, c, amount, fee)
    PROVE  IInv'
<1> USE GatewayAssumption
<1> DEFINE pfee == BpsShare(amount, gw.protocol_fee_bps, gw.max_bps)
<1>1. amount \in Nat /\ fee \in Nat
  OBVIOUS
<1>2. gw.protocol_fee_bps \in Nat /\ gw.max_bps \in Nat /\ gw.max_bps > 0
  BY DEF IInv, TypeOK, GatewayRec, CreateOrder, BpsDefined
<1>3. pfee \in Nat
  BY <1>1, <1>2, ShareNat
<1>4. /\ order[o].status = "absent"
      /\ fee + pfee < amount
      /\ order' = [order EXCEPT ![o] =
             [ status |-> "PENDING", amount |-> amount, sender_fee |-> fee,
               protocol_fee |-> pfee, escrow |-> amount, settled_lp_amount |-> 0 ]]
      /\ UNCHANGED <<gw, caps, paid>>
  BY DEF CreateOrder
<1> HIDE DEF pfee
<1>5. TypeOK'
  BY <1>1, <1>3, <1>4 DEF IInv, TypeOK, OrderRec, Statuses
<1>6. paid[o] = NothingPaid
  BY <1>4 DEF IInv, Account
<1>7. Account(o)'
  BY <1>1, <1>3, <1>4, <1>6 DEF IInv, TypeOK, Account, FeesFit, FeesUnpaid, NoRefund,
     Distributable, NothingPaid
<1>8. ASSUME NEW q \in Orders, q # o PROVE Account(q)'
  BY <1>4, <1>8, OtherOrders DEF IInv, TypeOK
<1>9. QED
  BY <1>5, <1>7, <1>8 DEF IInv

\* What a settle_order does, with the share and the fees as plain numbers.
SettleBy(o, percent, lp, sfee, pfee) ==
    LET last == order[o].settled_lp_amount + lp = Distributable(o)
    IN  /\ order[o].status = "PENDING"
        /\ lp = BpsShare(Distributable(o), percent, gw.max_bps)
        /\ order[o].settled_lp_amount + lp <= Distributable(o)
        /\ sfee = IF last THEN order[o].sender_fee ELSE 0
        /\ pfee = IF last THEN order[o].protocol_fee ELSE 0
        /\ order' = [order EXCEPT ![o].escrow = @ - lp - sfee - pfee,
                                  ![o].settled_lp_amount = @ + lp,
                                  ![o].status = IF last THEN "SETTLED" ELSE @]
        /\ paid' = [paid EXCEPT ![o].lp = @ + lp,
                                ![o].sender_fee = @ + sfee,
                                ![o].protocol_fee = @ + pfee]

LEMMA SettleEffect ==
    ASSUME IInv, NEW o \in Orders, NEW p \in Parties, NEW percent \in Nat,
           SettleOrder(o, p, percent)
    PROVE  \E lp, sfee, pfee \in Nat : SettleBy(o, percent, lp, sfee, pfee)
<1> USE GatewayAssumption
<1> DEFINE lp   == BpsShare(Distributable(o), percent, gw.max_bps)
           last == order[o].settled_lp_amount + lp = Distributable(o)
           sfee == IF last THEN order[o].sender_fee ELSE 0
           pfee == IF last THEN order[o].protocol_fee ELSE 0
<1>1. order[o].status = "PENDING" /\ order[o] \in OrderRec
  BY DEF IInv, TypeOK, SettleOrder
<1>2. Distributable(o) \in Nat
  BY <1>1 DEF IInv, Account, Distributable, FeesFit, OrderRec
<1>3. gw.max_bps \in Nat /\ gw.max_bps > 0
  BY DEF IInv, TypeOK, GatewayRec, SettleOrder, BpsDefined
<1>4. lp \in Nat
  BY <1>2, <1>3, ShareNat
<1>5. sfee \in Nat /\ pfee \in Nat
  BY <1>1 DEF OrderRec
<1>6. /\ order[o].settled_lp_amount + lp <= Distributable(o)
      /\ order' = [order EXCEPT ![o].escrow = @ - lp - sfee - pfee,
                                ![o].settled_lp_amount = @ + lp,
                                ![o].status = IF last THEN "SETTLED" ELSE @]
      /\ paid' = [paid EXCEPT ![o].lp = @ + lp,
                              ![o].sender_fee = @ + sfee,
                              ![o].protocol_fee = @ + pfee]
  BY DEF SettleOrder
<1> HIDE DEF lp, sfee, pfee
<1>7. SettleBy(o, percent, lp, sfee, pfee)
  BY <1>1, <1>6 DEF SettleBy, lp, sfee, pfee
<1>8. QED
  BY <1>4, <1>5, <1>7

LEMMA SettleIInv ==
    ASSUME IInv, NEW o \in Orders, NEW p \in Parties, NEW percent \in BpsArgs,
           SettleOrder(o, p, percent)
    PROVE  IInv'
<1> USE GatewayAssumption
<1>1. percent \in Nat
  OBVIOUS
<1>2. PICK lp \in Nat, sfee \in Nat, pfee \in Nat : SettleBy(o, percent, lp, sfee, pfee)
  BY <1>1, SettleEffect
<1>3. /\ order[o] \in OrderRec /\ paid[o] \in PaidRec
      /\ FeesFit(o) /\ FeesUnpaid(o) /\ NoRefund(o)
      /\ paid[o].lp = order[o].settled_lp_amount
      /\ order[o].escrow = order[o].amount - order[o].settled_lp_amount
  BY <1>2 DEF SettleBy, IInv, TypeOK, Account
<1>4. lp + sfee + pfee <= order[o].escrow
  BY <1>2, <1>3 DEF SettleBy, FeesFit, Distributable, OrderRec
<1>5. order'[o] \in OrderRec /\ paid'[o] \in PaidRec
  <2>1. order'[o] = [order[o] EXCEPT !.escrow = @ - lp - sfee - pfee,
                      !.settled_lp_amount = @ + lp,
                      !.status = IF order[o].settled_lp_amount + lp = Distributable(o)
                                 THEN "SETTLED" ELSE @]
    BY <1>2 DEF SettleBy, IInv, TypeOK
  <2>2. order[o].escrow - lp - sfee - pfee \in Nat
    BY <1>3, <1>4 DEF OrderRec
  <2>3. paid'[o] = [paid[o] EXCEPT !.lp = @ + lp, !.sender_fee = @ + sfee,
                                   !.protocol_fee = @ + pfee]
    BY <1>2 DEF SettleBy, IInv, TypeOK
  <2>4. QED
    <3>1. paid'[o] \in PaidRec
      <4>1. /\ paid[o].lp + lp \in Nat /\ paid[o].sender_fee + sfee \in Nat
            /\ paid[o].protocol_fee + pfee \in Nat
        BY <1>3 DEF PaidRec
      <4>2. QED
        BY <1>3, <2>3, <4>1 DEF PaidRec
    <3>2. order[o].settled_lp_amount + lp \in Nat
      BY <1>3 DEF OrderRec
    <3>3. order'[o] \in OrderRec
      <4>1. CASE order[o].settled_lp_amount + lp = Distributable(o)
        <5>1. "SETTLED" \in Statuses
          BY DEF Statuses
        <5>2. QED
          BY <1>3, <2>1, <2>2, <3>2, <4>1, <5>1 DEF OrderRec
      <4>2. CASE order[o].settled_lp_amount + lp # Distributable(o)
        <5>1. order[o].status \in Statuses
          BY <1>2 DEF SettleBy, Statuses
        <5>2. QED
          BY <1>3, <2>1, <2>2, <3>2, <4>2, <5>1 DEF OrderRec
      <4>3. QED
        BY <4>1, <4>2
    <3>4. QED
      BY <3>1, <3>3
<1>6. TypeOK'
  <2>1. UNCHANGED <<gw, caps>>
    BY DEF SettleOrder
  <2>2. order' \in [Orders -> OrderRec] /\ paid' \in [Orders -> PaidRec]
    BY <1>2, <1>5 DEF SettleBy, IInv, TypeOK
  <2>3. QED
    BY <2>1, <2>2 DEF IInv, TypeOK
<1>7. Account(o)'
  <2>1. CASE order[o].settled_lp_amount + lp = Distributable(o)
    <3>1. /\ order'[o].status = "SETTLED"
          /\ order'[o].escrow = order[o].escrow - lp - order[o].sender_fee
                                - order[o].protocol_fee
          /\ order'[o].amount = order[o].amount
          /\ order'[o].sender_fee = order[o].sender_fee
          /\ order'[o].protocol_fee = order[o].protocol_fee
          /\ paid'[o].lp = paid[o].lp + lp
          /\ paid'[o].sender_fee = paid[o].sender_fee + order[o].sender_fee
          /\ paid'[o].protocol_fee = paid[o].protocol_fee + order[o].protocol_fee
          /\ paid'[o].refund = paid[o].refund /\ paid'[o].refund_fee = paid[o].refund_fee
      BY <1>2, <2>1 DEF SettleBy, IInv, TypeOK, OrderRec, PaidRec
    <3>2. QED
      BY <1>3, <2>1, <3>1 DEF Account, FeesFit, FeesUnpaid, NoRefund, Distributable,
         OrderRec, PaidRec
  <2>2. CASE order[o].settled_lp_amount + lp # Distributable(o)
    <3>1. /\ order'[o].status = "PENDING"
          /\ order'[o].escrow = order[o].escrow - lp
          /\ order'[o].settled_lp_amount = order[o].settled_lp_amount + lp
          /\ order'[o].amount = order[o].amount
          /\ order'[o].sender_fee = order[o].sender_fee
          /\ order'[o].protocol_fee = order[o].protocol_fee
          /\ paid'[o].lp = paid[o].lp + lp
          /\ paid'[o].sender_fee = paid[o].sender_fee
          /\ paid'[o].protocol_fee = paid[o].protocol_fee
          /\ paid'[o].refund = paid[o].refund /\ paid'[o].refund_fee = paid[o].refund_fee
      BY <1>2, <1>3, <2>2 DEF SettleBy, IInv, TypeOK, OrderRec, PaidRec
    <3>2. order[o].settled_lp_amount + lp <= Distributable(o)
      BY <1>2 DEF SettleBy
    <3>3. QED
      BY <1>3, <3>1, <3>2 DEF Account, FeesFit, FeesUnpaid, NoRefund, Distributable,
         OrderRec, PaidRec
  <2>3. QED
    BY <2>1, <2>2
<1>8. ASSUME NEW q \in Orders, q # o PROVE Account(q)'
  BY <1>2, <1>8, OtherOrders DEF SettleBy, IInv, TypeOK
<1>9. QED
  BY <1>6, <1>7, <1>8 DEF IInv

LEMMA RefundIInv ==
    ASSUME IInv, NEW o \in Orders, NEW p \in Parties, NEW fee \in Fees,
           RefundOrder(o, p, fee)
    PROVE  IInv'
<1> USE GatewayAssumption
<1>1. fee \in Nat
  OBVIOUS
<1>2. order[o] \in OrderRec /\ paid[o] \in PaidRec
  BY DEF IInv, TypeOK
<1>3. /\ order[o].status = "PENDING"
      /\ fee <= order[o].escrow
      /\ order' = [order EXCEPT ![o].escrow = 0, ![o].status = "REFUNDED"]
      /\ paid' = [paid EXCEPT ![o].refund_fee = @ + fee,
                              ![o].refund = @ + (order[o].escrow - fee)]
      /\ UNCHANGED <<gw, caps>>
  BY DEF RefundOrder
<1>4. order[o].escrow - fee \in Nat
  BY <1>1, <1>2, <1>3 DEF OrderRec
<1>5. /\ order'[o] = [order[o] EXCEPT !.escrow = 0, !.status = "REFUNDED"]
      /\ paid'[o] = [paid[o] EXCEPT !.refund_fee = @ + fee,
                                    !.refund = @ + (order[o].escrow - fee)]
  BY <1>3 DEF IInv, TypeOK
<1>6. order'[o] \in OrderRec /\ paid'[o] \in PaidRec
  <2>1. "REFUNDED" \in Statuses /\ 0 \in Nat
    BY DEF Statuses
  <2>2. order'[o] \in OrderRec
    BY <1>2, <1>5, <2>1 DEF OrderRec
  <2>3. paid'[o] \in PaidRec
    <3>1. /\ paid[o].refund_fee + fee \in Nat
          /\ paid[o].refund + (order[o].escrow - fee) \in Nat
      BY <1>1, <1>2, <1>4 DEF PaidRec
    <3>2. QED
      BY <1>2, <1>5, <3>1 DEF PaidRec
  <2>4. QED
    BY <2>2, <2>3
<1>7. TypeOK'
  BY <1>3, <1>6 DEF IInv, TypeOK
<1>8. Account(o)'
  <2>1. /\ FeesFit(o) /\ FeesUnpaid(o) /\ NoRefund(o)
        /\ paid[o].lp = order[o].settled_lp_amount
        /\ order[o].escrow = order[o].amount - order[o].settled_lp_amount
    BY <1>3 DEF IInv, Account
  <2>2. /\ order'[o].status = "REFUNDED" /\ order'[o].escrow = 0
        /\ order'[o].amount = order[o].amount
        /\ order'[o].sender_fee = order[o].sender_fee
        /\ order'[o].protocol_fee = order[o].protocol_fee
    BY <1>2, <1>5 DEF OrderRec
  <2>3. /\ paid'[o].refund_fee = paid[o].refund_fee + fee
        /\ paid'[o].refund = paid[o].refund + (order[o].escrow - fee)
        /\ paid'[o].lp = paid[o].lp
        /\ paid'[o].sender_fee = paid[o].sender_fee
        /\ paid'[o].protocol_fee = paid[o].protocol_fee
    BY <1>2, <1>5 DEF PaidRec
  <2>4. paid[o].lp + (order[o].escrow - fee) + fee = order[o].amount
    BY <1>1, <1>2, <2>1 DEF OrderRec, PaidRec
  <2>5. QED
    BY <1>1, <1>2, <1>4, <2>1, <2>2, <2>3, <2>4
       DEF Account, FeesFit, FeesUnpaid, NoRefund, OrderRec, PaidRec
<1>9. ASSUME NEW q \in Orders, q # o PROVE Account(q)'
  BY <1>3, <1>9, OtherOrders DEF IInv, TypeOK
<1>10. QED
  BY <1>7, <1>8, <1>9 DEF IInv

LEMMA StepIInv == IInv /\ [Next]_vars => IInv'
<1> SUFFICES ASSUME IInv, [Next]_vars PROVE IInv'
  OBVIOUS
<1>1. CASE Admin
  BY <1>1, AdminIInv
<1>2. CASE \E o \in Orders, c \in Coins, amount \in Amounts, fee \in Fees :
             CreateOrder(o, c, amount, fee)
  BY <1>2, CreateIInv
<1>3. CASE \E o \in Orders, p \in Parties, percent \in BpsArgs : SettleOrder(o, p, percent)
  BY <1>3, SettleIInv
<1>4. CASE \E o \in Orders, p \in Parties, fee \in Fees : RefundOrder(o, p, fee)
  BY <1>4, RefundIInv
<1>5. CASE UNCHANGED vars
  BY <1>5 DEF vars, IInv, TypeOK, Account, FeesFit, FeesUnpaid, NoRefund, Distributable
<1>6. QED
  BY <1>1, <1>2, <1>3, <1>4, <1>5 DEF Next

LEMMA Invariance == Spec => []IInv
  BY InitIInv, StepIInv, PTL DEF Spec

-----------------------------------------------------------------------------
(* What follows from the invariant. *)

\* The Gateway and every Order keep their types (order.move, config.move).
THEOREM TypeCorrect == Spec => []TypeOK
<1>1. IInv => TypeOK
  BY DEF IInv
<1>2. QED
  BY <1>1, Invariance, PTL

LEMMA AccountConserves ==
    ASSUME TypeOK, NEW o \in Orders, Account(o)
    PROVE  order[o].escrow + TotalPaid(o) = order[o].amount
<1>1. order[o] \in OrderRec /\ paid[o] \in PaidRec
  BY DEF TypeOK
<1>2. order[o].status \in {"absent", "PENDING", "SETTLED", "REFUNDED"}
  BY <1>1 DEF OrderRec, Statuses
<1>3. CASE order[o].status = "absent"
  BY <1>3 DEF Account, NoOrder, NothingPaid, TotalPaid
<1>4. CASE order[o].status = "PENDING"
  BY <1>1, <1>4 DEF Account, TotalPaid, FeesUnpaid, NoRefund, OrderRec, PaidRec
<1>5. CASE order[o].status = "SETTLED"
  BY <1>1, <1>5 DEF Account, TotalPaid, FeesFit, NoRefund, Distributable, OrderRec, PaidRec
<1>6. CASE order[o].status = "REFUNDED"
  BY <1>1, <1>6 DEF Account, TotalPaid, FeesUnpaid, OrderRec, PaidRec
<1>7. QED
  BY <1>2, <1>3, <1>4, <1>5, <1>6

\* No sequence of partial settlements, refunds and admin changes makes or loses a
\* coin of an order (settle_order, refund_order).
THEOREM ConservationHolds == Spec => []Conservation
<1>1. IInv => Conservation
  BY AccountConserves DEF IInv, Conservation
<1>2. QED
  BY <1>1, Invariance, PTL

\* Fees are paid in full by the settlement that completes the provider's share and by
\* nothing else (settle_order's closing branch).
THEOREM FeesFollowHolds == Spec => []FeesFollowTheProvider
<1>1. ASSUME IInv, NEW o \in Orders
      PROVE  IF order[o].status = "SETTLED"
             THEN /\ paid[o].lp = Distributable(o)
                  /\ paid[o].sender_fee = order[o].sender_fee
                  /\ paid[o].protocol_fee = order[o].protocol_fee
             ELSE paid[o].sender_fee = 0 /\ paid[o].protocol_fee = 0
  <2>1. Account(o) /\ order[o].status \in {"absent", "PENDING", "SETTLED", "REFUNDED"}
    BY <1>1 DEF IInv, TypeOK, OrderRec, Statuses
  <2>2. QED
    BY <2>1 DEF Account, FeesUnpaid, NothingPaid
<1>2. IInv => FeesFollowTheProvider
  BY <1>1 DEF FeesFollowTheProvider
<1>3. QED
  BY <1>2, Invariance, PTL

\* A closed order is empty and an open one can pay everything it owes.
THEOREM NothingStrandedHolds == Spec => []NothingStranded
<1>1. ASSUME IInv, NEW o \in Orders, order[o].status = "PENDING"
      PROVE  /\ order[o].settled_lp_amount <= Distributable(o)
             /\ order[o].escrow = (Distributable(o) - order[o].settled_lp_amount)
                                  + order[o].sender_fee + order[o].protocol_fee
  BY <1>1 DEF IInv, TypeOK, Account, Distributable, OrderRec
<1>2. ASSUME IInv, NEW o \in Orders, order[o].status \in {"SETTLED", "REFUNDED"}
      PROVE  order[o].escrow = 0
  BY <1>2 DEF IInv, Account
<1>3. IInv => NothingStranded
  BY <1>1, <1>2 DEF NothingStranded
<1>4. QED
  BY <1>3, Invariance, PTL

\* The aggregator's 10_000 settles in full or not at all.
THEOREM FullPercentClosesHolds == Spec => FullPercentCloses
<1>1. ASSUME IInv, NEW o \in Orders, NEW p \in Parties, SettleOrder(o, p, MAX_BPS)
      PROVE  order'[o].status = "SETTLED"
  <2>1. MAX_BPS \in Nat /\ MAX_BPS > 0
    BY GatewayAssumption
  <2>2. PICK lp \in Nat, sfee \in Nat, pfee \in Nat : SettleBy(o, MAX_BPS, lp, sfee, pfee)
    BY <1>1, <2>1, SettleEffect
  <2>3. gw.max_bps = MAX_BPS
    BY <1>1, <2>1 DEF IInv, TypeOK, GatewayRec, SettleOrder
  <2>4. order[o].status = "PENDING" /\ order[o] \in OrderRec
    BY <1>1, <2>2 DEF IInv, TypeOK, SettleBy
  <2>5. Distributable(o) \in Nat /\ order[o].settled_lp_amount \in Nat
    BY <1>1, <2>4 DEF IInv, Account, Distributable, FeesFit, OrderRec
  <2>6. lp = Distributable(o)
    BY <2>1, <2>2, <2>3, <2>5, FullShare DEF SettleBy
  <2>7. order[o].settled_lp_amount + lp = Distributable(o)
    BY <2>2, <2>5, <2>6 DEF SettleBy
  <2>8. QED
    BY <1>1, <2>2, <2>7 DEF SettleBy, IInv, TypeOK, OrderRec
<1>2. IInv /\ [Next]_vars =>
        [\A o \in Orders, p \in Parties :
            SettleOrder(o, p, MAX_BPS) => order'[o].status = "SETTLED"]_vars
  BY <1>1
<1>3. QED
  BY <1>2, Invariance, PTL DEF Spec, FullPercentCloses

-----------------------------------------------------------------------------
(* The refinement of Vault. *)

LEMMA CreateVault ==
    ASSUME IInv, NEW o \in Orders, NEW c \in Coins, NEW amount \in Amounts,
           NEW fee \in Fees, CreateOrder(o, c, amount, fee)
    PROVE  OrderVault!Open(o, amount)
<1>1. order \in [Orders -> OrderRec] /\ paid \in [Orders -> PaidRec]
  BY DEF IInv, TypeOK
<1>2. /\ order[o].status = "absent"
      /\ order'[o].status = "PENDING" /\ order'[o].escrow = amount
      /\ order'[o].amount = amount
      /\ \A q \in Orders : q # o => order'[q] = order[q]
      /\ paid' = paid
  BY <1>1 DEF CreateOrder
<1>3. \A q \in Orders : TotalPaid(q)' = TotalPaid(q)
  BY <1>2 DEF TotalPaid
<1>4. QED
  BY <1>2, <1>3 DEF OrderVault!Open

LEMMA SettleVault ==
    ASSUME IInv, NEW o \in Orders, NEW p \in Parties, NEW percent \in BpsArgs,
           SettleOrder(o, p, percent)
    PROVE  \/ OrderVault!Close(o)
           \/ \E amount \in 0 .. order[o].escrow : OrderVault!Release(o, amount)
<1> USE GatewayAssumption
<1>1. order \in [Orders -> OrderRec] /\ paid \in [Orders -> PaidRec]
      /\ order[o] \in OrderRec /\ paid[o] \in PaidRec /\ percent \in Nat
  BY DEF IInv, TypeOK
<1>2. PICK lp \in Nat, sfee \in Nat, pfee \in Nat : SettleBy(o, percent, lp, sfee, pfee)
  BY <1>1, SettleEffect
<1>3. /\ order[o].status = "PENDING"
      /\ order[o].settled_lp_amount + lp <= Distributable(o)
      /\ FeesFit(o)
      /\ order[o].escrow = order[o].amount - order[o].settled_lp_amount
  BY <1>2 DEF SettleBy, IInv, Account
<1>4. /\ paid'[o].lp = paid[o].lp + lp
      /\ paid'[o].sender_fee = paid[o].sender_fee + sfee
      /\ paid'[o].protocol_fee = paid[o].protocol_fee + pfee
      /\ paid'[o].refund = paid[o].refund /\ paid'[o].refund_fee = paid[o].refund_fee
      /\ order'[o].amount = order[o].amount
      /\ order'[o].escrow = order[o].escrow - lp - sfee - pfee
      /\ \A q \in Orders : q # o => order'[q] = order[q] /\ paid'[q] = paid[q]
  BY <1>1, <1>2 DEF SettleBy, OrderRec, PaidRec
<1>5. TotalPaid(o)' = TotalPaid(o) + (lp + sfee + pfee)
  BY <1>1, <1>4 DEF TotalPaid, PaidRec
<1>6. \A q \in Orders : q # o => TotalPaid(q)' = TotalPaid(q)
  BY <1>4 DEF TotalPaid
<1>7. CASE order[o].settled_lp_amount + lp = Distributable(o)
  <2>1. sfee = order[o].sender_fee /\ pfee = order[o].protocol_fee
        /\ order'[o].status = "SETTLED"
    BY <1>1, <1>2, <1>7 DEF SettleBy
  <2>2. lp + sfee + pfee = order[o].escrow
    BY <1>1, <1>3, <1>7, <2>1 DEF Distributable, OrderRec
  <2>3. order'[o].escrow = 0
    BY <1>1, <1>4, <2>2 DEF OrderRec
  <2>4. OrderVault!Close(o)
    BY <1>3, <1>4, <1>5, <1>6, <2>1, <2>2, <2>3 DEF OrderVault!Close
  <2>5. QED
    BY <2>4
<1>8. CASE order[o].settled_lp_amount + lp # Distributable(o)
  <2>1. sfee = 0 /\ pfee = 0 /\ order'[o].status = "PENDING"
    BY <1>1, <1>2, <1>3, <1>8 DEF SettleBy
  <2>2. lp <= order[o].escrow
    BY <1>1, <1>3 DEF Distributable, FeesFit, OrderRec
  <2>3. order'[o].escrow = order[o].escrow - lp /\ TotalPaid(o)' = TotalPaid(o) + lp
    BY <1>1, <1>4, <1>5, <2>1 DEF OrderRec
  <2>4. OrderVault!Release(o, lp)
    BY <1>3, <1>4, <1>6, <2>1, <2>2, <2>3 DEF OrderVault!Release
  <2>5. lp \in 0 .. order[o].escrow
    BY <1>1, <2>2 DEF OrderRec
  <2>6. QED
    BY <2>4, <2>5
<1>9. QED
  BY <1>7, <1>8

LEMMA RefundVault ==
    ASSUME IInv, NEW o \in Orders, NEW p \in Parties, NEW fee \in Fees,
           RefundOrder(o, p, fee)
    PROVE  OrderVault!Close(o)
<1>1. order \in [Orders -> OrderRec] /\ paid \in [Orders -> PaidRec]
      /\ order[o] \in OrderRec /\ paid[o] \in PaidRec /\ fee \in Nat
  BY GatewayAssumption DEF IInv, TypeOK
<1>2. /\ order[o].status = "PENDING" /\ fee <= order[o].escrow
      /\ order'[o].status = "REFUNDED" /\ order'[o].escrow = 0
      /\ order'[o].amount = order[o].amount
      /\ \A q \in Orders : q # o => order'[q] = order[q] /\ paid'[q] = paid[q]
  BY <1>1 DEF RefundOrder, OrderRec
<1>3. /\ paid'[o].refund_fee = paid[o].refund_fee + fee
      /\ paid'[o].refund = paid[o].refund + (order[o].escrow - fee)
      /\ paid'[o].lp = paid[o].lp
      /\ paid'[o].sender_fee = paid[o].sender_fee
      /\ paid'[o].protocol_fee = paid[o].protocol_fee
  BY <1>1 DEF RefundOrder, PaidRec
<1>4. TotalPaid(o)' = TotalPaid(o) + order[o].escrow
  BY <1>1, <1>3 DEF TotalPaid, PaidRec, OrderRec
<1>5. \A q \in Orders : q # o => TotalPaid(q)' = TotalPaid(q)
  BY <1>2 DEF TotalPaid
<1>6. QED
  BY <1>2, <1>4, <1>5 DEF OrderVault!Close

\* An order never promises less than a vault: coins enter once, leave only through a
\* settlement or a refund, and a closed order is empty for good.
THEOREM OrderImplementsVault == Spec => ImplementsVault
<1>1. Init => OrderVault!Init
  BY DEF Init, OrderVault!Init, NoOrder, NothingPaid, TotalPaid
<1>2. ASSUME IInv, [Next]_vars
      PROVE  [OrderVault!Next]_(OrderVault!vaultVars)
  <2>1. CASE Admin
    <3>1. UNCHANGED <<order, paid>>
      BY <1>2, <2>1, AdminIInv
    <3>2. QED
      BY <3>1 DEF OrderVault!vaultVars, TotalPaid
  <2>2. CASE \E o \in Orders, c \in Coins, amount \in Amounts, fee \in Fees :
               CreateOrder(o, c, amount, fee)
    BY <1>2, <2>2, CreateVault DEF OrderVault!Next
  <2>3. CASE \E o \in Orders, p \in Parties, percent \in BpsArgs :
               SettleOrder(o, p, percent)
    BY <1>2, <2>3, SettleVault DEF OrderVault!Next
  <2>4. CASE \E o \in Orders, p \in Parties, fee \in Fees : RefundOrder(o, p, fee)
    BY <1>2, <2>4, RefundVault DEF OrderVault!Next
  <2>5. CASE UNCHANGED vars
    BY <2>5 DEF vars, OrderVault!vaultVars, TotalPaid
  <2>6. QED
    BY <1>2, <2>1, <2>2, <2>3, <2>4, <2>5 DEF Next
<1>3. QED
  BY <1>1, <1>2, Invariance, PTL DEF Spec, ImplementsVault, OrderVault!Spec
=============================================================================
