------------------------- MODULE RouteATreasuryProofs -------------------------
(***************************************************************************)
(* Proofs about RouteATreasury, for any orders, dispatchers, banks,        *)
(* references, Gateway ids, faults and losses.  Types hold with or without *)
(* the lease; the payments and the reloads are proved for a lease that     *)
(* holds.                                                                  *)
(***************************************************************************)
EXTENDS RouteATreasury, FiniteSetTheorems, TLAPS

LpSteps == {"dispatch", "prepare", "create", "unclaim", "persist", "poll", "write"}

LEMMA StepsAre ==
    /\ Steps = {"idle"} \cup LpSteps \cup
               { "gate", "transfer", "release", "payout", "retire", "settle", "po",
                 "reload", "persistReload", "pollReload", "writeReload" }
    /\ "idle" \notin LpSteps
  BY DEF Steps, D!Steps, LpSteps

LEMMA Members ==
    /\ Nil \notin Orders /\ Nil \notin Workers /\ 0 \notin GatewayIds /\ 0 \notin Refs
    /\ Nil \notin Banks /\ DefaultRail \in Banks
    /\ D!ToldStatuses = {"nothing", "settled", "refunded"}
    /\ D!GatewayStates = {"none", "open", "settled", "returned"}
  BY RouteAAssumption, TreasuryAssumption DEF D!ToldStatuses, D!GatewayStates

-----------------------------------------------------------------------------
(***************************************************************************)
(* Types.  A handler in progress belongs to a tick and is about an order;  *)
(* one that talks to a bank has a bank and a reference in hand.            *)
(***************************************************************************)
HandlersOK ==
    /\ pc \in [Workers -> Steps]
    /\ cur \in [Workers -> Orders \cup {Nil}]
    /\ snap \in [Workers -> TreasuryRowRec \cup {NewRow("lifi")}]
    /\ held \in [Workers -> HeldRec]
    /\ receipt \in [Workers -> GatewayIds \cup {0}]
    /\ goal \in [Workers -> {"bridged", "settled", "refunded"}]
    /\ ticking \subseteq Workers

InHand(w) ==
    /\ pc[w] # "idle" => w \in ticking /\ cur[w] \in Orders
    /\ pc[w] \in {"gate", "transfer", "payout"} => held[w].bank \in Banks
    /\ pc[w] \in {"transfer", "payout"} => held[w].ref \in Refs
    /\ pc[w] = "persistReload" => receipt[w] \in GatewayIds
    /\ pc[w] = "pollReload" => snap[w].gateway \in GatewayIds

Payouts == Banks \X Orders \X Refs

BooksOK ==
    /\ row \in [Orders -> TreasuryRowRec]
    /\ told \in [Orders -> D!ToldStatuses]
    /\ gateway \in [Orders -> [GatewayIds -> D!GatewayStates]]
    /\ counted \in [Orders -> Nat]
    /\ reloads \in [Orders -> SUBSET GatewayIds]
    /\ dropped \in [Orders -> SUBSET GatewayIds]

BankOK ==
    /\ floatRail \in Banks /\ switches \in Nat
    /\ rail \in [Payouts -> RailStates]
    /\ disowned \subseteq Payouts

LeaseOK == lease \in Workers \cup {Nil} /\ crashes \in Nat

TInv == HandlersOK /\ (\A w \in Workers : InHand(w)) /\ BooksOK /\ BankOK /\ LeaseOK

\* What the code does not keep: ids it gave up, orders with another id's outcome, overlaps.
GhostOK ==
    /\ unheard \in [Orders -> SUBSET GatewayIds]
    /\ stale \subseteq Orders /\ overlapped \in BOOLEAN

LEMMA TypesAre == TInv /\ GhostOK => TypeOK
  BY DEF TInv, GhostOK, TypeOK, HandlersOK, BooksOK, BankOK, LeaseOK, Payouts

LEMMA SameBank == ASSUME BankOK, UNCHANGED bankVars PROVE BankOK'
  BY DEF BankOK, bankVars

LEMMA SameLease == ASSUME LeaseOK, Frame PROVE LeaseOK'
  BY DEF LeaseOK, Frame

\* What a handler's step does to the handler's own variables.
Others(w) == \A v \in Workers : v # w => /\ pc'[v] = pc[v] /\ cur'[v] = cur[v]
                                         /\ snap'[v] = snap[v] /\ held'[v] = held[v]

Mine(w) == UNCHANGED goal /\ \A v \in Workers : v # w => receipt'[v] = receipt[v]

LEMMA FinishIs ==
    ASSUME HandlersOK, NEW w \in Workers, Finish(w)
    PROVE  /\ pc'[w] = "idle" /\ Others(w)
           /\ pc' \in [Workers -> Steps] /\ cur' \in [Workers -> Orders \cup {Nil}]
           /\ snap' \in [Workers -> TreasuryRowRec \cup {NewRow("lifi")}]
           /\ held' \in [Workers -> HeldRec]
<1>1. Nothing \in HeldRec /\ "idle" \in Steps
  BY StepsAre, Members DEF Nothing, HeldRec
<1>2. QED
  BY <1>1 DEF Finish, Done, Others, HandlersOK

LEMMA GoIs ==
    ASSUME HandlersOK, NEW w \in Workers, NEW s \in Steps, Go(w, s)
    PROVE  /\ pc'[w] = s /\ UNCHANGED <<cur, snap>> /\ pc' \in [Workers -> Steps]
           /\ \A v \in Workers : v # w => pc'[v] = pc[v]
  BY DEF Go, HandlersOK

LEMMA AdvanceIs ==
    ASSUME HandlersOK, NEW w \in Workers, NEW s \in Steps, Advance(w, s)
    PROVE  /\ pc'[w] = s /\ UNCHANGED <<cur, snap, held>> /\ pc' \in [Workers -> Steps]
           /\ Others(w)
  BY GoIs DEF Advance, Others

LEMMA FetchIs ==
    ASSUME HandlersOK, BooksOK, NEW w \in Workers, NEW o \in Orders, NEW s \in Steps,
           Fetch(w, o, s)
    PROVE  /\ w \in ticking /\ pc[w] = "idle"
           /\ pc'[w] = s /\ cur'[w] = o /\ snap'[w] = row[o]
           /\ \A v \in Workers : v # w => pc'[v] = pc[v] /\ cur'[v] = cur[v] /\ snap'[v] = snap[v]
           /\ pc' \in [Workers -> Steps] /\ cur' \in [Workers -> Orders \cup {Nil}]
           /\ snap' \in [Workers -> TreasuryRowRec \cup {NewRow("lifi")}]
  BY DEF Fetch, HandlersOK, BooksOK

LEMMA HoldIs ==
    ASSUME HandlersOK, NEW w \in Workers, NEW b \in Banks, NEW n \in Refs \cup {0}, Hold(w, b, n)
    PROVE  /\ held' \in [Workers -> HeldRec] /\ held'[w].bank = b /\ held'[w].ref = n
           /\ \A v \in Workers : v # w => held'[v] = held[v]
<1> DEFINE h == [Nothing EXCEPT !.bank = b, !.ref = n]
<1>1. h \in HeldRec /\ h.bank = b /\ h.ref = n
  BY Members DEF Nothing, HeldRec
<1>2. held' = [held EXCEPT ![w] = h]
  BY DEF Hold
<1> HIDE DEF h
<1>3. QED
  BY <1>1, <1>2 DEF HandlersOK

\* The other handlers have in hand what they had.
LEMMA HandsOK ==
    ASSUME TInv, NEW w \in Workers, Others(w), \A v \in Workers : v # w => receipt'[v] = receipt[v],
           ticking' = ticking \/ ticking' = ticking \ {w}, InHand(w)'
    PROVE  \A v \in Workers : InHand(v)'
  BY DEF TInv, InHand, Others

LEMMA CasIs ==
    ASSUME BooksOK, NEW o \in Orders, NEW from, NEW new, Cas(o, from, new),
           new \in TreasuryRowRec
    PROVE  /\ row' \in [Orders -> TreasuryRowRec]
           /\ \A q \in Orders : q # o => row'[q] = row[q]
           /\ row[o].status \in from => row'[o] = new
           /\ row[o].status \notin from => row' = row
  BY DEF Cas, BooksOK

-----------------------------------------------------------------------------

LEMMA TypeInit == Init => TInv
<1> SUFFICES ASSUME Init PROVE TInv
  OBVIOUS
<1> USE Members, StepsAre
<1>1. \A known \in BOOLEAN : Bridged(known) \in TreasuryRowRec
  BY DEF Bridged, TreasuryRowRec, Modes
<1>2. Nothing \in HeldRec
  BY DEF Nothing, HeldRec
<1>3. HandlersOK /\ \A w \in Workers : InHand(w)
  BY <1>2 DEF Init, HandlersOK, InHand
<1>4. BooksOK
  <2>1. row \in [Orders -> TreasuryRowRec]
    BY <1>1 DEF Init
  <2>2. QED
    BY <2>1 DEF Init, BooksOK
<1>5. BankOK /\ LeaseOK
  BY DEF Init, BankOK, LeaseOK, Payouts, RailStates
<1>6. QED
  BY <1>3, <1>4, <1>5 DEF TInv

LEMMA EndType ==
    ASSUME TInv, NEW w \in Workers, Finish(w), Mine(w), UNCHANGED ticking,
           receipt' \in [Workers -> GatewayIds \cup {0}], BooksOK', BankOK', LeaseOK'
    PROVE  TInv'
<1>1. HandlersOK' /\ pc'[w] = "idle" /\ Others(w)
  BY FinishIs DEF TInv, HandlersOK, Mine
<1>2. InHand(w)'
  BY <1>1 DEF InHand
<1>3. QED
  BY <1>1, <1>2, HandsOK DEF TInv, Mine

\* A handler goes on to a step for which it needs nothing more in hand.
LEMMA GoesType ==
    ASSUME TInv, NEW w \in Workers, pc[w] # "idle", NEW s \in {"release", "retire", "settle", "po"},
           Advance(w, s), UNCHANGED <<goal, receipt, ticking>>, BooksOK', BankOK', LeaseOK'
    PROVE  TInv'
<1>1. pc'[w] = s /\ UNCHANGED <<cur, snap, held>> /\ pc' \in [Workers -> Steps] /\ Others(w)
  BY AdvanceIs, StepsAre DEF TInv
<1>2. HandlersOK' /\ InHand(w)'
  BY <1>1 DEF TInv, HandlersOK, InHand
<1>3. QED
  BY <1>1, <1>2, HandsOK DEF TInv

\* Only the bank or only the row moves.
LEMMA SameBooks ==
    ASSUME BooksOK, UNCHANGED <<row, told, gateway, counted, reloads, dropped>> PROVE BooksOK'
  BY DEF BooksOK

LEMMA RowBooks ==
    ASSUME BooksOK, UNCHANGED <<told, gateway, counted, reloads, dropped>>,
           row' \in [Orders -> TreasuryRowRec]
    PROVE  BooksOK'
  BY DEF BooksOK

LEMMA RowSet ==
    ASSUME BooksOK, NEW o \in Orders
    PROVE  /\ \A s \in {"bridged", "dispatching", "settled", "refunded"} :
                 [row[o] EXCEPT !.status = s] \in TreasuryRowRec
           /\ \A n \in Refs \cup {0} :
                 [row[o] EXCEPT !.status = "dispatching", !.ref = n] \in TreasuryRowRec
           /\ [row[o] EXCEPT !.status = "bridged", !.ref = 0] \in TreasuryRowRec
           /\ [row[o] EXCEPT !.mode = "lp"] \in TreasuryRowRec
           /\ \A g \in GatewayIds \cup {0} : [row[o] EXCEPT !.gateway = g] \in TreasuryRowRec
           /\ \A s \in D!GatewayStates : [row[o] EXCEPT !.settlement = s] \in TreasuryRowRec
           /\ \A s \in {"bridged", "settled", "refunded"}, g \in GatewayIds \cup {0} :
                 [row[o] EXCEPT !.status = s, !.gateway = g] \in TreasuryRowRec
  BY DEF BooksOK, TreasuryRowRec, Modes

LEMMA FetchType ==
    ASSUME TInv, NEW w \in Workers, NEW o \in Orders,
           FetchTreasury(w, o) \/ FetchPayout(w, o) \/ FetchReload(w, o)
    PROVE  TInv'
<1>1. /\ UNCHANGED <<goal, receipt, ticking, row, told, gateway, counted, reloads, dropped, bankVars>>
      /\ Frame
  BY DEF FetchTreasury, FetchPayout, FetchReload, Frame, dispatchVars, treasuryVars
<1>2. BooksOK' /\ BankOK' /\ LeaseOK'
  BY <1>1, SameBooks, SameBank, SameLease DEF TInv
<1>3. PICK s \in {"gate", "payout", "reload", "pollReload"} :
         /\ Fetch(w, o, s)
         /\ s = "gate" => Hold(w, floatRail, 0)
         /\ s = "payout" => Hold(w, floatRail, row[o].ref) /\ row[o].ref # 0
         /\ s = "reload" => UNCHANGED held
         /\ s = "pollReload" => UNCHANGED held /\ row[o].gateway # 0
  BY DEF FetchTreasury, FetchPayout, FetchReload, treasuryVars
<1>4. floatRail \in Banks /\ row[o].ref \in Refs \cup {0} /\ row[o].gateway \in GatewayIds \cup {0}
  BY DEF TInv, BankOK, BooksOK, TreasuryRowRec
<1>5. /\ w \in ticking /\ pc'[w] = s /\ cur'[w] = o /\ snap'[w] = row[o]
      /\ \A v \in Workers : v # w => pc'[v] = pc[v] /\ cur'[v] = cur[v] /\ snap'[v] = snap[v]
      /\ pc' \in [Workers -> Steps] /\ cur' \in [Workers -> Orders \cup {Nil}]
      /\ snap' \in [Workers -> TreasuryRowRec \cup {NewRow("lifi")}]
  BY <1>3, FetchIs, StepsAre DEF TInv
<1>6. /\ held' \in [Workers -> HeldRec]
      /\ \A v \in Workers : v # w => held'[v] = held[v]
      /\ s \in {"gate", "payout"} => held'[w].bank \in Banks
      /\ s = "payout" => held'[w].ref \in Refs
  <2>1. CASE s \in {"reload", "pollReload"}
    BY <1>3, <2>1 DEF TInv, HandlersOK
  <2>2. CASE s = "gate"
    BY <1>3, <1>4, <2>2, HoldIs DEF TInv
  <2>3. CASE s = "payout"
    BY <1>3, <1>4, <2>3, HoldIs DEF TInv
  <2>4. QED
    BY <2>1, <2>2, <2>3
<1>7. HandlersOK' /\ InHand(w)' /\ Others(w)
  BY <1>1, <1>3, <1>4, <1>5, <1>6 DEF TInv, HandlersOK, InHand, Others
<1>8. QED
  BY <1>1, <1>2, <1>7, HandsOK DEF TInv

LEMMA ClaimType ==
    ASSUME TInv, NEW w \in Workers, NEW n \in Refs, ClaimPayout(w, n)
    PROVE  TInv'
<1> DEFINE o == cur[w]
<1>1. pc[w] = "gate" /\ o \in Orders /\ held[w].bank \in Banks
  BY DEF ClaimPayout, TInv, InHand
<1>2. UNCHANGED <<goal, receipt, told, gateway, bankVars, reloads, dropped>> /\ Frame
  BY DEF ClaimPayout
<1>3. counted' \in [Orders -> Nat]
  BY TreasuryAssumption DEF ClaimPayout, TInv, BooksOK
<1>4. row' \in [Orders -> TreasuryRowRec]
  <2> DEFINE new == [row[o] EXCEPT !.status = "dispatching", !.ref = n]
  <2>1. row \in [Orders -> TreasuryRowRec] /\ new \in TreasuryRowRec
    BY <1>1, RowSet DEF TInv, BooksOK
  <2>2. row' = row \/ row' = [row EXCEPT ![o] = new]
    BY <1>1, <2>1 DEF ClaimPayout
  <2> HIDE DEF new
  <2>3. QED
    BY <1>1, <2>1, <2>2
<1>5. BooksOK' /\ BankOK' /\ LeaseOK'
  BY <1>2, <1>3, <1>4, SameBank, SameLease DEF TInv, BooksOK
<1>6. CASE Finish(w)
  BY <1>2, <1>5, <1>6, EndType DEF Mine, Frame, TInv, HandlersOK
<1>7. CASE Go(w, "transfer") /\ Hold(w, held[w].bank, n)
  <2>1. /\ pc'[w] = "transfer" /\ UNCHANGED <<cur, snap>> /\ pc' \in [Workers -> Steps]
        /\ \A v \in Workers : v # w => pc'[v] = pc[v]
    BY <1>7, GoIs, StepsAre DEF TInv
  <2>2. /\ held' \in [Workers -> HeldRec] /\ held'[w].bank = held[w].bank /\ held'[w].ref = n
        /\ \A v \in Workers : v # w => held'[v] = held[v]
    BY <1>1, <1>7, HoldIs DEF TInv
  <2>3. HandlersOK' /\ InHand(w)' /\ Others(w)
    BY <1>1, <1>2, <2>1, <2>2 DEF TInv, HandlersOK, InHand, Others, Frame
  <2>4. QED
    BY <1>2, <1>5, <2>3, HandsOK DEF TInv, Frame
<1>8. QED
  BY <1>6, <1>7 DEF ClaimPayout

\* A payout in hand is one the bank may know.
LEMMA PayoutIs ==
    ASSUME TInv, NEW w \in Workers, pc[w] \in {"transfer", "payout"}
    PROVE  Payout(w) \in Payouts
  BY DEF TInv, InHand, Payout, Payouts

LEMMA PayoutType ==
    ASSUME TInv, NEW w \in Workers,
           \/ GateFails(w) \/ FallbackToLp(w) \/ SubmitPayout(w) \/ ReleaseClaim(w)
           \/ PollPayout(w) \/ PollPayoutFails(w) \/ RetirePayout(w) \/ SettleRow(w)
           \/ SettlePaymentOrder(w)
    PROVE  TInv'
<1>0. pc[w] # "idle" /\ cur[w] \in Orders
  BY DEF GateFails, FallbackToLp, SubmitPayout, ReleaseClaim, PollPayout, PollPayoutFails,
     RetirePayout, SettleRow, SettlePaymentOrder, TInv, InHand
<1>1. UNCHANGED <<goal, receipt, gateway, counted, reloads, dropped, floatRail, switches>> /\ Frame
  BY DEF GateFails, FallbackToLp, SubmitPayout, ReleaseClaim, PollPayout, PollPayoutFails,
     RetirePayout, SettleRow, SettlePaymentOrder, dispatchVars, bankVars
<1>2. row' \in [Orders -> TreasuryRowRec]
  BY <1>0, RowSet DEF GateFails, FallbackToLp, SubmitPayout, ReleaseClaim, PollPayout,
     PollPayoutFails, RetirePayout, SettleRow, SettlePaymentOrder, Cas, TInv, BooksOK
<1>3. told' \in [Orders -> D!ToldStatuses]
  <2>1. CASE SettlePaymentOrder(w)
    BY <1>0, <2>1, Members DEF SettlePaymentOrder, TInv, BooksOK
  <2>2. CASE ~SettlePaymentOrder(w)
    BY <2>2 DEF GateFails, FallbackToLp, SubmitPayout, ReleaseClaim, PollPayout, PollPayoutFails,
       RetirePayout, SettleRow, dispatchVars, TInv, BooksOK
  <2>3. QED
    BY <2>1, <2>2
<1>4. BankOK'
  <2>1. CASE SubmitPayout(w)
    <3>1. Payout(w) \in Payouts
      BY <2>1, PayoutIs DEF SubmitPayout
    <3>2. disowned' \subseteq Payouts
      BY <2>1, <3>1 DEF SubmitPayout, TInv, BankOK
    <3>3. rail' \in [Payouts -> RailStates]
      BY <2>1, <3>1 DEF SubmitPayout, Accept, TInv, BankOK, RailStates
    <3>4. QED
      BY <1>1, <3>2, <3>3 DEF TInv, BankOK
  <2>2. CASE ~SubmitPayout(w)
    BY <2>2, SameBank DEF GateFails, FallbackToLp, ReleaseClaim, PollPayout, PollPayoutFails,
       RetirePayout, SettleRow, SettlePaymentOrder, TInv
  <2>3. QED
    BY <2>1, <2>2
<1>5. BooksOK' /\ LeaseOK'
  BY <1>1, <1>2, <1>3, SameLease DEF TInv, BooksOK
<1>6. Finish(w) \/ \E s \in {"release", "retire", "settle", "po"} : Advance(w, s)
  BY DEF GateFails, FallbackToLp, SubmitPayout, ReleaseClaim, PollPayout, PollPayoutFails,
     RetirePayout, SettleRow, SettlePaymentOrder
<1>7. QED
  BY <1>0, <1>1, <1>4, <1>5, <1>6, EndType, GoesType DEF Mine, Frame, TInv, HandlersOK

LEMMA CreatesIs ==
    ASSUME BooksOK, NEW o \in Orders, NEW g \in GatewayIds, D!Creates(o, g)
    PROVE  /\ gateway' \in [Orders -> [GatewayIds -> D!GatewayStates]]
           /\ gateway[o][g] = "none" /\ gateway'[o][g] = "open"
           /\ \A h \in GatewayIds : h # g => gateway'[o][h] = gateway[o][h]
           /\ \A q \in Orders : q # o => gateway'[q] = gateway[q]
  BY Members DEF D!Creates, BooksOK

LEMMA ReloadType ==
    ASSUME TInv, NEW w \in Workers,
           \/ ReloadFails(w) \/ PersistReload(w) \/ PollReload(w) \/ WriteReload(w)
           \/ \E g \in GatewayIds : ReloadReturns(w, g) \/ ReloadAmbiguous(w, g)
    PROVE  TInv'
<1>0. pc[w] # "idle" /\ cur[w] \in Orders /\ held[w].seen \in D!GatewayStates
  BY DEF ReloadFails, PersistReload, PollReload, WriteReload, ReloadReturns, ReloadAmbiguous,
     TInv, InHand, HandlersOK, HeldRec
<1>1. UNCHANGED <<goal, told, counted, bankVars>> /\ Frame
  BY DEF ReloadFails, PersistReload, PollReload, WriteReload, ReloadReturns, ReloadAmbiguous,
     dispatchVars
<1>2. BankOK' /\ LeaseOK'
  BY <1>1, SameBank, SameLease DEF TInv
<1>3. ASSUME UNCHANGED <<gateway, reloads, dropped>>, row' \in [Orders -> TreasuryRowRec]
      PROVE  BooksOK'
  BY <1>1, <1>3 DEF TInv, BooksOK
<1>4. CASE ReloadFails(w) \/ WriteReload(w)
  <2>1. row' \in [Orders -> TreasuryRowRec]
    <3>1. [row[cur[w]] EXCEPT !.settlement = held[w].seen] \in TreasuryRowRec
      BY <1>0, RowSet DEF TInv
    <3>2. QED
      BY <1>0, <1>4, <3>1 DEF ReloadFails, WriteReload, TInv, BooksOK
  <2>2. UNCHANGED <<receipt, gateway, reloads, dropped>> /\ Finish(w)
    BY <1>4 DEF ReloadFails, WriteReload, dispatchVars
  <2>3. QED
    BY <1>1, <1>2, <1>3, <2>1, <2>2, EndType DEF Mine, Frame, TInv, HandlersOK
<1>5. CASE PersistReload(w)
  <2> DEFINE o == cur[w]
             g == receipt[w]
  <2>1. g \in GatewayIds
    BY <1>5 DEF PersistReload, TInv, InHand
  <2>2. [row[o] EXCEPT !.gateway = g] \in TreasuryRowRec
    BY <1>0, <2>1, RowSet DEF TInv
  <2>3. row' \in [Orders -> TreasuryRowRec]
    BY <1>0, <1>5, <2>2 DEF PersistReload, TInv, BooksOK
  <2>4. dropped' \in [Orders -> SUBSET GatewayIds]
    BY <1>0, <1>5, <2>1 DEF PersistReload, TInv, BooksOK
  <2>5. BooksOK'
    BY <1>1, <1>5, <2>3, <2>4 DEF PersistReload, TInv, BooksOK
  <2>6. receipt' = [receipt EXCEPT ![w] = 0] /\ Finish(w)
    BY <1>5 DEF PersistReload
  <2>7. QED
    BY <1>1, <1>2, <2>5, <2>6, EndType DEF Mine, Frame, TInv, HandlersOK
<1>6. CASE PollReload(w)
  <2>1. UNCHANGED <<receipt, row, gateway, reloads, dropped>>
    BY <1>6 DEF PollReload, dispatchVars
  <2>2. BooksOK'
    BY <1>3, <2>1 DEF TInv, BooksOK
  <2>3. CASE Finish(w)
    BY <1>1, <1>2, <2>1, <2>2, <2>3, EndType DEF Mine, Frame, TInv, HandlersOK
  <2>4. CASE ~Finish(w)
    <3> DEFINE status == gateway[cur[w]][snap[w].gateway]
    <3>1. status \in D!GatewayStates
      BY <1>0, <1>6 DEF PollReload, TInv, InHand, BooksOK
    <3>2. Go(w, "writeReload") /\ held' = [held EXCEPT ![w].seen = status]
      BY <1>6, <2>4 DEF PollReload
    <3> HIDE DEF status
    <3>3. /\ held' \in [Workers -> HeldRec]
          /\ \A v \in Workers : v # w => held'[v] = held[v]
      BY <3>1, <3>2 DEF TInv, HandlersOK, HeldRec
    <3>4. /\ pc'[w] = "writeReload" /\ UNCHANGED <<cur, snap>> /\ pc' \in [Workers -> Steps]
          /\ \A v \in Workers : v # w => pc'[v] = pc[v]
      BY <3>2, GoIs, StepsAre DEF TInv
    <3>5. HandlersOK' /\ InHand(w)' /\ Others(w)
      BY <1>0, <1>1, <2>1, <3>3, <3>4 DEF TInv, HandlersOK, InHand, Others, Frame
    <3>6. QED
      BY <1>1, <1>2, <2>1, <2>2, <3>5, HandsOK DEF TInv, Frame
  <2>5. QED
    BY <2>3, <2>4
<1>7. ASSUME NEW g \in GatewayIds, ReloadReturns(w, g) \/ ReloadAmbiguous(w, g) PROVE TInv'
  <2>1. D!Creates(cur[w], g) /\ reloads' = [reloads EXCEPT ![cur[w]] = @ \cup {g}] /\ UNCHANGED row
    BY <1>7 DEF ReloadReturns, ReloadAmbiguous
  <2>2. dropped' = dropped \/ dropped' = [dropped EXCEPT ![cur[w]] = @ \cup {g}]
    BY <1>7 DEF ReloadReturns, ReloadAmbiguous
  <2>3. reloads' \in [Orders -> SUBSET GatewayIds] /\ dropped' \in [Orders -> SUBSET GatewayIds]
    BY <1>0, <2>1, <2>2 DEF TInv, BooksOK
  <2>4. gateway' \in [Orders -> [GatewayIds -> D!GatewayStates]]
    BY <1>0, <2>1, CreatesIs DEF TInv
  <2>5. BooksOK'
    BY <1>1, <2>1, <2>3, <2>4 DEF TInv, BooksOK
  <2>6. CASE ReloadAmbiguous(w, g)
    BY <1>1, <1>2, <2>5, <2>6, EndType DEF ReloadAmbiguous, Mine, Frame, TInv, HandlersOK
  <2>7. CASE ReloadReturns(w, g)
    <3>1. /\ receipt' = [receipt EXCEPT ![w] = g] /\ Advance(w, "persistReload")
      BY <2>7 DEF ReloadReturns
    <3>2. /\ pc'[w] = "persistReload" /\ UNCHANGED <<cur, snap, held>>
          /\ pc' \in [Workers -> Steps] /\ Others(w)
      BY <3>1, AdvanceIs, StepsAre DEF TInv
    <3>3. HandlersOK' /\ InHand(w)'
      BY <1>0, <1>1, <3>1, <3>2 DEF TInv, HandlersOK, InHand, Frame
    <3>4. QED
      BY <1>1, <1>2, <2>5, <3>1, <3>2, <3>3, HandsOK DEF TInv, Frame, HandlersOK
  <2>8. QED
    BY <1>7, <2>6, <2>7
<1>8. QED
  BY <1>4, <1>5, <1>6, <1>7

(* The steps of lp mode. *)

LEMMA LpFetchType ==
    ASSUME TInv, NEW w \in Workers, NEW o \in Orders, UNCHANGED treasuryVars,
           D!FetchBridged(w, o) \/ D!FetchDispatching(w, o)
    PROVE  /\ TInv' /\ UNCHANGED <<row, told, gateway, unheard, receipt, goal>> /\ Frame
           /\ w \in ticking /\ pc[w] = "idle" /\ cur'[w] = o /\ snap'[w] = row[o] /\ Others(w)
           /\ \/ pc'[w] = "dispatch" /\ row[o].status = "bridged"
              \/ pc'[w] = "poll" /\ row[o].status = "dispatching" /\ row[o].gateway # 0
<1>1. /\ UNCHANGED <<goal, receipt, row, told, gateway, unheard, held, counted, bankVars>>
      /\ UNCHANGED <<reloads, dropped>> /\ Frame
  BY DEF D!FetchBridged, D!FetchDispatching, D!Frame, Frame, D!dispatchVars, D!ghosts, treasuryVars
<1>2. PICK s \in {"dispatch", "poll"} :
         /\ Fetch(w, o, s)
         /\ s = "dispatch" => row[o].status = "bridged"
         /\ s = "poll" => row[o].status = "dispatching" /\ row[o].gateway # 0
  BY DEF D!FetchBridged, D!FetchDispatching, D!Fetch, Fetch
<1>3. /\ w \in ticking /\ pc[w] = "idle"
      /\ pc'[w] = s /\ cur'[w] = o /\ snap'[w] = row[o]
      /\ \A v \in Workers : v # w => pc'[v] = pc[v] /\ cur'[v] = cur[v] /\ snap'[v] = snap[v]
      /\ pc' \in [Workers -> Steps] /\ cur' \in [Workers -> Orders \cup {Nil}]
      /\ snap' \in [Workers -> TreasuryRowRec \cup {NewRow("lifi")}]
  BY <1>2, FetchIs, StepsAre DEF TInv, LpSteps
<1>4. Others(w) /\ HandlersOK' /\ InHand(w)'
  BY <1>1, <1>3 DEF TInv, HandlersOK, InHand, Others, Frame
<1>5. BooksOK' /\ BankOK' /\ LeaseOK'
  BY <1>1, SameBooks, SameBank, SameLease DEF TInv
<1>6. TInv'
  BY <1>1, <1>4, <1>5, HandsOK DEF TInv, Frame
<1>7. QED
  BY <1>1, <1>2, <1>3, <1>4, <1>6

\* The steps of a handler of lp mode that has begun.
LpStep(w) ==
    \/ D!BeginDispatch(w) \/ D!PrepareFails(w) \/ D!ClaimDispatch(w)
    \/ D!CreateNotSubmitted(w) \/ D!CreateAmbiguous(w)
    \/ D!CreateReturns(w) \/ D!Unclaim(w) \/ D!PersistGatewayId(w)
    \/ D!PollNothing(w) \/ D!PollSettled(w) \/ D!PollReturned(w) \/ D!WriteOutcome(w)

\* Where such a step starts, and what it leaves alone.
LEMMA LpFrame ==
    ASSUME TInv, NEW w \in Workers, LpStep(w), UNCHANGED treasuryVars
    PROVE  /\ pc[w] \in LpSteps /\ cur[w] \in Orders /\ w \in ticking /\ Frame
           /\ UNCHANGED <<held, counted, bankVars, reloads, dropped>>
           /\ \/ D!Done(w)
              \/ \E s \in LpSteps : D!Go(w, s)
<1>1. pc[w] \in LpSteps /\ Frame
  BY DEF LpStep, D!BeginDispatch, D!PrepareFails, D!ClaimDispatch, D!CreateNotSubmitted,
     D!CreateAmbiguous, D!CreateReturns, D!Unclaim, D!PersistGatewayId, D!PollNothing,
     D!PollSettled, D!PollReturned, D!WriteOutcome, D!Frame, Frame, LpSteps
<1>2. D!Done(w) \/ \E s \in LpSteps : D!Go(w, s)
  BY DEF LpStep, D!BeginDispatch, D!PrepareFails, D!ClaimDispatch, D!CreateNotSubmitted,
     D!CreateAmbiguous, D!CreateReturns, D!Unclaim, D!PersistGatewayId, D!PollNothing,
     D!PollSettled, D!PollReturned, D!WriteOutcome, D!DispatchFails, D!DispatchSucceeds,
     D!Decide, LpSteps
<1>3. pc[w] # "idle"
  BY <1>1, StepsAre
<1>4. QED
  BY <1>1, <1>2, <1>3 DEF TInv, InHand, treasuryVars

\* Its handler ends, or goes on.
LEMMA LpHand ==
    ASSUME TInv, NEW w \in Workers, LpStep(w), UNCHANGED treasuryVars
    PROVE  /\ pc' \in [Workers -> Steps] /\ cur' \in [Workers -> Orders \cup {Nil}]
           /\ snap' \in [Workers -> TreasuryRowRec \cup {NewRow("lifi")}]
           /\ Others(w) /\ UNCHANGED ticking
           /\ \/ pc'[w] = "idle" /\ D!Done(w)
              \/ pc'[w] \in LpSteps /\ UNCHANGED <<cur, snap>> /\ D!Go(w, pc'[w])
<1>1. UNCHANGED <<held, ticking>> /\ (D!Done(w) \/ \E s \in LpSteps : D!Go(w, s))
  BY LpFrame DEF Frame
<1>2. CASE D!Done(w)
  <2>1. /\ pc' = [pc EXCEPT ![w] = "idle"] /\ cur' = [cur EXCEPT ![w] = Nil]
        /\ snap' = [snap EXCEPT ![w] = NewRow("lifi")]
    BY <1>2 DEF D!Done, D!NewRow, NewRow
  <2>2. "idle" \in Steps
    BY StepsAre
  <2>3. QED
    BY <1>1, <1>2, <2>1, <2>2 DEF TInv, HandlersOK, Others
<1>3. ASSUME NEW s \in LpSteps, D!Go(w, s)
      PROVE  /\ pc' = [pc EXCEPT ![w] = s] /\ UNCHANGED <<cur, snap>> /\ pc'[w] = s
             /\ pc' \in [Workers -> Steps]
  BY <1>3, StepsAre DEF D!Go, TInv, HandlersOK
<1>4. ASSUME NEW s \in LpSteps, D!Go(w, s) PROVE Others(w) /\ UNCHANGED ticking
  BY <1>3, <1>4, LpFrame DEF TInv, HandlersOK, Others, Frame
<1>5. QED
  BY <1>1, <1>2, <1>3, <1>4 DEF TInv, HandlersOK

LEMMA LpRows ==
    ASSUME TInv, NEW w \in Workers, LpStep(w), UNCHANGED treasuryVars
    PROVE  row' \in [Orders -> TreasuryRowRec]
<1>1. cur[w] \in Orders /\ row \in [Orders -> TreasuryRowRec]
      /\ receipt[w] \in GatewayIds \cup {0} /\ goal[w] \in {"bridged", "settled", "refunded"}
      /\ row[cur[w]].gateway \in GatewayIds \cup {0}
  BY LpFrame DEF TInv, BooksOK, HandlersOK, TreasuryRowRec
<1>2. PICK new \in TreasuryRowRec : row' = row \/ row' = [row EXCEPT ![cur[w]] = new]
  <2>1. CASE D!WriteOutcome(w)
    <3> DEFINE g == IF goal[w] = "bridged" THEN 0 ELSE row[cur[w]].gateway
    <3>1. [row[cur[w]] EXCEPT !.status = goal[w], !.gateway = g] \in TreasuryRowRec
      BY <1>1, RowSet DEF TInv
    <3>2. QED
      BY <1>1, <2>1, <3>1 DEF D!WriteOutcome, D!Cas
  <2>2. CASE ~D!WriteOutcome(w)
    BY <1>1, <2>2, RowSet DEF LpStep, D!BeginDispatch, D!PrepareFails, D!ClaimDispatch,
       D!CreateNotSubmitted, D!CreateAmbiguous, D!CreateReturns, D!Unclaim, D!PersistGatewayId,
       D!PollNothing, D!PollSettled, D!PollReturned, D!Cas, TInv
  <2>3. QED
    BY <2>1, <2>2
<1>3. QED
  BY <1>1, <1>2

LEMMA LpType ==
    ASSUME TInv, NEW w \in Workers, LpStep(w), UNCHANGED treasuryVars
    PROVE  TInv'
<1> USE LpFrame
<1>1. told' \in [Orders -> D!ToldStatuses]
  <2>1. PICK p \in D!ToldStatuses : told' = told \/ told' = [told EXCEPT ![cur[w]] = p]
    BY Members DEF LpStep, D!BeginDispatch, D!PrepareFails, D!ClaimDispatch, D!CreateNotSubmitted,
       D!CreateAmbiguous, D!CreateReturns, D!Unclaim, D!PersistGatewayId, D!PollNothing,
       D!PollSettled, D!PollReturned, D!WriteOutcome, D!Decide, D!Rest, D!dispatchVars,
       TInv, BooksOK
  <2>2. QED
    BY <2>1 DEF TInv, BooksOK
<1>2. gateway' \in [Orders -> [GatewayIds -> D!GatewayStates]]
  <2>1. gateway' = gateway \/ \E g \in GatewayIds : D!Creates(cur[w], g)
    BY DEF LpStep, D!BeginDispatch, D!PrepareFails, D!ClaimDispatch, D!CreateNotSubmitted,
       D!CreateAmbiguous, D!CreateReturns, D!Unclaim, D!PersistGatewayId, D!PollNothing,
       D!PollSettled, D!PollReturned, D!WriteOutcome, D!dispatchVars
  <2>2. QED
    BY <2>1, CreatesIs DEF TInv, BooksOK
<1>3. /\ receipt' \in [Workers -> GatewayIds \cup {0}]
      /\ \A v \in Workers : v # w => receipt'[v] = receipt[v]
  <2>1. PICK g \in GatewayIds \cup {0} : receipt' = receipt \/ receipt' = [receipt EXCEPT ![w] = g]
    BY DEF LpStep, D!BeginDispatch, D!PrepareFails, D!ClaimDispatch, D!CreateNotSubmitted,
       D!CreateAmbiguous, D!CreateReturns, D!Unclaim, D!PersistGatewayId, D!PollNothing,
       D!PollSettled, D!PollReturned, D!WriteOutcome, D!Rest, D!dispatchVars
  <2>2. QED
    BY <2>1 DEF TInv, HandlersOK
<1>4. goal' \in [Workers -> {"bridged", "settled", "refunded"}]
  <2>1. PICK s \in {"bridged", "settled", "refunded"} : goal' = goal \/ goal' = [goal EXCEPT ![w] = s]
    BY DEF LpStep, D!BeginDispatch, D!PrepareFails, D!ClaimDispatch, D!CreateNotSubmitted,
       D!CreateAmbiguous, D!CreateReturns, D!Unclaim, D!PersistGatewayId, D!PollNothing,
       D!PollSettled, D!PollReturned, D!WriteOutcome, D!Decide, D!Rest, D!dispatchVars
  <2>2. QED
    BY <2>1 DEF TInv, HandlersOK
<1>5. BooksOK' /\ BankOK' /\ LeaseOK'
  BY <1>1, <1>2, LpRows, SameBank, SameLease DEF TInv, BooksOK
<1>6. HandlersOK'
  BY <1>3, <1>4, LpHand DEF TInv, HandlersOK
<1>7. InHand(w)'
  <2>1. pc'[w] \in LpSteps \cup {"idle"}
    BY LpHand
  <2>2. pc'[w] # "idle" => w \in ticking' /\ cur'[w] \in Orders
    BY LpHand
  <2>3. QED
    BY <2>1, <2>2 DEF InHand, LpSteps
<1>8. QED
  BY <1>3, <1>5, <1>6, <1>7, LpHand, HandsOK DEF TInv

(* The remaining steps. *)

LEMMA CrashType ==
    ASSUME TInv, NEW w \in Workers, CrashWorker(w)
    PROVE  TInv'
<1>1. /\ pc' = [pc EXCEPT ![w] = "idle"] /\ cur' = [cur EXCEPT ![w] = Nil]
      /\ snap' = [snap EXCEPT ![w] = NewRow("lifi")] /\ ticking' = ticking \ {w}
      /\ held' = [held EXCEPT ![w] = Nothing]
      /\ receipt' = [receipt EXCEPT ![w] = 0] /\ goal' = [goal EXCEPT ![w] = "bridged"]
      /\ crashes' = crashes + 1
      /\ UNCHANGED <<row, lease, told, gateway, counted, bankVars, reloads>>
  BY DEF CrashWorker, D!CrashWorker, D!Crash, D!Done, D!NewRow, NewRow
<1>2. Nothing \in HeldRec /\ "idle" \in Steps
  BY StepsAre, Members DEF Nothing, HeldRec
<1>3. HandlersOK' /\ Others(w) /\ InHand(w)' /\ \A v \in Workers : v # w => receipt'[v] = receipt[v]
  BY <1>1, <1>2 DEF TInv, HandlersOK, Others, InHand
<1>4. dropped' \in [Orders -> SUBSET GatewayIds]
  <2>1. CASE pc[w] = "persistReload"
    <3>1. cur[w] \in Orders /\ receipt[w] \in GatewayIds
      BY <2>1 DEF TInv, InHand
    <3>2. QED
      BY <2>1, <3>1 DEF CrashWorker, TInv, BooksOK
  <2>2. CASE pc[w] # "persistReload"
    BY <2>2 DEF CrashWorker, TInv, BooksOK
  <2>3. QED
    BY <2>1, <2>2
<1>5. BooksOK' /\ BankOK' /\ LeaseOK'
  BY <1>1, <1>4, SameBank DEF TInv, BooksOK, LeaseOK
<1>6. QED
  BY <1>1, <1>3, <1>5, HandsOK DEF TInv

\* Steps outside the handlers leave the handlers where they are.
LEMMA OutsideType ==
    ASSUME TInv, UNCHANGED <<pc, cur, snap, held, receipt, goal>>, ticking' \subseteq Workers,
           \A w \in ticking : w \in ticking' \/ pc[w] = "idle",
           BooksOK', BankOK', LeaseOK'
    PROVE  TInv'
<1>1. HandlersOK' /\ \A w \in Workers : InHand(w)'
  BY DEF TInv, HandlersOK, InHand
<1>2. QED
  BY <1>1 DEF TInv

LEMMA LeaseType ==
    ASSUME TInv, \/ D!LeaseStep /\ UNCHANGED treasuryVars
                 \/ \E w \in Workers : BeginTick(w)
    PROVE  TInv'
<1>1. /\ UNCHANGED <<row, pc, cur, snap, crashes, goal, receipt, told, gateway, held, counted>>
      /\ UNCHANGED <<bankVars, reloads, dropped>>
  BY DEF D!LeaseStep, D!LeaseExpires, D!EndTick, BeginTick, D!BeginTick, D!dispatchVars, treasuryVars
<1>2. /\ lease' \in Workers \cup {Nil}
      /\ \/ \E w \in Workers : ticking' = ticking \cup {w}
         \/ \E w \in Workers : ticking' = ticking \ {w} /\ pc[w] = "idle"
         \/ ticking' = ticking
  BY DEF D!LeaseStep, D!LeaseExpires, D!EndTick, BeginTick, D!BeginTick, D!AcquireLease, TInv, LeaseOK
<1>3. BooksOK' /\ BankOK' /\ LeaseOK'
  BY <1>1, <1>2, SameBooks, SameBank DEF TInv, LeaseOK
<1>4. QED
  BY <1>1, <1>2, <1>3, OutsideType DEF TInv, HandlersOK

LEMMA WorldType ==
    ASSUME TInv,
           \/ \E b \in Banks : SwitchRail(b)
           \/ \E p \in Payouts : RailResolves(p)
           \/ \E o \in Orders, g \in GatewayIds : D!GatewayResolves(o, g) /\ UNCHANGED treasuryVars
           \/ UNCHANGED vars
    PROVE  TInv'
<1>1. UNCHANGED <<sharedVars, goal, receipt, told, held, counted, reloads, dropped, disowned>>
  BY DEF SwitchRail, RailResolves, D!GatewayResolves, vars, treasuryVars, dispatchVars, bankVars,
     D!sharedVars, sharedVars
<1>2. BankOK'
  BY DEF SwitchRail, RailResolves, D!GatewayResolves, vars, treasuryVars, bankVars, TInv, BankOK,
     RailStates
<1>3. gateway' \in [Orders -> [GatewayIds -> D!GatewayStates]]
  <2>1. CASE UNCHANGED gateway
    BY <2>1 DEF TInv, BooksOK
  <2>2. ASSUME NEW o \in Orders, NEW g \in GatewayIds, D!GatewayResolves(o, g)
        PROVE  gateway' \in [Orders -> [GatewayIds -> D!GatewayStates]]
    <3>1. PICK outcome \in D!GatewayStates : gateway' = [gateway EXCEPT ![o][g] = outcome]
      BY <2>2, Members DEF D!GatewayResolves
    <3>2. QED
      BY <3>1 DEF TInv, BooksOK
  <2>3. UNCHANGED gateway \/ \E o \in Orders, g \in GatewayIds : D!GatewayResolves(o, g)
    BY DEF SwitchRail, RailResolves, vars, dispatchVars
  <2>4. QED
    BY <2>1, <2>2, <2>3
<1>4. BooksOK' /\ LeaseOK'
  BY <1>1, <1>3 DEF TInv, BooksOK, LeaseOK, sharedVars
<1>5. QED
  BY <1>1, <1>2, <1>4, OutsideType DEF TInv, HandlersOK, sharedVars

LEMMA TypeStep == TInv /\ [Next]_vars => TInv'
<1> SUFFICES ASSUME TInv, [Next]_vars PROVE TInv'
  OBVIOUS
<1>1. ASSUME NEW w \in Workers, Handler(w) PROVE TInv'
  <2>1. CASE LpMode(w)
    BY <2>1, LpFetchType, LpType DEF LpMode, LpStep
  <2>2. CASE ~LpMode(w)
    BY <1>1, <2>2, FetchType, ClaimType, PayoutType, ReloadType DEF Handler, PayoutStep, ReloadStep
  <2>3. QED
    BY <2>1, <2>2
<1>2. CASE Outside
  BY <1>2, LeaseType, WorldType DEF Outside, Payouts
<1>3. QED
  BY <1>1, <1>2, CrashType, LeaseType, WorldType DEF Next

\* Treasury mode gives up no id and writes no outcome of another's: lp mode alone does.
LEMMA GhostStep == TInv /\ GhostOK /\ [Next]_vars => GhostOK'
<1> SUFFICES ASSUME TInv, GhostOK, [Next]_vars PROVE GhostOK'
  OBVIOUS
<1> USE DEF GhostOK, ghosts, dispatchVars, D!ghosts, D!dispatchVars
<1>1. ASSUME NEW w \in Workers, Handler(w) PROVE GhostOK'
  <2>1. CASE LpMode(w)
    <3>1. CASE D!CreateNotSubmitted(w)
      BY <3>1 DEF D!CreateNotSubmitted
    <3>2. CASE D!WriteOutcome(w)
      <4>1. cur[w] \in Orders
        BY <3>2 DEF D!WriteOutcome, TInv, InHand
      <4>2. QED
        BY <3>2, <4>1 DEF D!WriteOutcome
    <3>3. CASE ~D!CreateNotSubmitted(w) /\ ~D!WriteOutcome(w)
      <4>1. UNCHANGED <<unheard, stale, overlapped>>
        BY <2>1, <3>3 DEF LpMode, D!FetchBridged, D!FetchDispatching, D!BeginDispatch,
           D!PrepareFails, D!ClaimDispatch, D!CreateAmbiguous, D!CreateReturns, D!Unclaim,
           D!PersistGatewayId, D!PollNothing, D!PollSettled, D!PollReturned
      <4>2. QED
        BY <4>1
    <3>4. QED
      BY <3>1, <3>2, <3>3
  <2>2. CASE PayoutStep(w)
    BY <2>2 DEF PayoutStep, GateFails, FallbackToLp, ClaimPayout, SubmitPayout, ReleaseClaim,
       PollPayout, PollPayoutFails, RetirePayout, SettleRow, SettlePaymentOrder
  <2>3. CASE ReloadStep(w)
    BY <2>3 DEF ReloadStep, ReloadFails, ReloadReturns, ReloadAmbiguous, PersistReload, PollReload,
       WriteReload
  <2>4. QED
    BY <1>1, <2>1, <2>2, <2>3 DEF Handler, FetchTreasury, FetchPayout, FetchReload
<1>2. ASSUME NEW w \in Workers, BeginTick(w) PROVE GhostOK'
  BY <1>2 DEF BeginTick, D!BeginTick
<1>3. ASSUME NEW w \in Workers, CrashWorker(w) PROVE GhostOK'
  BY <1>3 DEF CrashWorker, D!CrashWorker
<1>4. CASE Outside
  BY <1>4 DEF Outside, D!LeaseStep, SwitchRail, RailResolves, D!GatewayResolves
<1>5. CASE UNCHANGED vars
  BY <1>5 DEF vars
<1>6. QED
  BY <1>1, <1>2, <1>3, <1>4, <1>5 DEF Next

\* Every variable keeps its type, whether the lease holds or not (dispatchTreasury,
\* advanceTreasuryPayouts, advanceFloatReload, and lp mode after a fallback).
THEOREM TypeCorrect == Spec => []TypeOK
<1>1. Init => GhostOK
  BY DEF Init, GhostOK
<1>2. Spec => [](TInv /\ GhostOK)
  BY <1>1, TypeInit, TypeStep, GhostStep, PTL DEF Spec
<1>3. QED
  BY <1>2, TypesAre, PTL

-----------------------------------------------------------------------------
(***************************************************************************)
(* Payments and reloads, under a lease that holds: one dispatcher ticks,   *)
(* so what a handler has read of its row stays true until it writes.       *)
(***************************************************************************)
Leased == \A w \in ticking : lease = w

\* Transfers that count against the order.
Live(o) == Transfers(o) \ disowned

\* Gateway orders that still pay somebody.
Paying(o) == { g \in D!Known(o) : gateway[o][g] \in {"open", "settled"} }

\* Reloads whose id the row has, or a handler.
Kept(o) == reloads[o] \ dropped[o]

\* What a handler knows of its order at each step of a payout ...
KnowsPayout(w) ==
    LET o == cur[w]
    IN  /\ pc[w] = "gate" => row[o].mode = "treasury" /\ row[o].status = "bridged"
        /\ pc[w] \in {"transfer", "release", "payout", "retire", "settle"} =>
               row[o].mode = "treasury" /\ row[o].status = "dispatching" /\ row[o].ref = held[w].ref
        /\ pc[w] \in {"transfer", "release"} => Reused(o) \/ Live(o) = {}
        /\ pc[w] = "retire" => Payout(w) \in Payouts /\ rail[Payout(w)] = "failed"
        /\ pc[w] = "settle" => Payout(w) \in Payouts /\ rail[Payout(w)] = "success"
        /\ pc[w] = "po" => row[o].status = "settled" /\ row[o].mode = "treasury"

\* ... of a reload ...
KnowsReload(w) ==
    LET o == cur[w]
    IN  /\ pc[w] \in {"reload", "persistReload"} => row[o].mode = "treasury" /\ row[o].gateway = 0
        /\ pc[w] = "reload" => Kept(o) = {}
        /\ pc[w] = "persistReload" => Kept(o) \subseteq {receipt[w]} /\ receipt[w] \in reloads[o]

\* ... and in lp mode, of an order that was never reloaded for.
KnowsLp(w) ==
    LET o == cur[w]
    IN  /\ pc[w] \in LpSteps => row[o].mode = "lp"
        /\ reloads[o] = {} =>
           /\ pc[w] \in {"dispatch", "prepare"} => row[o].status = "bridged"
           /\ pc[w] \in {"create", "unclaim", "persist"} =>
                  row[o].status = "dispatching" /\ row[o].gateway = 0
           /\ pc[w] \in {"create", "unclaim"} => Paying(o) = {}
           /\ pc[w] = "persist" => receipt[w] # 0 /\ Paying(o) \subseteq {receipt[w]}
           /\ pc[w] \in {"poll", "write"} => row[o].status = "dispatching" /\ row[o].gateway # 0
           /\ pc[w] = "poll" => snap[w].gateway = row[o].gateway
           /\ pc[w] = "write" =>
                  \/ goal[w] = "settled" /\ gateway[o][row[o].gateway] = "settled"
                  \/ /\ goal[w] \in {"bridged", "refunded"}
                     /\ gateway[o][row[o].gateway] = "returned"

Knows(w) == KnowsPayout(w) /\ KnowsReload(w) /\ KnowsLp(w)

\* What an order's row says of the transfers and Gateway orders made for it.
PayoutOK(o) ==
    /\ row[o].mode = "treasury" => Fills(o) = {} /\ row[o].status # "refunded"
    /\ Reused(o) \/ \A p \in Live(o) :
           /\ row[o].mode = "treasury" /\ row[o].status \in {"dispatching", "settled"}
           /\ p[3] = row[o].ref
    /\ ~Entangled(o) /\ (row[o].status = "settled" \/ told[o] = "settled") => Paid(o)

LpOK(o) ==
    row[o].mode = "lp" /\ reloads[o] = {} =>
        /\ row[o].status \in {"bridged", "refunded"} => Paying(o) = {}
        /\ row[o].status = "bridged" => row[o].gateway = 0
        /\ row[o].status = "dispatching" /\ row[o].gateway # 0 => Paying(o) \subseteq {row[o].gateway}
        /\ \A g, h \in Paying(o) : g = h

Persisting(o) == \E w \in Workers : pc[w] = "persistReload" /\ cur[w] = o

ReloadOK(o) ==
    /\ row[o].mode = "treasury" => row[o].gateway \in reloads[o] \cup {0}
    /\ \A g, h \in Kept(o) : g = h
    /\ row[o].mode = "treasury" /\ row[o].gateway = 0 => Kept(o) = {} \/ Persisting(o)

OrderOK(o) == PayoutOK(o) /\ LpOK(o) /\ ReloadOK(o)

PayInv ==
    /\ Leased
    /\ \A w \in Workers : Knows(w)
    /\ \A o \in Orders : OrderOK(o)

LEMMA PayInit == Init => PayInv
<1> SUFFICES ASSUME Init PROVE PayInv
  OBVIOUS
<1>1. Leased /\ \A w \in Workers : Knows(w)
  BY DEF Init, Leased, Knows, KnowsPayout, KnowsReload, KnowsLp, LpSteps
<1>2. ASSUME NEW o \in Orders PROVE OrderOK(o)
  <2>1. row[o].mode = "treasury" /\ row[o].status = "bridged" /\ row[o].gateway = 0
    <3>1. PICK known \in BOOLEAN : row[o] = Bridged(known)
      BY <1>2 DEF Init
    <3>2. QED
      BY <3>1 DEF Bridged
  <2>2. Fills(o) = {} /\ Live(o) = {} /\ Kept(o) = {} /\ told[o] = "nothing"
    BY <1>2 DEF Init, Fills, Live, Transfers, Kept, D!Known
  <2>3. QED
    BY <2>1, <2>2 DEF OrderOK, PayoutOK, LpOK, ReloadOK
<1>3. QED
  BY <1>1, <1>2 DEF PayInv

\* With the lease there is one handler at most.
LEMMA Solo ==
    ASSUME TInv, PayInv, NEW w \in ticking
    PROVE  \A v \in Workers : v # w => pc[v] = "idle"
  BY DEF TInv, InHand, PayInv, Leased

\* Nothing was done for an order.
Same(o) ==
    /\ row'[o] = row[o] /\ told'[o] = told[o] /\ gateway'[o] = gateway[o]
    /\ unheard'[o] = unheard[o] /\ reloads'[o] = reloads[o] /\ dropped'[o] = dropped[o]
    /\ \A b \in Banks, n \in Refs : /\ rail'[<<b, o, n>>] = rail[<<b, o, n>>]
                                    /\ <<b, o, n>> \in disowned' <=> <<b, o, n>> \in disowned

LEMMA SameSets ==
    ASSUME NEW o \in Orders, Same(o)
    PROVE  /\ Live(o)' = Live(o) /\ Paying(o)' = Paying(o) /\ Kept(o)' = Kept(o)
           /\ Fills(o)' = Fills(o)
           /\ Reused(o)' <=> Reused(o)
           /\ Entangled(o)' <=> Entangled(o)
           /\ Paid(o)' <=> Paid(o)
<1>1. Live(o)' = Live(o)
  <2>1. \A p \in Banks \X {o} \X Refs : rail'[p] = rail[p] /\ (p \in disowned' <=> p \in disowned)
    BY DEF Same
  <2>2. QED
    BY <2>1 DEF Live, Transfers
<1>2. Paying(o)' = Paying(o) /\ Kept(o)' = Kept(o) /\ Fills(o)' = Fills(o)
  BY DEF Same, Paying, Kept, Fills, D!Known
<1>3. Reused(o)' <=> Reused(o)
  BY DEF Same, Reused
<1>4. Entangled(o)' <=> Entangled(o)
  BY DEF Same, Entangled
<1>5. Paid(o)' <=> Paid(o)
  BY DEF Same, Paid
<1>6. QED
  BY <1>1, <1>2, <1>3, <1>4, <1>5

LEMMA OrderKept ==
    ASSUME NEW o \in Orders, OrderOK(o), Same(o), Kept(o) # {} /\ Persisting(o) => Persisting(o)'
    PROVE  OrderOK(o)'
<1>1. PayoutOK(o)'
  BY SameSets DEF OrderOK, PayoutOK, Same
<1>2. LpOK(o)'
  BY SameSets DEF OrderOK, LpOK, Same
<1>3. ReloadOK(o)'
  BY SameSets DEF OrderOK, ReloadOK, Same
<1>4. QED
  BY <1>1, <1>2, <1>3 DEF OrderOK

\* It is enough to look at the handler that steps and at its order.
LEMMA Assemble ==
    ASSUME TInv, TInv', PayInv, NEW w \in Workers, w \in ticking, Others(w),
           UNCHANGED <<ticking, lease>>,
           NEW o \in Orders, pc[w] = "idle" \/ cur[w] = o,
           \A q \in Orders : q # o => Same(q),
           Knows(w)', OrderOK(o)'
    PROVE  PayInv'
<1>1. Leased'
  BY DEF PayInv, Leased
<1>2. ASSUME NEW v \in Workers, v # w PROVE Knows(v)'
  <2>1. pc'[v] = "idle"
    BY <1>2, Solo DEF Others
  <2>2. QED
    BY <2>1, StepsAre DEF Knows, KnowsPayout, KnowsReload, KnowsLp
<1>3. ASSUME NEW q \in Orders, q # o PROVE OrderOK(q)'
  <2>1. ~Persisting(q)
    BY <1>3, Solo DEF Persisting
  <2>2. QED
    BY <1>3, <2>1, OrderKept DEF PayInv
<1>4. QED
  BY <1>1, <1>2, <1>3 DEF PayInv

\* Steps that do nothing for any order.
LEMMA Quiet ==
    ASSUME TInv, TInv', PayInv, NEW w \in Workers, w \in ticking, Others(w),
           UNCHANGED <<ticking, lease>>, pc[w] # "persistReload",
           UNCHANGED <<row, told, gateway, unheard, reloads, dropped, rail, disowned>>, Knows(w)'
    PROVE  PayInv'
<1>1. Leased'
  BY DEF PayInv, Leased
<1>2. ASSUME NEW v \in Workers, v # w PROVE Knows(v)'
  <2>1. pc'[v] = "idle"
    BY <1>2, Solo DEF Others
  <2>2. QED
    BY <2>1, StepsAre DEF Knows, KnowsPayout, KnowsReload, KnowsLp
<1>3. ASSUME NEW q \in Orders PROVE OrderOK(q)'
  <2>1. ~Persisting(q)
    BY Solo DEF Persisting
  <2>2. Same(q)
    BY DEF Same
  <2>3. QED
    BY <2>1, <2>2, OrderKept DEF PayInv
<1>4. QED
  BY <1>1, <1>2, <1>3 DEF PayInv

LEMMA IdleKnows == ASSUME NEW w \in Workers, pc'[w] = "idle" PROVE Knows(w)'
  BY StepsAre DEF Knows, KnowsPayout, KnowsReload, KnowsLp

\* Steps that end a handler, or go on, with the order as it was.
LEMMA PayEnd ==
    ASSUME TInv, TInv', PayInv, NEW w \in Workers, pc[w] \notin {"idle", "persistReload"},
           Others(w), pc'[w] = "idle", Frame,
           UNCHANGED <<row, told, gateway, unheard, reloads, dropped, rail, disowned>>
    PROVE  PayInv'
  BY IdleKnows, Quiet DEF TInv, InHand, Frame

LEMMA PayFetch ==
    ASSUME TInv, TInv', PayInv, NEW w \in Workers, NEW o \in Orders,
           FetchTreasury(w, o) \/ FetchPayout(w, o) \/ FetchReload(w, o)
    PROVE  PayInv'
<1>1. Frame /\ UNCHANGED <<ticking, lease, row, told, gateway, unheard, reloads, dropped, rail, disowned>>
  BY DEF FetchTreasury, FetchPayout, FetchReload, Frame, dispatchVars, ghosts, treasuryVars, bankVars
<1>2. PICK s \in {"gate", "payout", "reload", "pollReload"} :
         /\ Fetch(w, o, s)
         /\ s = "gate" => Hold(w, floatRail, 0) /\ row[o].status = "bridged"
         /\ s = "payout" => Hold(w, floatRail, row[o].ref) /\ row[o].status = "dispatching"
         /\ s = "reload" => UNCHANGED held /\ row[o].gateway = 0
         /\ s = "pollReload" => UNCHANGED held
         /\ row[o].mode = "treasury"
  BY DEF FetchTreasury, FetchPayout, FetchReload, treasuryVars
<1>3. floatRail \in Banks /\ row[o].ref \in Refs \cup {0}
  BY DEF TInv, BankOK, BooksOK, TreasuryRowRec
<1>4. /\ w \in ticking /\ pc[w] = "idle" /\ pc'[w] = s /\ cur'[w] = o
      /\ \A v \in Workers : v # w => pc'[v] = pc[v] /\ cur'[v] = cur[v] /\ snap'[v] = snap[v]
  BY <1>2, FetchIs, StepsAre DEF TInv
<1>5. /\ \A v \in Workers : v # w => held'[v] = held[v]
      /\ s = "payout" => held'[w].ref = row[o].ref
  <2>1. CASE s \in {"reload", "pollReload"}
    BY <1>2, <2>1
  <2>2. CASE s \in {"gate", "payout"}
    BY <1>2, <1>3, <2>2, HoldIs DEF TInv
  <2>3. QED
    BY <2>1, <2>2
<1>6. KnowsPayout(w)' /\ KnowsLp(w)'
  BY <1>1, <1>2, <1>4, <1>5 DEF KnowsPayout, KnowsLp, LpSteps
<1>7. KnowsReload(w)'
  <2>1. s = "reload" => Kept(o) = {}
    <3>1. ~Persisting(o)
      BY <1>4, Solo DEF Persisting
    <3>2. QED
      BY <1>2, <3>1 DEF PayInv, OrderOK, ReloadOK
  <2>2. Kept(o)' = Kept(o)
    BY <1>1 DEF Kept
  <2>3. QED
    BY <1>1, <1>2, <1>4, <2>1, <2>2 DEF KnowsReload
<1>8. Others(w)
  BY <1>4, <1>5 DEF Others
<1>9. QED
  BY <1>1, <1>4, <1>6, <1>7, <1>8, Quiet DEF Knows

\* A fallback: nothing was paid and no Gateway order of the merchant's made.
LEMMA PayFallback ==
    ASSUME TInv, TInv', PayInv, NEW w \in Workers, FallbackToLp(w)
    PROVE  PayInv'
<1>0. PICK o \in Orders : o = cur[w]
  BY DEF FallbackToLp, TInv, InHand
<1>1. /\ pc[w] = "gate" /\ w \in ticking /\ pc'[w] = "idle" /\ Others(w)
      /\ UNCHANGED <<ticking, lease, told, gateway, unheard, reloads, dropped, rail, disowned>>
  BY FinishIs DEF FallbackToLp, TInv, InHand, Frame, dispatchVars, ghosts, bankVars
<1>2. row[o].mode = "treasury" /\ row[o].status = "bridged" /\ OrderOK(o)
  BY <1>0, <1>1 DEF PayInv, Knows, KnowsPayout
<1>3. /\ row'[o].mode = "lp" /\ row'[o].status = "bridged" /\ row'[o].gateway = row[o].gateway
      /\ \A q \in Orders : q # o => row'[q] = row[q]
  BY <1>0, <1>2 DEF FallbackToLp, Unclaimed, TInv, BooksOK, TreasuryRowRec
<1>4. /\ Live(o)' = Live(o) /\ Paying(o)' = Paying(o) /\ Fills(o)' = Fills(o) /\ Kept(o)' = Kept(o)
      /\ (Reused(o)' <=> Reused(o)) /\ (Paid(o)' <=> Paid(o))
  BY <1>1 DEF Live, Transfers, Paying, Fills, Kept, Reused, Paid, D!Known
<1>5. Reused(o) \/ Live(o) = {}
  BY <1>2 DEF OrderOK, PayoutOK
<1>6. PayoutOK(o)'
  <2>1. told[o] = "settled" => Paid(o)
    BY <1>2 DEF OrderOK, PayoutOK, Entangled
  <2>2. QED
    BY <1>1, <1>3, <1>4, <1>5, <2>1 DEF PayoutOK
<1>7. LpOK(o)'
  <2>1. reloads[o] = {} => Paying(o) = {} /\ row[o].gateway = 0
    BY <1>2 DEF OrderOK, PayoutOK, ReloadOK, Fills, Paying, D!Known
  <2>2. QED
    BY <1>1, <1>3, <1>4, <2>1 DEF LpOK
<1>8. ReloadOK(o)'
  BY <1>2, <1>3, <1>4 DEF OrderOK, ReloadOK
<1>9. \A q \in Orders : q # o => Same(q)
  BY <1>1, <1>3 DEF Same
<1>10. QED
  BY <1>0, <1>1, <1>6, <1>7, <1>8, <1>9, IdleKnows, Assemble DEF OrderOK

\* The claim finds no transfer that counts.
LEMMA PayClaim ==
    ASSUME TInv, TInv', PayInv, NEW w \in Workers, NEW n \in Refs, ClaimPayout(w, n)
    PROVE  PayInv'
<1>0. PICK o \in Orders : o = cur[w]
  BY DEF ClaimPayout, TInv, InHand
<1>1. /\ pc[w] = "gate" /\ w \in ticking
      /\ UNCHANGED <<ticking, lease, told, gateway, unheard, reloads, dropped, rail, disowned>>
  BY DEF ClaimPayout, TInv, InHand, Frame, bankVars, ghosts
<1>2. row[o].mode = "treasury" /\ row[o].status = "bridged" /\ OrderOK(o)
  BY <1>0, <1>1 DEF PayInv, Knows, KnowsPayout
<1>3. /\ row' = [row EXCEPT ![o].status = "dispatching", ![o].ref = n]
      /\ Go(w, "transfer") /\ Hold(w, held[w].bank, n)
  BY <1>0, <1>2 DEF ClaimPayout, Unclaimed
<1>4. /\ row'[o].mode = "treasury" /\ row'[o].status = "dispatching" /\ row'[o].ref = n
      /\ row'[o].gateway = row[o].gateway
      /\ \A q \in Orders : q # o => row'[q] = row[q]
  BY <1>2, <1>3 DEF TInv, BooksOK, TreasuryRowRec
<1>5. /\ pc'[w] = "transfer" /\ cur'[w] = o /\ UNCHANGED <<cur, snap>>
      /\ \A v \in Workers : v # w => pc'[v] = pc[v]
  BY <1>0, <1>3, GoIs, StepsAre DEF TInv
<1>6. held'[w].ref = n /\ \A v \in Workers : v # w => held'[v] = held[v]
  BY <1>1, <1>3, HoldIs DEF TInv, InHand
<1>7. Others(w)
  BY <1>5, <1>6 DEF Others
<1>8. /\ Live(o)' = Live(o) /\ Fills(o)' = Fills(o) /\ Kept(o)' = Kept(o)
      /\ (Reused(o)' <=> Reused(o)) /\ (Paid(o)' <=> Paid(o)) /\ (Entangled(o)' <=> Entangled(o))
  BY <1>1, <1>2, <1>4 DEF Live, Transfers, Fills, Kept, Reused, Paid, Entangled, D!Known
<1>9. Reused(o) \/ Live(o) = {}
  BY <1>2 DEF OrderOK, PayoutOK
<1>10. Knows(w)'
  BY <1>4, <1>5, <1>6, <1>8, <1>9 DEF Knows, KnowsPayout, KnowsReload, KnowsLp, LpSteps
<1>11. PayoutOK(o)' /\ LpOK(o)'
  BY <1>1, <1>2, <1>4, <1>8, <1>9 DEF OrderOK, PayoutOK, LpOK
<1>12. ReloadOK(o)'
  <2>1. ~Persisting(o)
    BY <1>1, Solo DEF Persisting
  <2>2. QED
    BY <1>1, <1>2, <1>4, <1>8, <2>1 DEF OrderOK, ReloadOK
<1>13. \A q \in Orders : q # o => Same(q)
  BY <1>1, <1>4 DEF Same
<1>14. QED
  BY <1>0, <1>1, <1>7, <1>10, <1>11, <1>12, <1>13, Assemble DEF OrderOK

\* Steps that only write the row.
LEMMA SameMoney ==
    ASSUME NEW o \in Orders, UNCHANGED <<gateway, unheard, reloads, dropped, rail, disowned>>,
           row'[o].mode = row[o].mode
    PROVE  /\ Live(o)' = Live(o) /\ Paying(o)' = Paying(o) /\ Fills(o)' = Fills(o)
           /\ Kept(o)' = Kept(o)
           /\ (Reused(o)' <=> Reused(o)) /\ (Paid(o)' <=> Paid(o))
           /\ (Entangled(o)' <=> Entangled(o))
  BY DEF Live, Transfers, Paying, Fills, Kept, Reused, Paid, Entangled, D!Known

\* A step of a payout's handler that leaves the reloads and the mode alone.
LEMMA PayRow ==
    ASSUME TInv, TInv', PayInv, NEW w \in Workers, NEW o \in Orders, o = cur[w],
           pc[w] \notin {"idle", "reload", "persistReload"}, row[o].mode = "treasury",
           Others(w), Frame, UNCHANGED <<gateway, unheard, reloads, dropped, rail, disowned>>,
           row'[o].mode = row[o].mode, row'[o].gateway = row[o].gateway,
           \A q \in Orders : q # o => row'[q] = row[q] /\ told'[q] = told[q],
           Knows(w)', PayoutOK(o)'
    PROVE  PayInv'
<1>1. w \in ticking /\ UNCHANGED <<ticking, lease>>
  BY DEF TInv, InHand, Frame
<1>2. ReloadOK(o)'
  <2>1. ~Persisting(o)
    BY <1>1, Solo DEF Persisting
  <2>2. QED
    BY <2>1, SameMoney DEF PayInv, OrderOK, ReloadOK
<1>3. LpOK(o)'
  BY DEF LpOK
<1>4. \A q \in Orders : q # o => Same(q)
  BY DEF Same
<1>5. QED
  BY <1>1, <1>2, <1>3, <1>4, Assemble DEF OrderOK

LEMMA PayRelease ==
    ASSUME TInv, TInv', PayInv, NEW w \in Workers, ReleaseClaim(w)
    PROVE  PayInv'
<1>0. PICK o \in Orders : o = cur[w]
  BY DEF ReleaseClaim, TInv, InHand
<1>1. /\ pc[w] = "release" /\ pc'[w] = "idle" /\ Others(w) /\ Frame
      /\ UNCHANGED <<told, gateway, unheard, reloads, dropped, rail, disowned>>
  BY FinishIs DEF ReleaseClaim, TInv, dispatchVars, ghosts, bankVars
<1>2. /\ row[o].mode = "treasury" /\ row[o].status = "dispatching" /\ OrderOK(o)
      /\ Reused(o) \/ Live(o) = {}
  BY <1>0, <1>1 DEF PayInv, Knows, KnowsPayout
<1>3. /\ row'[o].mode = "treasury" /\ row'[o].status \in {"bridged", "dispatching"}
      /\ row'[o].gateway = row[o].gateway
      /\ \A q \in Orders : q # o => row'[q] = row[q]
  BY <1>0, <1>2 DEF ReleaseClaim, Cas, TInv, BooksOK, TreasuryRowRec
<1>4. PayoutOK(o)'
  BY <1>1, <1>2, <1>3, SameMoney DEF OrderOK, PayoutOK
<1>5. QED
  BY <1>0, <1>1, <1>2, <1>3, <1>4, IdleKnows, PayRow

LEMMA PayPoll ==
    ASSUME TInv, TInv', PayInv, NEW w \in Workers, PollPayout(w)
    PROVE  PayInv'
<1>0. pc[w] = "payout" /\ Frame /\ UNCHANGED <<row, told, gateway, unheard, reloads, dropped, rail, disowned>>
  BY DEF PollPayout, dispatchVars, ghosts, bankVars
<1>1. CASE Finish(w)
  BY <1>0, <1>1, FinishIs, PayEnd DEF TInv
<1>2. ASSUME NEW s \in {"settle", "retire"}, Advance(w, s),
             rail[Payout(w)] = IF s = "settle" THEN "success" ELSE "failed"
      PROVE  PayInv'
  <2>1. pc'[w] = s /\ UNCHANGED <<cur, snap, held>> /\ Others(w)
    BY <1>2, AdvanceIs, StepsAre DEF TInv
  <2>2. Payout(w)' = Payout(w) /\ Payout(w) \in Payouts
    BY <1>0, <2>1, PayoutIs DEF Payout
  <2>3. Knows(w)'
    BY <1>0, <1>2, <2>1, <2>2 DEF PayInv, Knows, KnowsPayout, KnowsReload, KnowsLp, LpSteps
  <2>4. QED
    BY <1>0, <2>1, <2>3, Quiet DEF TInv, InHand, Frame
<1>3. QED
  BY <1>1, <1>2 DEF PollPayout

\* The payout that failed is the only one the row's reference may stand for at its bank.
LEMMA PayRetire ==
    ASSUME TInv, TInv', PayInv, NEW w \in Workers, RetirePayout(w)
    PROVE  PayInv'
<1>0. PICK o \in Orders : o = cur[w]
  BY DEF RetirePayout, TInv, InHand
<1>1. /\ pc[w] = "retire" /\ pc'[w] = "idle" /\ Others(w) /\ Frame
      /\ UNCHANGED <<told, gateway, unheard, reloads, dropped, rail, disowned>>
  BY FinishIs DEF RetirePayout, TInv, dispatchVars, ghosts, bankVars
<1>2. /\ row[o].mode = "treasury" /\ row[o].status = "dispatching" /\ OrderOK(o)
      /\ row[o].ref = held[w].ref
      /\ Payout(w) \in Payouts /\ rail[Payout(w)] = "failed"
  BY <1>0, <1>1 DEF PayInv, Knows, KnowsPayout
<1>3. Reused(o) \/ Live(o) = {}
  <2>1. SUFFICES ASSUME ~Reused(o), NEW p \in Live(o) PROVE FALSE
    OBVIOUS
  <2>2. PICK b \in Banks, n \in Refs : p = <<b, o, n>>
    BY DEF Live, Transfers
  <2>3. n = held[w].ref /\ rail[<<b, o, n>>] \in {"processing", "success"}
    BY <1>2, <2>1, <2>2 DEF OrderOK, PayoutOK, Live, Transfers
  <2>4. /\ held[w].bank \in Banks /\ rail[<<held[w].bank, o, n>>] = "failed"
    BY <1>0, <1>2, <2>3 DEF Payout, Payouts
  <2>5. b # held[w].bank
    BY <2>3, <2>4
  <2>6. QED
    BY <2>1, <2>3, <2>4, <2>5 DEF Reused
<1>4. /\ row'[o].mode = "treasury" /\ row'[o].status \in {"bridged", "dispatching"}
      /\ row'[o].gateway = row[o].gateway
      /\ \A q \in Orders : q # o => row'[q] = row[q]
  <2>1. row \in [Orders -> TreasuryRowRec]
    BY DEF TInv, BooksOK
  <2>2. \/ row' = row
        \/ row' = [row EXCEPT ![o] = [row[o] EXCEPT !.status = "bridged", !.ref = 0]]
    BY <1>0 DEF RetirePayout, Cas
  <2>3. QED
    BY <1>2, <2>1, <2>2 DEF TreasuryRowRec
<1>5. PayoutOK(o)'
  BY <1>1, <1>2, <1>3, <1>4, SameMoney DEF OrderOK, PayoutOK
<1>6. QED
  BY <1>0, <1>1, <1>2, <1>4, <1>5, IdleKnows, PayRow

LEMMA PaySettle ==
    ASSUME TInv, TInv', PayInv, NEW w \in Workers, SettleRow(w)
    PROVE  PayInv'
<1>0. PICK o \in Orders : o = cur[w]
  BY DEF SettleRow, TInv, InHand
<1>1. /\ pc[w] = "settle" /\ Frame /\ (Finish(w) \/ Advance(w, "po"))
      /\ UNCHANGED <<told, gateway, unheard, reloads, dropped, rail, disowned>>
  BY DEF SettleRow, dispatchVars, ghosts, bankVars
<1>2. /\ row[o].mode = "treasury" /\ row[o].status = "dispatching" /\ OrderOK(o)
      /\ row[o].ref = held[w].ref
      /\ Payout(w) \in Payouts /\ rail[Payout(w)] = "success"
  BY <1>0, <1>1 DEF PayInv, Knows, KnowsPayout
<1>3. Paid(o)
  BY <1>0, <1>2 DEF Paid, Payout, Payouts
<1>4. /\ row'[o].mode = "treasury" /\ row'[o].status \in {"dispatching", "settled"}
      /\ row'[o].gateway = row[o].gateway /\ row'[o].ref = row[o].ref
      /\ \A q \in Orders : q # o => row'[q] = row[q]
      /\ Finish(w) \/ row'[o].status = "settled"
  <2>1. row \in [Orders -> TreasuryRowRec]
    BY DEF TInv, BooksOK
  <2>2. \/ row' = row /\ Finish(w)
        \/ row' = [row EXCEPT ![o] = [row[o] EXCEPT !.status = "settled"]]
    BY <1>0, <1>2 DEF SettleRow, Cas
  <2>3. QED
    BY <1>2, <2>1, <2>2 DEF TreasuryRowRec
<1>5. PayoutOK(o)'
  BY <1>1, <1>2, <1>3, <1>4, SameMoney DEF OrderOK, PayoutOK
<1>6. Others(w) /\ Knows(w)'
  <2>1. CASE Finish(w)
    BY <2>1, FinishIs, IdleKnows DEF TInv
  <2>2. CASE ~Finish(w)
    <3>1. pc'[w] = "po" /\ UNCHANGED <<cur, snap, held>> /\ Others(w)
      BY <1>1, <2>2, AdvanceIs, StepsAre DEF TInv
    <3>2. QED
      BY <1>0, <1>4, <2>2, <3>1 DEF Knows, KnowsPayout, KnowsReload, KnowsLp, LpSteps
  <2>3. QED
    BY <2>1, <2>2
<1>7. QED
  BY <1>0, <1>1, <1>2, <1>4, <1>5, <1>6, PayRow

LEMMA PayPo ==
    ASSUME TInv, TInv', PayInv, NEW w \in Workers, SettlePaymentOrder(w)
    PROVE  PayInv'
<1>0. PICK o \in Orders : o = cur[w]
  BY DEF SettlePaymentOrder, TInv, InHand
<1>1. /\ pc[w] = "po" /\ pc'[w] = "idle" /\ Others(w) /\ Frame
      /\ UNCHANGED <<row, gateway, unheard, reloads, dropped, rail, disowned>>
  BY FinishIs DEF SettlePaymentOrder, TInv, bankVars, ghosts
<1>2. row[o].mode = "treasury" /\ row[o].status = "settled" /\ OrderOK(o)
  BY <1>0, <1>1 DEF PayInv, Knows, KnowsPayout
<1>3. \A q \in Orders : q # o => told'[q] = told[q]
  BY <1>0 DEF SettlePaymentOrder, TInv, BooksOK
<1>4. PayoutOK(o)'
  BY <1>1, <1>2, SameMoney DEF OrderOK, PayoutOK
<1>5. QED
  BY <1>0, <1>1, <1>2, <1>3, <1>4, IdleKnows, PayRow

\* The bank takes a transfer it did not know, or answers for the one it knows.
LEMMA AcceptIs ==
    ASSUME TInv, NEW p \in Payouts, NEW s \in {"processing", "success"}, Accept(p, s)
    PROVE  /\ \A q \in Payouts : q # p \/ rail[p] # "none" => rail'[q] = rail[q]
           /\ rail[p] = "none" => rail'[p] = s
  BY DEF Accept, TInv, BankOK

\* A transfer counts from here on under the reference in the row, unless its reference is one
\* another bank knows, or the answer is lost.
LEMMA PaySubmit ==
    ASSUME TInv, TInv', PayInv, NEW w \in Workers, SubmitPayout(w)
    PROVE  PayInv'
<1> DEFINE p == Payout(w)
<1>0. PICK o \in Orders : o = cur[w]
  BY DEF SubmitPayout, TInv, InHand
<1>1. /\ pc[w] = "transfer" /\ w \in ticking /\ Frame /\ p \in Payouts
      /\ UNCHANGED <<row, told, gateway, unheard, reloads, dropped>>
  BY PayoutIs DEF SubmitPayout, TInv, InHand, dispatchVars, ghosts
<1>2. /\ row[o].mode = "treasury" /\ row[o].status = "dispatching" /\ OrderOK(o)
      /\ row[o].ref = held[w].ref
      /\ Reused(o) \/ Live(o) = {}
  BY <1>0, <1>1 DEF PayInv, Knows, KnowsPayout
<1>3. p = <<held[w].bank, o, row[o].ref>>
  BY <1>0, <1>2 DEF Payout
<1>4. /\ \A q \in Payouts : q # p \/ rail[p] # "none" => rail'[q] = rail[q]
      /\ disowned \subseteq disowned'
      /\ \A q \in Payouts : q # p => (q \in disowned' <=> q \in disowned)
      /\ \/ Finish(w)
         \/ Advance(w, "settle") /\ rail'[p] = "success"
         \/ Advance(w, "release") /\ (rail' = rail \/ p \in disowned')
  <2>1. CASE UNCHANGED <<rail, disowned>> /\ Advance(w, "release")
    BY <2>1
  <2>2. CASE /\ Accept(p, "processing") /\ UNCHANGED disowned
             /\ IF rail'[p] = "success" THEN Advance(w, "settle") ELSE Finish(w)
    BY <1>1, <2>2, AcceptIs
  <2>3. CASE /\ Accept(p, "success") /\ rail'[p] = "success" /\ UNCHANGED disowned
             /\ Advance(w, "settle")
    BY <1>1, <2>3, AcceptIs
  <2>4. CASE /\ Accept(p, "processing") /\ disowned' = disowned \cup {p} /\ Advance(w, "release")
    BY <1>1, <2>4, AcceptIs
  <2>5. QED
    BY <2>1, <2>2, <2>3, <2>4 DEF SubmitPayout
<1> HIDE DEF p
<1>5. Reused(o) => Reused(o)'
  <2>1. ASSUME NEW q \in Payouts, rail[q] # "none" PROVE rail'[q] # "none"
    BY <1>1, <1>4, <2>1
  <2>2. \A b \in Banks, n \in Refs : <<b, o, n>> \in Payouts
    BY DEF Payouts
  <2>3. QED
    BY <2>1, <2>2 DEF Reused
<1>6. Paid(o) => Paid(o)'
  <2>1. ASSUME NEW q \in Payouts, rail[q] = "success" PROVE rail'[q] = "success"
    BY <1>1, <1>4, <2>1
  <2>2. \A b \in Banks, n \in Refs : <<b, o, n>> \in Payouts
    BY DEF Payouts
  <2>3. QED
    BY <1>1, <2>1, <2>2 DEF Paid
<1>7. ASSUME Live(o) = {} PROVE Live(o)' \subseteq {p} /\ (rail' = rail \/ p \in disowned' => Live(o)' = {})
  <2>1. Transfers(o) \subseteq Payouts /\ Transfers(o)' \subseteq Payouts
    BY DEF Transfers, Payouts
  <2>2. ASSUME NEW q \in Live(o)' PROVE q = p /\ rail' # rail /\ p \notin disowned'
    <3>1. q \in Payouts /\ q \in Banks \X {o} \X Refs /\ rail'[q] \in {"processing", "success"}
          /\ q \notin disowned'
      BY <2>1 DEF Live, Transfers
    <3>2. rail'[q] # rail[q]
      BY <1>4, <1>7, <3>1 DEF Live, Transfers
    <3>3. q = p
      BY <1>4, <3>1, <3>2
    <3>4. QED
      BY <3>1, <3>2, <3>3
  <2>3. QED
    BY <2>2
<1>8. Fills(o)' = Fills(o) /\ Kept(o)' = Kept(o) /\ (Entangled(o)' <=> Entangled(o))
  BY <1>1 DEF Fills, Kept, Entangled, D!Known
<1>9. PayoutOK(o)'
  <2>1. Reused(o)' \/ \A q \in Live(o)' : q[3] = row[o].ref
    BY <1>2, <1>3, <1>5, <1>7
  <2>2. QED
    BY <1>1, <1>2, <1>6, <1>8, <2>1 DEF OrderOK, PayoutOK
<1>10. LpOK(o)'
  BY <1>1, <1>2 DEF LpOK
<1>11. ReloadOK(o)'
  <2>1. ~Persisting(o)
    BY <1>1, Solo DEF Persisting
  <2>2. QED
    BY <1>1, <1>2, <1>8, <2>1 DEF OrderOK, ReloadOK
<1>12. ASSUME NEW q \in Orders, q # o PROVE Same(q)
  <2>1. \A b \in Banks, n \in Refs : <<b, q, n>> \in Payouts /\ <<b, q, n>> # p
    BY <1>3, <1>12 DEF Payouts
  <2>2. QED
    BY <1>1, <1>4, <2>1 DEF Same
<1>13. Others(w) /\ Knows(w)'
  <2>1. CASE Finish(w)
    BY <2>1, FinishIs, IdleKnows DEF TInv
  <2>2. ASSUME NEW s \in {"settle", "release"}, Advance(w, s) PROVE pc'[w] = s /\ UNCHANGED <<cur, snap, held>> /\ Others(w)
    BY <2>2, AdvanceIs, StepsAre DEF TInv
  <2>3. CASE Advance(w, "settle") /\ rail'[p] = "success"
    <3>1. pc'[w] = "settle" /\ UNCHANGED <<cur, snap, held>> /\ Others(w)
      BY <2>2, <2>3
    <3>2. Payout(w)' = p
      BY <3>1 DEF Payout, p
    <3>3. QED
      BY <1>0, <1>1, <1>2, <2>3, <3>1, <3>2 DEF Knows, KnowsPayout, KnowsReload, KnowsLp, LpSteps
  <2>4. CASE Advance(w, "release") /\ (rail' = rail \/ p \in disowned')
    <3>1. pc'[w] = "release" /\ UNCHANGED <<cur, snap, held>> /\ Others(w)
      BY <2>2, <2>4
    <3>2. Reused(o)' \/ Live(o)' = {}
      BY <1>2, <1>5, <1>7, <2>4
    <3>3. QED
      BY <1>0, <1>1, <1>2, <3>1, <3>2 DEF Knows, KnowsPayout, KnowsReload, KnowsLp, LpSteps
  <2>5. QED
    BY <1>4, <2>1, <2>3, <2>4
<1>14. QED
  BY <1>0, <1>1, <1>9, <1>10, <1>11, <1>12, <1>13, Assemble DEF OrderOK, Frame

(* The reload of a float. *)

\* A reload is a Gateway order of its own: none of the merchant's.
LEMMA CreatesReload ==
    ASSUME TInv, NEW o \in Orders, NEW g \in GatewayIds, D!Creates(o, g), g \in reloads'[o],
           reloads' = [reloads EXCEPT ![o] = @ \cup {g}], UNCHANGED <<row, told, unheard, rail, disowned>>
    PROVE  /\ Fills(o)' \subseteq Fills(o)
           /\ Live(o)' = Live(o) /\ (Reused(o)' <=> Reused(o)) /\ (Paid(o) => Paid(o)')
           /\ reloads'[o] = reloads[o] \cup {g}
           /\ \A q \in Orders : q # o => reloads'[q] = reloads[q] /\ gateway'[q] = gateway[q]
<1>1. /\ gateway[o][g] = "none" /\ gateway'[o][g] = "open"
      /\ \A h \in GatewayIds : h # g => gateway'[o][h] = gateway[o][h]
      /\ \A q \in Orders : q # o => gateway'[q] = gateway[q]
  BY CreatesIs DEF TInv
<1>2. reloads'[o] = reloads[o] \cup {g} /\ \A q \in Orders : q # o => reloads'[q] = reloads[q]
  BY DEF TInv, BooksOK
<1>3. Fills(o)' \subseteq Fills(o)
  BY <1>1, <1>2 DEF Fills, D!Known
<1>4. Paid(o) => Paid(o)'
  BY <1>1, <1>2 DEF Paid
<1>5. QED
  BY <1>1, <1>2, <1>3, <1>4 DEF Live, Transfers, Reused

LEMMA PayReload ==
    ASSUME TInv, TInv', PayInv, NEW w \in Workers, NEW g \in GatewayIds,
           ReloadReturns(w, g) \/ ReloadAmbiguous(w, g)
    PROVE  PayInv'
<1>0. PICK o \in Orders : o = cur[w]
  BY DEF ReloadReturns, ReloadAmbiguous, TInv, InHand
<1>1. /\ pc[w] = "reload" /\ w \in ticking /\ Frame
      /\ UNCHANGED <<row, told, unheard, rail, disowned>>
      /\ D!Creates(o, g) /\ reloads' = [reloads EXCEPT ![o] = @ \cup {g}]
  BY <1>0 DEF ReloadReturns, ReloadAmbiguous, TInv, InHand, bankVars, ghosts
<1>2. row[o].mode = "treasury" /\ row[o].gateway = 0 /\ Kept(o) = {} /\ OrderOK(o)
  BY <1>0, <1>1 DEF PayInv, Knows, KnowsReload
<1>3. /\ Fills(o)' \subseteq Fills(o)
      /\ Live(o)' = Live(o) /\ (Reused(o)' <=> Reused(o)) /\ (Paid(o) => Paid(o)')
      /\ reloads'[o] = reloads[o] \cup {g}
      /\ \A q \in Orders : q # o => reloads'[q] = reloads[q] /\ gateway'[q] = gateway[q]
  <2>1. g \in reloads'[o]
    BY <1>1 DEF TInv, BooksOK
  <2>2. QED
    BY <1>1, <2>1, CreatesReload
<1>4. PayoutOK(o)'
  BY <1>1, <1>2, <1>3 DEF OrderOK, PayoutOK, Entangled
<1>5. LpOK(o)'
  BY <1>1, <1>2 DEF LpOK
<1>6. CASE ReloadAmbiguous(w, g)
  <2>1. dropped' = [dropped EXCEPT ![o] = @ \cup {g}] /\ Finish(w)
    BY <1>0, <1>6 DEF ReloadAmbiguous
  <2>2. pc'[w] = "idle" /\ Others(w)
    BY <2>1, FinishIs DEF TInv
  <2>3. dropped'[o] = dropped[o] \cup {g} /\ \A q \in Orders : q # o => dropped'[q] = dropped[q]
    BY <2>1 DEF TInv, BooksOK
  <2>4. Kept(o)' = {}
    BY <1>2, <1>3, <2>3 DEF Kept
  <2>5. ReloadOK(o)'
    BY <1>1, <1>2, <1>3, <2>4 DEF ReloadOK
  <2>6. \A q \in Orders : q # o => Same(q)
    BY <1>1, <1>3, <2>3 DEF Same
  <2>7. QED
    BY <1>0, <1>1, <1>4, <1>5, <2>2, <2>5, <2>6, IdleKnows, Assemble DEF OrderOK, Frame
<1>7. CASE ReloadReturns(w, g)
  <2>1. /\ dropped' = dropped /\ receipt' = [receipt EXCEPT ![w] = g] /\ Advance(w, "persistReload")
    BY <1>7 DEF ReloadReturns
  <2>2. /\ pc'[w] = "persistReload" /\ UNCHANGED <<cur, snap, held>> /\ Others(w)
    BY <2>1, AdvanceIs, StepsAre DEF TInv
  <2>3. receipt'[w] = g
    BY <2>1 DEF TInv, HandlersOK
  <2>4. Kept(o)' = {g} \/ Kept(o)' = {}
    BY <1>2, <1>3, <2>1 DEF Kept
  <2>5. Persisting(o)'
    BY <1>0, <2>2 DEF Persisting
  <2>6. ReloadOK(o)'
    BY <1>1, <1>2, <2>4, <2>5 DEF ReloadOK
  <2>7. Knows(w)'
    BY <1>0, <1>1, <1>2, <1>3, <2>2, <2>3, <2>4 DEF Knows, KnowsPayout, KnowsReload, KnowsLp, LpSteps
  <2>8. \A q \in Orders : q # o => Same(q)
    BY <1>1, <1>3, <2>1 DEF Same
  <2>9. QED
    BY <1>0, <1>1, <1>4, <1>5, <2>2, <2>6, <2>7, <2>8, Assemble DEF OrderOK, Frame
<1>8. QED
  BY <1>6, <1>7

LEMMA PayPersistReload ==
    ASSUME TInv, TInv', PayInv, NEW w \in Workers, PersistReload(w)
    PROVE  PayInv'
<1> DEFINE g == receipt[w]
<1>0. PICK o \in Orders : o = cur[w]
  BY DEF PersistReload, TInv, InHand
<1>1. /\ pc[w] = "persistReload" /\ w \in ticking /\ Frame /\ pc'[w] = "idle" /\ Others(w)
      /\ UNCHANGED <<told, gateway, unheard, reloads, rail, disowned>>
  BY FinishIs DEF PersistReload, TInv, InHand, bankVars, ghosts
<1>2. /\ row[o].mode = "treasury" /\ row[o].gateway = 0 /\ OrderOK(o)
      /\ Kept(o) \subseteq {g} /\ g \in reloads[o]
  BY <1>0, <1>1 DEF PayInv, Knows, KnowsReload
<1>3. /\ row'[o].mode = "treasury" /\ row'[o].status = row[o].status /\ row'[o].ref = row[o].ref
      /\ \/ row'[o].gateway = g /\ dropped'[o] = dropped[o]
         \/ row'[o].gateway = 0 /\ dropped'[o] = dropped[o] \cup {g}
      /\ \A q \in Orders : q # o => row'[q] = row[q] /\ dropped'[q] = dropped[q]
  <2>1. row \in [Orders -> TreasuryRowRec] /\ dropped \in [Orders -> SUBSET GatewayIds]
    BY DEF TInv, BooksOK
  <2>2. CASE row' = [row EXCEPT ![o] = [row[o] EXCEPT !.gateway = g]] /\ UNCHANGED dropped
    BY <1>2, <2>1, <2>2 DEF TreasuryRowRec
  <2>3. CASE row' = row /\ dropped' = [dropped EXCEPT ![o] = @ \cup {g}]
    BY <1>2, <2>1, <2>3
  <2>4. QED
    BY <1>0, <2>2, <2>3 DEF PersistReload
<1>4. /\ Live(o)' = Live(o) /\ Fills(o)' = Fills(o) /\ (Reused(o)' <=> Reused(o))
      /\ (Paid(o)' <=> Paid(o)) /\ (Entangled(o)' <=> Entangled(o))
  BY <1>1, <1>2, <1>3 DEF Live, Transfers, Fills, Reused, Paid, Entangled, D!Known
<1>5. PayoutOK(o)'
  BY <1>1, <1>2, <1>3, <1>4 DEF OrderOK, PayoutOK
<1>6. LpOK(o)'
  BY <1>3 DEF LpOK
<1>7. ReloadOK(o)'
  <2>1. Kept(o)' \subseteq {g}
    BY <1>1, <1>2, <1>3 DEF Kept
  <2>2. row'[o].gateway = 0 => Kept(o)' = {}
    BY <1>1, <1>2, <1>3, Members DEF Kept, TInv, BooksOK
  <2>3. QED
    BY <1>1, <1>2, <1>3, <2>1, <2>2 DEF ReloadOK
<1>8. \A q \in Orders : q # o => Same(q)
  BY <1>1, <1>3 DEF Same, TInv, BooksOK
<1>9. QED
  BY <1>0, <1>1, <1>5, <1>6, <1>7, <1>8, IdleKnows, Assemble DEF OrderOK, Frame

LEMMA PayPollReload ==
    ASSUME TInv, TInv', PayInv, NEW w \in Workers, PollReload(w)
    PROVE  PayInv'
<1>1. /\ pc[w] = "pollReload" /\ w \in ticking /\ Frame
      /\ UNCHANGED <<row, told, gateway, unheard, reloads, dropped, rail, disowned>>
  BY DEF PollReload, TInv, InHand, dispatchVars, ghosts, bankVars
<1>2. CASE Finish(w)
  BY <1>1, <1>2, FinishIs, PayEnd DEF TInv
<1>3. CASE ~Finish(w)
  <2>1. /\ Go(w, "writeReload")
        /\ held' = [held EXCEPT ![w].seen = gateway[cur[w]][snap[w].gateway]]
    BY <1>3 DEF PollReload
  <2>2. pc'[w] = "writeReload" /\ Others(w)
    BY <2>1, GoIs, StepsAre DEF TInv, HandlersOK, Others
  <2>3. Knows(w)'
    BY <2>2 DEF Knows, KnowsPayout, KnowsReload, KnowsLp, LpSteps
  <2>4. QED
    BY <1>1, <2>2, <2>3, Quiet DEF Frame
<1>4. QED
  BY <1>2, <1>3

\* The settlement it writes is no part of what the money depends on.
LEMMA PayWriteReload ==
    ASSUME TInv, TInv', PayInv, NEW w \in Workers, WriteReload(w)
    PROVE  PayInv'
<1>0. PICK o \in Orders : o = cur[w]
  BY DEF WriteReload, TInv, InHand
<1>1. /\ pc[w] = "writeReload" /\ w \in ticking /\ Frame /\ pc'[w] = "idle" /\ Others(w)
      /\ UNCHANGED <<told, gateway, unheard, reloads, dropped, rail, disowned>>
  BY FinishIs DEF WriteReload, TInv, InHand, dispatchVars, ghosts, bankVars
<1>2. /\ row'[o].mode = row[o].mode /\ row'[o].status = row[o].status
      /\ row'[o].ref = row[o].ref /\ row'[o].gateway = row[o].gateway
      /\ \A q \in Orders : q # o => row'[q] = row[q]
  <2>1. row \in [Orders -> TreasuryRowRec]
    BY DEF TInv, BooksOK
  <2>2. row' = row \/ row' = [row EXCEPT ![o] = [row[o] EXCEPT !.settlement = held[w].seen]]
    BY <1>0 DEF WriteReload
  <2>3. QED
    BY <2>1, <2>2 DEF TreasuryRowRec
<1>3. OrderOK(o) /\ ~Persisting(o)
  BY <1>1, Solo DEF PayInv, Persisting
<1>4. PayoutOK(o)' /\ LpOK(o)' /\ ReloadOK(o)'
  BY <1>1, <1>2, <1>3, SameMoney DEF OrderOK, PayoutOK, LpOK, ReloadOK
<1>5. \A q \in Orders : q # o => Same(q)
  BY <1>1, <1>2 DEF Same
<1>6. QED
  BY <1>0, <1>1, <1>4, <1>5, IdleKnows, Assemble DEF OrderOK, Frame

(* Lp mode: an order that was never reloaded for is dispatched as by RouteADispatch. *)

\* It is enough to look at the Gateway orders and the row.
LEMMA PayLp ==
    ASSUME TInv, TInv', PayInv, NEW w \in Workers, LpStep(w), UNCHANGED treasuryVars,
           NEW o \in Orders, o = cur[w], row'[o].mode = "lp",
           \A q \in Orders : q # o => /\ row'[q] = row[q] /\ told'[q] = told[q]
                                      /\ gateway'[q] = gateway[q] /\ unheard'[q] = unheard[q],
           reloads[o] = {} /\ (row'[o].status = "settled" \/ told'[o] = "settled") => Paid(o)',
           LpOK(o)',
           pc'[w] # "idle" => KnowsLp(w)'
    PROVE  PayInv'
<1>1. /\ pc[w] \in LpSteps /\ w \in ticking /\ UNCHANGED <<ticking, lease>> /\ Others(w)
      /\ UNCHANGED <<reloads, dropped, rail, disowned>>
  BY LpFrame, LpHand DEF Frame, bankVars
<1>2. row[o].mode = "lp" /\ OrderOK(o)
  BY <1>1 DEF PayInv, Knows, KnowsLp
<1>3. Live(o)' = Live(o) /\ (Reused(o)' <=> Reused(o)) /\ Kept(o)' = Kept(o)
  BY <1>1 DEF Live, Transfers, Reused, Kept
<1>4. PayoutOK(o)'
  BY <1>1, <1>2, <1>3 DEF OrderOK, PayoutOK, Entangled
<1>5. ReloadOK(o)'
  BY <1>2, <1>3 DEF OrderOK, ReloadOK
<1>6. Knows(w)'
  <2>1. CASE pc'[w] = "idle"
    BY <2>1, IdleKnows
  <2>2. CASE pc'[w] # "idle"
    <3>1. pc'[w] \in LpSteps
      BY <2>2, LpHand
    <3>2. QED
      BY <2>2, <3>1 DEF Knows, KnowsPayout, KnowsReload, LpSteps
  <2>3. QED
    BY <2>1, <2>2
<1>7. \A q \in Orders : q # o => Same(q)
  BY <1>1 DEF Same
<1>8. QED
  BY <1>1, <1>4, <1>5, <1>6, <1>7, Assemble DEF OrderOK

LEMMA PayLpFetch ==
    ASSUME TInv, TInv', PayInv, NEW w \in Workers, NEW o \in Orders, row[o].mode = "lp",
           UNCHANGED treasuryVars, D!FetchBridged(w, o) \/ D!FetchDispatching(w, o)
    PROVE  PayInv'
<1>1. /\ UNCHANGED <<row, told, gateway, unheard>> /\ Frame
      /\ w \in ticking /\ pc[w] = "idle" /\ cur'[w] = o /\ snap'[w] = row[o] /\ Others(w)
      /\ \/ pc'[w] = "dispatch" /\ row[o].status = "bridged"
         \/ pc'[w] = "poll" /\ row[o].status = "dispatching" /\ row[o].gateway # 0
  BY LpFetchType
<1>2. Knows(w)'
  BY <1>1 DEF Knows, KnowsPayout, KnowsReload, KnowsLp, LpSteps
<1>3. QED
  BY <1>1, <1>2, Quiet DEF Frame, treasuryVars, bankVars

\* A handler of an order in lp mode, and what it knows unless the order was reloaded for.
LEMMA LpHandler ==
    ASSUME TInv, PayInv, NEW w \in Workers, pc[w] \in LpSteps
    PROVE  /\ cur[w] \in Orders /\ row[cur[w]].mode = "lp" /\ OrderOK(cur[w]) /\ KnowsLp(w)
           /\ row[cur[w]] \in TreasuryRowRec /\ row \in [Orders -> TreasuryRowRec]
  BY StepsAre DEF TInv, InHand, BooksOK, PayInv, Knows, KnowsLp

\* Steps that leave the row, the PaymentOrder and what is known of the Gateway alone.
LEMMA PayLpQuiet ==
    ASSUME TInv, TInv', PayInv, NEW w \in Workers, UNCHANGED treasuryVars,
           \/ D!BeginDispatch(w) \/ D!PrepareFails(w) \/ D!PollNothing(w)
           \/ D!CreateNotSubmitted(w) /\ UNCHANGED <<gateway, unheard>>
    PROVE  PayInv'
<1>1. LpStep(w) /\ UNCHANGED <<row, told, gateway, unheard>>
  BY DEF LpStep, D!BeginDispatch, D!PrepareFails, D!CreateNotSubmitted, D!PollNothing,
     D!Rest, D!dispatchVars, D!ghosts
<1>2. /\ pc[w] \in LpSteps /\ w \in ticking /\ Frame /\ Others(w)
      /\ UNCHANGED <<reloads, dropped, rail, disowned>>
  BY <1>1, LpFrame, LpHand DEF bankVars
<1>3. row[cur[w]].mode = "lp" /\ KnowsLp(w)
  BY <1>2, LpHandler
<1>4. \/ pc'[w] = "idle"
      \/ pc[w] = "dispatch" /\ pc'[w] = "prepare" /\ cur' = cur
      \/ pc[w] = "create" /\ pc'[w] = "unclaim" /\ cur' = cur
  <2>1. pc \in [Workers -> Steps]
    BY DEF TInv, HandlersOK
  <2>2. QED
    BY <2>1 DEF D!BeginDispatch, D!PrepareFails, D!CreateNotSubmitted, D!PollNothing,
       D!DispatchFails, D!Done, D!Go
<1>5. Knows(w)'
  <2>1. CASE pc'[w] = "idle"
    BY <2>1, IdleKnows
  <2>2. CASE pc'[w] # "idle"
    <3>1. Paying(cur[w])' = Paying(cur[w]) /\ cur' = cur
      BY <1>1, <1>4, <2>2 DEF Paying, D!Known
    <3>2. KnowsLp(w)'
      BY <1>1, <1>2, <1>3, <1>4, <2>2, <3>1 DEF KnowsLp, LpSteps
    <3>3. QED
      BY <1>4, <2>2, <3>2 DEF Knows, KnowsPayout, KnowsReload
  <2>3. QED
    BY <2>1, <2>2
<1>6. pc[w] # "persistReload"
  BY <1>2 DEF LpSteps
<1>7. QED
  BY <1>1, <1>2, <1>5, <1>6, Quiet DEF Frame

\* An order that lands and is called not sent is none that is known to pay.
LEMMA PayLpLands ==
    ASSUME TInv, TInv', GhostOK, PayInv, NEW w \in Workers, UNCHANGED treasuryVars,
           D!CreateNotSubmitted(w), ~UNCHANGED <<gateway, unheard>>
    PROVE  PayInv'
<1>1. /\ LpStep(w) /\ pc[w] = "create" /\ pc'[w] = "unclaim" /\ cur' = cur
      /\ UNCHANGED <<row, told, reloads, rail>>
  <2>1. pc \in [Workers -> Steps]
    BY DEF TInv, HandlersOK
  <2>2. QED
    BY <2>1 DEF LpStep, D!CreateNotSubmitted, D!Rest, D!Go, treasuryVars, bankVars
<1>2. PICK o \in Orders : o = cur[w] /\ row[o].mode = "lp" /\ OrderOK(o) /\ KnowsLp(w)
  BY <1>1, LpHandler DEF LpSteps
<1>3. PICK g \in GatewayIds : D!Creates(o, g) /\ unheard' = [unheard EXCEPT ![o] = @ \cup {g}]
  BY <1>2 DEF D!CreateNotSubmitted
<1>4. /\ gateway[o][g] = "none"
      /\ \A h \in GatewayIds : h # g => gateway'[o][h] = gateway[o][h]
      /\ \A q \in Orders : q # o => gateway'[q] = gateway[q]
  BY <1>3, CreatesIs DEF TInv
<1>5. unheard'[o] = unheard[o] \cup {g} /\ \A q \in Orders : q # o => unheard'[q] = unheard[q]
  BY <1>3 DEF GhostOK
<1>6. Paying(o)' = Paying(o) /\ (Paid(o) => Paid(o)')
  BY <1>1, <1>4, <1>5 DEF Paying, D!Known, Paid
<1>7. reloads[o] = {} => row[o].status = "dispatching" /\ row[o].gateway = 0 /\ Paying(o) = {}
  BY <1>1, <1>2 DEF KnowsLp
<1>8. LpOK(o)'
  BY <1>1, <1>2, <1>6 DEF OrderOK, LpOK
<1>9. reloads[o] = {} /\ (row'[o].status = "settled" \/ told'[o] = "settled") => Paid(o)'
  BY <1>1, <1>2, <1>6 DEF OrderOK, PayoutOK, Entangled
<1>10. KnowsLp(w)'
  BY <1>1, <1>2, <1>6, <1>7 DEF KnowsLp, LpSteps
<1>11. QED
  BY <1>1, <1>2, <1>4, <1>5, <1>8, <1>9, <1>10, PayLp

LEMMA PayLpClaim ==
    ASSUME TInv, TInv', PayInv, NEW w \in Workers, UNCHANGED treasuryVars, D!ClaimDispatch(w)
    PROVE  PayInv'
<1>1. /\ LpStep(w) /\ pc[w] = "prepare" /\ UNCHANGED <<told, gateway, unheard, reloads>>
      /\ pc \in [Workers -> Steps]
  BY DEF LpStep, D!ClaimDispatch, D!Rest, treasuryVars, TInv, HandlersOK, D!ghosts
<1>2. PICK o \in Orders : o = cur[w] /\ row[o].mode = "lp" /\ OrderOK(o) /\ KnowsLp(w)
                          /\ row \in [Orders -> TreasuryRowRec]
  BY <1>1, LpHandler DEF LpSteps
<1>3. /\ \A q \in Orders : q # o => row'[q] = row[q]
      /\ \/ /\ row[o].status = "bridged" /\ row'[o] = [row[o] EXCEPT !.status = "dispatching"]
            /\ pc'[w] = "create" /\ cur' = cur
         \/ row[o].status # "bridged" /\ row' = row /\ pc'[w] = "idle"
  BY <1>1, <1>2 DEF D!ClaimDispatch, D!Cas, D!Go, D!DispatchSucceeds, D!Done
<1>4. row'[o].mode = "lp" /\ row'[o].gateway = row[o].gateway
      /\ (row[o].status = "bridged" => row'[o].status = "dispatching")
  BY <1>2, <1>3 DEF TreasuryRowRec
<1>5. Paying(o)' = Paying(o) /\ (Paid(o)' <=> Paid(o))
  BY <1>1 DEF Paying, Paid, treasuryVars, bankVars, D!Known
<1>6. reloads[o] = {} => Paying(o) = {} /\ row[o].gateway = 0 /\ row[o].status = "bridged"
  BY <1>1, <1>2 DEF KnowsLp, OrderOK, LpOK
<1>7. LpOK(o)'
  BY <1>1, <1>3, <1>4, <1>5, <1>6 DEF LpOK
<1>8. reloads[o] = {} /\ (row'[o].status = "settled" \/ told'[o] = "settled") => Paid(o)'
  BY <1>1, <1>2, <1>4, <1>5, <1>6 DEF OrderOK, PayoutOK, Entangled
<1>9. pc'[w] # "idle" => KnowsLp(w)'
  BY <1>1, <1>2, <1>3, <1>4, <1>5, <1>6 DEF KnowsLp, LpSteps
<1>10. QED
  BY <1>1, <1>2, <1>3, <1>4, <1>7, <1>8, <1>9, PayLp

\* The Gateway order made is the only one that can pay.
LEMMA PayLpCreate ==
    ASSUME TInv, TInv', PayInv, NEW w \in Workers, UNCHANGED treasuryVars,
           D!CreateAmbiguous(w) \/ D!CreateReturns(w)
    PROVE  PayInv'
<1>1. /\ LpStep(w) /\ pc[w] = "create" /\ UNCHANGED <<row, told, unheard, reloads, rail>>
      /\ pc \in [Workers -> Steps]
  BY DEF LpStep, D!CreateAmbiguous, D!CreateReturns, D!Rest, treasuryVars, bankVars, D!ghosts,
     TInv, HandlersOK
<1>2. PICK o \in Orders : o = cur[w] /\ row[o].mode = "lp" /\ OrderOK(o) /\ KnowsLp(w)
  BY <1>1, LpHandler DEF LpSteps
<1>3. \/ gateway' = gateway /\ pc'[w] = "idle"
      \/ \E g \in GatewayIds :
            /\ D!Creates(o, g)
            /\ \/ pc'[w] = "idle"
               \/ pc'[w] = "persist" /\ cur' = cur /\ receipt'[w] = g
  <2>1. receipt \in [Workers -> GatewayIds \cup {0}]
    BY DEF TInv, HandlersOK
  <2>2. QED
    BY <1>1, <1>2, <2>1 DEF D!CreateAmbiguous, D!CreateReturns, D!DispatchFails, D!Done, D!Go
<1>4. ASSUME NEW g \in GatewayIds, D!Creates(o, g), reloads[o] = {}
      PROVE  Paying(o)' \subseteq {g}
  <2>1. /\ gateway'[o][g] = "open"
        /\ \A h \in GatewayIds : h # g => gateway'[o][h] = gateway[o][h]
    BY <1>4, CreatesIs DEF TInv
  <2>2. Paying(o) = {}
    BY <1>1, <1>2, <1>4 DEF KnowsLp
  <2>3. QED
    BY <1>1, <2>1, <2>2 DEF Paying, D!Known
<1>5. ASSUME NEW g \in GatewayIds, D!Creates(o, g)
      PROVE  /\ \A q \in Orders : q # o => gateway'[q] = gateway[q]
             /\ Paid(o) => Paid(o)'
  <2>1. /\ gateway[o][g] = "none"
        /\ \A h \in GatewayIds : h # g => gateway'[o][h] = gateway[o][h]
        /\ \A q \in Orders : q # o => gateway'[q] = gateway[q]
    BY <1>5, CreatesIs DEF TInv
  <2>2. QED
    BY <1>1, <2>1 DEF Paid
<1>6. reloads[o] = {} => row[o].status = "dispatching" /\ row[o].gateway = 0 /\ Paying(o) = {}
  BY <1>1, <1>2 DEF KnowsLp
<1>7. /\ \A q \in Orders : q # o => gateway'[q] = gateway[q]
      /\ Paid(o) => Paid(o)'
      /\ reloads[o] = {} => \A g, h \in Paying(o)' : g = h
  <2>1. CASE gateway' = gateway
    BY <1>1, <1>6, <2>1 DEF Paid, Paying, D!Known
  <2>2. ASSUME NEW g \in GatewayIds, D!Creates(o, g)
        PROVE  reloads[o] = {} => \A h, k \in Paying(o)' : h = k
    BY <1>4, <2>2
  <2>3. QED
    BY <1>3, <1>5, <2>1, <2>2
<1>8. LpOK(o)'
  BY <1>1, <1>6, <1>7 DEF LpOK
<1>9. reloads[o] = {} /\ (row'[o].status = "settled" \/ told'[o] = "settled") => Paid(o)'
  BY <1>1, <1>2, <1>7 DEF OrderOK, PayoutOK, Entangled
<1>10. pc'[w] # "idle" => KnowsLp(w)'
  <2>1. SUFFICES ASSUME NEW g \in GatewayIds, D!Creates(o, g), pc'[w] = "persist", cur' = cur,
                        receipt'[w] = g
                 PROVE  KnowsLp(w)'
    BY <1>3
  <2>2. g # 0
    BY Members
  <2>3. QED
    BY <1>1, <1>2, <1>4, <1>6, <2>1, <2>2 DEF KnowsLp, LpSteps
<1>11. QED
  BY <1>1, <1>2, <1>7, <1>8, <1>9, <1>10, PayLp

LEMMA PayLpUnclaim ==
    ASSUME TInv, TInv', PayInv, NEW w \in Workers, UNCHANGED treasuryVars, D!Unclaim(w)
    PROVE  PayInv'
<1>1. /\ LpStep(w) /\ pc[w] = "unclaim" /\ UNCHANGED <<told, gateway, unheard, reloads, rail>>
      /\ pc \in [Workers -> Steps] /\ pc'[w] = "idle"
  BY DEF LpStep, D!Unclaim, D!DispatchFails, D!Done, D!Rest, treasuryVars, bankVars, TInv, HandlersOK, D!ghosts
<1>2. PICK o \in Orders : o = cur[w] /\ row[o].mode = "lp" /\ OrderOK(o) /\ KnowsLp(w)
                          /\ row \in [Orders -> TreasuryRowRec]
  BY <1>1, LpHandler DEF LpSteps
<1>3. /\ row'[o].mode = "lp" /\ row'[o].gateway = row[o].gateway
      /\ row'[o].status \in {row[o].status, "bridged"}
      /\ \A q \in Orders : q # o => row'[q] = row[q]
  <2>1. row' = row \/ row' = [row EXCEPT ![o] = [row[o] EXCEPT !.status = "bridged"]]
    BY <1>2 DEF D!Unclaim, D!Cas
  <2>2. QED
    BY <1>2, <2>1 DEF TreasuryRowRec
<1>4. Paying(o)' = Paying(o) /\ (Paid(o)' <=> Paid(o))
  BY <1>1 DEF Paying, Paid, D!Known
<1>5. reloads[o] = {} => row[o].status = "dispatching" /\ row[o].gateway = 0 /\ Paying(o) = {}
  BY <1>1, <1>2 DEF KnowsLp
<1>6. LpOK(o)'
  BY <1>1, <1>3, <1>4, <1>5 DEF LpOK
<1>7. reloads[o] = {} /\ (row'[o].status = "settled" \/ told'[o] = "settled") => Paid(o)'
  BY <1>1, <1>2, <1>3, <1>4 DEF OrderOK, PayoutOK, Entangled
<1>8. QED
  BY <1>1, <1>2, <1>3, <1>6, <1>7, PayLp

LEMMA PayLpPersist ==
    ASSUME TInv, TInv', PayInv, NEW w \in Workers, UNCHANGED treasuryVars, D!PersistGatewayId(w)
    PROVE  PayInv'
<1>1. /\ LpStep(w) /\ pc[w] = "persist" /\ UNCHANGED <<told, gateway, unheard, reloads, rail>>
      /\ pc \in [Workers -> Steps] /\ pc'[w] = "idle"
  BY DEF LpStep, D!PersistGatewayId, D!DispatchFails, D!DispatchSucceeds, D!Done, D!ghosts, treasuryVars,
     bankVars, TInv, HandlersOK
<1>2. PICK o \in Orders : o = cur[w] /\ row[o].mode = "lp" /\ OrderOK(o) /\ KnowsLp(w)
                          /\ row \in [Orders -> TreasuryRowRec]
  BY <1>1, LpHandler DEF LpSteps
<1>3. /\ row'[o].mode = "lp" /\ row'[o].status = row[o].status
      /\ row'[o].gateway \in {row[o].gateway, receipt[w]}
      /\ \A q \in Orders : q # o => row'[q] = row[q]
  <2>1. row' = row \/ row' = [row EXCEPT ![o] = [row[o] EXCEPT !.gateway = receipt[w]]]
    BY <1>2 DEF D!PersistGatewayId, D!Cas
  <2>2. QED
    BY <1>2, <2>1 DEF TreasuryRowRec
<1>4. Paying(o)' = Paying(o) /\ (Paid(o)' <=> Paid(o))
  BY <1>1 DEF Paying, Paid, D!Known
<1>5. reloads[o] = {} => /\ row[o].status = "dispatching" /\ row[o].gateway = 0
                         /\ receipt[w] # 0 /\ Paying(o) \subseteq {receipt[w]}
  BY <1>1, <1>2 DEF KnowsLp
<1>6. LpOK(o)'
  BY <1>1, <1>3, <1>4, <1>5 DEF LpOK
<1>7. reloads[o] = {} /\ (row'[o].status = "settled" \/ told'[o] = "settled") => Paid(o)'
  BY <1>1, <1>2, <1>3, <1>4 DEF OrderOK, PayoutOK, Entangled
<1>8. QED
  BY <1>1, <1>2, <1>3, <1>6, <1>7, PayLp

\* The aggregator's answer is about the id in the row.
LEMMA PayLpPoll ==
    ASSUME TInv, TInv', PayInv, NEW w \in Workers, UNCHANGED treasuryVars,
           D!PollSettled(w) \/ D!PollReturned(w)
    PROVE  PayInv'
<1>1. /\ LpStep(w) /\ pc[w] = "poll" /\ UNCHANGED <<row, gateway, unheard, reloads, rail>>
      /\ pc \in [Workers -> Steps] /\ goal \in [Workers -> {"bridged", "settled", "refunded"}]
      /\ told \in [Orders -> D!ToldStatuses]
  BY DEF LpStep, D!PollSettled, D!PollReturned, treasuryVars, bankVars, TInv, HandlersOK, BooksOK, D!ghosts
<1>2. PICK o \in Orders : o = cur[w] /\ row[o].mode = "lp" /\ OrderOK(o) /\ KnowsLp(w)
                          /\ row[o] \in TreasuryRowRec
  BY <1>1, LpHandler DEF LpSteps
<1>3. /\ pc'[w] = "write" /\ cur' = cur
      /\ \A q \in Orders : q # o => told'[q] = told[q]
      /\ \/ /\ gateway[o][snap[w].gateway] = "settled" /\ goal'[w] = "settled"
         \/ /\ gateway[o][snap[w].gateway] = "returned" /\ goal'[w] \in {"bridged", "refunded"}
            /\ told'[o] \in {told[o], "refunded"}
  <2>1. CASE D!PollSettled(w)
    BY <1>1, <1>2, <2>1 DEF D!PollSettled, D!Decide, D!Go
  <2>2. CASE D!PollReturned(w)
    BY <1>1, <1>2, <2>2 DEF D!PollReturned, D!Decide, D!Go
  <2>3. QED
    BY <2>1, <2>2
<1>4. reloads[o] = {} => /\ row[o].status = "dispatching" /\ row[o].gateway \in GatewayIds
                         /\ snap[w].gateway = row[o].gateway
  BY <1>1, <1>2 DEF KnowsLp, TreasuryRowRec
<1>5. Paying(o)' = Paying(o) /\ (Paid(o)' <=> Paid(o))
  BY <1>1 DEF Paying, Paid, D!Known
<1>6. LpOK(o)'
  BY <1>1, <1>2, <1>5 DEF OrderOK, LpOK
<1>7. reloads[o] = {} /\ (row'[o].status = "settled" \/ told'[o] = "settled") => Paid(o)'
  <2>1. CASE told'[o] \in {told[o], "refunded"}
    BY <1>1, <1>2, <1>5, <2>1 DEF OrderOK, PayoutOK, Entangled
  <2>2. CASE gateway[o][snap[w].gateway] = "settled"
    BY <1>1, <1>4, <2>2 DEF Paid
  <2>3. QED
    BY <1>3, <2>1, <2>2
<1>8. KnowsLp(w)'
  BY <1>1, <1>2, <1>3, <1>4 DEF KnowsLp, LpSteps
<1>9. QED
  BY <1>1, <1>2, <1>3, <1>6, <1>7, <1>8, PayLp

\* Settled when the Gateway order paid; free for another attempt when it did not.
LEMMA PayLpOutcome ==
    ASSUME TInv, TInv', PayInv, NEW w \in Workers, UNCHANGED treasuryVars, D!WriteOutcome(w)
    PROVE  PayInv'
<1>1. /\ LpStep(w) /\ pc[w] = "write" /\ UNCHANGED <<told, gateway, unheard, reloads, rail>>
      /\ pc \in [Workers -> Steps] /\ pc'[w] = "idle"
  BY DEF LpStep, D!WriteOutcome, D!Done, treasuryVars, bankVars, TInv, HandlersOK
<1>2. PICK o \in Orders : o = cur[w] /\ row[o].mode = "lp" /\ OrderOK(o) /\ KnowsLp(w)
                          /\ row \in [Orders -> TreasuryRowRec]
  BY <1>1, LpHandler DEF LpSteps
<1>3. /\ row'[o].mode = "lp"
      /\ \/ row'[o] = row[o]
         \/ /\ row'[o].status = goal[w]
            /\ row'[o].gateway = IF goal[w] = "bridged" THEN 0 ELSE row[o].gateway
      /\ \A q \in Orders : q # o => row'[q] = row[q]
  <2> DEFINE g == IF goal[w] = "bridged" THEN 0 ELSE row[o].gateway
  <2>1. row' = row \/ row' = [row EXCEPT ![o] = [row[o] EXCEPT !.status = goal[w], !.gateway = g]]
    BY <1>2 DEF D!WriteOutcome, D!Cas
  <2> HIDE DEF g
  <2>2. /\ row'[o].mode = "lp"
        /\ row'[o] = row[o] \/ (row'[o].status = goal[w] /\ row'[o].gateway = g)
        /\ \A q \in Orders : q # o => row'[q] = row[q]
    BY <1>2, <2>1 DEF TreasuryRowRec
  <2>3. QED
    BY <2>2 DEF g
<1>4. Paying(o)' = Paying(o) /\ (Paid(o)' <=> Paid(o))
  BY <1>1 DEF Paying, Paid, D!Known
<1>5. reloads[o] = {} =>
         /\ row[o].status = "dispatching" /\ row[o].gateway \in GatewayIds
         /\ Paying(o) \subseteq {row[o].gateway}
         /\ \/ goal[w] = "settled" /\ gateway[o][row[o].gateway] = "settled"
            \/ goal[w] \in {"bridged", "refunded"} /\ Paying(o) = {}
  <2>1. SUFFICES ASSUME reloads[o] = {} PROVE
         /\ row[o].status = "dispatching" /\ row[o].gateway \in GatewayIds
         /\ Paying(o) \subseteq {row[o].gateway}
         /\ \/ goal[w] = "settled" /\ gateway[o][row[o].gateway] = "settled"
            \/ goal[w] \in {"bridged", "refunded"} /\ Paying(o) = {}
    OBVIOUS
  <2>2. /\ row[o].status = "dispatching" /\ row[o].gateway \in GatewayIds
        /\ \/ goal[w] = "settled" /\ gateway[o][row[o].gateway] = "settled"
           \/ goal[w] \in {"bridged", "refunded"} /\ gateway[o][row[o].gateway] = "returned"
    BY <1>1, <1>2, <2>1 DEF KnowsLp, TreasuryRowRec
  <2>3. Paying(o) \subseteq {row[o].gateway}
    BY <1>2, <2>1, <2>2, Members DEF OrderOK, LpOK
  <2>4. gateway[o][row[o].gateway] = "returned" => row[o].gateway \notin Paying(o)
    BY DEF Paying, D!Known
  <2>5. QED
    BY <2>2, <2>3, <2>4
<1>6. LpOK(o)'
  BY <1>1, <1>2, <1>3, <1>4, <1>5 DEF OrderOK, LpOK
<1>7. reloads[o] = {} /\ (row'[o].status = "settled" \/ told'[o] = "settled") => Paid(o)'
  <2>1. SUFFICES ASSUME reloads[o] = {}, row'[o].status = "settled" \/ told'[o] = "settled" PROVE Paid(o)
    BY <1>4
  <2>2. CASE row[o].status = "settled" \/ told'[o] = "settled"
    BY <1>1, <1>2, <2>1, <2>2 DEF OrderOK, PayoutOK, Entangled
  <2>3. CASE goal[w] = "settled"
    BY <1>5, <2>1, <2>3 DEF Paid
  <2>4. QED
    BY <1>3, <2>1, <2>2, <2>3
<1>8. QED
  BY <1>1, <1>2, <1>3, <1>6, <1>7, PayLp

(* Crashes, the lease, the bank, the Gateway. *)

LEMMA PayCrash ==
    ASSUME TInv, TInv', PayInv, NEW w \in Workers, CrashWorker(w)
    PROVE  PayInv'
<1>1. /\ pc' = [pc EXCEPT ![w] = "idle"] /\ cur' = [cur EXCEPT ![w] = Nil]
      /\ snap' = [snap EXCEPT ![w] = NewRow("lifi")] /\ ticking' = ticking \ {w}
      /\ held' = [held EXCEPT ![w] = Nothing]
      /\ receipt' = [receipt EXCEPT ![w] = 0] /\ goal' = [goal EXCEPT ![w] = "bridged"]
      /\ UNCHANGED <<row, lease, told, gateway, unheard, reloads, rail, disowned>>
      /\ dropped' = IF pc[w] = "persistReload"
                    THEN [dropped EXCEPT ![cur[w]] = @ \cup {receipt[w]}] ELSE dropped
  BY DEF CrashWorker, D!CrashWorker, D!Crash, D!Done, D!NewRow, NewRow, bankVars, D!ghosts
<1>2. Leased'
  BY <1>1 DEF PayInv, Leased
<1>3. pc'[w] = "idle" /\ Others(w)
      /\ \A v \in Workers : v # w => receipt'[v] = receipt[v] /\ goal'[v] = goal[v]
  BY <1>1 DEF TInv, HandlersOK, Others
<1>4. CASE pc[w] = "idle"
  <2>1. UNCHANGED <<row, told, gateway, unheard, reloads, dropped, rail, disowned>>
    BY <1>1, <1>4
  <2>2. ASSUME NEW q \in Orders PROVE OrderOK(q)' /\ Live(q)' = Live(q) /\ Kept(q)' = Kept(q)
                                      /\ Paying(q)' = Paying(q) /\ (Reused(q)' <=> Reused(q))
    <3>1. Same(q)
      BY <2>1 DEF Same
    <3>2. Persisting(q) => Persisting(q)'
      BY <1>3, <1>4 DEF Persisting, Others
    <3>3. QED
      BY <3>1, <3>2, OrderKept, SameSets DEF PayInv
  <2>3. ASSUME NEW v \in Workers PROVE Knows(v)'
    <3>1. CASE pc'[v] = "idle"
      BY <3>1, IdleKnows
    <3>2. CASE pc'[v] # "idle"
      <4>1. /\ v # w /\ pc'[v] = pc[v] /\ cur'[v] = cur[v] /\ snap'[v] = snap[v]
            /\ held'[v] = held[v] /\ receipt'[v] = receipt[v] /\ goal'[v] = goal[v]
            /\ cur[v] \in Orders /\ Knows(v)
        BY <1>3, <3>2 DEF Others, TInv, InHand, PayInv
      <4>2. KnowsPayout(v)'
        BY <2>1, <2>2, <4>1 DEF Knows, KnowsPayout, Payout
      <4>3. KnowsReload(v)'
        BY <2>1, <2>2, <4>1 DEF Knows, KnowsReload
      <4>4. KnowsLp(v)'
        BY <2>1, <2>2, <4>1 DEF Knows, KnowsLp, LpSteps
      <4>5. QED
        BY <4>2, <4>3, <4>4 DEF Knows
    <3>3. QED
      BY <3>1, <3>2
  <2>4. QED
    BY <1>2, <2>2, <2>3 DEF PayInv
<1>5. CASE pc[w] # "idle"
  <2>1. PICK o \in Orders : o = cur[w]
    BY <1>5 DEF TInv, InHand
  <2>2. w \in ticking
    BY <1>5 DEF TInv, InHand
  <2>3. ASSUME NEW v \in Workers PROVE Knows(v)'
    BY <1>3, <2>2, Solo, IdleKnows DEF Others
  <2>4. ASSUME NEW q \in Orders, q # o \/ pc[w] # "persistReload" PROVE OrderOK(q)'
    <3>1. ~Persisting(q)
      BY <2>1, <2>2, <2>4, Solo DEF Persisting
    <3>2. Same(q)
      BY <1>1, <2>1, <2>4 DEF Same, TInv, BooksOK
    <3>3. QED
      BY <3>1, <3>2, OrderKept DEF PayInv
  <2>5. ASSUME pc[w] = "persistReload" PROVE OrderOK(o)'
    <3>1. dropped'[o] = dropped[o] \cup {receipt[w]}
      BY <1>1, <2>1, <2>5 DEF TInv, BooksOK
    <3>2. OrderOK(o) /\ Kept(o) \subseteq {receipt[w]}
      BY <2>1, <2>5 DEF PayInv, Knows, KnowsReload
    <3>3. Kept(o)' = {}
      BY <1>1, <3>1, <3>2 DEF Kept
    <3>4. ReloadOK(o)'
      BY <1>1, <3>2, <3>3 DEF OrderOK, ReloadOK
    <3>5. /\ Live(o)' = Live(o) /\ Fills(o)' = Fills(o) /\ Paying(o)' = Paying(o)
          /\ (Reused(o)' <=> Reused(o)) /\ (Paid(o)' <=> Paid(o)) /\ (Entangled(o)' <=> Entangled(o))
      BY <1>1 DEF Live, Transfers, Fills, Paying, Reused, Paid, Entangled, D!Known
    <3>6. PayoutOK(o)' /\ LpOK(o)'
      BY <1>1, <3>2, <3>5 DEF OrderOK, PayoutOK, LpOK
    <3>7. QED
      BY <3>4, <3>6 DEF OrderOK
  <2>6. QED
    BY <1>2, <2>3, <2>4, <2>5 DEF PayInv
<1>6. QED
  BY <1>4, <1>5

\* The money and the handlers stay where they are, or transfers and Gateway orders end.
LEMMA PayWorld ==
    ASSUME TInv, PayInv, Leased',
           UNCHANGED <<row, pc, cur, snap, held, receipt, goal, told, unheard, reloads, dropped,
                       disowned>>,
           \A p \in Payouts : /\ rail[p] # "processing" => rail'[p] = rail[p]
                              /\ rail[p] = "processing" => rail'[p] # "none",
           \A o \in Orders, g \in GatewayIds :
               /\ gateway[o][g] # "open" => gateway'[o][g] = gateway[o][g]
    PROVE  PayInv'
<1>1. ASSUME NEW o \in Orders
      PROVE  /\ Live(o)' \subseteq Live(o) /\ Fills(o)' \subseteq Fills(o)
             /\ Paying(o)' \subseteq Paying(o)
             /\ Kept(o)' = Kept(o) /\ (Reused(o)' <=> Reused(o)) /\ (Paid(o) => Paid(o)')
             /\ (Entangled(o)' <=> Entangled(o)) /\ (Persisting(o)' <=> Persisting(o))
  <2>1. \A b \in Banks, n \in Refs : <<b, o, n>> \in Payouts
    BY DEF Payouts
  <2>2. Live(o)' \subseteq Live(o)
    <3>1. Banks \X {o} \X Refs \subseteq Payouts
      BY DEF Payouts
    <3>2. QED
      BY <3>1 DEF Live, Transfers, TInv, BankOK, RailStates
  <2>3. Fills(o)' \subseteq Fills(o) /\ Paying(o)' \subseteq Paying(o)
    BY DEF Fills, Paying, D!Known
  <2>4. Reused(o)' <=> Reused(o)
    <3>1. \A b \in Banks, n \in Refs : rail'[<<b, o, n>>] = "none" <=> rail[<<b, o, n>>] = "none"
      BY <2>1
    <3>2. QED
      BY <3>1 DEF Reused
  <2>5. Paid(o) => Paid(o)'
    <3>1. \A b \in Banks, n \in Refs : rail[<<b, o, n>>] = "success" => rail'[<<b, o, n>>] = "success"
      BY <2>1
    <3>2. QED
      BY <3>1 DEF Paid
  <2>6. QED
    BY <2>2, <2>3, <2>4, <2>5 DEF Kept, Entangled, Persisting
<1>2. ASSUME NEW o \in Orders PROVE OrderOK(o)'
  <2>1. OrderOK(o)
    BY DEF PayInv
  <2>2. PayoutOK(o)'
    BY <1>1, <2>1 DEF OrderOK, PayoutOK
  <2>3. LpOK(o)'
    BY <1>1, <2>1 DEF OrderOK, LpOK
  <2>4. ReloadOK(o)'
    BY <1>1, <2>1 DEF OrderOK, ReloadOK
  <2>5. QED
    BY <2>2, <2>3, <2>4 DEF OrderOK
<1>3. ASSUME NEW v \in Workers PROVE Knows(v)'
  <2>1. CASE pc[v] = "idle"
    BY <2>1, IdleKnows
  <2>2. CASE pc[v] # "idle"
    <3>1. cur[v] \in Orders /\ Knows(v) /\ row[cur[v]].gateway \in GatewayIds \cup {0}
      BY <2>2 DEF TInv, InHand, PayInv, BooksOK, TreasuryRowRec
    <3>2. KnowsPayout(v)'
      BY <1>1, <3>1 DEF Knows, KnowsPayout, Payout
    <3>3. KnowsReload(v)'
      BY <1>1, <3>1 DEF Knows, KnowsReload
    <3>4. KnowsLp(v)'
      BY <1>1, <3>1 DEF Knows, KnowsLp, LpSteps
    <3>5. QED
      BY <3>2, <3>3, <3>4 DEF Knows
  <2>3. QED
    BY <2>1, <2>2
<1>4. QED
  BY <1>2, <1>3 DEF PayInv

\* One dispatcher ticks: the lease is taken at the start of a tick and outlasts it.
LEMMA PayLease ==
    ASSUME LeaseHolds, TInv, PayInv,
           \/ D!LeaseStep /\ UNCHANGED treasuryVars
           \/ \E w \in Workers : BeginTick(w)
    PROVE  PayInv'
<1>1. /\ UNCHANGED <<row, pc, cur, snap, goal, receipt, told, gateway, unheard, held, reloads,
                     dropped, rail, disowned>>
  BY DEF D!LeaseStep, D!LeaseExpires, D!EndTick, BeginTick, D!BeginTick, D!dispatchVars, D!ghosts,
     treasuryVars, bankVars
<1>2. Leased'
  <2>1. CASE \E w \in Workers : BeginTick(w)
    BY <2>1, Members DEF BeginTick, D!BeginTick, D!AcquireLease, PayInv, Leased, TInv, HandlersOK
  <2>2. CASE D!LeaseStep
    BY <2>2 DEF D!LeaseStep, D!LeaseExpires, D!EndTick, PayInv, Leased
  <2>3. QED
    BY <2>1, <2>2
<1>3. QED
  BY <1>1, <1>2, PayWorld

LEMMA PayOutside ==
    ASSUME TInv, PayInv,
           \/ \E b \in Banks : SwitchRail(b)
           \/ \E p \in Payouts : RailResolves(p)
           \/ \E o \in Orders, g \in GatewayIds : D!GatewayResolves(o, g) /\ UNCHANGED treasuryVars
           \/ UNCHANGED vars
    PROVE  PayInv'
<1>1. /\ UNCHANGED <<row, pc, cur, snap, goal, receipt, told, unheard, held, reloads, dropped>>
      /\ UNCHANGED <<ticking, lease, disowned>>
  BY DEF SwitchRail, RailResolves, D!GatewayResolves, vars, treasuryVars, dispatchVars, ghosts,
     bankVars, D!sharedVars, sharedVars, D!ghosts
<1>2. Leased'
  BY <1>1 DEF PayInv, Leased
<1>3. \A p \in Payouts : /\ rail[p] # "processing" => rail'[p] = rail[p]
                         /\ rail[p] = "processing" => rail'[p] # "none"
  <2>1. UNCHANGED rail \/ \E p \in Payouts : RailResolves(p)
    BY DEF SwitchRail, D!GatewayResolves, vars, treasuryVars, bankVars
  <2>2. QED
    BY <2>1 DEF RailResolves, TInv, BankOK
<1>4. \A o \in Orders, g \in GatewayIds :
         gateway[o][g] # "open" => gateway'[o][g] = gateway[o][g]
  <2>1. UNCHANGED gateway \/ \E o \in Orders, g \in GatewayIds : D!GatewayResolves(o, g)
    BY DEF SwitchRail, RailResolves, vars, dispatchVars, ghosts
  <2>2. QED
    BY <2>1 DEF D!GatewayResolves, TInv, BooksOK
<1>5. QED
  BY <1>1, <1>2, <1>3, <1>4, PayWorld

LEMMA PayPayout ==
    ASSUME TInv, TInv', PayInv, NEW w \in Workers, PayoutStep(w)
    PROVE  PayInv'
<1>1. CASE GateFails(w) \/ PollPayoutFails(w)
  <2>1. /\ pc[w] \in {"gate", "payout"} /\ Finish(w) /\ Frame
        /\ UNCHANGED <<row, told, gateway, unheard, reloads, dropped, rail, disowned>>
    BY <1>1 DEF GateFails, PollPayoutFails, dispatchVars, ghosts, bankVars
  <2>2. QED
    BY <2>1, FinishIs, PayEnd DEF TInv
<1>2. QED
  BY <1>1, PayFallback, PayClaim, PaySubmit, PayRelease, PayPoll, PayRetire, PaySettle, PayPo
  DEF PayoutStep

LEMMA PayReloads ==
    ASSUME TInv, TInv', PayInv, NEW w \in Workers, ReloadStep(w)
    PROVE  PayInv'
<1>1. CASE ReloadFails(w)
  <2>1. /\ pc[w] \in {"reload", "pollReload"} /\ Finish(w) /\ Frame
        /\ UNCHANGED <<row, told, gateway, unheard, reloads, dropped, rail, disowned>>
    BY <1>1 DEF ReloadFails, dispatchVars, ghosts, bankVars
  <2>2. QED
    BY <2>1, FinishIs, PayEnd DEF TInv
<1>2. QED
  BY <1>1, PayReload, PayPersistReload, PayPollReload, PayWriteReload DEF ReloadStep

LEMMA PayStep ==
    ASSUME LeaseHolds, TInv, GhostOK, PayInv, [Next]_vars
    PROVE  PayInv'
<1> TInv'
  BY TypeStep
<1>1. ASSUME NEW w \in Workers, Handler(w) PROVE PayInv'
  <2>1. CASE LpMode(w)
    BY <2>1, PayLpFetch, PayLpQuiet, PayLpLands, PayLpClaim, PayLpCreate, PayLpUnclaim, PayLpPersist,
       PayLpPoll, PayLpOutcome DEF LpMode
  <2>2. QED
    BY <1>1, <2>1, PayFetch, PayPayout, PayReloads DEF Handler
<1>2. CASE Outside
  BY <1>2, PayLease, PayOutside DEF Outside, Payouts
<1>3. QED
  BY <1>1, <1>2, PayCrash, PayLease, PayOutside DEF Next

LEMMA PayHolds == LeaseHolds => (Spec => [](TInv /\ PayInv))
<1>1. SUFFICES ASSUME LeaseHolds PROVE Spec => [](TInv /\ PayInv)
  OBVIOUS
<1>2. Init => TInv /\ GhostOK /\ PayInv
  BY TypeInit, PayInit DEF Init, GhostOK
<1>3. TInv /\ GhostOK /\ PayInv /\ [Next]_vars => (TInv /\ GhostOK /\ PayInv)'
  BY <1>1, TypeStep, GhostStep, PayStep
<1>4. QED
  BY <1>2, <1>3, PTL DEF Spec

\* A set whose members are all the same has one at most.
LEMMA AtMostOne ==
    ASSUME NEW S, \A x, y \in S : x = y
    PROVE  Cardinality(S) \in {0, 1} /\ (S = {} => Cardinality(S) = 0)
<1>1. CASE S = {}
  BY <1>1, FS_EmptySet
<1>2. CASE S # {}
  <2>1. PICK x \in S : S = {x}
    BY <1>2
  <2>2. QED
    BY <2>1, FS_Singleton
<1>3. QED
  BY <1>1, <1>2

\* The merchant of an order in treasury mode is paid once, by the float or by the Gateway,
\* for any number of dispatchers, banks, switches, retries and crashes, as long as the lease
\* holds and no reference was used at two banks (dispatchTreasury's money discipline).
THEOREM PaidOnceHolds == Spec => []PaidOnce
<1>1. ASSUME TInv, PayInv, NEW o \in Orders, ~Entangled(o), ~Reused(o)
      PROVE  Cardinality(Transfers(o) \ disowned) + Cardinality(Fills(o)) <= 1
  <2>1. OrderOK(o) /\ row[o].mode \in {"treasury", "lp"}
    BY <1>1 DEF PayInv, TInv, BooksOK, TreasuryRowRec, Modes
  <2>2. \A p, q \in Live(o) : p = q
    <3>1. SUFFICES ASSUME NEW p \in Live(o), NEW q \in Live(o) PROVE p = q
      OBVIOUS
    <3>2. PICK b, c \in Banks, n, m \in Refs : p = <<b, o, n>> /\ q = <<c, o, m>>
      BY DEF Live, Transfers
    <3>3. n = m
      BY <1>1, <2>1, <3>2 DEF OrderOK, PayoutOK
    <3>4. rail[p] # "none" /\ rail[q] # "none"
      BY DEF Live, Transfers
    <3>5. QED
      BY <1>1, <3>2, <3>3, <3>4 DEF Reused
  <2>3. \A g, h \in Fills(o) : g = h
    <3>1. CASE row[o].mode = "treasury"
      BY <2>1, <3>1 DEF OrderOK, PayoutOK
    <3>2. CASE row[o].mode = "lp"
      BY <1>1, <2>1, <3>2 DEF OrderOK, LpOK, Entangled, Fills, Paying, D!Known
    <3>3. QED
      BY <2>1, <3>1, <3>2
  <2>4. Live(o) = {} \/ Fills(o) = {}
    BY <1>1, <2>1 DEF OrderOK, PayoutOK
  <2>5. Cardinality(Live(o)) + Cardinality(Fills(o)) <= 1
    BY <2>2, <2>3, <2>4, AtMostOne
  <2>6. QED
    BY <2>5 DEF Live
<1>2. TInv /\ PayInv => PaidOnce
  BY <1>1 DEF PaidOnce
<1>3. CASE LeaseHolds
  BY <1>2, <1>3, PayHolds, PTL
<1>4. CASE ~LeaseHolds
  <2>1. PaidOnce
    BY <1>4 DEF PaidOnce
  <2>2. QED
    BY <1>4, <2>1, PTL
<1>5. QED
  BY <1>3, <1>4

\* A row or a PaymentOrder that says settled is one whose merchant has the naira, as long as
\* the lease holds (finalizeTreasuryPayout, advanceDispatching).
THEOREM SettledIsPaidHolds == Spec => []SettledIsPaid
<1>1. TInv /\ PayInv => SettledIsPaid
  BY DEF PayInv, OrderOK, PayoutOK, SettledIsPaid
<1>2. CASE LeaseHolds
  BY <1>1, <1>2, PayHolds, PTL
<1>3. CASE ~LeaseHolds
  <2>1. SettledIsPaid
    BY <1>3 DEF SettledIsPaid
  <2>2. QED
    BY <1>3, <2>1, PTL
<1>4. QED
  BY <1>2, <1>3

\* An order's USDC goes to the float once, but for reloads whose id never reached the row, as
\* long as the lease holds (submitFloatReload's write of the id where it is empty).
THEOREM ReloadedOnceHolds == LeaseHolds => (Spec => []ReloadedOnce)
<1>1. ASSUME TInv, PayInv, NEW o \in Orders PROVE Cardinality(reloads[o] \ dropped[o]) <= 1
  <2>1. \A g, h \in Kept(o) : g = h
    BY <1>1 DEF PayInv, OrderOK, ReloadOK
  <2>2. QED
    BY <2>1, AtMostOne DEF Kept
<1>2. TInv /\ PayInv => ReloadedOnce
  BY <1>1 DEF ReloadedOnce
<1>3. QED
  BY <1>2, PayHolds, PTL

=============================================================================
