---------------------------- MODULE DepositsProofs ----------------------------
(***************************************************************************)
(* Proofs about Deposits, for any orders, any coins sent to any receive    *)
(* addresses, any number of overlapping passes and any number of faults.   *)
(***************************************************************************)
EXTENDS Deposits, TLAPS

LEMMA Members ==
    /\ "unused" \in AddrStatuses /\ "deposited" \in AddrStatuses
    /\ "forwarded" \in AddrStatuses /\ "expired" \in AddrStatuses
    /\ "waiting" \in Rows /\ "taken" \in Rows /\ "settled" \in Rows
    /\ "unsent" \in Places /\ "held" \in Places /\ "escrow" \in Places /\ "home" \in Places
    /\ "idle" \in Steps /\ "mark" \in Steps /\ "load" \in Steps /\ "submit" \in Steps
    /\ "persist" \in Steps /\ "look" \in Steps /\ "settle" \in Steps /\ "record" \in Steps
    /\ "stamp" \in Steps
    /\ Nil \notin Orders /\ Nil \notin Coins /\ For \in [Coins -> Orders]
  BY DepositsAssumption DEF AddrStatuses, Rows, Places, Steps

LEMMA WorkType ==
    ASSUME NEW s \in Steps, NEW o \in Orders \cup {Nil}, NEW c \in Coins \cup {Nil}
    PROVE  Work(s, o, c) \in WorkRec
  BY DEF Work, WorkRec

LEMMA IdleType == Idle \in WorkRec /\ Idle.at = "idle"
  BY Members DEF Idle, WorkRec

-----------------------------------------------------------------------------
(***************************************************************************)
(* Whose coin it is.  Every coin that a row or a request in progress names *)
(* was sent to the receive address of its order, and one that is about to  *)
(* be recorded as settled is in the aggregator wallet.                     *)
(***************************************************************************)
Own(o, c) == c \in Coins /\ For[c] = o

WorkOK(w) ==
    w.at # "idle" =>
        /\ w.order \in Orders
        /\ w.at \notin {"mark", "load"} => Own(w.order, w.coin)
        /\ w.at \in {"record", "stamp"} => coin[w.coin] = "home"

FeedsBridge == \A o \in recorded : Home(o)

RowsOK ==
    \A o \in Orders : /\ addr[o].digest # Nil => Own(o, addr[o].digest)
                      /\ po[o].gateway # Nil => Own(o, po[o].gateway)

IInv ==
    /\ TypeOK /\ RowsOK /\ FeedsBridge
    /\ WorkOK(index) /\ \A p \in Passes : WorkOK(watch[p])

\* What is at home stays there.
HomeStays == \A c \in Coins : coin[c] = "home" => coin'[c] = "home"

LEMMA FeedsKept ==
    ASSUME FeedsBridge, HomeStays, recorded' = recorded
    PROVE  FeedsBridge'
  BY DEF FeedsBridge, HomeStays, Home

LEMMA WorkKept ==
    ASSUME NEW w, WorkOK(w), HomeStays
    PROVE  w.at # "idle" =>
               /\ w.order \in Orders
               /\ w.at \notin {"mark", "load"} => Own(w.order, w.coin)
               /\ w.at \in {"record", "stamp"} => coin'[w.coin] = "home"
  BY DEF WorkOK, HomeStays, Own

\* A pass that goes on to "new": the rest of the work in progress is as it was.
LEMMA PassGoes ==
    ASSUME IInv, NEW p \in Passes, NEW new \in WorkRec, Go(p, new), index' = index,
           HomeStays,
           new.at # "idle" =>
               /\ new.order \in Orders
               /\ new.at \notin {"mark", "load"} => Own(new.order, new.coin)
               /\ new.at \in {"record", "stamp"} => coin'[new.coin] = "home"
    PROVE  /\ watch' \in [Passes -> WorkRec] /\ index' \in WorkRec
           /\ WorkOK(index)' /\ \A q \in Passes : WorkOK(watch[q])'
<1>1. watch \in [Passes -> WorkRec] /\ index \in WorkRec
  BY DEF IInv, TypeOK
<1>2. watch' \in [Passes -> WorkRec] /\ index' \in WorkRec
  BY <1>1 DEF Go
<1>3. watch'[p] = new /\ \A q \in Passes : q # p => watch'[q] = watch[q]
  BY <1>1 DEF Go
<1>4. WorkOK(index)'
  BY WorkKept DEF IInv, WorkOK, Own
<1>5. WorkOK(watch[p])'
  BY <1>3 DEF WorkOK, Own
<1>6. ASSUME NEW q \in Passes, q # p PROVE WorkOK(watch[q])'
  BY <1>3, <1>6, WorkKept DEF IInv, WorkOK, Own
<1>7. QED
  BY <1>2, <1>4, <1>5, <1>6

\* The same for the indexer.
LEMMA IndexGoes ==
    ASSUME IInv, index' \in WorkRec, watch' = watch, HomeStays,
           index'.at # "idle" =>
               /\ index'.order \in Orders
               /\ index'.at \notin {"mark", "load"} => Own(index'.order, index'.coin)
               /\ index'.at \in {"record", "stamp"} => coin'[index'.coin] = "home"
    PROVE  /\ watch' \in [Passes -> WorkRec] /\ index' \in WorkRec
           /\ WorkOK(index)' /\ \A q \in Passes : WorkOK(watch[q])'
<1>1. watch \in [Passes -> WorkRec] /\ index \in WorkRec
  BY DEF IInv, TypeOK
<1>2. WorkOK(index)'
  BY DEF WorkOK, Own
<1>3. ASSUME NEW q \in Passes PROVE WorkOK(watch[q])'
  BY <1>3, WorkKept DEF IInv, WorkOK, Own
<1>4. QED
  BY <1>1, <1>2, <1>3

LEMMA Assemble ==
    ASSUME addr' \in [Orders -> AddrRec], po' \in [Orders -> OrderRec],
           row' \in [Orders -> Rows], recorded' \subseteq Orders, coin' \in [Coins -> Places],
           faults' \in Nat,
           watch' \in [Passes -> WorkRec] /\ index' \in WorkRec
               /\ WorkOK(index)' /\ \A p \in Passes : WorkOK(watch[p])',
           RowsOK', FeedsBridge'
    PROVE  IInv'
  BY DEF IInv, TypeOK

LEMMA InitIInv == Init => IInv
<1> SUFFICES ASSUME Init PROVE IInv
  OBVIOUS
<1>1. addr \in [Orders -> AddrRec] /\ po \in [Orders -> OrderRec] /\ row \in [Orders -> Rows]
  BY Members DEF Init, AddrRec, OrderRec
<1>2. /\ recorded = {} /\ faults = 0 /\ coin \in [Coins -> Places]
      /\ watch \in [Passes -> WorkRec] /\ index \in WorkRec
  BY Members, IdleType DEF Init
<1>3. index.at = "idle" /\ \A p \in Passes : watch[p].at = "idle"
  BY IdleType DEF Init
<1>4. RowsOK
  BY DEF Init, RowsOK
<1>5. QED
  BY <1>1, <1>2, <1>3, <1>4 DEF IInv, TypeOK, FeedsBridge, WorkOK

LEMMA Facts ==
    ASSUME IInv
    PROVE  /\ addr \in [Orders -> AddrRec] /\ po \in [Orders -> OrderRec]
           /\ row \in [Orders -> Rows] /\ recorded \subseteq Orders
           /\ coin \in [Coins -> Places] /\ faults \in Nat
           /\ watch \in [Passes -> WorkRec] /\ index \in WorkRec
           /\ RowsOK /\ FeedsBridge
           /\ WorkOK(index) /\ \A p \in Passes : WorkOK(watch[p])
  BY DEF IInv, TypeOK

\* A pass goes on and the tables change at most in a status.
LEMMA PassQuiet ==
    ASSUME IInv, NEW p \in Passes, NEW new \in WorkRec, Go(p, new), index' = index,
           HomeStays, coin' \in [Coins -> Places], faults' \in Nat,
           UNCHANGED <<addr, po, row, recorded>>,
           new.at # "idle" =>
               /\ new.order \in Orders
               /\ new.at \notin {"mark", "load"} => Own(new.order, new.coin)
               /\ new.at \in {"record", "stamp"} => coin'[new.coin] = "home"
    PROVE  IInv'
<1>1. /\ watch' \in [Passes -> WorkRec] /\ index' \in WorkRec
      /\ WorkOK(index)' /\ \A q \in Passes : WorkOK(watch[q])'
  BY PassGoes
<1>2. FeedsBridge'
  BY Facts, FeedsKept
<1>3. RowsOK'
  BY Facts DEF RowsOK, Own
<1>4. QED
  BY <1>1, <1>2, <1>3, Facts, Assemble

LEMMA FaultType ==
    ASSUME IInv, Fault
    PROVE  faults' \in Nat
  BY Facts DEF Fault

LEMMA SameCoins ==
    ASSUME coin' = coin
    PROVE  HomeStays
  BY DEF HomeStays

LEMMA FetchStep ==
    ASSUME IInv, NEW p \in Passes, NEW o \in Orders, Fetches(p, o)
    PROVE  IInv'
<1>1. UNCHANGED <<addr, po, row, recorded, coin, index, faults>>
  BY DEF Fetches, Detect, FetchDeposited, FetchForwarded, db
<1>2. \E new \in WorkRec :
          /\ Go(p, new) /\ new.order = o
          /\ \/ new.at \in {"mark", "load"}
             \/ new.at \in {"look", "settle"} /\ Own(o, new.coin)
  <2>1. Work("mark", o, Nil) \in WorkRec /\ Work("load", o, Nil) \in WorkRec
    BY WorkType, Members
  <2>2. CASE Detect(p, o) \/ FetchDeposited(p, o)
    BY <2>1, <2>2 DEF Detect, FetchDeposited, Work
  <2>3. CASE FetchForwarded(p, o)
    <3>1. Own(o, addr[o].digest) /\ (po[o].gateway # Nil => Own(o, po[o].gateway))
      BY <2>3, Facts DEF FetchForwarded, RowsOK
    <3>2. CASE po[o].gateway = Nil
      <4>1. Work("look", o, addr[o].digest) \in WorkRec
        BY <3>1, WorkType, Members DEF Own
      <4>2. QED
        BY <2>3, <3>1, <3>2, <4>1 DEF FetchForwarded, Work
    <3>3. CASE po[o].gateway # Nil
      <4>1. Work("settle", o, po[o].gateway) \in WorkRec
        BY <3>1, <3>3, WorkType, Members DEF Own
      <4>2. QED
        BY <2>3, <3>1, <3>3, <4>1 DEF FetchForwarded, Work
    <3>4. QED
      BY <3>2, <3>3
  <2>4. QED
    BY <2>2, <2>3 DEF Fetches
<1>3. QED
  BY <1>1, <1>2, PassQuiet, SameCoins, Facts

LEMMA StopStep ==
    ASSUME IInv, NEW p \in Passes, Stop(p), UNCHANGED <<addr, po, row, recorded, index>>,
           HomeStays, coin' \in [Coins -> Places], faults' \in Nat
    PROVE  IInv'
  BY PassQuiet, IdleType DEF Stop

\* A pass that stops after writing an address or having recorded its order.
LEMMA AddrStep ==
    ASSUME IInv, NEW p \in Passes, Stop(p), UNCHANGED <<po, row, recorded, index, coin>>,
           NEW o \in Orders, NEW a \in AddrRec, addr' = [addr EXCEPT ![o] = a],
           a.digest # Nil => Own(o, a.digest), faults' \in Nat
    PROVE  IInv'
<1>1. HomeStays
  BY SameCoins
<1>2. /\ watch' \in [Passes -> WorkRec] /\ index' \in WorkRec
      /\ WorkOK(index)' /\ \A q \in Passes : WorkOK(watch[q])'
  BY <1>1, PassGoes, IdleType DEF Stop
<1>3. addr' \in [Orders -> AddrRec]
  BY Facts
<1>4. RowsOK'
  BY Facts DEF RowsOK, Own
<1>5. QED
  BY <1>1, <1>2, <1>3, <1>4, Facts, FeedsKept, Assemble

LEMMA MarkStep ==
    ASSUME IInv, NEW p \in Passes, MarkDeposited(p)
    PROVE  IInv'
<1>0. PICK o \in Orders : o = watch[p].order
  BY Facts DEF MarkDeposited, At, WorkOK
<1>1. Stop(p) /\ UNCHANGED <<po, row, recorded, coin, index>>
  BY DEF MarkDeposited
<1>2. CASE Fault /\ UNCHANGED addr
  BY <1>1, <1>2, StopStep, SameCoins, FaultType, Facts
<1>3. CASE addr' = [addr EXCEPT ![o].status = "deposited"] /\ UNCHANGED faults
  <2> DEFINE a == [addr[o] EXCEPT !.status = "deposited"]
  <2>1. a \in AddrRec /\ a.digest = addr[o].digest
    BY Facts, Members DEF AddrRec
  <2>2. addr' = [addr EXCEPT ![o] = a]
    BY <1>3
  <2>3. addr[o].digest # Nil => Own(o, addr[o].digest)
    BY Facts DEF RowsOK
  <2>4. QED
    BY <1>1, <1>3, <2>1, <2>2, <2>3, AddrStep, Facts
<1>4. QED
  BY <1>0, <1>2, <1>3 DEF MarkDeposited

LEMMA CreateStep ==
    ASSUME IInv, NEW p \in Passes, CreateOrder(p)
    PROVE  IInv'
<1>0. PICK o \in Orders : o = watch[p].order
  BY Facts DEF CreateOrder, At, WorkOK
<1>1. UNCHANGED <<po, row, recorded, coin, index, faults>>
  BY DEF CreateOrder
<1>2. CASE addr' = [addr EXCEPT ![o].status = "forwarded"] /\ Stop(p)
  <2> DEFINE a == [addr[o] EXCEPT !.status = "forwarded"]
  <2>1. a \in AddrRec /\ a.digest = addr[o].digest
    BY Facts, Members DEF AddrRec
  <2>2. addr' = [addr EXCEPT ![o] = a]
    BY <1>2
  <2>3. addr[o].digest # Nil => Own(o, addr[o].digest)
    BY Facts DEF RowsOK
  <2>4. QED
    BY <1>1, <1>2, <2>1, <2>2, <2>3, AddrStep, Facts
<1>3. CASE UNCHANGED addr /\ Stop(p)
  BY <1>1, <1>3, StopStep, SameCoins, Facts
<1>4. ASSUME UNCHANGED addr, NEW c \in Held(o), Go(p, Work("submit", o, c)) PROVE IInv'
  <2>1. c \in Coins /\ For[c] = o
    BY <1>4 DEF Held
  <2>2. Work("submit", o, c) \in WorkRec
    BY <2>1, WorkType, Members
  <2>3. QED
    BY <1>1, <1>4, <2>1, <2>2, PassQuiet, SameCoins, Facts DEF Work, Own
<1>5. QED
  BY <1>0, <1>2, <1>3, <1>4 DEF CreateOrder

LEMMA CoinMoves ==
    ASSUME IInv, NEW c \in Coins, Escrows(c) \/ ComesHome(c)
    PROVE  HomeStays /\ coin' \in [Coins -> Places] /\ (ComesHome(c) => coin'[c] = "home")
  BY Facts, Members DEF Escrows, ComesHome, HomeStays

LEMMA ForwardStep ==
    ASSUME IInv, NEW p \in Passes,
           ForwardReturns(p) \/ ForwardFails(p) \/ ForwardUnanswered(p)
    PROVE  IInv'
<1>1. /\ watch[p] \in WorkRec /\ watch[p].at = "submit" /\ watch[p].order \in Orders
      /\ Own(watch[p].order, watch[p].coin)
  BY Facts DEF ForwardReturns, ForwardFails, ForwardUnanswered, At, WorkOK
<1>2. UNCHANGED <<addr, po, row, recorded, index>>
  BY DEF ForwardReturns, ForwardFails, ForwardUnanswered, db
<1>3. CASE ForwardReturns(p)
  <2> DEFINE new == [watch[p] EXCEPT !.at = "persist"]
  <2>1. new \in WorkRec /\ new.at = "persist" /\ new.order = watch[p].order
        /\ new.coin = watch[p].coin
    BY <1>1, Members DEF WorkRec
  <2>2. HomeStays /\ coin' \in [Coins -> Places] /\ faults' = faults
    BY <1>1, <1>3, CoinMoves DEF ForwardReturns, Own
  <2>3. Go(p, new)
    BY <1>3 DEF ForwardReturns
  <2>4. QED
    BY <1>1, <1>2, <2>1, <2>2, <2>3, PassQuiet, Facts
<1>4. CASE ForwardFails(p)
  BY <1>2, <1>4, StopStep, SameCoins, Facts DEF ForwardFails
<1>5. CASE ForwardUnanswered(p)
  <2>1. HomeStays /\ coin' \in [Coins -> Places] /\ faults' \in Nat /\ Stop(p)
    BY <1>1, <1>5, CoinMoves, FaultType DEF ForwardUnanswered, Own
  <2>2. QED
    BY <1>2, <2>1, StopStep
<1>6. QED
  BY <1>3, <1>4, <1>5

LEMMA PersistStep ==
    ASSUME IInv, NEW p \in Passes, PersistForwarded(p)
    PROVE  IInv'
<1>0. PICK o \in Orders : o = watch[p].order
  BY Facts DEF PersistForwarded, At, WorkOK
<1>1. /\ Stop(p) /\ UNCHANGED <<po, row, recorded, coin, index>>
      /\ Own(o, watch[p].coin)
  BY <1>0, Facts DEF PersistForwarded, At, WorkOK
<1>2. CASE Fault /\ UNCHANGED addr
  BY <1>1, <1>2, StopStep, SameCoins, FaultType, Facts
<1> DEFINE a == [ status |-> "forwarded", digest |-> watch[p].coin ]
<1>3. CASE addr' = [addr EXCEPT ![o] = a] /\ UNCHANGED faults
  <2>1. a \in AddrRec /\ a.digest = watch[p].coin
    BY <1>1, Members DEF AddrRec, Own
  <2>2. QED
    BY <1>1, <1>3, <2>1, AddrStep, Facts
<1>4. QED
  BY <1>0, <1>2, <1>3 DEF PersistForwarded

\* Writers of payment_orders: only the coin's own order is stamped with it.
LEMMA PoStep ==
    ASSUME IInv, UNCHANGED <<addr, recorded, coin>>, faults' \in Nat,
           row' \in [Orders -> Rows],
           NEW o \in Orders, NEW r \in OrderRec, po' = [po EXCEPT ![o] = r],
           r.gateway # Nil => Own(o, r.gateway),
           /\ watch' \in [Passes -> WorkRec] /\ index' \in WorkRec
           /\ WorkOK(index)' /\ \A q \in Passes : WorkOK(watch[q])'
    PROVE  IInv'
<1>1. po' \in [Orders -> OrderRec]
  BY Facts
<1>2. RowsOK'
  BY Facts DEF RowsOK, Own
<1>3. FeedsBridge'
  BY Facts, SameCoins, FeedsKept
<1>4. QED
  BY <1>1, <1>2, <1>3, Facts, Assemble

LEMMA LookStep ==
    ASSUME IInv, NEW p \in Passes, LookUpGateway(p)
    PROVE  IInv'
<1>0. PICK o \in Orders : o = watch[p].order
  BY Facts DEF LookUpGateway, At, WorkOK
<1>1. /\ UNCHANGED <<addr, row, recorded, coin, index>>
      /\ watch[p] \in WorkRec /\ Own(o, watch[p].coin)
  BY <1>0, Facts DEF LookUpGateway, At, WorkOK
<1>2. CASE Fault /\ Stop(p) /\ UNCHANGED po
  BY <1>1, <1>2, StopStep, SameCoins, FaultType, Facts
<1>3. CASE /\ po' = [po EXCEPT ![o].gateway = watch[p].coin] /\ UNCHANGED faults
           /\ Go(p, [watch[p] EXCEPT !.at = "settle"])
  <2> DEFINE new == [watch[p] EXCEPT !.at = "settle"]
             r == [po[o] EXCEPT !.gateway = watch[p].coin]
  <2>1. new \in WorkRec /\ new.at = "settle" /\ new.order = o /\ new.coin = watch[p].coin
    BY <1>0, <1>1, Members DEF WorkRec
  <2>2. r \in OrderRec /\ r.gateway = watch[p].coin
    BY <1>1, Facts DEF OrderRec, Own
  <2>3. /\ watch' \in [Passes -> WorkRec] /\ index' \in WorkRec
        /\ WorkOK(index)' /\ \A q \in Passes : WorkOK(watch[q])'
    BY <1>1, <1>3, <2>1, PassGoes, SameCoins
  <2>4. po' = [po EXCEPT ![o] = r]
    BY <1>3
  <2>5. QED
    BY <1>1, <1>3, <2>2, <2>3, <2>4, PoStep, Facts
<1>4. QED
  BY <1>0, <1>2, <1>3 DEF LookUpGateway

LEMMA SettleStep ==
    ASSUME IInv, NEW p \in Passes,
           SelfSettle(p) \/ SelfSettleEnds(p) \/ SelfSettleUnanswered(p)
    PROVE  IInv'
<1>1. /\ watch[p] \in WorkRec /\ watch[p].at = "settle" /\ watch[p].order \in Orders
      /\ Own(watch[p].order, watch[p].coin)
  BY Facts DEF SelfSettle, SelfSettleEnds, SelfSettleUnanswered, At, WorkOK
<1>2. UNCHANGED <<addr, po, row, recorded, index>>
  BY DEF SelfSettle, SelfSettleEnds, SelfSettleUnanswered, db
<1>3. CASE SelfSettle(p)
  <2> DEFINE new == [watch[p] EXCEPT !.at = "record"]
  <2>1. new \in WorkRec /\ new.at = "record" /\ new.order = watch[p].order
        /\ new.coin = watch[p].coin
    BY <1>1, Members DEF WorkRec
  <2>2. HomeStays /\ coin' \in [Coins -> Places] /\ faults' = faults
        /\ coin'[watch[p].coin] = "home"
    BY <1>1, <1>3, CoinMoves DEF SelfSettle, Own
  <2>3. Go(p, new)
    BY <1>3 DEF SelfSettle
  <2>4. QED
    BY <1>1, <1>2, <2>1, <2>2, <2>3, PassQuiet, Facts
<1>4. CASE SelfSettleEnds(p)
  BY <1>2, <1>4, StopStep, SameCoins, Facts DEF SelfSettleEnds
<1>5. CASE SelfSettleUnanswered(p)
  <2>1. HomeStays /\ coin' \in [Coins -> Places] /\ faults' \in Nat /\ Stop(p)
    BY <1>1, <1>5, CoinMoves, FaultType DEF SelfSettleUnanswered, Own
  <2>2. QED
    BY <1>2, <2>1, StopStep
<1>6. QED
  BY <1>3, <1>4, <1>5

\* The record follows the coin: what is added has one at home.
LEMMA RecordKept ==
    ASSUME IInv, NEW o \in Orders, NEW c, Own(o, c), coin[c] = "home", coin' = coin,
           recorded' = recorded \cup {o} \/ recorded' = recorded
    PROVE  FeedsBridge' /\ recorded' \subseteq Orders
<1>1. Home(o) /\ \A q \in recorded : Home(q)
  BY Facts DEF Home, Own, FeedsBridge
<1>2. \A q \in Orders : Home(q) => Home(q)'
  BY DEF Home
<1>3. QED
  BY <1>1, <1>2, Facts DEF FeedsBridge

LEMMA RecordStep ==
    ASSUME IInv, NEW p \in Passes, RecordSelfSettle(p)
    PROVE  IInv'
<1>0. PICK o \in Orders : o = watch[p].order
  BY Facts DEF RecordSelfSettle, At, WorkOK
<1>1. /\ Stop(p) /\ UNCHANGED <<addr, po, row, coin, index>>
      /\ Own(o, watch[p].coin) /\ coin[watch[p].coin] = "home"
      /\ recorded' = recorded \cup {o} \/ recorded' = recorded
  BY <1>0, Facts DEF RecordSelfSettle, At, WorkOK
<1>2. faults' \in Nat
  BY FaultType, Facts DEF RecordSelfSettle
<1>3. FeedsBridge' /\ recorded' \subseteq Orders
  BY <1>1, RecordKept
<1>4. /\ watch' \in [Passes -> WorkRec] /\ index' \in WorkRec
      /\ WorkOK(index)' /\ \A q \in Passes : WorkOK(watch[q])'
  BY <1>1, PassGoes, IdleType, SameCoins DEF Stop
<1>5. RowsOK'
  BY <1>1, Facts DEF RowsOK, Own
<1>6. QED
  BY <1>1, <1>2, <1>3, <1>4, <1>5, Facts, Assemble

\* Steps of the indexer that write nothing.
LEMMA IndexQuiet ==
    ASSUME IInv, index' \in WorkRec, UNCHANGED <<addr, po, row, recorded, watch>>,
           HomeStays, coin' \in [Coins -> Places], faults' \in Nat,
           index'.at # "idle" =>
               /\ index'.order \in Orders
               /\ index'.at \notin {"mark", "load"} => Own(index'.order, index'.coin)
               /\ index'.at \in {"record", "stamp"} => coin'[index'.coin] = "home"
    PROVE  IInv'
<1>1. /\ watch' \in [Passes -> WorkRec] /\ index' \in WorkRec
      /\ WorkOK(index)' /\ \A q \in Passes : WorkOK(watch[q])'
  BY IndexGoes
<1>2. FeedsBridge'
  BY Facts, FeedsKept
<1>3. RowsOK'
  BY Facts DEF RowsOK, Own
<1>4. QED
  BY <1>1, <1>2, <1>3, Facts, Assemble

LEMMA IndexStep ==
    ASSUME IInv, Index
    PROVE  IInv'
<1>1. ASSUME NEW c \in Coins, OrderCreated(c) PROVE IInv'
  <2>1. UNCHANGED <<addr, po, row, recorded, watch, coin, faults>>
        /\ index' = Work("settle", For[c], c)
    BY <1>1 DEF OrderCreated, db
  <2>2. index' \in WorkRec /\ For[c] \in Orders
    BY <2>1, WorkType, Members
  <2>3. QED
    BY <2>1, <2>2, IndexQuiet, SameCoins, Facts DEF Work, Own
<1>2. ASSUME NEW c \in Coins, OrderSettled(c) PROVE IInv'
  <2>1. PICK o \in Orders : po' = [po EXCEPT ![o].status = "settled"]
    BY <1>2 DEF OrderSettled
  <2>2. UNCHANGED <<addr, row, recorded, coin, watch, index, faults>>
    BY <1>2 DEF OrderSettled
  <2> DEFINE r == [po[o] EXCEPT !.status = "settled"]
  <2>3. r \in OrderRec /\ r.gateway = po[o].gateway
    BY Facts DEF OrderRec
  <2>4. /\ watch' \in [Passes -> WorkRec] /\ index' \in WorkRec
        /\ WorkOK(index)' /\ \A q \in Passes : WorkOK(watch[q])'
    BY <2>2, Facts DEF WorkOK, Own
  <2>5. po' = [po EXCEPT ![o] = r] /\ (po[o].gateway # Nil => Own(o, po[o].gateway))
    BY <2>1, Facts DEF RowsOK
  <2>6. QED
    BY <2>2, <2>3, <2>4, <2>5, PoStep, Facts
<1>3. ASSUME IndexSelfSettle PROVE IInv'
  <2>1. /\ index.order \in Orders /\ Own(index.order, index.coin) /\ index \in WorkRec
        /\ UNCHANGED <<addr, po, row, recorded, watch>>
    BY <1>3, Facts DEF IndexSelfSettle, WorkOK, db
  <2>2. CASE index' = Idle /\ (Fault \/ UNCHANGED faults) /\ HomeStays
             /\ coin' \in [Coins -> Places]
    BY <2>1, <2>2, IndexQuiet, IdleType, FaultType, Facts
  <2>3. CASE /\ ComesHome(index.coin) /\ index' = [index EXCEPT !.at = "record"]
             /\ UNCHANGED faults
    <3>1. /\ index' \in WorkRec /\ index'.at = "record" /\ index'.order = index.order
          /\ index'.coin = index.coin
      BY <2>1, <2>3, Members DEF WorkRec
    <3>2. HomeStays /\ coin' \in [Coins -> Places] /\ coin'[index.coin] = "home"
      BY <2>1, <2>3, CoinMoves DEF Own
    <3>3. QED
      BY <2>1, <2>3, <3>1, <3>2, IndexQuiet, Facts
  <2>4. QED
    BY <1>3, <2>1, <2>2, <2>3, CoinMoves, SameCoins, Facts DEF IndexSelfSettle, Own
<1>4. ASSUME IndexRecord PROVE IInv'
  <2>1. /\ index.order \in Orders /\ Own(index.order, index.coin) /\ index \in WorkRec
        /\ coin[index.coin] = "home" /\ UNCHANGED <<addr, po, row, coin, watch>>
        /\ recorded' = recorded \cup {index.order} \/ recorded' = recorded
    BY <1>4, Facts DEF IndexRecord, WorkOK
  <2>2. faults' \in Nat
    BY <1>4, FaultType, Facts DEF IndexRecord
  <2>3. /\ index' \in WorkRec /\ index'.at = "stamp" /\ index'.order = index.order
        /\ index'.coin = index.coin
    BY <1>4, <2>1, Members DEF IndexRecord, WorkRec
  <2>4. /\ watch' \in [Passes -> WorkRec] /\ index' \in WorkRec
        /\ WorkOK(index)' /\ \A q \in Passes : WorkOK(watch[q])'
    BY <2>1, <2>3, IndexGoes, SameCoins
  <2>5. FeedsBridge' /\ recorded' \subseteq Orders
    BY <2>1, RecordKept
  <2>6. RowsOK'
    BY <2>1, Facts DEF RowsOK, Own
  <2>7. QED
    BY <2>1, <2>2, <2>4, <2>5, <2>6, Facts, Assemble
<1>5. ASSUME IndexStamp PROVE IInv'
  <2>0. PICK o \in Orders : o = index.order
    BY <1>5, Facts DEF IndexStamp, WorkOK
  <2>1. /\ UNCHANGED <<addr, row, recorded, coin, watch>> /\ index' = Idle
        /\ Own(o, index.coin)
    BY <1>5, <2>0, Facts DEF IndexStamp, WorkOK
  <2>2. CASE Fault /\ UNCHANGED po
    BY <2>1, <2>2, IndexQuiet, IdleType, FaultType, SameCoins, Facts
  <2>3. CASE po' = [po EXCEPT ![o].gateway = index.coin] /\ UNCHANGED faults
    <3> DEFINE r == [po[o] EXCEPT !.gateway = index.coin]
    <3>1. r \in OrderRec /\ r.gateway = index.coin
      BY <2>1, Facts DEF OrderRec, Own
    <3>2. /\ watch' \in [Passes -> WorkRec] /\ index' \in WorkRec
          /\ WorkOK(index)' /\ \A q \in Passes : WorkOK(watch[q])'
      BY <2>1, IndexGoes, IdleType, SameCoins
    <3>3. po' = [po EXCEPT ![o] = r]
      BY <2>3
    <3>4. QED
      BY <2>1, <2>3, <3>1, <3>2, <3>3, PoStep, Facts
  <2>4. QED
    BY <1>5, <2>0, <2>2, <2>3 DEF IndexStamp
<1>6. ASSUME CrashIndexer PROVE IInv'
  BY <1>6, IndexQuiet, IdleType, FaultType, SameCoins, Facts DEF CrashIndexer, db
<1>7. QED
  BY <1>1, <1>2, <1>3, <1>4, <1>5, <1>6 DEF Index

\* The customer, the addresses' clock and the other writers of the rows.
LEMMA OtherStep ==
    ASSUME IInv,
           \/ \E c \in Coins : Send(c)
           \/ \E o \in Orders : Address(o) \/ EndPayment(o) \/ Dispatch(o)
    PROVE  IInv'
<1>1. UNCHANGED <<watch, index, recorded, faults>>
  BY DEF Send, Address, ExpireStale, ExtendAddress, EndPayment, Dispatch, db
<1>2. HomeStays /\ coin' \in [Coins -> Places]
  BY Facts, Members DEF Send, HomeStays, Address, ExpireStale, ExtendAddress, EndPayment, Dispatch
<1>3. /\ watch' \in [Passes -> WorkRec] /\ index' \in WorkRec
      /\ WorkOK(index)' /\ \A q \in Passes : WorkOK(watch[q])'
  <2>1. index' = index /\ watch' = watch
    BY <1>1
  <2>2. index.at # "idle" =>
            /\ index.order \in Orders
            /\ index.at \notin {"mark", "load"} => Own(index.order, index.coin)
            /\ index.at \in {"record", "stamp"} => coin'[index.coin] = "home"
    BY <1>2, Facts, WorkKept
  <2>3. QED
    BY <1>2, <2>1, <2>2, IndexGoes, Facts
<1>4. /\ addr' \in [Orders -> AddrRec]
      /\ \A o \in Orders : addr'[o].digest = addr[o].digest
  <2>1. CASE UNCHANGED addr
    BY <2>1, Facts
  <2>2. ASSUME NEW o \in Orders, NEW s \in AddrStatuses,
               addr' = [addr EXCEPT ![o].status = s]
        PROVE  /\ addr' \in [Orders -> AddrRec]
               /\ \A q \in Orders : addr'[q].digest = addr[q].digest
    <3> DEFINE a == [addr[o] EXCEPT !.status = s]
    <3>1. a \in AddrRec /\ a.digest = addr[o].digest
      BY Facts DEF AddrRec
    <3>2. addr' = [addr EXCEPT ![o] = a]
      BY <2>2
    <3> HIDE DEF a
    <3>3. QED
      BY <3>1, <3>2, Facts
  <2>3. QED
    BY <2>1, <2>2, Members
      DEF Send, Address, ExpireStale, ExtendAddress, EndPayment, Dispatch, db
<1>5. /\ po' \in [Orders -> OrderRec]
      /\ \A o \in Orders : po'[o].gateway = po[o].gateway
  BY Facts DEF Send, Address, ExpireStale, ExtendAddress, EndPayment, Dispatch, db, OrderRec
<1>6. row' \in [Orders -> Rows]
  BY Facts, Members DEF Send, Address, ExpireStale, ExtendAddress, EndPayment, Dispatch, db
<1>7. RowsOK'
  BY <1>4, <1>5, Facts DEF RowsOK, Own
<1>8. FeedsBridge'
  BY <1>1, <1>2, Facts, FeedsKept
<1>9. QED
  BY <1>1, <1>2, <1>3, <1>4, <1>5, <1>6, <1>7, <1>8, Facts, Assemble

LEMMA NextIInv == IInv /\ [Next]_vars => IInv'
<1> SUFFICES ASSUME IInv, [Next]_vars PROVE IInv'
  OBVIOUS
<1>1. ASSUME NEW p \in Passes, Advance(p) PROVE IInv'
  BY <1>1, MarkStep, CreateStep, ForwardStep, PersistStep, LookStep, SettleStep, RecordStep
    DEF Advance
<1>2. ASSUME NEW p \in Passes, CrashPass(p) PROVE IInv'
  BY <1>2, StopStep, SameCoins, FaultType, Facts DEF CrashPass, db
<1>3. CASE UNCHANGED vars
  BY <1>3 DEF vars, db, IInv, TypeOK, RowsOK, Own, FeedsBridge, Home, WorkOK
<1>4. QED
  BY <1>1, <1>2, <1>3, FetchStep, IndexStep, OtherStep DEF Next

LEMMA InvariantHolds == Spec => []IInv
  BY InitIInv, NextIInv, PTL DEF Spec

\* Every variable keeps its type (sui_receive_addresses, payment_orders, route_a_orders).
THEOREM TypeCorrect == Spec => []TypeOK
<1>1. IInv => TypeOK
  BY DEF IInv
<1>2. QED
  BY <1>1, InvariantHolds, PTL

-----------------------------------------------------------------------------
(***************************************************************************)
(* That a coin on record has left its receive address.  A digest and a     *)
(* gateway id are written by requests whose coin is out of it already, and *)
(* no coin goes back.                                                      *)
(***************************************************************************)
Sent(c) == coin[c] \in {"escrow", "home"}
SentThen(c) == coin'[c] \in {"escrow", "home"}

SentWork(w) == w.at \in {"persist", "look", "settle"} => Sent(w.coin)

SentRows ==
    \A o \in Orders :
        /\ addr[o].digest # Nil => /\ Sent(addr[o].digest)
                                   /\ addr[o].status \in {"deposited", "forwarded"}
        /\ po[o].gateway # Nil => Sent(po[o].gateway)

SInv == SentRows /\ SentWork(index) /\ \A p \in Passes : SentWork(watch[p])

\* No coin goes back to a receive address.
LEMMA SentStays ==
    ASSUME IInv, [Next]_vars
    PROVE  \A c \in Coins : Sent(c) => SentThen(c)
<1>1. CASE coin' = coin
  BY <1>1 DEF Sent, SentThen
<1>2. ASSUME NEW c, coin' = [coin EXCEPT ![c] = "escrow"] \/ coin' = [coin EXCEPT ![c] = "home"]
      PROVE  \A d \in Coins : Sent(d) => SentThen(d)
  BY <1>2, Facts DEF Sent, SentThen
<1>3. ASSUME NEW c \in Coins, Send(c) PROVE \A d \in Coins : Sent(d) => SentThen(d)
  BY <1>3, Facts DEF Sent, SentThen, Send
<1>4. ASSUME NEW p \in Passes, Advance(p) \/ CrashPass(p) \/ \E o \in Orders : Fetches(p, o)
      PROVE  \A d \in Coins : Sent(d) => SentThen(d)
  BY <1>1, <1>2, <1>4
  DEF Advance, MarkDeposited, CreateOrder, ForwardReturns, ForwardFails, ForwardUnanswered,
      PersistForwarded, LookUpGateway, SelfSettle, SelfSettleEnds, SelfSettleUnanswered,
      RecordSelfSettle, CrashPass, Fetches, Detect, FetchDeposited, FetchForwarded, Escrows, ComesHome
<1>5. ASSUME Index PROVE \A d \in Coins : Sent(d) => SentThen(d)
  BY <1>1, <1>2, <1>5
  DEF Index, OrderCreated, OrderSettled, IndexSelfSettle, IndexRecord, IndexStamp, CrashIndexer, ComesHome
<1>6. ASSUME NEW o \in Orders, Address(o) \/ EndPayment(o) \/ Dispatch(o) PROVE coin' = coin
  BY <1>6 DEF Address, ExpireStale, ExtendAddress, EndPayment, Dispatch
<1>7. CASE UNCHANGED vars
  BY <1>1, <1>7 DEF vars
<1>8. QED
  BY <1>1, <1>3, <1>4, <1>5, <1>6, <1>7 DEF Next

\* Who writes a digest; the other writers of the address leave it, and a status that goes with it.
LEMMA AddrWrites ==
    ASSUME IInv, [Next]_vars, NEW o \in Orders
    PROVE  \/ /\ addr'[o].digest = addr[o].digest
              /\ addr[o].status \in {"deposited", "forwarded"} =>
                    addr'[o].status \in {"deposited", "forwarded"}
           \/ \E p \in Passes : /\ watch[p].at = "persist" /\ watch[p].order = o
                                /\ addr'[o] = [ status |-> "forwarded", digest |-> watch[p].coin ]
<1> DEFINE Kept == /\ addr'[o].digest = addr[o].digest
                   /\ addr[o].status \in {"deposited", "forwarded"} =>
                         addr'[o].status \in {"deposited", "forwarded"}
           Persisted == \E p \in Passes :
                           /\ watch[p].at = "persist" /\ watch[p].order = o
                           /\ addr'[o] = [ status |-> "forwarded", digest |-> watch[p].coin ]
<1>0. addr \in [Orders -> AddrRec]
  BY Facts
<1>1. CASE addr' = addr
  BY <1>1
<1>2. ASSUME NEW q, NEW s \in {"deposited", "forwarded"}, addr' = [addr EXCEPT ![q].status = s]
      PROVE  Kept
  BY <1>0, <1>2 DEF AddrRec
<1>3. ASSUME NEW p \in Passes, PersistForwarded(p) PROVE Kept \/ Persisted
  BY <1>0, <1>3 DEF PersistForwarded, At
<1>4. ASSUME NEW p \in Passes, MarkDeposited(p) \/ CreateOrder(p) PROVE Kept
  BY <1>1, <1>2, <1>4 DEF MarkDeposited, CreateOrder
<1>5. ASSUME NEW q \in Orders, Address(q) PROVE Kept
  BY <1>0, <1>5 DEF Address, ExpireStale, ExtendAddress, AddrRec
<1>6. ASSUME NEW p \in Passes,
             \/ ForwardReturns(p) \/ ForwardFails(p) \/ ForwardUnanswered(p) \/ LookUpGateway(p)
             \/ SelfSettle(p) \/ SelfSettleEnds(p) \/ SelfSettleUnanswered(p)
             \/ RecordSelfSettle(p) \/ CrashPass(p) \/ \E q \in Orders : Fetches(p, q)
      PROVE  addr' = addr
  BY <1>6 DEF ForwardReturns, ForwardFails, ForwardUnanswered, LookUpGateway, SelfSettle,
              SelfSettleEnds, SelfSettleUnanswered, RecordSelfSettle, CrashPass, Fetches, Detect,
              FetchDeposited, FetchForwarded, db
<1>7. ASSUME Index \/ (\E c \in Coins : Send(c)) \/ (\E q \in Orders : EndPayment(q) \/ Dispatch(q))
             \/ UNCHANGED vars
      PROVE  addr' = addr
  BY <1>7 DEF Index, OrderCreated, OrderSettled, IndexSelfSettle, IndexRecord, IndexStamp,
              CrashIndexer, Send, EndPayment, Dispatch, vars, db
<1> HIDE DEF Kept, Persisted
<1>8. Kept \/ Persisted
  <2>1. addr' = addr => Kept
    BY <1>1 DEF Kept
  <2>2. QED
    BY <2>1, <1>3, <1>4, <1>5, <1>6, <1>7 DEF Next, Advance
<1>9. QED
  BY <1>8 DEF Kept, Persisted

\* Who writes a gateway id.
LEMMA PoWrites ==
    ASSUME IInv, [Next]_vars, NEW o \in Orders
    PROVE  \/ po'[o].gateway = po[o].gateway
           \/ \E p \in Passes : /\ watch[p].at = "look" /\ watch[p].order = o
                                /\ po'[o].gateway = watch[p].coin
           \/ index.at = "stamp" /\ index.order = o /\ po'[o].gateway = index.coin
<1>0. po \in [Orders -> OrderRec]
  BY Facts
<1>1. ASSUME NEW q, NEW s, po' = [po EXCEPT ![q].status = s] PROVE po'[o].gateway = po[o].gateway
  BY <1>0, <1>1 DEF OrderRec
<1>2. ASSUME NEW q, NEW c, po' = [po EXCEPT ![q].gateway = c]
      PROVE  po'[o].gateway = po[o].gateway \/ (q = o /\ po'[o].gateway = c)
  BY <1>0, <1>2 DEF OrderRec
<1>3. ASSUME NEW p \in Passes, LookUpGateway(p)
      PROVE  \/ po'[o].gateway = po[o].gateway
             \/ watch[p].at = "look" /\ watch[p].order = o /\ po'[o].gateway = watch[p].coin
  BY <1>2, <1>3 DEF LookUpGateway, At
<1>4. ASSUME IndexStamp
      PROVE  \/ po'[o].gateway = po[o].gateway
             \/ index.at = "stamp" /\ index.order = o /\ po'[o].gateway = index.coin
  BY <1>2, <1>4 DEF IndexStamp
<1>5. ASSUME \/ \E c \in Coins : OrderSettled(c)
             \/ \E q \in Orders : EndPayment(q) \/ Dispatch(q)
      PROVE  po'[o].gateway = po[o].gateway
  BY <1>1, <1>5 DEF OrderSettled, EndPayment, Dispatch
<1>6. ASSUME NEW p \in Passes,
             \/ MarkDeposited(p) \/ CreateOrder(p) \/ PersistForwarded(p)
             \/ ForwardReturns(p) \/ ForwardFails(p) \/ ForwardUnanswered(p)
             \/ SelfSettle(p) \/ SelfSettleEnds(p) \/ SelfSettleUnanswered(p)
             \/ RecordSelfSettle(p) \/ CrashPass(p) \/ \E q \in Orders : Fetches(p, q)
      PROVE  po' = po
  BY <1>6 DEF MarkDeposited, CreateOrder, PersistForwarded, ForwardReturns, ForwardFails,
              ForwardUnanswered, SelfSettle, SelfSettleEnds, SelfSettleUnanswered,
              RecordSelfSettle, CrashPass, Fetches, Detect, FetchDeposited, FetchForwarded, db
<1>7. ASSUME \/ \E c \in Coins : OrderCreated(c) \/ Send(c)
             \/ IndexSelfSettle \/ IndexRecord \/ CrashIndexer
             \/ (\E q \in Orders : Address(q)) \/ UNCHANGED vars
      PROVE  po' = po
  BY <1>7 DEF OrderCreated, Send, IndexSelfSettle, IndexRecord, CrashIndexer, Address,
              ExpireStale, ExtendAddress, vars, db
<1>8. QED
  BY <1>3, <1>4, <1>5, <1>6, <1>7 DEF Next, Advance, Index

\* A request in progress: it goes on as it was, or takes up a coin that has left.
LEMMA WorkWrites ==
    ASSUME IInv, SInv, [Next]_vars
    PROVE  SentWork(index)' /\ \A p \in Passes : SentWork(watch[p])'
<1>0. \A c \in Coins : Sent(c) => SentThen(c)
  BY SentStays
<1>1. ASSUME NEW w, WorkOK(w), SentWork(w)
      PROVE  w.at \in {"persist", "look", "settle"} => SentThen(w.coin)
  BY <1>0, <1>1 DEF WorkOK, Own, SentWork
<1>2. ASSUME index' = index \/ index'.at \in {"idle", "record", "stamp"} PROVE SentWork(index)'
  BY <1>1, <1>2, Facts DEF SInv, SentWork, Sent, SentThen
<1>3. ASSUME watch' = watch PROVE \A p \in Passes : SentWork(watch[p])'
  BY <1>1, <1>3, Facts DEF SInv, SentWork, Sent, SentThen
<1>4. ASSUME NEW p \in Passes, NEW new, Go(p, new),
             new.at \in {"persist", "look", "settle"} => SentThen(new.coin)
      PROVE  \A q \in Passes : SentWork(watch[q])'
  <2>1. watch'[p] = new /\ \A q \in Passes : q # p => watch'[q] = watch[q]
    BY <1>4, Facts DEF Go
  <2>2. QED
    BY <1>1, <1>4, <2>1, Facts DEF SInv, SentWork, Sent, SentThen
<1>5. ASSUME NEW p \in Passes, Stop(p) PROVE \A q \in Passes : SentWork(watch[q])'
  BY <1>4, <1>5, IdleType DEF Stop
<1>6. ASSUME NEW p \in Passes, NEW o \in Orders, Fetches(p, o)
      PROVE  \A q \in Passes : SentWork(watch[q])'
  <2>1. addr[o].digest # Nil => SentThen(addr[o].digest)
    BY <1>0, Facts DEF SInv, SentRows, RowsOK, Own
  <2>2. po[o].gateway # Nil => SentThen(po[o].gateway)
    BY <1>0, Facts DEF SInv, SentRows, RowsOK, Own
  <2>3. \E new : /\ Go(p, new)
                 /\ new.at \in {"persist", "look", "settle"} => SentThen(new.coin)
    BY <1>6, <2>1, <2>2 DEF Fetches, Detect, FetchDeposited, FetchForwarded, Work
  <2>4. QED
    BY <1>4, <2>3
<1>7. ASSUME NEW p \in Passes, Advance(p) \/ CrashPass(p)
      PROVE  \A q \in Passes : SentWork(watch[q])'
  <2>1. CASE Stop(p)
    BY <1>5, <2>1
  <2>2. CASE CreateOrder(p)
    <3>1. \E new : Go(p, new) /\ new.at \notin {"persist", "look", "settle"}
      <4>1. CASE Stop(p)
        BY <4>1, IdleType DEF Stop
      <4>2. CASE \E c \in Held(watch[p].order) : Go(p, Work("submit", watch[p].order, c))
        <5>1. PICK c : Go(p, Work("submit", watch[p].order, c))
          BY <4>2
        <5>2. Work("submit", watch[p].order, c).at = "submit"
          BY DEF Work
        <5>3. QED
          BY <5>1, <5>2
      <4>3. QED
        BY <2>2, <4>1, <4>2 DEF CreateOrder
    <3>2. QED
      BY <1>4, <3>1
  <2>3. watch[p] \in WorkRec
    BY Facts
  <2>4. CASE ForwardReturns(p)
    <3>1. watch[p].coin \in Coins /\ SentThen(watch[p].coin)
      BY <2>4, Facts DEF ForwardReturns, Escrows, At, WorkOK, Own, Sent, SentThen
    <3>2. QED
      BY <1>4, <2>3, <2>4, <3>1 DEF ForwardReturns, WorkRec
  <2>5. CASE LookUpGateway(p)
    <3>1. watch[p].at = "look" /\ SentThen(watch[p].coin)
      BY <1>1, <2>5, Facts DEF LookUpGateway, At, SInv
    <3>2. QED
      BY <1>4, <1>5, <2>3, <2>5, <3>1 DEF LookUpGateway, WorkRec
  <2>6. CASE SelfSettle(p)
    <3>1. Go(p, [watch[p] EXCEPT !.at = "record"])
      BY <2>6 DEF SelfSettle
    <3>2. QED
      BY <1>4, <2>3, <3>1 DEF WorkRec
  <2>7. QED
    BY <1>7, <2>1, <2>2, <2>4, <2>5, <2>6
    DEF Advance, MarkDeposited, ForwardFails, ForwardUnanswered, PersistForwarded, SelfSettleEnds,
        SelfSettleUnanswered, RecordSelfSettle, CrashPass
<1>8. ASSUME Index PROVE SentWork(index)' /\ watch' = watch
  <2>1. watch' = watch
    BY <1>8 DEF Index, OrderCreated, OrderSettled, IndexSelfSettle, IndexRecord, IndexStamp,
                CrashIndexer
  <2>2. ASSUME NEW c \in Coins, OrderCreated(c) PROVE SentWork(index)'
    BY <1>0, <2>2 DEF OrderCreated, Work, SentWork, Sent, SentThen
  <2>3. ASSUME \/ IndexSelfSettle \/ IndexRecord \/ IndexStamp \/ CrashIndexer
               \/ \E c \in Coins : OrderSettled(c)
        PROVE  SentWork(index)'
    BY <1>2, <2>3, IdleType, Facts
    DEF IndexSelfSettle, IndexRecord, IndexStamp, CrashIndexer, OrderSettled, WorkRec
  <2>4. QED
    BY <1>8, <2>1, <2>2, <2>3 DEF Index
<1>9. ASSUME NEW p \in Passes, Advance(p) \/ CrashPass(p) \/ \E o \in Orders : Fetches(p, o)
      PROVE  index' = index
  BY <1>9
  DEF Advance, MarkDeposited, CreateOrder, ForwardReturns, ForwardFails, ForwardUnanswered,
      PersistForwarded, LookUpGateway, SelfSettle, SelfSettleEnds, SelfSettleUnanswered,
      RecordSelfSettle, CrashPass, Fetches, Detect, FetchDeposited, FetchForwarded
<1>10. ASSUME \/ \E c \in Coins : Send(c)
              \/ \E o \in Orders : Address(o) \/ EndPayment(o) \/ Dispatch(o)
              \/ UNCHANGED vars
       PROVE  index' = index /\ watch' = watch
  BY <1>10 DEF Send, Address, ExpireStale, ExtendAddress, EndPayment, Dispatch, vars
<1>11. QED
  BY <1>2, <1>3, <1>6, <1>7, <1>8, <1>9, <1>10 DEF Next

LEMMA NextSInv == IInv /\ SInv /\ [Next]_vars => SInv'
<1> SUFFICES ASSUME IInv, SInv, [Next]_vars PROVE SInv'
  OBVIOUS
<1>0. \A c \in Coins : Sent(c) => SentThen(c)
  BY SentStays
<1>1. ASSUME NEW o \in Orders, addr'[o].digest # Nil
      PROVE  SentThen(addr'[o].digest) /\ addr'[o].status \in {"deposited", "forwarded"}
  <2>1. CASE addr'[o].digest = addr[o].digest
    <3>1. /\ addr[o].digest \in Coins /\ Sent(addr[o].digest)
          /\ addr[o].status \in {"deposited", "forwarded"}
      BY <1>1, <2>1, Facts DEF SInv, SentRows, RowsOK, Own
    <3>2. addr'[o].status \in {"deposited", "forwarded"}
      <4>1. CASE addr[o].status \in {"deposited", "forwarded"} =>
                    addr'[o].status \in {"deposited", "forwarded"}
        BY <3>1, <4>1
      <4>2. CASE \E p \in Passes :
                    addr'[o] = [ status |-> "forwarded", digest |-> watch[p].coin ]
        BY <4>2
      <4>3. QED
        BY <4>1, <4>2, AddrWrites
    <3>3. QED
      BY <1>0, <2>1, <3>1, <3>2
  <2>2. ASSUME NEW p \in Passes, watch[p].at = "persist", watch[p].order = o,
               addr'[o] = [ status |-> "forwarded", digest |-> watch[p].coin ]
        PROVE  SentThen(addr'[o].digest) /\ addr'[o].status \in {"deposited", "forwarded"}
    <3>1. SentThen(watch[p].coin)
      BY <1>0, <2>2, Facts DEF SInv, SentWork, WorkOK, Own
    <3>2. QED
      BY <2>2, <3>1
  <2>3. QED
    BY <2>1, <2>2, AddrWrites
<1>2. ASSUME NEW o \in Orders, po'[o].gateway # Nil PROVE SentThen(po'[o].gateway)
  <2>1. CASE po'[o].gateway = po[o].gateway
    BY <1>0, <1>2, <2>1, Facts DEF SInv, SentRows, RowsOK, Own, Sent
  <2>2. ASSUME NEW p \in Passes, watch[p].at = "look", po'[o].gateway = watch[p].coin
        PROVE  SentThen(po'[o].gateway)
    BY <1>0, <2>2, Facts DEF SInv, SentWork, WorkOK, Own, Sent, SentThen
  <2>3. CASE index.at = "stamp" /\ po'[o].gateway = index.coin
    BY <1>0, <2>3, Facts DEF WorkOK, Own, Sent, SentThen
  <2>4. QED
    BY <2>1, <2>2, <2>3, PoWrites
<1>3. SentRows'
  BY <1>1, <1>2 DEF SentRows, Sent, SentThen
<1>4. QED
  BY <1>3, WorkWrites DEF SInv

LEMMA InitSInv == Init => SInv
  BY IdleType DEF Init, SInv, SentRows, SentWork

\* What is on record of coins is so: a self-settled order has had a coin of its own brought
\* home, and a digest or a gateway id names one that left its receive address, whoever did it
\* and in whatever order (handleRouteAIfApplicable, reconcileForwardedRouteA, CreateOrder).
THEOREM RecordsAreTrueHolds == Spec => []RecordsAreTrue
<1>1. IInv /\ SInv => RecordsAreTrue
  BY Facts DEF RecordsAreTrue, FeedsBridge, SInv, SentRows, RowsOK, Sent, Left, Own
<1>2. Spec => []SInv
  BY InitSInv, NextSInv, InvariantHolds, PTL DEF Spec
<1>3. QED
  BY <1>1, <1>2, InvariantHolds, PTL

=============================================================================
