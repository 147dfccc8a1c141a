-------------------------- MODULE RouteABridgeProofs --------------------------
(***************************************************************************)
(* Machine-checked proofs about RouteABridge: for every set of orders, any *)
(* number of dispatcher instances, with or without a lease that holds, and *)
(* any number of crashes.                                                  *)
(***************************************************************************)
EXTENDS RouteABridge, TLAPS

Claimed == {"submit", "revert", "persist"}

\* What is true of an order whatever the instances are doing.
OrderInv(o) ==
    /\ burns[o] = 0 \/ burns[o] = 1
    /\ transfer[o] = "none" <=> burns[o] = 0
    /\ row[o].status \in {"pending", "awaiting_funds"} => burns[o] = 0 /\ ~row[o].digest
    /\ row[o].status = "bridge_uncertain" => row[o].digest
    /\ row[o].status = "bridged" => transfer[o] = "delivered"

\* What an instance inside a handler may rely on: its claim holds, and a row it polls
\* has its digest.
WorkerInv(w) ==
    /\ pc[w] # "idle" => cur[w] \in Orders
    /\ pc[w] \in Claimed => row[cur[w]].status = "bridging" /\ ~row[cur[w]].digest
    /\ pc[w] \in {"submit", "revert"} => burns[cur[w]] = 0
    /\ pc[w] \in {"poll", "recover", "mark"} => row[cur[w]].digest
    /\ pc[w] = "mark" => transfer[cur[w]] = "delivered"

\* No two instances hold a claim on one order.
Exclusive ==
    \A v, w \in Workers :
        pc[v] \in Claimed /\ pc[w] \in Claimed /\ cur[v] = cur[w] => v = w

IInv ==
    /\ TypeOK
    /\ \A o \in Orders : OrderInv(o)
    /\ \A w \in Workers : WorkerInv(w)
    /\ Exclusive

-----------------------------------------------------------------------------
(* Types *)

\* The part of TypeOK a handler's own bookkeeping can disturb.
WorkTypes ==
    /\ pc \in [Workers -> Steps]
    /\ cur \in [Workers -> Orders \cup {Nil}]
    /\ snap \in [Workers -> RowRec]
    /\ rail \in [Workers -> Rails]
    /\ fallback \in [Workers -> BOOLEAN]
    /\ fails \in [Workers -> [Orders -> Nat]]

\* The part the chains, the wallet and the deposits can.
ChainTypes ==
    /\ arrived \subseteq Orders /\ selfSettled \subseteq Orders
    /\ wallet \in Nat
    /\ burns \in [Orders -> Nat]
    /\ transfer \in [Orders -> Transfers]

LEMMA NewRowType == \A r \in Rails : NewRow(r) \in RowRec
BY DEF NewRow, RowRec, Statuses, Rails

LEMMA DoneTypes ==
    ASSUME WorkTypes, NEW w \in Workers, Done(w)
    PROVE  /\ pc' \in [Workers -> Steps]
           /\ cur' \in [Workers -> Orders \cup {Nil}]
           /\ snap' \in [Workers -> RowRec]
<1>1. NewRow("lifi") \in RowRec
  BY NewRowType DEF Rails
<1> QED BY <1>1 DEF WorkTypes, Done, Steps

\* However an attempt ends, the bookkeeping keeps its types.
LEMMA EndTypes ==
    ASSUME WorkTypes, NEW w \in Workers, cur[w] \in Orders,
           Finish(w) \/ Succeed(w) \/ FailAttempt(w)
    PROVE  WorkTypes'
<1>1. CASE Finish(w)
  BY <1>1, DoneTypes DEF WorkTypes, Finish, NoAttempt, Attempt, Rails
<1>2. CASE Succeed(w)
  BY <1>2, DoneTypes DEF WorkTypes, Succeed, NoAttempt, Attempt, Rails
<1>3. CASE FailAttempt(w)
  <2> DEFINE n == IF fallback[w] THEN fails[w][cur[w]] ELSE fails[w][cur[w]] + 1
  <2>1. n \in Nat
    BY DEF WorkTypes
  <2>2. fails' = [fails EXCEPT ![w][cur[w]] = n]
    BY <1>3 DEF FailAttempt
  <2>3. fails' \in [Workers -> [Orders -> Nat]]
    BY <2>1, <2>2 DEF WorkTypes
  <2>4. rail' \in [Workers -> Rails] /\ fallback' \in [Workers -> BOOLEAN]
    BY <1>3 DEF WorkTypes, FailAttempt, NoAttempt, Attempt, Other, Rails
  <2>5. /\ pc' \in [Workers -> Steps]
        /\ cur' \in [Workers -> Orders \cup {Nil}]
        /\ snap' \in [Workers -> RowRec]
    <3>1. CASE Done(w)
      BY <3>1, DoneTypes
    <3>2. CASE \E step \in {"start", "giveUp"} : Go(w, step)
      BY <3>2 DEF WorkTypes, Go, Steps
    <3> QED BY <1>3, <3>1, <3>2 DEF FailAttempt
  <2> QED BY <2>3, <2>4, <2>5 DEF WorkTypes
<1> QED BY <1>1, <1>2, <1>3

LEMMA GoTypes ==
    ASSUME WorkTypes, NEW w \in Workers, NEW step \in Steps, Go(w, step),
           UNCHANGED <<rail, fallback, fails>>
    PROVE  WorkTypes'
BY DEF WorkTypes, Go

LEMMA FetchTypes ==
    ASSUME WorkTypes, row \in [Orders -> RowRec], NEW w \in Workers, NEW o \in Orders,
           NEW step \in Steps, Fetch(w, o, step)
    PROVE  /\ pc' \in [Workers -> Steps]
           /\ cur' \in [Workers -> Orders \cup {Nil}]
           /\ snap' \in [Workers -> RowRec]
BY DEF WorkTypes, Fetch

LEMMA CasTypes ==
    ASSUME row \in [Orders -> RowRec], NEW o \in Orders, NEW from, NEW new \in RowRec,
           Cas(o, from, new)
    PROVE  row' \in [Orders -> RowRec]
BY DEF Cas

\* Every new row a handler writes is the present one with fields replaced by values of
\* their types.
LEMMA RowFields ==
    ASSUME row \in [Orders -> RowRec], NEW o \in Orders,
           NEW st \in Statuses, NEW r \in Rails, NEW b \in BOOLEAN
    PROVE  /\ [row[o] EXCEPT !.status = st] \in RowRec
           /\ [row[o] EXCEPT !.status = st, !.provider = r] \in RowRec
           /\ [row[o] EXCEPT !.digest = b] \in RowRec
           /\ [row[o] EXCEPT !.status = st, !.bridged_amount = b] \in RowRec
BY DEF RowRec

LEMMA LandsTypes ==
    ASSUME ChainTypes, NEW o \in Orders, Lands(o)
    PROVE  ChainTypes'
BY DEF ChainTypes, Lands, Transfers

LeaseTypes == ticking \subseteq Workers /\ lease \in Workers \cup {Nil} /\ crashes \in Nat

LEMMA TypeParts ==
    TypeOK => row \in [Orders -> RowRec] /\ WorkTypes /\ ChainTypes /\ LeaseTypes
BY DEF TypeOK, WorkTypes, ChainTypes, LeaseTypes

\* The steps of advancePending, startBridge and startCCTPBridge keep every type.
LEMMA PendingTypes ==
    ASSUME TypeOK, NEW w \in Workers, pc[w] # "idle" => cur[w] \in Orders, Pending(w)
    PROVE  TypeOK'
<1> DEFINE o == cur[w]
<1>0. row \in [Orders -> RowRec] /\ WorkTypes /\ ChainTypes /\ LeaseTypes
  BY TypeParts
<1>1. LeaseTypes'
  BY <1>0 DEF Pending, FetchPending, StartFails, AwaitDeposit, Claim, SubmitFails,
     SubmitAmbiguous, SubmitReturns, RevertClaim, PersistDigest, GiveUp, Frame, LeaseTypes
<1>2. ChainTypes'
  <2>1. CASE UNCHANGED Chain
    BY <1>0, <2>1 DEF ChainTypes, Chain
  <2>2. CASE Lands(o) /\ pc[w] # "idle"
    BY <1>0, <2>2, LandsTypes
  <2> QED BY <2>1, <2>2 DEF Pending, FetchPending, StartFails, AwaitDeposit, Claim,
        SubmitFails, SubmitAmbiguous, SubmitReturns, RevertClaim, PersistDigest, GiveUp, Chain
<1>3. row' \in [Orders -> RowRec]
  <2>1. CASE UNCHANGED row
    BY <1>0, <2>1
  <2>2. CASE /\ pc[w] # "idle"
             /\ \E from, st \in Statuses : Cas(o, {from}, [row[o] EXCEPT !.status = st])
    BY <1>0, <2>2, CasTypes, RowFields DEF Rails
  <2>3. CASE GiveUp(w)
    BY <1>0, <2>3, CasTypes, RowFields DEF GiveUp, Statuses, Rails
  <2>4. CASE Claim(w)
    BY <1>0, <2>4, CasTypes, RowFields DEF Claim, Statuses, WorkTypes
  <2>5. CASE PersistDigest(w)
    BY <1>0, <2>5, CasTypes, RowFields DEF PersistDigest, Statuses, Rails
  <2>6. CASE AwaitDeposit(w)
    BY <2>1, <2>2, <2>6 DEF AwaitDeposit, Statuses
  <2>7. CASE RevertClaim(w)
    BY <2>1, <2>2, <2>7 DEF RevertClaim, Statuses
  <2> QED BY <2>1, <2>3, <2>4, <2>5, <2>6, <2>7 DEF Pending, FetchPending, StartFails,
        SubmitFails, SubmitAmbiguous, SubmitReturns
<1>4. WorkTypes'
  <2>1. CASE \E p \in Orders : FetchPending(w, p)
    <3>1. PICK p \in Orders : FetchPending(w, p)
      BY <2>1
    <3>2. rail' \in [Workers -> Rails] /\ fallback' \in [Workers -> BOOLEAN]
      BY <1>0, <3>1 DEF FetchPending, Attempt, Primary, WorkTypes, Rails
    <3>3. UNCHANGED fails /\ Fetch(w, p, "start")
      BY <3>1 DEF FetchPending
    <3>4. /\ pc' \in [Workers -> Steps]
          /\ cur' \in [Workers -> Orders \cup {Nil}]
          /\ snap' \in [Workers -> RowRec]
      BY <1>0, <3>3, FetchTypes DEF Steps
    <3> QED BY <1>0, <3>2, <3>3, <3>4 DEF WorkTypes
  <2>2. CASE pc[w] # "idle" /\ (Finish(w) \/ Succeed(w) \/ FailAttempt(w))
    BY <1>0, <2>2, EndTypes
  <2>3. CASE \E step \in Steps : Go(w, step) /\ UNCHANGED <<rail, fallback, fails>>
    BY <1>0, <2>3, GoTypes
  <2> QED BY <2>1, <2>2, <2>3 DEF Pending, StartFails, AwaitDeposit, Claim, SubmitFails,
        SubmitAmbiguous, SubmitReturns, RevertClaim, PersistDigest, GiveUp, Steps
<1> QED BY <1>1, <1>2, <1>3, <1>4 DEF TypeOK, WorkTypes, ChainTypes, LeaseTypes

\* The pollers keep every type.
LEMMA PollTypes ==
    ASSUME TypeOK, NEW w \in Workers, pc[w] # "idle" => cur[w] \in Orders, Poll(w)
    PROVE  TypeOK'
<1> DEFINE o == cur[w]
<1>0. row \in [Orders -> RowRec] /\ WorkTypes /\ ChainTypes /\ LeaseTypes
  BY TypeParts
<1>1. LeaseTypes'
  BY <1>0 DEF Poll, Chase, FetchBridging, FetchUncertain, PollNothing, PollNotFound, PollDone,
     PollFailed, WindowExpires, Mint, MarkBridged, MarkFails, Frame, LeaseTypes
<1>2. ChainTypes'
  <2>1. CASE UNCHANGED Chain
    BY <1>0, <2>1 DEF ChainTypes, Chain
  <2>2. CASE Mint(w)
    BY <1>0, <2>2 DEF ChainTypes, Mint, Transfers
  <2> QED BY <2>1, <2>2 DEF Poll, Chase, FetchBridging, FetchUncertain, PollNothing,
        PollNotFound, PollDone, PollFailed, WindowExpires, MarkBridged, MarkFails, Chain
<1>3. row' \in [Orders -> RowRec]
  <2>1. CASE UNCHANGED row
    BY <1>0, <2>1
  <2>2. CASE /\ pc[w] # "idle"
             /\ \E from, st \in Statuses : Cas(o, {from}, [row[o] EXCEPT !.status = st])
    BY <1>0, <2>2, CasTypes, RowFields DEF Rails
  <2>3. CASE /\ pc[w] # "idle"
             /\ \E from \in SUBSET Statuses, b \in BOOLEAN :
                   Cas(o, from, [row[o] EXCEPT !.status = "bridged", !.bridged_amount = b])
    BY <1>0, <2>3, CasTypes, RowFields DEF Rails, Statuses
  <2>4. CASE PollDone(w) \/ MarkBridged(w)
    <3>1. pc[w] # "idle"
      BY <2>4 DEF PollDone, MarkBridged, Polling
    <3>2. CASE PollDone(w)
      <4> DEFINE from == IF pc[w] = "poll" THEN {"bridging"} ELSE {"bridging", "bridge_uncertain"}
      <4>1. \E b \in BOOLEAN :
               Cas(o, from, [row[o] EXCEPT !.status = "bridged", !.bridged_amount = b])
        BY <3>2 DEF PollDone
      <4>2. from \in SUBSET Statuses
        BY DEF Statuses
      <4> QED BY <2>3, <3>1, <4>1, <4>2
    <3>3. CASE MarkBridged(w)
      <4>1. Cas(o, {"bridging", "bridge_uncertain"},
                [row[o] EXCEPT !.status = "bridged", !.bridged_amount = TRUE])
        BY <3>3 DEF MarkBridged
      <4>2. {"bridging", "bridge_uncertain"} \in SUBSET Statuses
        BY DEF Statuses
      <4> QED BY <2>3, <3>1, <4>1, <4>2
    <3> QED BY <2>4, <3>2, <3>3
  <2>5. CASE PollNotFound(w) \/ PollFailed(w) \/ WindowExpires(w)
    BY <2>2, <2>5 DEF PollNotFound, PollFailed, WindowExpires, Polling, Statuses
  <2> QED BY <2>1, <2>4, <2>5 DEF Poll, Chase, FetchBridging, FetchUncertain, PollNothing,
        Mint, MarkFails
<1>4. WorkTypes'
  <2>1. CASE \E p \in Orders : Chase(w, p)
    <3>1. PICK p \in Orders : Chase(w, p)
      BY <2>1
    <3>2. \E step \in Steps : Fetch(w, p, step)
      BY <3>1 DEF Chase, FetchBridging, FetchUncertain, Steps
    <3>3. UNCHANGED <<rail, fallback, fails>>
      BY <3>1 DEF Chase, FetchBridging, FetchUncertain
    <3>4. /\ pc' \in [Workers -> Steps]
          /\ cur' \in [Workers -> Orders \cup {Nil}]
          /\ snap' \in [Workers -> RowRec]
      BY <1>0, <3>2, FetchTypes
    <3> QED BY <1>0, <3>3, <3>4 DEF WorkTypes
  <2>2. CASE pc[w] # "idle" /\ Finish(w)
    BY <1>0, <2>2, EndTypes
  <2>3. CASE \E step \in Steps : Go(w, step) /\ UNCHANGED <<rail, fallback, fails>>
    BY <1>0, <2>3, GoTypes
  <2> QED BY <2>1, <2>2, <2>3 DEF Poll, PollNothing, PollNotFound, PollDone, PollFailed,
        WindowExpires, Mint, MarkBridged, MarkFails, Polling, Steps
<1> QED BY <1>1, <1>2, <1>3, <1>4 DEF TypeOK, WorkTypes, ChainTypes, LeaseTypes

\* Everything else Next may do keeps every type.
Environment ==
    \/ \E w \in Workers : BeginTick(w) \/ CrashWorker(w)
    \/ LeaseStep
    \/ \E o \in Orders : SelfSettle(o) \/ RecordSelfSettle(o) \/ BridgeResolves(o)

LEMMA EnvironmentTypes == ASSUME TypeOK, Environment PROVE TypeOK'
<1>0. row \in [Orders -> RowRec] /\ WorkTypes /\ ChainTypes /\ LeaseTypes
  BY TypeParts
<1>1. ASSUME NEW w \in Workers, BeginTick(w) PROVE TypeOK'
  <2>1. PICK stale \in SUBSET Orders :
          row' = [o \in Orders |->
                    IF o \in stale /\ row[o].status \in {"pending", "awaiting_funds"}
                    THEN [row[o] EXCEPT !.status = "failed"] ELSE row[o]]
    BY <1>1 DEF BeginTick
  <2>2. \A o \in Orders : [row[o] EXCEPT !.status = "failed"] \in RowRec
    BY <1>0, RowFields DEF Statuses, Rails
  <2>3. row' \in [Orders -> RowRec]
    BY <1>0, <2>1, <2>2
  <2>4. LeaseTypes'
    BY <1>0, <1>1 DEF BeginTick, AcquireLease, LeaseTypes
  <2>5. WorkTypes' /\ ChainTypes'
    BY <1>0, <1>1 DEF BeginTick, WorkTypes, ChainTypes, bridgeVars
  <2> QED BY <2>3, <2>4, <2>5 DEF TypeOK, WorkTypes, ChainTypes, LeaseTypes
<1>2. ASSUME NEW w \in Workers, CrashWorker(w) PROVE TypeOK'
  <2>1. Done(w) /\ NoAttempt(w) /\ UNCHANGED <<row, lease, Chain>>
    BY <1>2 DEF CrashWorker, Crash
  <2>2. fails' \in [Workers -> [Orders -> Nat]]
    BY <1>0, <1>2 DEF CrashWorker, WorkTypes
  <2>3. WorkTypes'
    BY <1>0, <2>1, <2>2, DoneTypes DEF WorkTypes, NoAttempt, Attempt, Rails
  <2>4. LeaseTypes'
    BY <1>0, <1>2 DEF CrashWorker, Crash, LeaseTypes
  <2> QED BY <1>0, <2>1, <2>3, <2>4 DEF TypeOK, WorkTypes, ChainTypes, LeaseTypes, Chain
<1>3. CASE LeaseStep
  BY <1>0, <1>3 DEF LeaseStep, LeaseExpires, EndTick, TypeOK, LeaseTypes, bridgeVars
<1>4. ASSUME NEW o \in Orders, SelfSettle(o) \/ RecordSelfSettle(o) \/ BridgeResolves(o)
      PROVE  TypeOK'
  <2>1. ChainTypes'
    BY <1>0, <1>4 DEF SelfSettle, RecordSelfSettle, BridgeResolves, ChainTypes, Transfers
  <2> QED BY <1>0, <1>4, <2>1
    DEF SelfSettle, RecordSelfSettle, BridgeResolves, TypeOK, WorkTypes, ChainTypes,
        LeaseTypes, sharedVars
<1> QED BY <1>1, <1>2, <1>3, <1>4 DEF Environment

-----------------------------------------------------------------------------
(* The step of one instance on one order *)

\* Instance w, working on order o, leaves the invariant intact when it touches nothing
\* but o and itself, changes o's row only where no other instance holds a claim on it,
\* never takes back a digest or a delivery, and claims o only if nobody else has.
LEMMA OneOrder ==
    ASSUME IInv, TypeOK', NEW w \in Workers, NEW o \in Orders,
           \A v \in Workers \ {w} : pc'[v] = pc[v] /\ cur'[v] = cur[v],
           \A p \in Orders \ {o} :
               row'[p] = row[p] /\ burns'[p] = burns[p] /\ transfer'[p] = transfer[p],
           pc[w] # "idle" => cur[w] = o,
           pc'[w] # "idle" => cur'[w] = o,
           \/ row'[o] = row[o] /\ burns'[o] = burns[o]
           \/ row[o].digest \/ row[o].status # "bridging"
           \/ pc[w] \in Claimed,
           row[o].digest => row'[o].digest,
           transfer[o] = "delivered" => transfer'[o] = "delivered",
           pc'[w] \in Claimed => pc[w] \in Claimed \/ row[o].status # "bridging",
           OrderInv(o)', WorkerInv(w)'
    PROVE  IInv'
<1>1. \A p \in Orders : OrderInv(p)'
  BY DEF IInv, OrderInv
<1>2. ASSUME NEW v \in Workers PROVE WorkerInv(v)'
  <2>1. CASE v = w
    BY <2>1
  <2>2. CASE v # w /\ cur[v] # o
    BY <2>2 DEF IInv, WorkerInv, Claimed
  <2>3. CASE v # w /\ cur[v] = o
    <3>1. pc'[v] = pc[v] /\ cur'[v] = o
      BY <2>3
    <3>2. pc[v] \in Claimed => row'[o] = row[o] /\ burns'[o] = burns[o]
      BY <2>3 DEF IInv, WorkerInv, Exclusive, Claimed
    <3> QED BY <2>3, <3>1, <3>2 DEF IInv, WorkerInv, Claimed
  <2> QED BY <2>1, <2>2, <2>3
<1>3. Exclusive'
  <2>1. ASSUME NEW v \in Workers \ {w}, pc[v] \in Claimed, pc'[w] \in Claimed,
               cur'[v] = cur'[w]
        PROVE  FALSE
    <3>1. cur[v] = o /\ row[o].status = "bridging"
      BY <2>1 DEF IInv, WorkerInv, Claimed
    <3>2. pc[w] \in Claimed /\ cur[w] = o
      BY <2>1, <3>1 DEF Claimed
    <3> QED BY <2>1, <3>1, <3>2 DEF IInv, Exclusive
  <2> QED BY <2>1 DEF IInv, Exclusive
<1> QED BY <1>1, <1>2, <1>3 DEF IInv

Ends(w) == Finish(w) \/ Succeed(w) \/ FailAttempt(w)

\* An attempt that ends leaves the instance idle or about to start or give up.
LEMMA EndMoves ==
    ASSUME TypeOK, NEW w \in Workers, Ends(w)
    PROVE  /\ pc'[w] \in {"idle", "start", "giveUp"}
           /\ pc'[w] # "idle" => cur'[w] = cur[w]
           /\ \A v \in Workers \ {w} : pc'[v] = pc[v] /\ cur'[v] = cur[v]
BY DEF TypeOK, Ends, Finish, Succeed, FailAttempt, Done, Go

LEMMA GoMoves ==
    ASSUME TypeOK, NEW w \in Workers, NEW step, Go(w, step)
    PROVE  /\ pc'[w] = step /\ cur' = cur
           /\ \A v \in Workers \ {w} : pc'[v] = pc[v]
BY DEF TypeOK, Go

LEMMA CasMoves ==
    ASSUME TypeOK, NEW o \in Orders, NEW from, NEW new, Cas(o, from, new)
    PROVE  /\ row'[o] = IF row[o].status \in from THEN new ELSE row[o]
           /\ \A p \in Orders \ {o} : row'[p] = row[p]
BY DEF TypeOK, Cas

\* A step that ends an attempt and changes at most the row of its own order, when no
\* other instance can hold a claim on it.
LEMMA EndStep ==
    ASSUME IInv, TypeOK', NEW w \in Workers, NEW o \in Orders, cur[w] = o,
           pc[w] # "idle", Ends(w), UNCHANGED Chain,
           \A p \in Orders \ {o} : row'[p] = row[p],
           \/ row'[o] = row[o]
           \/ row[o].digest \/ row[o].status # "bridging"
           \/ pc[w] \in Claimed,
           row[o].digest => row'[o].digest,
           OrderInv(o)'
    PROVE  IInv'
<1>1. /\ pc'[w] \in {"idle", "start", "giveUp"}
      /\ pc'[w] # "idle" => cur'[w] = o
      /\ \A v \in Workers \ {w} : pc'[v] = pc[v] /\ cur'[v] = cur[v]
  BY EndMoves DEF IInv
<1>2. WorkerInv(w)' /\ pc'[w] \notin Claimed
  BY <1>1 DEF WorkerInv, Claimed
<1>3. UNCHANGED <<burns, transfer>>
  BY DEF Chain
<1> QED BY <1>1, <1>2, <1>3, OneOrder

\* The handlers that end by a guarded write: what the write may replace.
LEMMA EndCas ==
    ASSUME IInv, TypeOK', NEW w \in Workers, NEW o \in Orders, cur[w] = o,
           pc[w] # "idle", Ends(w), UNCHANGED Chain,
           NEW from, NEW new, Cas(o, from, new),
           row[o].status \in from =>
              /\ row[o].digest \/ row[o].status # "bridging" \/ pc[w] \in Claimed
              /\ row[o].digest => new.digest
              /\ new.status \in {"pending", "awaiting_funds"} => burns[o] = 0 /\ ~new.digest
              /\ new.status = "bridge_uncertain" => new.digest
              /\ new.status = "bridged" => transfer[o] = "delivered"
    PROVE  IInv'
<1>1. /\ row'[o] = IF row[o].status \in from THEN new ELSE row[o]
      /\ \A p \in Orders \ {o} : row'[p] = row[p]
  BY CasMoves DEF IInv
<1>2. OrderInv(o)'
  BY <1>1 DEF IInv, OrderInv, Chain
<1> QED BY <1>1, <1>2, EndStep

\* A handler that ends and writes nothing.
LEMMA EndQuiet ==
    ASSUME IInv, TypeOK', NEW w \in Workers, pc[w] # "idle", Ends(w), UNCHANGED <<row, Chain>>
    PROVE  IInv'
<1>1. PICK o \in Orders : cur[w] = o
  BY DEF IInv, WorkerInv
<1>2. OrderInv(o)'
  BY DEF IInv, OrderInv, Chain
<1> QED BY <1>1, <1>2, EndStep

\* A step that looks at an order or moves on within a handler without touching the row
\* or the chains.
LEMMA QuietStep ==
    ASSUME IInv, TypeOK', NEW w \in Workers, NEW o \in Orders,
           \A v \in Workers \ {w} : pc'[v] = pc[v] /\ cur'[v] = cur[v],
           UNCHANGED <<row, burns, transfer>>,
           pc[w] # "idle" => cur[w] = o,
           cur'[w] = o,
           pc'[w] \in Claimed => pc[w] \in Claimed,
           WorkerInv(w)'
    PROVE  IInv'
<1>1. OrderInv(o)'
  BY DEF IInv, OrderInv
<1> QED BY <1>1, OneOrder

-----------------------------------------------------------------------------
(* advancePending keeps the invariant *)

LEMMA FetchPendingInv ==
    ASSUME IInv, TypeOK', NEW w \in Workers, NEW o \in Orders, FetchPending(w, o)
    PROVE  IInv'
<1>1. /\ pc[w] = "idle" /\ pc'[w] = "start" /\ cur'[w] = o
      /\ \A v \in Workers \ {w} : pc'[v] = pc[v] /\ cur'[v] = cur[v]
      /\ UNCHANGED <<row, burns, transfer>>
  BY DEF FetchPending, Fetch, Chain, IInv, TypeOK
<1>2. WorkerInv(w)' /\ pc'[w] \notin Claimed
  BY <1>1 DEF WorkerInv, Claimed
<1> QED BY <1>1, <1>2, QuietStep

LEMMA StartFailsInv ==
    ASSUME IInv, TypeOK', NEW w \in Workers, StartFails(w) PROVE IInv'
BY EndQuiet DEF StartFails, Ends, Chain

LEMMA AwaitDepositInv ==
    ASSUME IInv, TypeOK', NEW w \in Workers, AwaitDeposit(w) PROVE IInv'
<1>1. PICK o \in Orders : cur[w] = o
  BY DEF AwaitDeposit, IInv, WorkerInv
<1>2. pc[w] # "idle" /\ Ends(w) /\ UNCHANGED Chain
  BY DEF AwaitDeposit, Ends
<1>3. CASE UNCHANGED row
  BY <1>2, <1>3, EndQuiet DEF Chain
<1>4. CASE Cas(o, {"pending"}, [row[o] EXCEPT !.status = "awaiting_funds"])
  <2>1. row[o] \in RowRec /\ OrderInv(o)
    BY DEF IInv, TypeOK
  <2> QED BY <1>1, <1>2, <1>4, <2>1, EndCas DEF OrderInv, RowRec
<1> QED BY <1>1, <1>3, <1>4 DEF AwaitDeposit

LEMMA ClaimInv ==
    ASSUME IInv, TypeOK', NEW w \in Workers, Claim(w) PROVE IInv'
<1> DEFINE claimable == {"pending", "awaiting_funds"}
<1>1. PICK o \in Orders : cur[w] = o
  BY DEF Claim, IInv, WorkerInv
<1>2. pc[w] = "start" /\ UNCHANGED Chain
  BY DEF Claim
<1>3. row[o] \in RowRec /\ OrderInv(o)
  BY DEF IInv, TypeOK
<1>4. /\ row'[o] = IF row[o].status \in claimable
                   THEN [row[o] EXCEPT !.status = "bridging", !.provider = rail[w]] ELSE row[o]
      /\ \A p \in Orders \ {o} : row'[p] = row[p]
  BY <1>1, CasMoves DEF IInv, Claim
<1>5. CASE row[o].status \in claimable
  <2>1. Go(w, "submit")
    BY <1>1, <1>5 DEF Claim
  <2>2. /\ pc'[w] = "submit" /\ cur' = cur
        /\ \A v \in Workers \ {w} : pc'[v] = pc[v]
    BY <2>1, GoMoves DEF IInv
  <2>3. row'[o].status = "bridging" /\ ~row'[o].digest /\ UNCHANGED <<burns, transfer>>
    BY <1>2, <1>3, <1>4, <1>5 DEF OrderInv, Chain, RowRec
  <2>4. WorkerInv(w)' /\ OrderInv(o)'
    BY <1>1, <1>3, <1>5, <2>2, <2>3 DEF WorkerInv, OrderInv, Claimed
  <2>5. ~row[o].digest /\ row[o].status # "bridging"
    BY <1>3, <1>5 DEF OrderInv
  <2> QED BY <1>1, <1>2, <1>4, <2>2, <2>3, <2>4, <2>5, OneOrder
<1>6. CASE row[o].status \notin claimable
  <2>1. Ends(w) /\ Cas(o, {}, row[o])
    BY <1>1, <1>6 DEF Claim, Ends, Cas
  <2> QED BY <1>1, <1>2, <2>1, EndCas
<1> QED BY <1>5, <1>6

LEMMA SubmitFailsInv ==
    ASSUME IInv, TypeOK', NEW w \in Workers, SubmitFails(w) PROVE IInv'
<1>1. PICK o \in Orders : cur[w] = o
  BY DEF SubmitFails, IInv, WorkerInv
<1>2. /\ pc[w] = "submit" /\ pc'[w] = "revert" /\ cur' = cur
      /\ \A v \in Workers \ {w} : pc'[v] = pc[v]
      /\ UNCHANGED <<row, burns, transfer>>
  BY GoMoves DEF SubmitFails, Chain, IInv
<1>3. WorkerInv(w)'
  BY <1>2 DEF IInv, WorkerInv, Claimed
<1> QED BY <1>1, <1>2, <1>3, QuietStep DEF Claimed

\* What the transaction of a claimed order does to the chains.
LEMMA LandsMoves ==
    ASSUME IInv, NEW w \in Workers, NEW o \in Orders, cur[w] = o, pc[w] = "submit",
           row' = row, Lands(o)
    PROVE  /\ OrderInv(o)'
           /\ \A p \in Orders \ {o} : burns'[p] = burns[p] /\ transfer'[p] = transfer[p]
           /\ transfer[o] = "none"
<1>1. burns[o] = 0 /\ row[o].status = "bridging"
  BY DEF IInv, WorkerInv, Claimed
<1>2. /\ burns'[o] = 1 /\ transfer'[o] = "inFlight"
      /\ \A p \in Orders \ {o} : burns'[p] = burns[p] /\ transfer'[p] = transfer[p]
  BY <1>1 DEF Lands, IInv, TypeOK
<1> QED BY <1>1, <1>2 DEF IInv, OrderInv

LEMMA SubmitAmbiguousInv ==
    ASSUME IInv, TypeOK', NEW w \in Workers, SubmitAmbiguous(w) PROVE IInv'
<1>1. PICK o \in Orders : cur[w] = o
  BY DEF SubmitAmbiguous, IInv, WorkerInv
<1>2. pc[w] = "submit" /\ Ends(w) /\ UNCHANGED row
  BY DEF SubmitAmbiguous, Ends
<1>3. CASE UNCHANGED Chain
  BY <1>2, <1>3, EndQuiet DEF Chain
<1>4. CASE Lands(o)
  <2>1. /\ pc'[w] \in {"idle", "start", "giveUp"}
        /\ pc'[w] # "idle" => cur'[w] = o
        /\ \A v \in Workers \ {w} : pc'[v] = pc[v] /\ cur'[v] = cur[v]
    BY <1>1, <1>2, EndMoves DEF IInv
  <2>2. WorkerInv(w)' /\ pc'[w] \notin Claimed
    BY <2>1 DEF WorkerInv, Claimed
  <2> QED BY <1>1, <1>2, <1>4, <2>1, <2>2, LandsMoves, OneOrder DEF Claimed
<1> QED BY <1>1, <1>3, <1>4 DEF SubmitAmbiguous

LEMMA SubmitReturnsInv ==
    ASSUME IInv, TypeOK', NEW w \in Workers, SubmitReturns(w) PROVE IInv'
<1>1. PICK o \in Orders : cur[w] = o
  BY DEF SubmitReturns, IInv, WorkerInv
<1>2. /\ pc[w] = "submit" /\ pc'[w] = "persist" /\ cur' = cur /\ UNCHANGED row
      /\ \A v \in Workers \ {w} : pc'[v] = pc[v]
  BY GoMoves DEF SubmitReturns, IInv
<1>3. WorkerInv(w)'
  BY <1>2 DEF IInv, WorkerInv, Claimed
<1>4. CASE UNCHANGED Chain
  BY <1>1, <1>2, <1>3, <1>4, QuietStep DEF Claimed, Chain
<1>5. CASE Lands(o)
  BY <1>1, <1>2, <1>3, <1>5, LandsMoves, OneOrder DEF Claimed
<1> QED BY <1>1, <1>4, <1>5 DEF SubmitReturns

LEMMA RevertClaimInv ==
    ASSUME IInv, TypeOK', NEW w \in Workers, RevertClaim(w) PROVE IInv'
<1>1. PICK o \in Orders : cur[w] = o
  BY DEF RevertClaim, IInv, WorkerInv
<1>2. pc[w] = "revert" /\ Ends(w) /\ UNCHANGED Chain
  BY DEF RevertClaim, Ends
<1>3. row[o] \in RowRec /\ OrderInv(o) /\ burns[o] = 0 /\ ~row[o].digest
  BY <1>1, <1>2 DEF IInv, TypeOK, WorkerInv, Claimed
<1>4. CASE UNCHANGED row
  BY <1>2, <1>4, EndQuiet DEF Chain
<1>5. CASE Cas(o, {"bridging"}, [row[o] EXCEPT !.status = "pending"])
  BY <1>1, <1>2, <1>3, <1>5, EndCas DEF RowRec, Claimed
<1> QED BY <1>1, <1>4, <1>5 DEF RevertClaim

LEMMA PersistDigestInv ==
    ASSUME IInv, TypeOK', NEW w \in Workers, PersistDigest(w) PROVE IInv'
<1>1. PICK o \in Orders : cur[w] = o
  BY DEF PersistDigest, IInv, WorkerInv
<1>2. pc[w] = "persist" /\ Ends(w) /\ UNCHANGED Chain
  BY DEF PersistDigest, Ends
<1>3. row[o] \in RowRec
  BY DEF IInv, TypeOK
<1>4. CASE UNCHANGED row
  BY <1>2, <1>4, EndQuiet DEF Chain
<1>5. CASE Cas(o, {"bridging"}, [row[o] EXCEPT !.digest = TRUE])
  BY <1>1, <1>2, <1>3, <1>5, EndCas DEF RowRec, Claimed
<1> QED BY <1>1, <1>4, <1>5 DEF PersistDigest

LEMMA GiveUpInv ==
    ASSUME IInv, TypeOK', NEW w \in Workers, GiveUp(w) PROVE IInv'
<1>1. PICK o \in Orders : cur[w] = o
  BY DEF GiveUp, IInv, WorkerInv
<1>2. /\ pc[w] # "idle" /\ Ends(w) /\ UNCHANGED Chain
      /\ Cas(o, {"pending", "awaiting_funds"}, [row[o] EXCEPT !.status = "failed"])
  BY <1>1 DEF GiveUp, Ends
<1>3. row[o] \in RowRec
  BY DEF IInv, TypeOK
<1> QED BY <1>1, <1>2, <1>3, EndCas DEF RowRec

-----------------------------------------------------------------------------
(* The pollers keep the invariant *)

LEMMA ChaseInv ==
    ASSUME IInv, TypeOK', NEW w \in Workers, NEW o \in Orders, Chase(w, o)
    PROVE  IInv'
<1>1. /\ pc[w] = "idle" /\ pc'[w] \in {"poll", "recover"} /\ cur'[w] = o
      /\ \A v \in Workers \ {w} : pc'[v] = pc[v] /\ cur'[v] = cur[v]
      /\ UNCHANGED <<row, burns, transfer>>
  BY DEF Chase, FetchBridging, FetchUncertain, Fetch, Chain, IInv, TypeOK
<1>2. row[o].digest
  BY DEF Chase, FetchBridging, FetchUncertain, IInv, OrderInv
<1>3. WorkerInv(w)' /\ pc'[w] \notin Claimed
  BY <1>1, <1>2 DEF WorkerInv, Claimed
<1> QED BY <1>1, <1>3, QuietStep

LEMMA PollEndsInv ==
    ASSUME IInv, TypeOK', NEW w \in Workers, PollNothing(w) \/ MarkFails(w) PROVE IInv'
BY EndQuiet DEF PollNothing, MarkFails, Polling, Ends, Chain

\* The row is written only under a digest the poller has seen.
LEMMA PollWritesInv ==
    ASSUME IInv, TypeOK', NEW w \in Workers,
           PollNotFound(w) \/ PollFailed(w) \/ WindowExpires(w)
    PROVE  IInv'
<1>1. PICK o \in Orders : cur[w] = o
  BY DEF PollNotFound, PollFailed, WindowExpires, Polling, IInv, WorkerInv
<1>2. /\ pc[w] \in {"poll", "recover"} /\ Ends(w) /\ UNCHANGED Chain
      /\ \E from, st \in {"bridging", "bridge_uncertain", "failed"} :
            /\ Cas(o, {from}, [row[o] EXCEPT !.status = st])
            /\ st # "bridging"
  BY <1>1 DEF PollNotFound, PollFailed, WindowExpires, Polling, Ends
<1>3. row[o] \in RowRec /\ row[o].digest
  BY <1>1, <1>2 DEF IInv, TypeOK, WorkerInv
<1>4. PICK from \in {"bridging", "bridge_uncertain", "failed"},
           st \in {"bridge_uncertain", "failed"} :
           Cas(o, {from}, [row[o] EXCEPT !.status = st])
  BY <1>2
<1> QED BY <1>1, <1>2, <1>3, <1>4, EndCas DEF RowRec

\* A row becomes bridged only after the bridge has delivered its transfer.
LEMMA PollBridgedInv ==
    ASSUME IInv, TypeOK', NEW w \in Workers, PollDone(w) \/ MarkBridged(w) PROVE IInv'
<1>1. PICK o \in Orders : cur[w] = o
  BY DEF PollDone, MarkBridged, Polling, IInv, WorkerInv
<1>2. pc[w] \in {"poll", "recover", "mark"} /\ Ends(w) /\ UNCHANGED Chain
  BY DEF PollDone, MarkBridged, Polling, Ends
<1>3. row[o] \in RowRec /\ row[o].digest /\ transfer[o] = "delivered"
  BY <1>1 DEF PollDone, MarkBridged, Polling, IInv, TypeOK, WorkerInv
<1>4. \E from, b :
         Cas(o, from, [row[o] EXCEPT !.status = "bridged", !.bridged_amount = b])
  BY <1>1 DEF PollDone, MarkBridged
<1>5. PICK from, b :
         Cas(o, from, [row[o] EXCEPT !.status = "bridged", !.bridged_amount = b])
  BY <1>4
<1> DEFINE new == [row[o] EXCEPT !.status = "bridged", !.bridged_amount = b]
<1>6. new.status = "bridged" /\ new.digest
  BY <1>3 DEF RowRec
<1>7. Cas(o, from, new)
  BY <1>5
<1> HIDE DEF new
<1> QED BY <1>1, <1>2, <1>3, <1>6, <1>7, EndCas

LEMMA MintInv ==
    ASSUME IInv, TypeOK', NEW w \in Workers, Mint(w) PROVE IInv'
<1>1. PICK o \in Orders : cur[w] = o
  BY DEF Mint, Polling, IInv, WorkerInv
<1>2. /\ pc[w] \in {"poll", "recover"} /\ pc'[w] = "mark" /\ cur' = cur
      /\ \A v \in Workers \ {w} : pc'[v] = pc[v]
      /\ UNCHANGED <<row, burns>>
  BY GoMoves DEF Mint, Polling, IInv
<1>3. /\ transfer[o] \in {"attested", "delivered"} /\ transfer'[o] = "delivered"
      /\ \A p \in Orders \ {o} : transfer'[p] = transfer[p]
  BY <1>1 DEF Mint, IInv, TypeOK
<1>4. row[o].digest
  BY <1>1, <1>2 DEF IInv, WorkerInv
<1>5. WorkerInv(w)' /\ OrderInv(o)'
  BY <1>1, <1>2, <1>3, <1>4 DEF IInv, WorkerInv, OrderInv, Claimed
<1> QED BY <1>1, <1>2, <1>3, <1>4, <1>5, OneOrder DEF Claimed


-----------------------------------------------------------------------------
(* The rest of the system *)

\* A step outside the handlers of one order touches no digest and no row but those it
\* fails unclaimed, keeps the burns, and lets a transfer only go forward.
Outside ==
    /\ UNCHANGED <<pc, cur, burns>>
    /\ \A o \in Orders :
          \/ row'[o] = row[o]
          \/ /\ row[o].status \in {"pending", "awaiting_funds"}
             /\ row'[o].status = "failed" /\ row'[o].digest = row[o].digest
    /\ \A o \in Orders :
          \/ transfer'[o] = transfer[o]
          \/ transfer[o] = "inFlight" /\ transfer'[o] # "none"

LEMMA OutsideStep == ASSUME IInv, TypeOK', Outside PROVE IInv'
<1>1. ASSUME NEW o \in Orders PROVE OrderInv(o)'
  <2>1. OrderInv(o)
    BY DEF IInv
  <2> QED BY <2>1 DEF OrderInv, Outside
<1>2. ASSUME NEW w \in Workers PROVE WorkerInv(w)'
  <2>1. WorkerInv(w)
    BY DEF IInv
  <2> QED BY <2>1 DEF WorkerInv, Claimed, Outside
<1> QED BY <1>1, <1>2 DEF IInv, Exclusive, Outside

LEMMA BeginTickInv ==
    ASSUME IInv, TypeOK', NEW w \in Workers, BeginTick(w) PROVE IInv'
<1>1. UNCHANGED <<pc, cur, burns, transfer>>
  BY DEF BeginTick, bridgeVars
<1>2. PICK stale \in SUBSET Orders :
        row' = [o \in Orders |->
                  IF o \in stale /\ row[o].status \in {"pending", "awaiting_funds"}
                  THEN [row[o] EXCEPT !.status = "failed"] ELSE row[o]]
  BY DEF BeginTick
<1>3. ASSUME NEW o \in Orders
      PROVE  \/ row'[o] = row[o]
             \/ /\ row[o].status \in {"pending", "awaiting_funds"}
                /\ row'[o].status = "failed" /\ row'[o].digest = row[o].digest
  <2>1. row[o] \in RowRec
    BY DEF IInv, TypeOK
  <2> QED BY <1>2, <2>1 DEF RowRec
<1>4. \A o \in Orders : transfer'[o] = transfer[o]
  BY <1>1
<1> QED BY <1>1, <1>3, <1>4, OutsideStep DEF Outside

LEMMA CrashInv ==
    ASSUME IInv, TypeOK', NEW w \in Workers, CrashWorker(w) PROVE IInv'
<1>1. /\ pc'[w] = "idle" /\ UNCHANGED <<row, burns, transfer>>
      /\ \A v \in Workers \ {w} : pc'[v] = pc[v] /\ cur'[v] = cur[v]
  BY DEF CrashWorker, Crash, Done, Chain, IInv, TypeOK
<1>2. ASSUME NEW o \in Orders PROVE OrderInv(o)'
  BY <1>1 DEF IInv, OrderInv
<1>3. ASSUME NEW v \in Workers PROVE WorkerInv(v)'
  <2>1. WorkerInv(v)
    BY DEF IInv
  <2> QED BY <1>1, <2>1 DEF WorkerInv, Claimed
<1>4. Exclusive'
  BY <1>1 DEF IInv, Exclusive, Claimed
<1> QED BY <1>2, <1>3, <1>4 DEF IInv

LEMMA EnvironmentInv ==
    ASSUME IInv, TypeOK', Environment PROVE IInv'
<1>1. CASE LeaseStep
  <2>1. UNCHANGED <<pc, cur, row, burns, transfer>>
    BY <1>1 DEF LeaseStep, LeaseExpires, EndTick, bridgeVars
  <2>2. \A o \in Orders : row'[o] = row[o] /\ transfer'[o] = transfer[o]
    BY <2>1
  <2> QED BY <2>1, <2>2, OutsideStep DEF Outside
<1>2. ASSUME NEW p \in Orders, SelfSettle(p) \/ RecordSelfSettle(p) \/ BridgeResolves(p)
      PROVE  IInv'
  <2>1. UNCHANGED <<pc, cur, row, burns>>
    BY <1>2 DEF SelfSettle, RecordSelfSettle, BridgeResolves, sharedVars
  <2>2. \A o \in Orders :
           \/ transfer'[o] = transfer[o]
           \/ transfer[o] = "inFlight" /\ transfer'[o] # "none"
    <3>1. CASE SelfSettle(p) \/ RecordSelfSettle(p)
      BY <3>1 DEF SelfSettle, RecordSelfSettle, sharedVars
    <3>2. CASE BridgeResolves(p)
      <4>1. PICK outcome \in {"attested", "delivered", "refused"} :
                transfer' = [transfer EXCEPT ![p] = outcome]
        BY <3>2 DEF BridgeResolves
      <4>2. transfer[p] = "inFlight"
        BY <3>2 DEF BridgeResolves
      <4>3. transfer \in [Orders -> Transfers]
        BY DEF IInv, TypeOK
      <4> QED BY <4>1, <4>2, <4>3
    <3> QED BY <1>2, <3>1, <3>2
  <2>3. \A o \in Orders : row'[o] = row[o]
    BY <2>1
  <2> QED BY <2>1, <2>2, <2>3, OutsideStep DEF Outside
<1> QED BY <1>1, <1>2, BeginTickInv, CrashInv DEF Environment

LEMMA StutterInv == ASSUME IInv, UNCHANGED vars PROVE IInv'
BY DEF IInv, TypeOK, OrderInv, WorkerInv, Exclusive, Claimed, vars, sharedVars, bridgeVars

-----------------------------------------------------------------------------
(* The theorems *)

LEMMA InitIInv == Init => IInv
<1> SUFFICES ASSUME Init PROVE IInv
  OBVIOUS
<1>1. \A o \in Orders : \E r \in Rails : row[o] = NewRow(r)
  BY DEF Init
<1>2. row \in [Orders -> RowRec]
  BY NewRowType DEF Init
<1>3. TypeOK
  <2>1. NewRow("lifi") \in RowRec
    BY NewRowType DEF Rails
  <2> QED BY <1>2, <2>1, BridgeAssumption DEF Init, TypeOK, Steps, Rails, Transfers
<1>4. ASSUME NEW o \in Orders PROVE OrderInv(o)
  BY <1>1 DEF Init, OrderInv, NewRow
<1>5. ASSUME NEW w \in Workers PROVE WorkerInv(w)
  BY DEF Init, WorkerInv, Claimed
<1>6. Exclusive
  BY DEF Init, Exclusive, Claimed
<1> QED BY <1>3, <1>4, <1>5, <1>6 DEF IInv

LEMMA NextCases ==
    Next => (\E w \in Workers : Pending(w) \/ Poll(w)) \/ Environment
BY DEF Next, Environment

LEMMA StepIInv == IInv /\ [Next]_vars => IInv'
<1> SUFFICES ASSUME IInv, [Next]_vars PROVE IInv'
  OBVIOUS
<1>1. CASE UNCHANGED vars
  BY <1>1, StutterInv
<1>2. ASSUME NEW w \in Workers, Pending(w) PROVE IInv'
  <2>1. TypeOK'
    BY <1>2, PendingTypes DEF IInv, WorkerInv
  <2> QED BY <1>2, <2>1, FetchPendingInv, StartFailsInv, AwaitDepositInv, ClaimInv,
        SubmitFailsInv, SubmitAmbiguousInv, SubmitReturnsInv, RevertClaimInv,
        PersistDigestInv, GiveUpInv DEF Pending
<1>3. ASSUME NEW w \in Workers, Poll(w) PROVE IInv'
  <2>1. TypeOK'
    BY <1>3, PollTypes DEF IInv, WorkerInv
  <2> QED BY <1>3, <2>1, ChaseInv, PollEndsInv, PollWritesInv, PollBridgedInv, MintInv
        DEF Poll
<1>4. CASE Environment
  BY <1>4, EnvironmentTypes, EnvironmentInv DEF IInv
<1> QED BY <1>1, <1>2, <1>3, <1>4, NextCases

LEMMA Invariance == Spec => []IInv
BY InitIInv, StepIInv, PTL DEF Spec

\* Every variable of the bridge half keeps its type.
THEOREM TypeCorrect == Spec => []TypeOK
BY Invariance, PTL DEF IInv

\* An order's USDC leaves the wallet at most once: the claims of startBridge and
\* startCCTPBridge suffice, even with no lease at all.
THEOREM BurnOnceHolds == Spec => []BurnOnce
<1>1. IInv => BurnOnce
  <2>1. IInv => \A o \in Orders : burns[o] \in {0, 1}
    BY DEF IInv, OrderInv
  <2>2. \A n \in {0, 1} : n <= 1
    OBVIOUS
  <2> QED BY <2>1, <2>2 DEF BurnOnce
<1> QED BY <1>1, Invariance, PTL

\* Nothing leads back from a transaction that may have taken effect.
THEOREM SpentIsClaimedHolds == Spec => []SpentIsClaimed
<1>1. IInv => SpentIsClaimed
  BY DEF IInv, OrderInv, SpentIsClaimed
<1> QED BY <1>1, Invariance, PTL

\* A bridged row stands for USDC delivered on Base.
THEOREM BridgedIsDeliveredHolds == Spec => []BridgedIsDelivered
<1>1. IInv => BridgedIsDelivered
  BY DEF IInv, OrderInv, BridgedIsDelivered
<1> QED BY <1>1, Invariance, PTL

-----------------------------------------------------------------------------
(* What a step may never do to a row *)

\* A row changes only outside bridged and failed, and keeps its digest and, once it has
\* one, its rail.
RowStep(o) ==
    \/ row'[o] = row[o]
    \/ /\ row[o].status \notin {"bridged", "failed"}
       /\ row[o].digest => row'[o].digest /\ row'[o].provider = row[o].provider

LEMMA CasRowStep ==
    ASSUME TypeOK, NEW o \in Orders, NEW from, NEW new, Cas(o, from, new),
           row[o].status \in from =>
              /\ row[o].status \notin {"bridged", "failed"}
              /\ row[o].digest => new.digest /\ new.provider = row[o].provider
    PROVE  \A p \in Orders : RowStep(p)
BY CasMoves DEF RowStep

\* Most handlers replace the status alone.
LEMMA StatusRowStep ==
    ASSUME TypeOK, NEW o \in Orders, NEW from, NEW st,
           Cas(o, from, [row[o] EXCEPT !.status = st]), from \cap {"bridged", "failed"} = {}
    PROVE  \A p \in Orders : RowStep(p)
<1>1. row[o] \in RowRec
  BY DEF TypeOK
<1> QED BY <1>1, CasRowStep DEF RowRec

LEMMA PendingRowStep ==
    ASSUME IInv, NEW w \in Workers, Pending(w) PROVE \A p \in Orders : RowStep(p)
<1>0. TypeOK
  BY DEF IInv
<1>1. CASE UNCHANGED row
  BY <1>1 DEF RowStep
<1>2. CASE AwaitDeposit(w) \/ RevertClaim(w) \/ GiveUp(w) \/ Claim(w) \/ PersistDigest(w)
  <2>1. PICK o \in Orders : cur[w] = o
    BY <1>2 DEF AwaitDeposit, RevertClaim, GiveUp, Claim, PersistDigest, IInv, WorkerInv
  <2>2. row[o] \in RowRec /\ OrderInv(o)
    BY DEF IInv, TypeOK
  <2>3. CASE AwaitDeposit(w) \/ RevertClaim(w) \/ GiveUp(w)
    <3>1. \/ UNCHANGED row
          \/ \E from \in {{"pending"}, {"bridging"}, {"pending", "awaiting_funds"}},
                st \in Statuses : Cas(o, from, [row[o] EXCEPT !.status = st])
      BY <2>1, <2>3 DEF AwaitDeposit, RevertClaim, GiveUp, Statuses
    <3>2. \A from \in {{"pending"}, {"bridging"}, {"pending", "awaiting_funds"}} :
             from \cap {"bridged", "failed"} = {}
      OBVIOUS
    <3> QED BY <1>0, <1>1, <3>1, <3>2, StatusRowStep
  <2>4. CASE Claim(w)
    <3>1. Cas(o, {"pending", "awaiting_funds"},
              [row[o] EXCEPT !.status = "bridging", !.provider = rail[w]])
      BY <2>1, <2>4 DEF Claim
    <3>2. row[o].status \in {"pending", "awaiting_funds"} => ~row[o].digest
      BY <2>2 DEF OrderInv
    <3> QED BY <1>0, <3>1, <3>2, CasRowStep
  <2>5. CASE PersistDigest(w)
    <3>1. CASE Cas(o, {"bridging"}, [row[o] EXCEPT !.digest = TRUE])
      BY <1>0, <2>2, <3>1, CasRowStep DEF RowRec
    <3> QED BY <1>1, <2>1, <2>5, <3>1 DEF PersistDigest
  <2> QED BY <1>2, <2>3, <2>4, <2>5
<1> QED BY <1>1, <1>2 DEF Pending, FetchPending, StartFails, SubmitFails, SubmitAmbiguous,
      SubmitReturns

LEMMA PollRowStep ==
    ASSUME IInv, NEW w \in Workers, Poll(w) PROVE \A p \in Orders : RowStep(p)
<1>0. TypeOK
  BY DEF IInv
<1>1. CASE UNCHANGED row
  BY <1>1 DEF RowStep
<1>2. CASE \/ PollNotFound(w) \/ PollFailed(w) \/ WindowExpires(w)
           \/ PollDone(w) \/ MarkBridged(w)
  <2>1. PICK o \in Orders : cur[w] = o
    BY <1>2 DEF PollNotFound, PollFailed, WindowExpires, PollDone, MarkBridged, Polling,
       IInv, WorkerInv
  <2>2. row[o] \in RowRec
    BY DEF IInv, TypeOK
  <2>3. CASE PollNotFound(w) \/ PollFailed(w) \/ WindowExpires(w)
    <3>1. \E from \in {"bridging", "bridge_uncertain"}, st \in {"bridge_uncertain", "failed"} :
             Cas(o, {from}, [row[o] EXCEPT !.status = st])
      BY <2>1, <2>3 DEF PollNotFound, PollFailed, WindowExpires
    <3> QED BY <1>0, <3>1, StatusRowStep
  <2>4. CASE PollDone(w) \/ MarkBridged(w)
    <3>1. \E from, b :
             /\ from \cap {"bridged", "failed"} = {}
             /\ Cas(o, from, [row[o] EXCEPT !.status = "bridged", !.bridged_amount = b])
      BY <2>1, <2>4 DEF PollDone, MarkBridged
    <3>2. PICK from, b :
             /\ from \cap {"bridged", "failed"} = {}
             /\ Cas(o, from, [row[o] EXCEPT !.status = "bridged", !.bridged_amount = b])
      BY <3>1
    <3> DEFINE new == [row[o] EXCEPT !.status = "bridged", !.bridged_amount = b]
    <3>3. new.digest = row[o].digest /\ new.provider = row[o].provider
      BY <2>2 DEF RowRec
    <3>4. Cas(o, from, new)
      BY <3>2
    <3> HIDE DEF new
    <3> QED BY <1>0, <3>2, <3>3, <3>4, CasRowStep
  <2> QED BY <1>2, <2>3, <2>4
<1> QED BY <1>1, <1>2 DEF Poll, Chase, FetchBridging, FetchUncertain, PollNothing, Mint,
      MarkFails

LEMMA EnvironmentRowStep ==
    ASSUME IInv, Environment PROVE \A p \in Orders : RowStep(p)
<1>1. CASE UNCHANGED row
  BY <1>1 DEF RowStep
<1>2. ASSUME NEW w \in Workers, BeginTick(w) PROVE \A p \in Orders : RowStep(p)
  <2>1. PICK stale \in SUBSET Orders :
          row' = [o \in Orders |->
                    IF o \in stale /\ row[o].status \in {"pending", "awaiting_funds"}
                    THEN [row[o] EXCEPT !.status = "failed"] ELSE row[o]]
    BY <1>2 DEF BeginTick
  <2>2. ASSUME NEW p \in Orders PROVE RowStep(p)
    <3>1. row[p] \in RowRec
      BY DEF IInv, TypeOK
    <3> QED BY <2>1, <3>1 DEF RowStep, RowRec
  <2> QED BY <2>2
<1> QED BY <1>1, <1>2 DEF Environment, CrashWorker, Crash, LeaseStep, LeaseExpires, EndTick,
      SelfSettle, RecordSelfSettle, BridgeResolves, sharedVars

LEMMA RowSteps ==
    ASSUME IInv, [Next]_vars PROVE \A o \in Orders : RowStep(o)
<1>1. CASE UNCHANGED vars
  BY <1>1 DEF vars, sharedVars, RowStep
<1> QED BY <1>1, PendingRowStep, PollRowStep, EnvironmentRowStep, NextCases

\* Nothing clears the digest an order is chased by, or changes the rail it was burnt on.
THEOREM DigestIsFinalHolds == Spec => DigestIsFinal
<1>1. ASSUME IInv, [Next]_vars
      PROVE  \A o \in Orders : row[o].digest =>
                row'[o].digest /\ row'[o].provider = row[o].provider
  BY <1>1, RowSteps DEF RowStep
<1> QED BY <1>1, Invariance, PTL DEF Spec, DigestIsFinal

\* Failed and bridged rows are left alone by this half of the dispatcher.
THEOREM EndsStayHolds == Spec => EndsStay
<1>1. ASSUME IInv, [Next]_vars
      PROVE  \A o \in Orders :
                row[o].status \in {"bridged", "failed"} => row'[o].status = row[o].status
  BY <1>1, RowSteps DEF RowStep
<1> QED BY <1>1, Invariance, PTL DEF Spec, EndsStay

=============================================================================
