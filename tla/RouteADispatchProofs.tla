------------------------- MODULE RouteADispatchProofs -------------------------
(***************************************************************************)
(* Proofs about RouteADispatch, for any orders, dispatchers, Gateway ids,  *)
(* attempts, crashes, losses and creates that went unheard, and whether    *)
(* the lease holds or not.                                                 *)
(***************************************************************************)
EXTENDS RouteADispatch, FiniteSetTheorems, TLAPS

LEMMA Members ==
    /\ "bridged" \in Statuses /\ "dispatching" \in Statuses /\ "settled" \in Statuses
    /\ "refunded" \in Statuses /\ "pending" \in Statuses
    /\ "lifi" \in Rails
    /\ "nothing" \in ToldStatuses /\ "settled" \in ToldStatuses /\ "refunded" \in ToldStatuses
    /\ "none" \in GatewayStates /\ "open" \in GatewayStates /\ "settled" \in GatewayStates
    /\ "returned" \in GatewayStates
    /\ "idle" \in Steps /\ "dispatch" \in Steps /\ "prepare" \in Steps /\ "create" \in Steps
    /\ "unclaim" \in Steps /\ "persist" \in Steps /\ "poll" \in Steps /\ "write" \in Steps
    /\ Nil \notin Orders /\ Nil \notin Workers /\ 0 \notin GatewayIds
    /\ NewRow("lifi") \in RowRec
  BY RouteAAssumption DEF Statuses, Rails, ToldStatuses, GatewayStates, Steps, NewRow, RowRec

-----------------------------------------------------------------------------
(***************************************************************************)
(* What a handler's step does to the handler's own variables.              *)
(***************************************************************************)
Handlers == <<pc, cur, snap>>

HandlersOK ==
    /\ pc \in [Workers -> Steps]
    /\ cur \in [Workers -> Orders \cup {Nil}]
    /\ snap \in [Workers -> RowRec]

LEMMA FetchType ==
    ASSUME HandlersOK, NEW w \in Workers, NEW o \in Orders, NEW s \in Steps,
           row \in [Orders -> RowRec], Fetch(w, o, s)
    PROVE  /\ HandlersOK' /\ w \in ticking /\ pc[w] = "idle"
           /\ \A v \in Workers : v # w => pc'[v] = pc[v] /\ cur'[v] = cur[v]
                                          /\ snap'[v] = snap[v]
           /\ pc'[w] = s /\ cur'[w] = o /\ snap'[w] = row[o]
  BY DEF Fetch, HandlersOK

LEMMA GoType ==
    ASSUME HandlersOK, NEW w \in Workers, NEW s \in Steps, Go(w, s)
    PROVE  /\ HandlersOK'
           /\ \A v \in Workers : v # w => pc'[v] = pc[v]
           /\ pc'[w] = s /\ UNCHANGED <<cur, snap>>
  BY DEF Go, HandlersOK

LEMMA DoneType ==
    ASSUME HandlersOK, NEW w \in Workers, Done(w)
    PROVE  /\ HandlersOK'
           /\ \A v \in Workers : v # w => pc'[v] = pc[v] /\ cur'[v] = cur[v]
                                          /\ snap'[v] = snap[v]
           /\ pc'[w] = "idle"
  BY Members DEF Done, HandlersOK

LEMMA CasType ==
    ASSUME row \in [Orders -> RowRec], NEW o \in Orders, NEW new \in RowRec, NEW from,
           Cas(o, from, new)
    PROVE  /\ row' \in [Orders -> RowRec]
           /\ \A q \in Orders : q # o => row'[q] = row[q]
           /\ row[o].status \in from => row'[o] = new
           /\ row[o].status \notin from => row' = row
  BY DEF Cas

-----------------------------------------------------------------------------
(***************************************************************************)
(* Types.  A handler in progress belongs to a tick and is about an order.  *)
(***************************************************************************)
Active == \A w \in Workers : pc[w] # "idle" => w \in ticking /\ cur[w] \in Orders

TInv == TypeOK /\ Active

LEMMA TInvFacts ==
    ASSUME TInv
    PROVE  /\ HandlersOK /\ row \in [Orders -> RowRec]
           /\ \A w \in Workers : pc[w] # "idle" => w \in ticking /\ cur[w] \in Orders
  BY DEF TInv, TypeOK, Active, HandlersOK

LEMMA TypeInit == Init => TInv
<1> SUFFICES ASSUME Init PROVE TInv
  OBVIOUS
<1> USE Members, RouteAAssumption, DispatchAssumption
<1>1. \A known \in BOOLEAN : Bridged(known) \in RowRec
  BY DEF Bridged, NewRow, RowRec
<1>2. row \in [Orders -> RowRec]
  BY <1>1 DEF Init
<1>3. HandlersOK /\ Active
  BY DEF Init, HandlersOK, Active
<1>4. /\ ticking \subseteq Workers /\ lease \in Workers \cup {Nil} /\ crashes \in Nat
      /\ goal \in [Workers -> Statuses]
      /\ receipt \in [Workers -> GatewayIds \cup {0}]
  BY DEF Init
<1>5. /\ tried \in [Workers -> [Orders -> 0 .. SampledFully]]
      /\ started \in [Orders -> 0 .. MaxAttempts + MaxLosses] /\ lost \in 0 .. MaxLosses
  BY DEF Init
<1>6. /\ told \in [Orders -> ToldStatuses] /\ gateway \in [Orders -> [GatewayIds -> GatewayStates]]
      /\ unheard \in [Orders -> SUBSET GatewayIds] /\ stale \subseteq Orders /\ overlapped \in BOOLEAN
  BY DEF Init
<1>7. QED
  BY <1>2, <1>3, <1>4, <1>5, <1>6 DEF TInv, TypeOK, HandlersOK

LEMMA ActiveGo ==
    ASSUME TInv, NEW w \in Workers, NEW s \in Steps, pc[w] # "idle", Go(w, s),
           UNCHANGED ticking
    PROVE  HandlersOK' /\ Active'
  BY TInvFacts, GoType DEF Active

LEMMA ActiveDone ==
    ASSUME TInv, NEW w \in Workers, Done(w),
           ticking' = ticking \/ ticking' = ticking \ {w}
    PROVE  HandlersOK' /\ Active'
  BY TInvFacts, DoneType DEF Active

LEMMA ActiveFetch ==
    ASSUME TInv, NEW w \in Workers, NEW o \in Orders, NEW s \in Steps, Fetch(w, o, s),
           UNCHANGED ticking
    PROVE  HandlersOK' /\ Active'
  BY TInvFacts, FetchType DEF Active

LEMMA TriedType ==
    ASSUME TInv, NEW w \in Workers, cur[w] \in Orders,
           \/ UNCHANGED tried
           \/ tried' = [tried EXCEPT ![w][cur[w]] = 0]
           \/ tried' = [tried EXCEPT ![w] = [o \in Orders |-> 0]]
    PROVE  tried' \in [Workers -> [Orders -> 0 .. SampledFully]]
<1>1. 0 \in 0 .. SampledFully /\ tried \in [Workers -> [Orders -> 0 .. SampledFully]]
  BY DispatchAssumption DEF TInv, TypeOK
<1>2. [tried[w] EXCEPT ![cur[w]] = 0] \in [Orders -> 0 .. SampledFully]
  BY <1>1
<1>3. [o \in Orders |-> 0] \in [Orders -> 0 .. SampledFully]
  BY <1>1
<1>4. CASE UNCHANGED tried
  BY <1>1, <1>4
<1>5. CASE tried' = [tried EXCEPT ![w][cur[w]] = 0]
  BY <1>1, <1>2, <1>5
<1>6. CASE tried' = [tried EXCEPT ![w] = [o \in Orders |-> 0]]
  BY <1>1, <1>3, <1>6
<1>7. QED
  BY <1>4, <1>5, <1>6

LEMMA CreatesType ==
    ASSUME TInv, NEW o \in Orders, NEW g \in GatewayIds, Creates(o, g)
    PROVE  gateway' \in [Orders -> [GatewayIds -> GatewayStates]]
  BY Members DEF TInv, TypeOK, Creates

LEMMA TypeStep ==
    ASSUME TInv, [Next]_vars
    PROVE  TInv'
<1> USE TInvFacts, Members
<1> USE DEF ghosts
<1> DEFINE Quiet == UNCHANGED <<goal, tried, receipt, started, lost, told, gateway, ghosts>>
<1>1. ASSUME NEW w \in Workers, BeginTick(w) PROVE TInv'
  <2>1. /\ UNCHANGED <<row, pc, cur, snap, crashes, goal, tried, receipt, started, lost, told>>
        /\ UNCHANGED <<gateway, unheard, stale>>
    BY <1>1 DEF BeginTick
  <2>2. /\ ticking' = ticking \cup {w} /\ (lease' = w \/ lease' = lease)
        /\ overlapped' \in BOOLEAN
    BY <1>1 DEF BeginTick, AcquireLease, TInv, TypeOK
  <2>3. QED
    BY <2>1, <2>2 DEF TInv, TypeOK, Active
<1>2. ASSUME NEW w \in Workers, NEW o \in Orders, FetchBridged(w, o) \/ FetchDispatching(w, o)
      PROVE  TInv'
  <2>1. UNCHANGED <<row, ticking, lease, crashes>> /\ Quiet
    BY <1>2 DEF FetchBridged, FetchDispatching, Frame, dispatchVars
  <2>2. HandlersOK' /\ Active'
    BY <1>2, <2>1, ActiveFetch DEF FetchBridged, FetchDispatching
  <2>3. QED
    BY <2>1, <2>2 DEF TInv, TypeOK, HandlersOK
<1>3. ASSUME NEW w \in Workers, BeginDispatch(w) PROVE TInv'
  <2>1. /\ pc[w] = "dispatch" /\ cur[w] \in Orders
        /\ UNCHANGED <<row, goal, receipt, told, gateway, ghosts, ticking, lease, crashes>>
    BY <1>3 DEF BeginDispatch, Frame
  <2>2. HandlersOK' /\ Active'
    BY <1>3, <2>1, ActiveGo DEF BeginDispatch
  <2>3. /\ tried \in [Workers -> [Orders -> 0 .. SampledFully]]
        /\ started \in [Orders -> 0 .. MaxAttempts + MaxLosses] /\ lost \in 0 .. MaxLosses
        /\ MaxLosses \in Nat /\ MaxAttempts \in Nat /\ SampledFully \in Nat
    BY DispatchAssumption DEF TInv, TypeOK
  <2>4. tried' \in [Workers -> [Orders -> 0 .. SampledFully]]
    <3> DEFINE n == tried[w][cur[w]] + 1
               m == IF n <= SampledFully THEN n ELSE tried[w][cur[w]]
    <3>1. m \in 0 .. SampledFully
      BY <2>1, <2>3
    <3>2. tried' = [tried EXCEPT ![w][cur[w]] = m]
      BY <1>3 DEF BeginDispatch
    <3>3. QED
      BY <2>1, <2>3, <3>1, <3>2
  <2>5. started' \in [Orders -> 0 .. MaxAttempts + MaxLosses] /\ lost' \in 0 .. MaxLosses
    <3> DEFINE m == IF started[cur[w]] < MaxAttempts + MaxLosses
                    THEN started[cur[w]] + 1 ELSE started[cur[w]]
    <3>1. m \in 0 .. MaxAttempts + MaxLosses
      BY <2>1, <2>3
    <3>2. \/ started' = [started EXCEPT ![cur[w]] = m] /\ UNCHANGED lost
          \/ lost < MaxLosses /\ lost' = lost + 1 /\ UNCHANGED started
          \/ UNCHANGED <<started, lost>>
      BY <1>3 DEF BeginDispatch, Record
    <3>3. QED
      BY <2>1, <2>3, <3>1, <3>2
  <2>6. QED
    BY <2>1, <2>2, <2>4, <2>5 DEF TInv, TypeOK, HandlersOK
<1>4. ASSUME NEW w \in Workers, PrepareFails(w) PROVE TInv'
  <2>1. UNCHANGED <<row, ticking, lease, crashes>> /\ Quiet /\ Done(w)
    BY <1>4 DEF PrepareFails, DispatchFails, Rest, Frame
  <2>2. HandlersOK' /\ Active'
    BY <2>1, ActiveDone
  <2>3. QED
    BY <2>1, <2>2 DEF TInv, TypeOK, HandlersOK
<1>5. ASSUME NEW w \in Workers, ClaimDispatch(w) PROVE TInv'
  <2>1. /\ pc[w] = "prepare" /\ cur[w] \in Orders
        /\ UNCHANGED <<goal, receipt, started, lost, told, gateway, ghosts, ticking, lease>>
        /\ UNCHANGED crashes
    BY <1>5 DEF ClaimDispatch, Rest, Frame
  <2>2. row' \in [Orders -> RowRec]
    <3>1. [row[cur[w]] EXCEPT !.status = "dispatching"] \in RowRec
      BY <2>1 DEF RowRec
    <3>2. QED
      BY <1>5, <2>1, <3>1, CasType DEF ClaimDispatch
  <2>3. tried' \in [Workers -> [Orders -> 0 .. SampledFully]] /\ HandlersOK' /\ Active'
    BY <1>5, <2>1, TriedType, ActiveGo, ActiveDone DEF ClaimDispatch, DispatchSucceeds
  <2>4. QED
    BY <2>1, <2>2, <2>3 DEF TInv, TypeOK, HandlersOK
<1>6. ASSUME NEW w \in Workers, CreateNotSubmitted(w) PROVE TInv'
  <2>1. /\ UNCHANGED <<row, ticking, lease, crashes, goal, tried, receipt, started, lost, told>>
        /\ UNCHANGED <<stale, overlapped>> /\ Go(w, "unclaim") /\ pc[w] = "create"
        /\ cur[w] \in Orders
    BY <1>6 DEF CreateNotSubmitted, Rest, Frame
  <2>2. HandlersOK' /\ Active'
    BY <2>1, ActiveGo
  <2>3. gateway' \in [Orders -> [GatewayIds -> GatewayStates]]
    BY <1>6, <2>1, CreatesType DEF CreateNotSubmitted, TInv, TypeOK
  <2>4. unheard' \in [Orders -> SUBSET GatewayIds]
    <3>1. \/ UNCHANGED unheard
          \/ \E g \in GatewayIds :
                 unheard' = [unheard EXCEPT ![cur[w]] = unheard[cur[w]] \cup {g}]
      BY <1>6 DEF CreateNotSubmitted
    <3>2. unheard \in [Orders -> SUBSET GatewayIds]
      BY DEF TInv, TypeOK
    <3>3. QED
      BY <2>1, <3>1, <3>2
  <2>5. QED
    BY <2>1, <2>2, <2>3, <2>4 DEF TInv, TypeOK, HandlersOK
<1>7. ASSUME NEW w \in Workers, CreateAmbiguous(w) PROVE TInv'
  <2>1. /\ UNCHANGED <<row, ticking, lease, crashes, goal, tried, receipt, started, lost, told>>
        /\ UNCHANGED ghosts /\ Done(w) /\ cur[w] \in Orders
    BY <1>7 DEF CreateAmbiguous, DispatchFails, Rest, Frame
  <2>2. HandlersOK' /\ Active'
    BY <2>1, ActiveDone
  <2>3. gateway' \in [Orders -> [GatewayIds -> GatewayStates]]
    BY <1>7, <2>1, CreatesType DEF CreateAmbiguous, TInv, TypeOK
  <2>4. QED
    BY <2>1, <2>2, <2>3 DEF TInv, TypeOK, HandlersOK
<1>8. ASSUME NEW w \in Workers, CreateReturns(w) PROVE TInv'
  <2>1. /\ UNCHANGED <<row, ticking, lease, crashes, goal, tried, started, lost, told>>
        /\ UNCHANGED ghosts /\ Go(w, "persist") /\ pc[w] = "create" /\ cur[w] \in Orders
    BY <1>8 DEF CreateReturns, Frame
  <2>2. HandlersOK' /\ Active'
    BY <2>1, ActiveGo
  <2>3. /\ gateway' \in [Orders -> [GatewayIds -> GatewayStates]]
        /\ receipt' \in [Workers -> GatewayIds \cup {0}]
    BY <1>8, <2>1, CreatesType DEF CreateReturns, TInv, TypeOK
  <2>4. QED
    BY <2>1, <2>2, <2>3 DEF TInv, TypeOK, HandlersOK
<1>9. ASSUME NEW w \in Workers, Unclaim(w) PROVE TInv'
  <2>1. /\ UNCHANGED <<ticking, lease, crashes>> /\ Quiet
        /\ Done(w) /\ pc[w] = "unclaim" /\ cur[w] \in Orders
    BY <1>9 DEF Unclaim, DispatchFails, Rest, Frame
  <2>2. HandlersOK' /\ Active'
    BY <2>1, ActiveDone
  <2>3. [row[cur[w]] EXCEPT !.status = "bridged"] \in RowRec
    BY <2>1 DEF RowRec
  <2>4. row' \in [Orders -> RowRec]
    BY <1>9, <2>1, <2>3, CasType DEF Unclaim
  <2>5. QED
    BY <2>1, <2>2, <2>4 DEF TInv, TypeOK, HandlersOK
<1>10. ASSUME NEW w \in Workers, PersistGatewayId(w) PROVE TInv'
  <2>1. /\ UNCHANGED <<ticking, lease, crashes, goal, started, lost, told, gateway, ghosts>>
        /\ Done(w) /\ pc[w] = "persist" /\ cur[w] \in Orders
        /\ receipt' = [receipt EXCEPT ![w] = 0]
    BY <1>10 DEF PersistGatewayId, DispatchSucceeds, DispatchFails, Frame
  <2>2. HandlersOK' /\ Active'
    BY <2>1, ActiveDone
  <2>3. [row[cur[w]] EXCEPT !.gateway = receipt[w]] \in RowRec
    BY <2>1 DEF RowRec, TInv, TypeOK
  <2>4. row' \in [Orders -> RowRec]
    BY <1>10, <2>1, <2>3, CasType DEF PersistGatewayId
  <2>5. tried' \in [Workers -> [Orders -> 0 .. SampledFully]]
    BY <1>10, <2>1, TriedType DEF PersistGatewayId, DispatchSucceeds, DispatchFails
  <2>6. receipt' \in [Workers -> GatewayIds \cup {0}]
    BY <2>1 DEF TInv, TypeOK
  <2>7. QED
    BY <2>1, <2>2, <2>4, <2>5, <2>6 DEF TInv, TypeOK, HandlersOK
<1>11. ASSUME NEW w \in Workers, PollNothing(w) PROVE TInv'
  <2>1. UNCHANGED <<row, ticking, lease, crashes>> /\ Quiet /\ Done(w)
    BY <1>11 DEF PollNothing, Frame, dispatchVars
  <2>2. HandlersOK' /\ Active'
    BY <2>1, ActiveDone
  <2>3. QED
    BY <2>1, <2>2 DEF TInv, TypeOK, HandlersOK
<1>12. ASSUME NEW w \in Workers, PollSettled(w) \/ PollReturned(w) PROVE TInv'
  <2>1. /\ UNCHANGED <<row, ticking, lease, crashes, tried, receipt, started, gateway, ghosts>>
        /\ Go(w, "write") /\ pc[w] = "poll" /\ cur[w] \in Orders
    BY <1>12 DEF PollSettled, PollReturned, Decide, Frame
  <2>2. HandlersOK' /\ Active'
    BY <2>1, ActiveGo
  <2>3. \E s \in Statuses, p \in ToldStatuses :
            goal' = [goal EXCEPT ![w] = s] /\ told' = [told EXCEPT ![cur[w]] = p]
    BY <1>12, <2>1 DEF PollSettled, PollReturned, Decide, TInv, TypeOK
  <2>4. goal' \in [Workers -> Statuses] /\ told' \in [Orders -> ToldStatuses]
    BY <2>1, <2>3 DEF TInv, TypeOK
  <2>5. lost' \in 0 .. MaxLosses
    BY <1>12, DispatchAssumption DEF PollSettled, PollReturned, TInv, TypeOK
  <2>6. QED
    BY <2>1, <2>2, <2>4, <2>5 DEF TInv, TypeOK, HandlersOK
<1>13. ASSUME NEW w \in Workers, WriteOutcome(w) PROVE TInv'
  <2>1. /\ UNCHANGED <<ticking, lease, crashes, tried, receipt, started, lost, told, gateway>>
        /\ UNCHANGED <<unheard, overlapped>>
        /\ Done(w) /\ pc[w] = "write" /\ cur[w] \in Orders
        /\ goal' = [goal EXCEPT ![w] = "bridged"] /\ goal[w] \in Statuses
    BY <1>13 DEF WriteOutcome, Frame, TInv, TypeOK
  <2>2. HandlersOK' /\ Active'
    BY <2>1, ActiveDone
  <2>3. [row[cur[w]] EXCEPT !.status = goal[w],
             !.gateway = IF goal[w] = "bridged" THEN 0 ELSE @] \in RowRec
    BY <2>1 DEF RowRec
  <2>4. row' \in [Orders -> RowRec]
    BY <1>13, <2>1, <2>3, CasType DEF WriteOutcome
  <2>5. goal' \in [Workers -> Statuses] /\ stale' \subseteq Orders
    BY <1>13, <2>1 DEF WriteOutcome, TInv, TypeOK
  <2>6. QED
    BY <2>1, <2>2, <2>4, <2>5 DEF TInv, TypeOK, HandlersOK
<1>14. ASSUME NEW w \in Workers, CrashWorker(w) PROVE TInv'
  <2>1. /\ UNCHANGED <<row, lease, started, lost, told, gateway, ghosts>>
        /\ Done(w) /\ ticking' = ticking \ {w} /\ crashes' = crashes + 1
        /\ goal' = [goal EXCEPT ![w] = "bridged"]
        /\ tried' = [tried EXCEPT ![w] = [o \in Orders |-> 0]]
        /\ receipt' = [receipt EXCEPT ![w] = 0]
    BY <1>14 DEF CrashWorker, Crash
  <2>2. HandlersOK' /\ Active'
    BY <2>1, ActiveDone
  <2>3. tried' \in [Workers -> [Orders -> 0 .. SampledFully]]
    BY <2>1, DispatchAssumption DEF TInv, TypeOK
  <2>4. /\ goal' \in [Workers -> Statuses] /\ receipt' \in [Workers -> GatewayIds \cup {0}]
        /\ ticking' \subseteq Workers /\ crashes' \in Nat
    BY <2>1 DEF TInv, TypeOK
  <2>5. QED
    BY <2>1, <2>2, <2>3, <2>4 DEF TInv, TypeOK, HandlersOK
<1>15. ASSUME LeaseStep PROVE TInv'
  <2>1. UNCHANGED <<row, pc, cur, snap, crashes>> /\ Quiet
    BY <1>15 DEF LeaseStep, LeaseExpires, EndTick, dispatchVars
  <2>2. \/ lease' = Nil /\ UNCHANGED ticking
        \/ \E w \in Workers : /\ pc[w] = "idle" /\ ticking' = ticking \ {w}
                              /\ UNCHANGED lease
    BY <1>15 DEF LeaseStep, LeaseExpires, EndTick
  <2>3. QED
    BY <2>1, <2>2 DEF TInv, TypeOK, Active
<1>16. ASSUME NEW o \in Orders, NEW g \in GatewayIds, GatewayResolves(o, g) PROVE TInv'
  <2>1. UNCHANGED <<sharedVars, goal, tried, receipt, started, lost, told, ghosts>>
    BY <1>16 DEF GatewayResolves
  <2>2. gateway' \in [Orders -> [GatewayIds -> GatewayStates]]
    BY <1>16 DEF GatewayResolves, TInv, TypeOK
  <2>3. QED
    BY <2>1, <2>2 DEF TInv, TypeOK, Active, sharedVars
<1>17. ASSUME UNCHANGED vars PROVE TInv'
  BY <1>17 DEF TInv, TypeOK, Active, vars, sharedVars, dispatchVars
<1>18. QED
  BY <1>1, <1>2, <1>3, <1>4, <1>5, <1>6, <1>7, <1>8, <1>9, <1>10, <1>11, <1>12, <1>13,
     <1>14, <1>15, <1>16, <1>17 DEF Next, Dispatch, Poll

\* Every variable keeps its type, whether the lease holds or not (route_a_orders, Base).
THEOREM TypeCorrect == Spec => []TypeOK
<1>1. TInv => TypeOK
  BY DEF TInv
<1>2. QED
  BY <1>1, TypeInit, TypeStep, PTL DEF Spec

-----------------------------------------------------------------------------
(***************************************************************************)
(* The orders on Base, whoever ticks.  A Gateway order is created, opened  *)
(* and ended, in this order and once, so what a handler has read of one    *)
(* stays true, and Settled cannot be said of an order that is not paid.    *)
(***************************************************************************)
Claiming == {"create", "unclaim", "persist"}

Reads(w) ==
    LET o == cur[w]
        g == snap[w].gateway
    IN  /\ pc[w] = "persist" => receipt[w] # 0 /\ gateway[o][receipt[w]] # "none"
        /\ pc[w] \in {"poll", "write"} => g # 0 /\ gateway[o][g] # "none"
        /\ pc[w] = "write" => \/ goal[w] = "settled" /\ gateway[o][g] = "settled"
                              \/ goal[w] \in {"bridged", "refunded"} /\ gateway[o][g] = "returned"

Recorded(o) ==
    /\ row[o].status \in {"bridged", "dispatching", "settled", "refunded"}
    /\ row[o].gateway # 0 => gateway[o][row[o].gateway] # "none"
    /\ row[o].status = "settled" \/ told[o] = "settled" => Paid(o) # {}

ReadInv == (\A w \in Workers : Reads(w)) /\ (\A o \in Orders : Recorded(o))

Moves(o, g) ==
    \/ gateway'[o][g] = gateway[o][g]
    \/ gateway[o][g] = "none" /\ gateway'[o][g] = "open"
    \/ gateway[o][g] = "open" /\ gateway'[o][g] \in {"settled", "returned"}

LEMMA CreatesMoves ==
    ASSUME TInv, NEW o \in Orders, NEW g \in GatewayIds, Creates(o, g)
    PROVE  /\ \A q \in Orders, h \in GatewayIds : Moves(q, h)
           /\ \A q \in Orders : q # o => gateway'[q] = gateway[q]
           /\ \A h \in GatewayIds : h # g => gateway'[o][h] = gateway[o][h]
           /\ gateway[o][g] = "none" /\ gateway'[o][g] = "open"
  BY DEF TInv, TypeOK, Creates, Moves

LEMMA GatewayMoves ==
    ASSUME TInv, [Next]_vars
    PROVE  \A q \in Orders, h \in GatewayIds : Moves(q, h)
<1> DEFINE Moving == \A q \in Orders, h \in GatewayIds : Moves(q, h)
<1>1. UNCHANGED gateway => Moving
  BY DEF Moves
<1>2. ASSUME NEW w \in Workers, NEW g \in GatewayIds, cur[w] \in Orders, Creates(cur[w], g)
      PROVE  Moving
  BY <1>2, CreatesMoves
<1>3. ASSUME NEW o \in Orders, NEW g \in GatewayIds, GatewayResolves(o, g) PROVE Moving
  BY <1>3 DEF GatewayResolves, Moves, TInv, TypeOK
<1> HIDE DEF Moving
<1>4. ASSUME NEW w \in Workers, CreateNotSubmitted(w) \/ CreateAmbiguous(w) \/ CreateReturns(w)
      PROVE  Moving
  <2>1. cur[w] \in Orders
    BY <1>4, TInvFacts DEF CreateNotSubmitted, CreateAmbiguous, CreateReturns
  <2>2. QED
    BY <1>1, <1>2, <1>4, <2>1 DEF CreateNotSubmitted, CreateAmbiguous, CreateReturns
<1>5. ASSUME NEW w \in Workers, BeginTick(w) \/ Dispatch(w) \/ Poll(w) \/ CrashWorker(w)
      PROVE  Moving
  BY <1>1, <1>4, <1>5
  DEF BeginTick, Dispatch, FetchBridged, BeginDispatch, PrepareFails, ClaimDispatch, Unclaim,
      PersistGatewayId, Poll, FetchDispatching, PollNothing, PollSettled, PollReturned,
      WriteOutcome, CrashWorker, dispatchVars
<1>6. ASSUME LeaseStep \/ UNCHANGED vars PROVE Moving
  <2>1. UNCHANGED gateway
    BY <1>6 DEF LeaseStep, vars, dispatchVars
  <2>2. QED
    BY <1>1, <2>1
<1>7. Moving
  BY <1>3, <1>5, <1>6 DEF Next
<1>8. QED
  BY <1>7 DEF Moving

LEMMA PaidStays ==
    ASSUME TInv, [Next]_vars, NEW o \in Orders
    PROVE  Paid(o) \subseteq Paid(o)'
  BY GatewayMoves DEF Moves, Paid

\* What a worker that does not step has read stays true.
LEMMA ReadsKept ==
    ASSUME TInv, [Next]_vars, NEW v \in Workers, Reads(v),
           pc'[v] = pc[v], cur'[v] = cur[v], snap'[v] = snap[v], goal'[v] = goal[v],
           receipt'[v] = receipt[v]
    PROVE  Reads(v)'
<1>1. CASE pc[v] \notin {"persist", "poll", "write"}
  BY <1>1 DEF Reads
<1>2. CASE pc[v] \in {"persist", "poll", "write"}
  <2>1. PICK o \in Orders : o = cur[v]
    BY <1>2, TInvFacts
  <2>2. receipt[v] \in GatewayIds \cup {0} /\ snap[v].gateway \in GatewayIds \cup {0}
    BY DEF TInv, TypeOK, RowRec
  <2>3. /\ pc[v] = "persist" => Moves(o, receipt[v])
        /\ pc[v] \in {"poll", "write"} => Moves(o, snap[v].gateway)
    BY <2>1, <2>2, GatewayMoves DEF Reads
  <2>4. QED
    BY <2>1, <2>3 DEF Reads, Moves
<1>3. QED
  BY <1>1, <1>2

LEMMA RecordedKept ==
    ASSUME TInv, [Next]_vars, NEW o \in Orders, Recorded(o), row'[o] = row[o],
           told'[o] = told[o]
    PROVE  Recorded(o)'
<1>1. row[o].gateway \in GatewayIds \cup {0}
  BY TInvFacts DEF RowRec
<1>2. row[o].gateway # 0 => gateway'[o][row[o].gateway] # "none"
  BY <1>1, GatewayMoves DEF Moves, Recorded
<1>3. QED
  BY <1>2, PaidStays DEF Recorded

LEMMA ReadInit == Init => ReadInv
<1> SUFFICES ASSUME Init PROVE ReadInv
  OBVIOUS
<1>1. ASSUME NEW o \in Orders PROVE Recorded(o)
  <2>1. PICK known \in BOOLEAN : row[o] = Bridged(known)
    BY <1>1 DEF Init
  <2>2. row[o].status = "bridged" /\ row[o].gateway = 0 /\ told[o] = "nothing"
    BY <1>1, <2>1 DEF Init, Bridged, NewRow
  <2>3. QED
    BY <2>2 DEF Recorded
<1>2. QED
  BY <1>1 DEF Init, ReadInv, Reads

\* Steps after which one worker at most has read something new.
LEMMA ReadAssemble ==
    ASSUME TInv, TInv', ReadInv, [Next]_vars, NEW w \in Workers, Reads(w)',
           \A v \in Workers : v # w => /\ pc'[v] = pc[v] /\ cur'[v] = cur[v] /\ snap'[v] = snap[v]
                                       /\ goal'[v] = goal[v] /\ receipt'[v] = receipt[v],
           \A o \in Orders : (row'[o] = row[o] /\ told'[o] = told[o]) \/ Recorded(o)'
    PROVE  ReadInv'
  BY ReadsKept, RecordedKept DEF ReadInv

LEMMA ReadStep ==
    ASSUME TInv, ReadInv, [Next]_vars
    PROVE  ReadInv'
<1> TInv'
  BY TypeStep
<1> USE TInvFacts, Members
<1>0. /\ goal \in [Workers -> Statuses] /\ receipt \in [Workers -> GatewayIds \cup {0}]
      /\ told \in [Orders -> ToldStatuses]
  BY DEF TInv, TypeOK
<1>1. ASSUME NEW w \in Workers, NEW o \in Orders, FetchBridged(w, o) \/ FetchDispatching(w, o)
      PROVE  ReadInv'
  <2>1. UNCHANGED <<row, told, goal, receipt, gateway>>
    BY <1>1 DEF FetchBridged, FetchDispatching, dispatchVars
  <2>2. /\ cur'[w] = o /\ snap'[w] = row[o]
        /\ \A v \in Workers : v # w => pc'[v] = pc[v] /\ cur'[v] = cur[v] /\ snap'[v] = snap[v]
        /\ pc'[w] # "dispatch" => pc'[w] = "poll" /\ row[o].gateway # 0
    <3>1. CASE FetchBridged(w, o)
      <4>1. Fetch(w, o, "dispatch") /\ "dispatch" \in Steps
        BY <3>1 DEF FetchBridged
      <4>2. /\ cur'[w] = o /\ snap'[w] = row[o] /\ pc'[w] = "dispatch"
            /\ \A v \in Workers : v # w => pc'[v] = pc[v] /\ cur'[v] = cur[v]
                                            /\ snap'[v] = snap[v]
        BY <4>1, FetchType
      <4>3. QED
        BY <4>2
    <3>2. CASE FetchDispatching(w, o)
      <4>1. Fetch(w, o, "poll") /\ row[o].gateway # 0
        BY <3>2 DEF FetchDispatching
      <4>2. "poll" \in Steps
        OBVIOUS
      <4>3. /\ cur'[w] = o /\ snap'[w] = row[o] /\ pc'[w] = "poll"
            /\ \A v \in Workers : v # w => pc'[v] = pc[v] /\ cur'[v] = cur[v]
                                            /\ snap'[v] = snap[v]
        BY <4>1, <4>2, FetchType
      <4>4. QED
        BY <4>1, <4>3
    <3>3. QED
      BY <1>1, <3>1, <3>2
  <2>3. Reads(w)'
    BY <2>1, <2>2 DEF Reads, ReadInv, Recorded
  <2>4. QED
    BY <2>1, <2>2, <2>3, ReadAssemble
<1>2. ASSUME NEW w \in Workers, NEW s \in Steps \ {"persist", "poll", "write"}, Go(w, s),
             UNCHANGED <<row, told, goal, receipt>>
      PROVE  ReadInv'
  <2>1. /\ pc'[w] = s /\ UNCHANGED <<cur, snap>>
        /\ \A v \in Workers : v # w => pc'[v] = pc[v]
    BY <1>2, GoType
  <2>2. Reads(w)'
    BY <1>2, <2>1 DEF Reads
  <2>3. QED
    BY <1>2, <2>1, <2>2, ReadAssemble
<1>3. ASSUME NEW w \in Workers, Done(w),
             \A v \in Workers : v # w => goal'[v] = goal[v] /\ receipt'[v] = receipt[v],
             \A q \in Orders : (row'[q] = row[q] /\ told'[q] = told[q]) \/ Recorded(q)'
      PROVE  ReadInv'
  <2>1. /\ pc'[w] = "idle"
        /\ \A v \in Workers : v # w => pc'[v] = pc[v] /\ cur'[v] = cur[v] /\ snap'[v] = snap[v]
    BY <1>3, DoneType
  <2>2. Reads(w)'
    BY <2>1 DEF Reads
  <2>3. QED
    BY <1>3, <2>1, <2>2, ReadAssemble
<1>4. ASSUME NEW w \in Workers, BeginDispatch(w) PROVE ReadInv'
  BY <1>2, <1>4 DEF BeginDispatch
<1>5. ASSUME NEW w \in Workers, PrepareFails(w) \/ PollNothing(w) PROVE ReadInv'
  BY <1>3, <1>5 DEF PrepareFails, PollNothing, DispatchFails, Rest, dispatchVars
<1>6. ASSUME NEW w \in Workers, ClaimDispatch(w) PROVE ReadInv'
  <2>1. PICK o \in Orders : o = cur[w]
    BY <1>6 DEF ClaimDispatch
  <2>2. UNCHANGED <<told, goal, receipt, gateway>>
    BY <1>6 DEF ClaimDispatch, Rest
  <2>3. CASE row[o].status # "bridged"
    <3>1. Done(w) /\ row' = row
      BY <1>6, <2>1, <2>3 DEF ClaimDispatch, DispatchSucceeds, Cas
    <3>2. QED
      BY <1>3, <2>2, <3>1
  <2>4. CASE row[o].status = "bridged"
    <3>1. /\ Go(w, "create")
          /\ row' = [row EXCEPT ![o] = [row[o] EXCEPT !.status = "dispatching"]]
      BY <1>6, <2>1, <2>4 DEF ClaimDispatch, Cas
    <3>2. /\ row'[o].status = "dispatching" /\ row'[o].gateway = row[o].gateway
          /\ \A q \in Orders : q # o => row'[q] = row[q]
      BY <3>1 DEF RowRec
    <3>3. Recorded(o)'
      BY <2>2, <3>2, PaidStays DEF ReadInv, Recorded
    <3>4. /\ pc'[w] = "create" /\ UNCHANGED <<cur, snap>>
          /\ \A v \in Workers : v # w => pc'[v] = pc[v]
      BY <3>1, GoType
    <3>5. Reads(w)'
      BY <3>4 DEF Reads
    <3>6. QED
      BY <2>2, <3>2, <3>3, <3>4, <3>5, ReadAssemble
  <2>5. QED
    BY <2>3, <2>4
<1>7. ASSUME NEW w \in Workers, CreateNotSubmitted(w) PROVE ReadInv'
  BY <1>2, <1>7 DEF CreateNotSubmitted, Rest
<1>8. ASSUME NEW w \in Workers, CreateAmbiguous(w) PROVE ReadInv'
  BY <1>3, <1>8 DEF CreateAmbiguous, DispatchFails, Rest
<1>9. ASSUME NEW w \in Workers, CreateReturns(w) PROVE ReadInv'
  <2>1. PICK o \in Orders : o = cur[w]
    BY <1>9 DEF CreateReturns
  <2>2. PICK g \in GatewayIds : Creates(o, g) /\ receipt' = [receipt EXCEPT ![w] = g]
    BY <1>9, <2>1 DEF CreateReturns
  <2>3. /\ pc'[w] = "persist" /\ UNCHANGED <<cur, snap, row, told, goal>>
        /\ \A v \in Workers : v # w => pc'[v] = pc[v]
    BY <1>9, GoType DEF CreateReturns
  <2>4. receipt'[w] = g /\ \A v \in Workers : v # w => receipt'[v] = receipt[v]
    BY <1>0, <2>2
  <2>5. gateway'[o][g] = "open" /\ g # 0
    BY <2>2, CreatesMoves
  <2>6. Reads(w)'
    BY <2>1, <2>3, <2>4, <2>5 DEF Reads
  <2>7. QED
    BY <2>3, <2>4, <2>6, ReadAssemble
<1>10. ASSUME NEW w \in Workers, Unclaim(w) PROVE ReadInv'
  <2>1. PICK o \in Orders : o = cur[w]
    BY <1>10 DEF Unclaim
  <2>2. Done(w) /\ UNCHANGED <<told, goal, receipt>>
    BY <1>10 DEF Unclaim, DispatchFails, Rest
  <2>3. \A q \in Orders : row'[q] = row[q] \/ Recorded(q)'
    <3>1. CASE row' = row
      BY <3>1
    <3>2. CASE row' # row
      <4>1. row' = [row EXCEPT ![o] = [row[o] EXCEPT !.status = "bridged"]] /\ row[o].gateway = 0
        BY <1>10, <2>1, <3>2 DEF Unclaim, Cas
      <4>2. row'[o].status = "bridged" /\ row'[o].gateway = 0
            /\ \A q \in Orders : q # o => row'[q] = row[q]
        BY <4>1 DEF RowRec
      <4>3. Recorded(o)'
        BY <2>2, <4>2, PaidStays DEF ReadInv, Recorded
      <4>4. QED
        BY <4>2, <4>3
    <3>3. QED
      BY <3>1, <3>2
  <2>4. QED
    BY <1>3, <2>2, <2>3
<1>11. ASSUME NEW w \in Workers, PersistGatewayId(w) PROVE ReadInv'
  <2>1. PICK o \in Orders : o = cur[w]
    BY <1>11 DEF PersistGatewayId
  <2>2. /\ Done(w) /\ UNCHANGED <<told, goal, gateway>>
        /\ receipt' = [receipt EXCEPT ![w] = 0]
        /\ receipt[w] # 0 /\ gateway[o][receipt[w]] # "none"
    BY <1>11, <2>1 DEF PersistGatewayId, DispatchFails, DispatchSucceeds, ReadInv, Reads
  <2>3. \A q \in Orders : row'[q] = row[q] \/ Recorded(q)'
    <3>1. CASE row' = row
      BY <3>1
    <3>2. CASE row' # row
      <4>1. /\ row' = [row EXCEPT ![o] = [row[o] EXCEPT !.gateway = receipt[w]]]
            /\ row[o].status = "dispatching"
        BY <1>11, <2>1, <3>2 DEF PersistGatewayId, Cas
      <4>2. row'[o].status = "dispatching" /\ row'[o].gateway = receipt[w]
            /\ \A q \in Orders : q # o => row'[q] = row[q]
        BY <4>1 DEF RowRec
      <4>3. Recorded(o)'
        BY <2>2, <4>2, PaidStays DEF ReadInv, Recorded
      <4>4. QED
        BY <4>2, <4>3
    <3>3. QED
      BY <3>1, <3>2
  <2>4. \A v \in Workers : v # w => receipt'[v] = receipt[v]
    BY <1>0, <2>2
  <2>5. QED
    BY <1>3, <2>2, <2>3, <2>4
<1>12. ASSUME NEW w \in Workers, PollSettled(w) \/ PollReturned(w) PROVE ReadInv'
  <2>1. PICK o \in Orders : o = cur[w]
    BY <1>12 DEF PollSettled, PollReturned
  <2>2. /\ pc[w] = "poll" /\ Go(w, "write") /\ UNCHANGED <<row, receipt, gateway>>
    BY <1>12 DEF PollSettled, PollReturned, Decide
  <2>3. /\ pc'[w] = "write" /\ UNCHANGED <<cur, snap>>
        /\ \A v \in Workers : v # w => pc'[v] = pc[v]
    BY <2>2, GoType
  <2>4. /\ \A v \in Workers : v # w => goal'[v] = goal[v]
        /\ \A q \in Orders : q # o => told'[q] = told[q]
        /\ \/ /\ goal'[w] = "settled" /\ gateway[o][snap[w].gateway] = "settled"
              /\ told'[o] \in {"settled", told[o]}
           \/ /\ goal'[w] \in {"bridged", "refunded"} /\ gateway[o][snap[w].gateway] = "returned"
              /\ told'[o] \in {"refunded", told[o]}
    BY <1>0, <1>12, <2>1 DEF PollSettled, PollReturned, Decide
  <2>5. snap[w].gateway # 0 /\ gateway[o][snap[w].gateway] # "none"
        /\ snap[w].gateway \in GatewayIds \cup {0}
    BY <2>1, <2>2 DEF ReadInv, Reads, TInv, TypeOK, RowRec
  <2>6. Reads(w)'
    BY <2>1, <2>2, <2>3, <2>4, <2>5 DEF Reads
  <2>7. gateway[o][snap[w].gateway] = "settled" => Paid(o)' # {}
    BY <2>2, <2>5 DEF Paid
  <2>8. Recorded(o)'
    BY <2>2, <2>4, <2>7, PaidStays DEF ReadInv, Recorded
  <2>9. QED
    BY <2>2, <2>3, <2>4, <2>6, <2>8, ReadAssemble
<1>13. ASSUME NEW w \in Workers, WriteOutcome(w) PROVE ReadInv'
  <2>1. PICK o \in Orders : o = cur[w]
    BY <1>13 DEF WriteOutcome
  <2>2. /\ pc[w] = "write" /\ Done(w) /\ UNCHANGED <<told, receipt, gateway>>
        /\ goal' = [goal EXCEPT ![w] = "bridged"]
    BY <1>13 DEF WriteOutcome
  <2>3. /\ goal[w] \in {"settled", "bridged", "refunded"}
        /\ goal[w] = "settled" => Paid(o)' # {}
    <3>1. snap[w].gateway # 0 /\ snap[w].gateway \in GatewayIds \cup {0}
      BY <2>1, <2>2 DEF ReadInv, Reads, TInv, TypeOK, RowRec
    <3>2. QED
      BY <2>1, <2>2, <3>1 DEF ReadInv, Reads, Paid
  <2>4. \A q \in Orders : row'[q] = row[q] \/ Recorded(q)'
    <3>1. CASE row' = row
      BY <3>1
    <3>2. CASE row' # row
      <4>1. row' = [row EXCEPT ![o] = [row[o] EXCEPT !.status = goal[w],
                                 !.gateway = IF goal[w] = "bridged" THEN 0 ELSE @]]
        BY <1>13, <2>1, <3>2 DEF WriteOutcome, Cas
      <4>2. row'[o].status = goal[w] /\ row'[o].gateway \in {0, row[o].gateway}
            /\ \A q \in Orders : q # o => row'[q] = row[q]
        BY <4>1 DEF RowRec
      <4>3. Recorded(o)'
        BY <2>2, <2>3, <4>2, PaidStays DEF ReadInv, Recorded
      <4>4. QED
        BY <4>2, <4>3
    <3>3. QED
      BY <3>1, <3>2
  <2>5. \A v \in Workers : v # w => goal'[v] = goal[v]
    BY <1>0, <2>2
  <2>6. QED
    BY <1>3, <2>2, <2>4, <2>5
<1>14. ASSUME NEW w \in Workers, CrashWorker(w) PROVE ReadInv'
  <2>1. Done(w) /\ UNCHANGED <<row, told>>
    BY <1>14 DEF CrashWorker, Crash
  <2>2. \A v \in Workers : v # w => goal'[v] = goal[v] /\ receipt'[v] = receipt[v]
    BY <1>0, <1>14 DEF CrashWorker
  <2>3. QED
    BY <1>3, <2>1, <2>2
<1>15. ASSUME UNCHANGED <<pc, cur, snap, goal, receipt, row, told>> PROVE ReadInv'
  BY <1>15, ReadsKept, RecordedKept DEF ReadInv
<1>16. CASE \/ LeaseStep \/ \E w \in Workers : BeginTick(w)
            \/ \E o \in Orders, g \in GatewayIds : GatewayResolves(o, g)
            \/ UNCHANGED vars
  BY <1>15, <1>16 DEF LeaseStep, LeaseExpires, EndTick, BeginTick, GatewayResolves, vars,
                      sharedVars, dispatchVars
<1>17. QED
  BY <1>1, <1>4, <1>5, <1>6, <1>7, <1>8, <1>9, <1>10, <1>11, <1>12, <1>13, <1>14, <1>16
  DEF Next, Dispatch, Poll

-----------------------------------------------------------------------------
(***************************************************************************)
(* The claim, whoever ticks.  As long as an order is not stale, whoever    *)
(* holds its claim holds it alone, and the only order on Base that may pay *)
(* for it is the one its row, or the claimer's receipt, names.             *)
(***************************************************************************)
Claims(w, o) == pc[w] \in Claiming /\ cur[w] = o
Polls(w, o)  == pc[w] \in {"poll", "write"} /\ cur[w] = o

ClaimOK(o) ==
    /\ \A w \in Workers : Claims(w, o) =>
          /\ row[o].status = "dispatching" /\ row[o].gateway = 0
          /\ pc[w] \in {"create", "unclaim"} => Paying(o) = {}
          /\ pc[w] = "persist" => Paying(o) \subseteq {receipt[w]}
    /\ \A v, w \in Workers : Claims(v, o) /\ Claims(w, o) => v = w
    /\ \A v, w \in Workers :
          Polls(v, o) /\ Claims(w, o) /\ pc[w] = "persist" => snap[v].gateway # receipt[w]
    /\ row[o].status \in {"bridged", "refunded"} => Paying(o) = {}
    /\ row[o].status = "bridged" => row[o].gateway = 0
    /\ row[o].status = "dispatching" /\ row[o].gateway # 0 => Paying(o) \subseteq {row[o].gateway}
    /\ \A g, h \in Paying(o) : g = h

ClaimInv == \A o \in Orders \ stale : ClaimOK(o)

LEMMA ClaimInit == Init => ClaimInv
<1> SUFFICES ASSUME Init, NEW o \in Orders PROVE ClaimOK(o)
  BY DEF ClaimInv
<1>1. PICK known \in BOOLEAN : row[o] = Bridged(known)
  BY DEF Init
<1>2. row[o].status = "bridged" /\ row[o].gateway = 0
  BY <1>1 DEF Bridged, NewRow
<1>3. Paying(o) = {}
  BY DEF Init, Paying, Known
<1>4. \A w \in Workers : ~Claims(w, o)
  BY DEF Init, Claims, Claiming
<1>5. QED
  BY <1>2, <1>3, <1>4 DEF ClaimOK

\* The step of one worker that leaves the order's row as it is and makes nothing pay.
LEMMA ClaimKept ==
    ASSUME NEW o \in Orders, ClaimOK(o), row'[o] = row[o], Paying(o)' \subseteq Paying(o),
           NEW w \in Workers,
           \A v \in Workers : v # w => /\ pc'[v] = pc[v] /\ cur'[v] = cur[v]
                                       /\ snap'[v] = snap[v] /\ receipt'[v] = receipt[v],
           \/ pc'[w] \notin Claiming \cup {"poll", "write"}
           \/ cur'[w] # o
           \/ pc[w] = "create" /\ pc'[w] = "unclaim" /\ UNCHANGED <<cur, receipt>>
           \/ pc[w] = "poll" /\ pc'[w] = "write" /\ UNCHANGED <<cur, snap>>
           \/ pc'[w] = "poll" /\ snap'[w] = row[o] /\ row[o].gateway # 0
    PROVE  ClaimOK(o)'
<1>1. ASSUME NEW v \in Workers, Claims(v, o)'
      PROVE  /\ Claims(v, o) /\ receipt'[v] = receipt[v]
             /\ pc'[v] = "persist" => pc[v] = "persist"
             /\ pc'[v] \in {"create", "unclaim"} => pc[v] \in {"create", "unclaim"}
  <2>1. CASE v = w
    BY <1>1, <2>1 DEF Claims, Claiming
  <2>2. CASE v # w
    BY <1>1, <2>2 DEF Claims
  <2>3. QED
    BY <2>1, <2>2
<1>2. ASSUME NEW v \in Workers, Polls(v, o)'
      PROVE  \/ Polls(v, o) /\ snap'[v] = snap[v]
             \/ snap'[v] = row[o] /\ row[o].gateway # 0
  <2>1. CASE v = w
    BY <1>2, <2>1 DEF Polls, Claiming
  <2>2. CASE v # w
    BY <1>2, <2>2 DEF Polls
  <2>3. QED
    BY <2>1, <2>2
<1>3. \A v \in Workers : Claims(v, o)' =>
          /\ row'[o].status = "dispatching" /\ row'[o].gateway = 0
          /\ pc'[v] \in {"create", "unclaim"} => Paying(o)' = {}
          /\ pc'[v] = "persist" => Paying(o)' \subseteq {receipt'[v]}
  BY <1>1 DEF ClaimOK
<1>4. \A u, v \in Workers : Claims(u, o)' /\ Claims(v, o)' => u = v
  BY <1>1 DEF ClaimOK
<1>5. ASSUME NEW u \in Workers, NEW v \in Workers, Polls(u, o)', Claims(v, o)',
             pc'[v] = "persist"
      PROVE  snap'[u].gateway # receipt'[v]
  <2>1. Claims(v, o) /\ pc[v] = "persist" /\ receipt'[v] = receipt[v] /\ row[o].gateway = 0
    BY <1>1, <1>5 DEF ClaimOK
  <2>2. Polls(u, o) /\ snap'[u] = snap[u]
    BY <1>2, <1>5, <2>1
  <2>3. QED
    BY <2>1, <2>2 DEF ClaimOK
<1>6. QED
  BY <1>3, <1>4, <1>5 DEF ClaimOK

\* A write that ends the claim of the only claimer.
LEMMA ClaimEnds ==
    ASSUME NEW o \in Orders, ClaimOK(o), NEW w \in Workers, Claims(w, o),
           \A v \in Workers : v # w => pc'[v] = pc[v] /\ cur'[v] = cur[v],
           pc'[w] = "idle",
           row'[o].status \in {"bridged", "refunded"} => Paying(o)' = {},
           row'[o].status = "bridged" => row'[o].gateway = 0,
           row'[o].status = "dispatching" /\ row'[o].gateway # 0
               => Paying(o)' \subseteq {row'[o].gateway},
           \A g, h \in Paying(o)' : g = h
    PROVE  ClaimOK(o)'
<1>1. \A v \in Workers : ~Claims(v, o)'
  BY DEF ClaimOK, Claims, Claiming
<1>2. QED
  BY <1>1 DEF ClaimOK

\* What a step does not pay: it opens no order on Base under an id that is known of.
LEMMA PayingSame ==
    ASSUME NEW o \in Orders, gateway'[o] = gateway[o], unheard'[o] = unheard[o]
    PROVE  Paying(o)' = Paying(o)
  BY DEF Paying, Known

LEMMA PayingGrows ==
    ASSUME TInv, NEW o \in Orders, NEW g \in GatewayIds, Creates(o, g), UNCHANGED unheard
    PROVE  Paying(o)' \subseteq Paying(o) \cup {g}
<1>1. \A h \in GatewayIds : h # g => gateway'[o][h] = gateway[o][h]
  BY CreatesMoves
<1>2. QED
  BY <1>1 DEF Paying, Known

LEMMA PayingUnheard ==
    ASSUME TInv, NEW w \in Workers, CreateNotSubmitted(w), NEW q \in Orders
    PROVE  Paying(q)' \subseteq Paying(q) /\ Created(q)' = Created(q)
<1>1. CASE UNCHANGED <<gateway, unheard>>
  BY <1>1 DEF Paying, Created, Known
<1>2. CASE ~UNCHANGED <<gateway, unheard>>
  <2>1. PICK o \in Orders : o = cur[w]
    BY TInvFacts DEF CreateNotSubmitted
  <2>2. PICK g \in GatewayIds : Creates(o, g) /\ unheard' = [unheard EXCEPT ![o] = @ \cup {g}]
    BY <1>2, <2>1 DEF CreateNotSubmitted
  <2>3. /\ \A p \in Orders : p # o => gateway'[p] = gateway[p]
        /\ \A h \in GatewayIds : h # g => gateway'[o][h] = gateway[o][h]
        /\ gateway[o][g] = "none"
    BY <2>2, CreatesMoves
  <2>4. unheard'[o] = unheard[o] \cup {g} /\ \A p \in Orders : p # o => unheard'[p] = unheard[p]
    BY <2>2 DEF TInv, TypeOK
  <2>5. CASE q = o
    BY <2>3, <2>4, <2>5 DEF Paying, Created, Known
  <2>6. CASE q # o
    BY <2>3, <2>4, <2>6 DEF Paying, Created, Known
  <2>7. QED
    BY <2>5, <2>6
<1>3. QED
  BY <1>1, <1>2

LEMMA PayingResolves ==
    ASSUME TInv, NEW o \in Orders, NEW g \in GatewayIds, GatewayResolves(o, g), NEW q \in Orders
    PROVE  Paying(q)' \subseteq Paying(q) /\ Created(q)' = Created(q)
<1>1. \A h \in GatewayIds : \/ gateway'[q][h] = gateway[q][h]
                            \/ gateway[q][h] = "open" /\ gateway'[q][h] \in {"settled", "returned"}
  BY DEF GatewayResolves, TInv, TypeOK
<1>2. UNCHANGED unheard
  BY DEF GatewayResolves, ghosts
<1>3. QED
  BY <1>1, <1>2 DEF Paying, Created, Known

LEMMA ClaimStep ==
    ASSUME TInv, ReadInv, ClaimInv, [Next]_vars
    PROVE  ClaimInv'
<1>1. SUFFICES ASSUME NEW o \in Orders, o \notin stale' PROVE ClaimOK(o)'
  BY DEF ClaimInv
<1>2. o \notin stale /\ ClaimOK(o)
  <2>1. stale \subseteq stale'
    BY DEF Next, BeginTick, Dispatch, FetchBridged, BeginDispatch, PrepareFails, ClaimDispatch,
           CreateNotSubmitted, CreateAmbiguous, CreateReturns, Unclaim, PersistGatewayId, Poll,
           FetchDispatching, PollNothing, PollSettled, PollReturned, WriteOutcome, CrashWorker,
           LeaseStep, GatewayResolves, vars, dispatchVars, ghosts
  <2>2. QED
    BY <1>1, <2>1 DEF ClaimInv
<1> USE TInvFacts, Members
<1>3. receipt \in [Workers -> GatewayIds \cup {0}] /\ unheard \in [Orders -> SUBSET GatewayIds]
  BY DEF TInv, TypeOK
<1>4. ASSUME UNCHANGED <<row, gateway, unheard>>
      PROVE  row'[o] = row[o] /\ Paying(o)' \subseteq Paying(o)
  BY <1>4, PayingSame
\* A handler that ends, its claim with it.
<1>5. ASSUME NEW w \in Workers, Done(w), row'[o] = row[o], Paying(o)' \subseteq Paying(o),
             \A v \in Workers : v # w => receipt'[v] = receipt[v]
      PROVE  ClaimOK(o)'
  <2>1. /\ pc'[w] = "idle"
        /\ \A v \in Workers : v # w => pc'[v] = pc[v] /\ cur'[v] = cur[v] /\ snap'[v] = snap[v]
    BY <1>5, DoneType
  <2>2. pc'[w] \notin Claiming \cup {"poll", "write"}
    BY <2>1 DEF Claiming
  <2>3. QED
    BY <1>2, <1>5, <2>1, <2>2, ClaimKept
<1>6. ASSUME NEW w \in Workers, NEW q \in Orders, FetchBridged(w, q) PROVE ClaimOK(o)'
  <2>1. Fetch(w, q, "dispatch") /\ UNCHANGED <<row, gateway, unheard, receipt>>
    BY <1>6 DEF FetchBridged, dispatchVars, ghosts
  <2>2. /\ pc'[w] = "dispatch"
        /\ \A v \in Workers : v # w => pc'[v] = pc[v] /\ cur'[v] = cur[v] /\ snap'[v] = snap[v]
    BY <2>1, FetchType
  <2>3. pc'[w] \notin Claiming \cup {"poll", "write"}
    BY <2>2 DEF Claiming
  <2>4. QED
    BY <1>2, <1>4, <2>1, <2>2, <2>3, ClaimKept
<1>7. ASSUME NEW w \in Workers, NEW q \in Orders, FetchDispatching(w, q) PROVE ClaimOK(o)'
  <2>1. /\ Fetch(w, q, "poll") /\ UNCHANGED <<row, gateway, unheard, receipt>>
        /\ row[q].gateway # 0
    BY <1>7 DEF FetchDispatching, dispatchVars, ghosts
  <2>2. /\ pc'[w] = "poll" /\ cur'[w] = q /\ snap'[w] = row[q]
        /\ \A v \in Workers : v # w => pc'[v] = pc[v] /\ cur'[v] = cur[v] /\ snap'[v] = snap[v]
    BY <2>1, FetchType
  <2>3. QED
    BY <1>2, <1>4, <2>1, <2>2, ClaimKept
<1>8. ASSUME NEW w \in Workers, BeginDispatch(w) PROVE ClaimOK(o)'
  <2>1. Go(w, "prepare") /\ UNCHANGED <<row, gateway, unheard, receipt>>
    BY <1>8 DEF BeginDispatch, ghosts
  <2>2. /\ pc'[w] = "prepare" /\ UNCHANGED <<cur, snap>>
        /\ \A v \in Workers : v # w => pc'[v] = pc[v]
    BY <2>1, GoType
  <2>3. pc'[w] \notin Claiming \cup {"poll", "write"}
    BY <2>2 DEF Claiming
  <2>4. QED
    BY <1>2, <1>4, <2>1, <2>2, <2>3, ClaimKept
<1>9. ASSUME NEW w \in Workers, PrepareFails(w) \/ PollNothing(w) PROVE ClaimOK(o)'
  <2>1. Done(w) /\ UNCHANGED <<row, gateway, unheard, receipt>>
    BY <1>9 DEF PrepareFails, PollNothing, DispatchFails, Rest, dispatchVars, ghosts
  <2>2. QED
    BY <1>4, <1>5, <2>1
<1>10. ASSUME NEW w \in Workers, ClaimDispatch(w) PROVE ClaimOK(o)'
  <2>1. PICK q \in Orders : q = cur[w]
    BY <1>10 DEF ClaimDispatch
  <2>2. UNCHANGED <<gateway, unheard, receipt>> /\ pc[w] = "prepare"
    BY <1>10 DEF ClaimDispatch, Rest, ghosts
  <2>3. CASE row[q].status # "bridged"
    <3>1. Done(w) /\ row' = row
      BY <1>10, <2>1, <2>3 DEF ClaimDispatch, DispatchSucceeds, Cas
    <3>2. QED
      BY <1>4, <1>5, <2>2, <3>1
  <2>4. CASE row[q].status = "bridged"
    <3>1. /\ Go(w, "create")
          /\ row' = [row EXCEPT ![q] = [row[q] EXCEPT !.status = "dispatching"]]
      BY <1>10, <2>1, <2>4 DEF ClaimDispatch, Cas
    <3>2. /\ pc'[w] = "create" /\ UNCHANGED <<cur, snap>>
          /\ \A v \in Workers : v # w => pc'[v] = pc[v]
      BY <3>1, GoType
    <3>3. Paying(o)' = Paying(o)
      BY <2>2, PayingSame
    <3>4. CASE q # o
      <4>1. row'[o] = row[o]
        BY <3>1, <3>4
      <4>2. QED
        BY <1>2, <2>1, <2>2, <3>2, <3>3, <3>4, <4>1, ClaimKept
    <3>5. CASE q = o
      <4>1. row'[o].status = "dispatching" /\ row'[o].gateway = 0 /\ Paying(o) = {}
        BY <1>2, <2>4, <3>1, <3>5 DEF RowRec, ClaimOK
      <4>2. \A v \in Workers : ~Claims(v, o)
        BY <1>2, <2>4, <3>5 DEF ClaimOK
      <4>3. \A v \in Workers : Claims(v, o)' => v = w
        BY <3>2, <4>2 DEF Claims
      <4>4. QED
        BY <3>2, <3>3, <4>1, <4>3 DEF ClaimOK
    <3>6. QED
      BY <3>4, <3>5
  <2>5. QED
    BY <2>3, <2>4
<1>11. ASSUME NEW w \in Workers, CreateNotSubmitted(w) PROVE ClaimOK(o)'
  <2>1. pc[w] = "create" /\ Go(w, "unclaim") /\ UNCHANGED <<row, receipt>>
    BY <1>11 DEF CreateNotSubmitted, Rest
  <2>2. /\ pc'[w] = "unclaim" /\ UNCHANGED <<cur, snap>>
        /\ \A v \in Workers : v # w => pc'[v] = pc[v]
    BY <2>1, GoType
  <2>3. Paying(o)' \subseteq Paying(o)
    BY <1>11, PayingUnheard
  <2>4. QED
    BY <1>2, <2>1, <2>2, <2>3, ClaimKept
<1>12. ASSUME NEW w \in Workers, CreateAmbiguous(w) PROVE ClaimOK(o)'
  <2>1. pc[w] = "create" /\ Done(w) /\ UNCHANGED <<row, unheard, receipt>>
    BY <1>12 DEF CreateAmbiguous, DispatchFails, Rest, ghosts
  <2>2. CASE UNCHANGED gateway
    BY <1>4, <1>5, <2>1, <2>2
  <2>3. CASE ~UNCHANGED gateway
    <3>1. PICK q \in Orders, g \in GatewayIds : q = cur[w] /\ Creates(q, g)
      BY <1>12, <2>3 DEF CreateAmbiguous
    <3>2. CASE q # o
      <4>1. gateway'[o] = gateway[o]
        BY <3>1, <3>2, CreatesMoves
      <4>2. QED
        BY <1>5, <2>1, <4>1, PayingSame
    <3>3. CASE q = o
      <4>1. Claims(w, o)
        BY <2>1, <3>1, <3>3 DEF Claims, Claiming
      <4>2. row[o].status = "dispatching" /\ row[o].gateway = 0 /\ Paying(o)' \subseteq {g}
        BY <1>2, <2>1, <3>1, <3>3, <4>1, PayingGrows DEF ClaimOK
      <4>3. /\ pc'[w] = "idle"
            /\ \A v \in Workers : v # w => pc'[v] = pc[v] /\ cur'[v] = cur[v]
        BY <2>1, DoneType
      <4>4. QED
        BY <1>2, <2>1, <4>1, <4>2, <4>3, ClaimEnds
    <3>4. QED
      BY <3>2, <3>3
  <2>4. QED
    BY <2>2, <2>3
<1>13. ASSUME NEW w \in Workers, CreateReturns(w) PROVE ClaimOK(o)'
  <2>1. PICK q \in Orders : q = cur[w]
    BY <1>13 DEF CreateReturns
  <2>2. PICK g \in GatewayIds : Creates(q, g) /\ receipt' = [receipt EXCEPT ![w] = g]
    BY <1>13, <2>1 DEF CreateReturns
  <2>3. pc[w] = "create" /\ Go(w, "persist") /\ UNCHANGED <<row, unheard>>
    BY <1>13 DEF CreateReturns, ghosts
  <2>4. /\ pc'[w] = "persist" /\ UNCHANGED <<cur, snap>>
        /\ \A v \in Workers : v # w => pc'[v] = pc[v]
    BY <2>3, GoType
  <2>5. receipt'[w] = g /\ \A v \in Workers : v # w => receipt'[v] = receipt[v]
    BY <1>3, <2>2
  <2>6. CASE q # o
    <3>1. gateway'[o] = gateway[o]
      BY <2>2, <2>6, CreatesMoves
    <3>2. QED
      BY <1>2, <2>1, <2>3, <2>4, <2>5, <2>6, <3>1, PayingSame, ClaimKept
  <2>7. CASE q = o
    <3>1. Claims(w, o)
      BY <2>1, <2>3, <2>7 DEF Claims, Claiming
    <3>2. row[o].status = "dispatching" /\ row[o].gateway = 0 /\ Paying(o)' \subseteq {g}
      BY <1>2, <2>2, <2>3, <2>7, <3>1, PayingGrows DEF ClaimOK
    <3>3. \A v \in Workers : Claims(v, o)' => v = w
      BY <1>2, <2>4, <3>1 DEF ClaimOK, Claims
    <3>4. ASSUME NEW v \in Workers, Polls(v, o)' PROVE snap'[v].gateway # receipt'[w]
      <4>1. v # w /\ Polls(v, o) /\ snap'[v] = snap[v]
        BY <2>4, <3>4 DEF Polls
      <4>2. gateway[o][snap[v].gateway] # "none"
        BY <4>1 DEF Polls, ReadInv, Reads
      <4>3. QED
        BY <2>2, <2>5, <2>7, <4>1, <4>2, CreatesMoves
    <3>5. QED
      BY <2>3, <2>4, <2>5, <3>2, <3>3, <3>4 DEF ClaimOK
  <2>8. QED
    BY <2>6, <2>7
<1>14. ASSUME NEW w \in Workers, Unclaim(w) PROVE ClaimOK(o)'
  <2>1. PICK q \in Orders : q = cur[w]
    BY <1>14 DEF Unclaim
  <2>2. pc[w] = "unclaim" /\ Done(w) /\ UNCHANGED <<gateway, unheard, receipt>>
    BY <1>14 DEF Unclaim, DispatchFails, Rest, ghosts
  <2>3. CASE row'[o] = row[o]
    BY <1>5, <2>2, <2>3, PayingSame
  <2>4. CASE row'[o] # row[o]
    <3>1. /\ q = o /\ row' = [row EXCEPT ![o] = [row[o] EXCEPT !.status = "bridged"]]
          /\ row[o].gateway = 0
      BY <1>14, <2>1, <2>4 DEF Unclaim, Cas
    <3>2. row'[o].status = "bridged" /\ row'[o].gateway = 0
      BY <3>1 DEF RowRec
    <3>3. Claims(w, o) /\ Paying(o)' = {}
      BY <1>2, <2>1, <2>2, <3>1, PayingSame DEF Claims, Claiming, ClaimOK
    <3>4. pc'[w] = "idle" /\ \A v \in Workers : v # w => pc'[v] = pc[v] /\ cur'[v] = cur[v]
      BY <2>2, DoneType
    <3>5. QED
      BY <1>2, <3>2, <3>3, <3>4, ClaimEnds
  <2>5. QED
    BY <2>3, <2>4
<1>15. ASSUME NEW w \in Workers, PersistGatewayId(w) PROVE ClaimOK(o)'
  <2>1. PICK q \in Orders : q = cur[w]
    BY <1>15 DEF PersistGatewayId
  <2>2. /\ pc[w] = "persist" /\ Done(w) /\ UNCHANGED <<gateway, unheard>>
        /\ receipt' = [receipt EXCEPT ![w] = 0]
    BY <1>15 DEF PersistGatewayId, DispatchSucceeds, DispatchFails, ghosts
  <2>3. \A v \in Workers : v # w => receipt'[v] = receipt[v]
    BY <1>3, <2>2
  <2>4. CASE row'[o] = row[o]
    BY <1>5, <2>2, <2>3, <2>4, PayingSame
  <2>5. CASE row'[o] # row[o]
    <3>1. q = o /\ row' = [row EXCEPT ![o] = [row[o] EXCEPT !.gateway = receipt[w]]]
      BY <1>15, <2>1, <2>5 DEF PersistGatewayId, Cas
    <3>2. Claims(w, o) /\ row[o].status = "dispatching" /\ Paying(o)' \subseteq {receipt[w]}
      BY <1>2, <2>1, <2>2, <3>1, PayingSame DEF Claims, Claiming, ClaimOK
    <3>3. row'[o].status = "dispatching" /\ row'[o].gateway = receipt[w]
      BY <3>1, <3>2 DEF RowRec
    <3>4. pc'[w] = "idle" /\ \A v \in Workers : v # w => pc'[v] = pc[v] /\ cur'[v] = cur[v]
      BY <2>2, DoneType
    <3>5. QED
      BY <1>2, <3>2, <3>3, <3>4, ClaimEnds
  <2>6. QED
    BY <2>4, <2>5
<1>16. ASSUME NEW w \in Workers, PollSettled(w) \/ PollReturned(w) PROVE ClaimOK(o)'
  <2>1. pc[w] = "poll" /\ Go(w, "write") /\ UNCHANGED <<row, gateway, unheard, receipt>>
    BY <1>16 DEF PollSettled, PollReturned, Decide, ghosts
  <2>2. /\ pc'[w] = "write" /\ UNCHANGED <<cur, snap>>
        /\ \A v \in Workers : v # w => pc'[v] = pc[v]
    BY <2>1, GoType
  <2>3. QED
    BY <1>2, <1>4, <2>1, <2>2, ClaimKept
<1>17. ASSUME NEW w \in Workers, WriteOutcome(w) PROVE ClaimOK(o)'
  <2>1. PICK q \in Orders : q = cur[w]
    BY <1>17 DEF WriteOutcome
  <2>2. pc[w] = "write" /\ Done(w) /\ UNCHANGED <<gateway, unheard, receipt>>
    BY <1>17 DEF WriteOutcome
  <2>3. CASE row'[o] = row[o]
    BY <1>5, <2>2, <2>3, PayingSame
  <2>4. CASE row'[o] # row[o]
    <3>1. /\ q = o /\ row[o].status = "dispatching"
          /\ row' = [row EXCEPT ![o] = [row[o] EXCEPT !.status = goal[w],
                                     !.gateway = IF goal[w] = "bridged" THEN 0 ELSE @]]
      BY <1>17, <2>1, <2>4 DEF WriteOutcome, Cas
    <3>2. stale' = IF row[o].gateway # snap[w].gateway THEN stale \cup {o} ELSE stale
      BY <1>17, <2>1, <2>4, <3>1 DEF WriteOutcome
    <3>3. row[o].gateway = snap[w].gateway
      BY <1>1, <3>2
    <3>4. /\ row[o].gateway # 0
          /\ \/ goal[w] = "settled"
             \/ goal[w] \in {"bridged", "refunded"} /\ gateway[o][row[o].gateway] = "returned"
      <4>1. Reads(w) /\ cur[w] = o
        BY <2>1, <3>1 DEF ReadInv
      <4>2. QED
        BY <2>2, <3>3, <4>1 DEF Reads
    <3>5. Paying(o) \subseteq {row[o].gateway} /\ \A v \in Workers : ~Claims(v, o)
      BY <1>2, <3>1, <3>4 DEF ClaimOK
    <3>6. goal[w] \in {"bridged", "refunded"} => Paying(o) = {}
      BY <3>4, <3>5 DEF Paying
    <3>7. /\ row'[o].status = goal[w] /\ Paying(o)' = Paying(o)
          /\ goal[w] = "bridged" => row'[o].gateway = 0
      BY <2>2, <3>1, PayingSame DEF RowRec
    <3>8. \A v \in Workers : ~Claims(v, o)'
      <4>1. pc'[w] = "idle" /\ \A v \in Workers : v # w => pc'[v] = pc[v] /\ cur'[v] = cur[v]
        BY <2>2, DoneType
      <4>2. QED
        BY <3>5, <4>1 DEF Claims, Claiming
    <3>9. QED
      BY <1>2, <3>4, <3>5, <3>6, <3>7, <3>8 DEF ClaimOK
  <2>5. QED
    BY <2>3, <2>4
<1>18. ASSUME NEW w \in Workers, CrashWorker(w) PROVE ClaimOK(o)'
  <2>1. Done(w) /\ UNCHANGED <<row, gateway, unheard>> /\ receipt' = [receipt EXCEPT ![w] = 0]
    BY <1>18 DEF CrashWorker, Crash, ghosts
  <2>2. QED
    BY <1>3, <1>4, <1>5, <2>1
<1>19. ASSUME NEW q \in Orders, NEW g \in GatewayIds, GatewayResolves(q, g) PROVE ClaimOK(o)'
  <2>1. Paying(o)' \subseteq Paying(o) /\ UNCHANGED <<row, pc, cur, snap, receipt>>
    BY <1>19, PayingResolves DEF GatewayResolves, sharedVars
  <2>2. QED
    BY <1>2, <2>1 DEF ClaimOK, Claims, Polls
<1>20. ASSUME UNCHANGED <<row, pc, cur, snap, receipt, gateway, unheard>> PROVE ClaimOK(o)'
  BY <1>2, <1>20 DEF ClaimOK, Claims, Polls, Paying, Known
<1>21. CASE LeaseStep \/ (\E w \in Workers : BeginTick(w)) \/ UNCHANGED vars
  <2>1. UNCHANGED <<row, pc, cur, snap, receipt, gateway, unheard>>
    BY <1>21 DEF LeaseStep, LeaseExpires, EndTick, BeginTick, vars, sharedVars, dispatchVars, ghosts
  <2>2. QED
    BY <1>20, <2>1
<1>22. QED
  BY <1>6, <1>7, <1>8, <1>9, <1>10, <1>11, <1>12, <1>13, <1>14, <1>15, <1>16, <1>17, <1>18,
     <1>19, <1>21 DEF Next, Dispatch, Poll

\* Of an order that nobody holds a stale outcome of, at most one order on Base may pay, however
\* ticks overlap, workers crash and receipts are lost (dispatchLP, Unclaim, advanceDispatching).
THEOREM OnePayoutHolds == Spec => []OnePayout
<1>1. ClaimInv => OnePayout
  BY DEF ClaimInv, ClaimOK, OnePayout
<1>2. QED
  BY <1>1, TypeInit, TypeStep, ReadInit, ReadStep, ClaimInit, ClaimStep, PTL DEF Spec

\* A bridged row owes its whole payout: no order known on Base can still pay for it (dispatchLP).
THEOREM BridgedOwesAllHolds == Spec => []BridgedOwesAll
<1>1. ClaimInv => BridgedOwesAll
  BY DEF ClaimInv, ClaimOK, BridgedOwesAll
<1>2. QED
  BY <1>1, TypeInit, TypeStep, ReadInit, ReadStep, ClaimInit, ClaimStep, PTL DEF Spec

-----------------------------------------------------------------------------
(***************************************************************************)
(* A dispatcher alone, as long as no tick has overlapped another: what it  *)
(* fetched is what the row still says, no order goes stale, and a refund   *)
(* told to the PaymentOrder is one the attempts counted bear out, also     *)
(* when the row's own write failed after it.                               *)
(***************************************************************************)
Alone(w) ==
    /\ pc[w] \in {"dispatch", "prepare"} => row[cur[w]].status = "bridged"
    /\ pc[w] \in {"poll", "write"} => /\ row[cur[w]].status = "dispatching"
                                      /\ row[cur[w]].gateway = snap[w].gateway
    /\ pc[w] = "write" /\ goal[w] = "bridged" /\ lost = 0 => started[cur[w]] < MaxAttempts

ToldOK(o) ==
    told[o] = "refunded" /\ lost = 0 =>
        /\ Paying(o) = {}
        /\ started[o] >= MaxAttempts
        /\ \/ row[o].status = "refunded"
           \/ /\ row[o].status = "dispatching" /\ row[o].gateway # 0
              /\ gateway[o][row[o].gateway] = "returned"

AloneInv ==
    ~overlapped => /\ stale = {}
                   /\ \A v, w \in ticking : v = w
                   /\ \A w \in Workers : Alone(w)
                   /\ \A o \in Orders : ToldOK(o)

LEMMA AloneInit == Init => AloneInv
<1> SUFFICES ASSUME Init PROVE AloneInv
  OBVIOUS
<1>1. (\A w \in Workers : Alone(w)) /\ (\A o \in Orders : ToldOK(o))
  BY DEF Init, Alone, ToldOK
<1>2. stale = {} /\ ticking = {}
  BY DEF Init
<1>3. QED
  BY <1>1, <1>2 DEF AloneInv

\* A row left alone keeps what was told of it; so does one of which nothing was told.
LEMMA ToldKept ==
    ASSUME TInv, TInv', [Next]_vars, NEW o \in Orders, ToldOK(o), told'[o] = told[o],
           lost <= lost',
           \/ /\ row'[o] = row[o] /\ Paying(o)' \subseteq Paying(o)
              /\ started[o] <= started'[o]
           \/ row[o].status = "bridged"
           \/ row[o].status = "dispatching" /\ row[o].gateway = 0
    PROVE  ToldOK(o)'
<1>1. /\ lost \in Nat /\ lost' \in Nat /\ started[o] \in Nat /\ started'[o] \in Nat
      /\ MaxAttempts \in Nat
  BY DispatchAssumption DEF TInv, TypeOK
<1>2. SUFFICES ASSUME told'[o] = "refunded", lost' = 0 PROVE ToldOK(o)'
  BY DEF ToldOK
<1>3. /\ Paying(o) = {} /\ started[o] >= MaxAttempts
      /\ \/ row[o].status = "refunded"
         \/ /\ row[o].status = "dispatching" /\ row[o].gateway # 0
            /\ gateway[o][row[o].gateway] = "returned"
  BY <1>1, <1>2 DEF ToldOK
<1>4. row'[o] = row[o] /\ Paying(o)' = {} /\ started'[o] >= MaxAttempts
  BY <1>1, <1>3
<1>5. row[o].gateway \in GatewayIds \cup {0}
  BY TInvFacts DEF RowRec
<1>6. gateway[o][row[o].gateway] = "returned" /\ row[o].gateway # 0
          => gateway'[o][row[o].gateway] = "returned"
  BY <1>5, GatewayMoves DEF Moves
<1>7. QED
  BY <1>3, <1>4, <1>6 DEF ToldOK

\* It is enough to look at the one dispatcher in a tick.
LEMMA AloneAssemble ==
    ASSUME TInv, AloneInv, ~overlapped, UNCHANGED overlapped, UNCHANGED stale,
           ticking' \subseteq ticking, NEW w \in Workers, w \in ticking,
           \A v \in Workers : v # w => pc'[v] = pc[v],
           Alone(w)', \A o \in Orders : ToldOK(o)'
    PROVE  AloneInv'
<1>1. \A v \in Workers : v # w => pc'[v] = "idle"
  BY TInvFacts DEF AloneInv
<1>2. \A v \in Workers : v # w => Alone(v)'
  BY <1>1 DEF Alone
<1>3. QED
  BY <1>2 DEF AloneInv

\* A handler that ends without having changed an order.
LEMMA AloneDone ==
    ASSUME TInv, AloneInv, ~overlapped, UNCHANGED overlapped, UNCHANGED stale,
           ticking' \subseteq ticking, NEW w \in Workers, w \in ticking, Done(w),
           \A o \in Orders : ToldOK(o)'
    PROVE  AloneInv'
<1>1. pc'[w] = "idle" /\ \A v \in Workers : v # w => pc'[v] = pc[v]
  BY TInvFacts, DoneType
<1>2. Alone(w)'
  BY <1>1 DEF Alone
<1>3. QED
  BY <1>1, <1>2, AloneAssemble

LEMMA AloneStep ==
    ASSUME TInv, ReadInv, ClaimInv, AloneInv, [Next]_vars
    PROVE  AloneInv'
<1> TInv'
  BY TypeStep
<1>1. SUFFICES ASSUME ~overlapped' PROVE AloneInv'
  BY DEF AloneInv
<1>2. overlapped => overlapped'
  BY DEF Next, BeginTick, Dispatch, FetchBridged, BeginDispatch, PrepareFails, ClaimDispatch,
         CreateNotSubmitted, CreateAmbiguous, CreateReturns, Unclaim, PersistGatewayId, Poll,
         FetchDispatching, PollNothing, PollSettled, PollReturned, WriteOutcome, CrashWorker,
         LeaseStep, GatewayResolves, vars, dispatchVars, ghosts
<1>3. /\ ~overlapped /\ stale = {}
      /\ \A v, w \in ticking : v = w
      /\ \A w \in Workers : Alone(w)
      /\ \A q \in Orders : ToldOK(q) /\ ClaimOK(q)
  BY <1>1, <1>2 DEF AloneInv, ClaimInv
<1> USE TInvFacts, Members
<1>4. /\ lost \in Nat /\ MaxAttempts \in Nat /\ started \in [Orders -> 0 .. MaxAttempts + MaxLosses]
      /\ MaxLosses \in Nat /\ told \in [Orders -> ToldStatuses] /\ goal \in [Workers -> Statuses]
  BY DispatchAssumption DEF TInv, TypeOK
\* What is told of an order stays true while the order is left alone.
<1>5. ASSUME NEW q \in Orders, UNCHANGED <<gateway, unheard, lost, started>>,
             told'[q] = told[q], row'[q] = row[q]
      PROVE  ToldOK(q)'
  BY <1>3, <1>4, <1>5, PayingSame, ToldKept
<1>6. ASSUME NEW w \in Workers, NEW o \in Orders, FetchBridged(w, o) \/ FetchDispatching(w, o)
      PROVE  AloneInv'
  <2>1. UNCHANGED <<row, told, gateway, unheard, lost, started, goal, stale, overlapped, ticking>>
    BY <1>6 DEF FetchBridged, FetchDispatching, dispatchVars, ghosts, Frame
  <2>2. /\ w \in ticking /\ cur'[w] = o /\ snap'[w] = row[o]
        /\ \A v \in Workers : v # w => pc'[v] = pc[v]
        /\ pc'[w] \in {"dispatch", "poll"}
        /\ pc'[w] = "dispatch" => row[o].status = "bridged"
        /\ pc'[w] = "poll" => row[o].status = "dispatching"
    <3>1. CASE FetchBridged(w, o)
      <4>1. Fetch(w, o, "dispatch") /\ "dispatch" \in Steps /\ row[o].status = "bridged"
        BY <3>1 DEF FetchBridged
      <4>2. QED
        BY <4>1, FetchType
    <3>2. CASE FetchDispatching(w, o)
      <4>1. Fetch(w, o, "poll") /\ "poll" \in Steps /\ row[o].status = "dispatching"
        BY <3>2 DEF FetchDispatching
      <4>2. QED
        BY <4>1, FetchType
    <3>3. QED
      BY <1>6, <3>1, <3>2
  <2>3. Alone(w)'
    BY <2>1, <2>2 DEF Alone
  <2>4. QED
    BY <1>3, <1>5, <2>1, <2>2, <2>3, AloneAssemble
<1>7. ASSUME NEW w \in Workers, BeginDispatch(w) PROVE AloneInv'
  <2>1. PICK o \in Orders : o = cur[w]
    BY <1>7 DEF BeginDispatch
  <2>2. /\ pc[w] = "dispatch" /\ Go(w, "prepare")
        /\ UNCHANGED <<row, told, gateway, unheard, goal, stale, overlapped, ticking>>
    BY <1>7 DEF BeginDispatch, ghosts, Frame
  <2>3. /\ w \in ticking /\ pc'[w] = "prepare" /\ UNCHANGED <<cur, snap>>
        /\ \A v \in Workers : v # w => pc'[v] = pc[v]
    BY <2>2, GoType
  <2>4. lost <= lost' /\ \A q \in Orders : started[q] <= started'[q]
    BY <1>4, <1>7 DEF BeginDispatch, Record
  <2>5. \A q \in Orders : ToldOK(q)'
    BY <1>3, <2>2, <2>4, PayingSame, ToldKept
  <2>6. Alone(w)'
    BY <1>3, <2>1, <2>2, <2>3 DEF Alone
  <2>7. QED
    BY <1>3, <2>2, <2>3, <2>5, <2>6, AloneAssemble
<1>8. ASSUME NEW w \in Workers, PrepareFails(w) \/ PollNothing(w) PROVE AloneInv'
  <2>1. /\ Done(w) /\ w \in ticking
        /\ UNCHANGED <<row, told, gateway, unheard, lost, started, stale, overlapped, ticking>>
    BY <1>8 DEF PrepareFails, PollNothing, DispatchFails, Rest, dispatchVars, ghosts, Frame
  <2>2. QED
    BY <1>3, <1>5, <2>1, AloneDone
<1>9. ASSUME NEW w \in Workers, ClaimDispatch(w) PROVE AloneInv'
  <2>1. PICK o \in Orders : o = cur[w]
    BY <1>9 DEF ClaimDispatch
  <2>2. /\ pc[w] = "prepare" /\ w \in ticking /\ row[o].status = "bridged"
        /\ UNCHANGED <<told, gateway, unheard, lost, started, stale, overlapped, ticking>>
    BY <1>3, <1>9, <2>1 DEF ClaimDispatch, Rest, ghosts, Frame, Alone
  <2>3. Go(w, "create") /\ row' = [row EXCEPT ![o] = [row[o] EXCEPT !.status = "dispatching"]]
    BY <1>9, <2>1, <2>2 DEF ClaimDispatch, Cas
  <2>4. pc'[w] = "create" /\ \A v \in Workers : v # w => pc'[v] = pc[v]
    BY <2>3, GoType
  <2>5. ASSUME NEW q \in Orders PROVE ToldOK(q)'
    <3>1. CASE q = o
      BY <1>3, <1>4, <2>2, <3>1, ToldKept
    <3>2. CASE q # o
      BY <1>5, <2>2, <2>3, <3>2
    <3>3. QED
      BY <3>1, <3>2
  <2>6. Alone(w)'
    BY <2>4 DEF Alone
  <2>7. QED
    BY <1>3, <2>2, <2>4, <2>5, <2>6, AloneAssemble
<1>10. ASSUME NEW w \in Workers, CreateNotSubmitted(w) PROVE AloneInv'
  <2>1. /\ pc[w] = "create" /\ Go(w, "unclaim") /\ w \in ticking
        /\ UNCHANGED <<row, told, lost, started, stale, overlapped, ticking>>
    BY <1>10 DEF CreateNotSubmitted, Rest, Frame
  <2>2. pc'[w] = "unclaim" /\ \A v \in Workers : v # w => pc'[v] = pc[v]
    BY <2>1, GoType
  <2>3. \A q \in Orders : ToldOK(q)'
    BY <1>3, <1>4, <1>10, <2>1, PayingUnheard, ToldKept
  <2>4. Alone(w)'
    BY <2>2 DEF Alone
  <2>5. QED
    BY <1>3, <2>1, <2>2, <2>3, <2>4, AloneAssemble
<1>11. ASSUME NEW w \in Workers, CreateAmbiguous(w) \/ CreateReturns(w) PROVE AloneInv'
  <2>1. PICK o \in Orders : o = cur[w]
    BY <1>11 DEF CreateAmbiguous, CreateReturns
  <2>2. /\ pc[w] = "create" /\ w \in ticking
        /\ UNCHANGED <<row, told, unheard, lost, started, stale, overlapped, ticking>>
    BY <1>11 DEF CreateAmbiguous, CreateReturns, DispatchFails, Rest, ghosts, Frame
  <2>3. /\ pc'[w] \in {"idle", "persist"} /\ \A v \in Workers : v # w => pc'[v] = pc[v]
    BY <1>11, DoneType, GoType DEF CreateAmbiguous, CreateReturns, DispatchFails
  <2>4. row[o].status = "dispatching" /\ row[o].gateway = 0
    BY <1>3, <2>1, <2>2 DEF ClaimOK, Claims, Claiming
  <2>5. ASSUME NEW q \in Orders PROVE ToldOK(q)'
    <3>1. CASE q = o
      BY <1>3, <1>4, <2>2, <2>4, <3>1, ToldKept
    <3>2. CASE q # o
      <4>1. gateway'[q] = gateway[q]
        BY <1>11, <2>1, <3>2, CreatesMoves DEF CreateAmbiguous, CreateReturns
      <4>2. QED
        BY <1>3, <1>4, <2>2, <4>1, PayingSame, ToldKept
    <3>3. QED
      BY <3>1, <3>2
  <2>6. Alone(w)'
    BY <2>3 DEF Alone
  <2>7. QED
    BY <1>3, <2>2, <2>3, <2>5, <2>6, AloneAssemble
\* The row is written by the worker that holds the claim: nothing was told of it.
<1>12. ASSUME NEW w \in Workers, Unclaim(w) \/ PersistGatewayId(w) PROVE AloneInv'
  <2>1. PICK o \in Orders : o = cur[w]
    BY <1>12 DEF Unclaim, PersistGatewayId
  <2>2. /\ pc[w] \in {"unclaim", "persist"} /\ w \in ticking /\ Done(w)
        /\ UNCHANGED <<told, gateway, unheard, lost, started, stale, overlapped, ticking>>
    BY <1>12 DEF Unclaim, PersistGatewayId, DispatchFails, DispatchSucceeds, Rest, ghosts, Frame
  <2>3. row[o].status = "dispatching" /\ row[o].gateway = 0
    BY <1>3, <2>1, <2>2 DEF ClaimOK, Claims, Claiming
  <2>4. \A q \in Orders : q # o => row'[q] = row[q]
    BY <1>12, <2>1 DEF Unclaim, PersistGatewayId, Cas
  <2>5. ASSUME NEW q \in Orders PROVE ToldOK(q)'
    <3>1. CASE q = o
      BY <1>3, <1>4, <2>2, <2>3, <3>1, ToldKept
    <3>2. CASE q # o
      BY <1>5, <2>2, <2>4, <3>2
    <3>3. QED
      BY <3>1, <3>2
  <2>6. QED
    BY <1>3, <2>2, <2>5, AloneDone
<1>13. ASSUME NEW w \in Workers, PollSettled(w) \/ PollReturned(w) PROVE AloneInv'
  <2>1. PICK o \in Orders : o = cur[w]
    BY <1>13 DEF PollSettled, PollReturned
  <2>2. /\ pc[w] = "poll" /\ w \in ticking /\ Go(w, "write")
        /\ UNCHANGED <<row, gateway, unheard, started, stale, overlapped, ticking>>
    BY <1>13 DEF PollSettled, PollReturned, Decide, ghosts, Frame
  <2>3. /\ pc'[w] = "write" /\ UNCHANGED <<cur, snap>>
        /\ \A v \in Workers : v # w => pc'[v] = pc[v]
    BY <2>2, GoType
  <2>4. /\ row[o].status = "dispatching" /\ row[o].gateway = snap[w].gateway
        /\ row[o].gateway # 0
    BY <1>3, <2>1, <2>2 DEF Alone, ReadInv, Reads
  <2>5. /\ lost <= lost' /\ \A q \in Orders : q # o => told'[q] = told[q]
        /\ \/ goal'[w] = "settled" /\ told'[o] \in {"settled", told[o]} /\ lost' = lost
           \/ /\ goal'[w] = "bridged" /\ told'[o] = told[o]
              /\ lost' = lost + 1 \/ started[o] < MaxAttempts
           \/ /\ goal'[w] = "refunded" /\ told'[o] \in {"refunded", told[o]} /\ lost' = lost
              /\ ~(started[o] < MaxAttempts) /\ gateway[o][row[o].gateway] = "returned"
    BY <1>4, <1>13, <2>1, <2>4 DEF PollSettled, PollReturned, Decide
  <2>6. ASSUME NEW q \in Orders, told'[q] = told[q] PROVE ToldOK(q)'
    BY <1>3, <1>4, <2>2, <2>5, <2>6, PayingSame, ToldKept
  <2>7. ASSUME told'[o] # told[o] PROVE ToldOK(o)'
    <3>1. CASE told'[o] = "settled"
      BY <3>1 DEF ToldOK
    <3>2. CASE told'[o] # "settled"
      <4>1. ~(started[o] < MaxAttempts) /\ gateway[o][row[o].gateway] = "returned"
        BY <2>5, <2>7, <3>2
      <4>2. Paying(o) = {}
        BY <1>3, <2>4, <4>1 DEF ClaimOK, Paying
      <4>3. Paying(o)' = {} /\ started'[o] >= MaxAttempts
        BY <1>4, <2>2, <4>1, <4>2, PayingSame
      <4>4. QED
        BY <2>2, <2>4, <4>1, <4>3 DEF ToldOK
    <3>3. QED
      BY <3>1, <3>2
  <2>8. \A q \in Orders : ToldOK(q)'
    BY <2>5, <2>6, <2>7
  <2>9. Alone(w)'
    BY <1>4, <2>1, <2>2, <2>3, <2>4, <2>5 DEF Alone
  <2>10. QED
    BY <1>3, <2>2, <2>3, <2>8, <2>9, AloneAssemble
<1>14. ASSUME NEW w \in Workers, WriteOutcome(w) PROVE AloneInv'
  <2>1. PICK o \in Orders : o = cur[w]
    BY <1>14 DEF WriteOutcome
  <2>2. /\ pc[w] = "write" /\ w \in ticking /\ Done(w)
        /\ UNCHANGED <<told, gateway, unheard, lost, started, overlapped, ticking>>
    BY <1>14 DEF WriteOutcome, Frame
  <2>3. /\ row[o].status = "dispatching" /\ row[o].gateway = snap[w].gateway
        /\ goal[w] = "bridged" /\ lost = 0 => started[o] < MaxAttempts
    <3>1. Alone(w)
      BY <1>3
    <3>2. row[o].status = "dispatching" /\ row[o].gateway = snap[w].gateway
      BY <2>1, <2>2, <3>1 DEF Alone
    <3>3. goal[w] = "bridged" /\ lost = 0 => started[o] < MaxAttempts
      BY <2>1, <2>2, <3>1 DEF Alone
    <3>4. QED
      BY <3>2, <3>3
  <2>4. UNCHANGED stale
    BY <1>14, <2>1, <2>3 DEF WriteOutcome
  <2>5. \A q \in Orders : q # o => ToldOK(q)'
    <3>1. \A q \in Orders : q # o => row'[q] = row[q]
      BY <1>14, <2>1 DEF WriteOutcome, Cas
    <3>2. QED
      BY <1>5, <2>2, <3>1
  <2>6. ToldOK(o)'
    <3>1. CASE row'[o] = row[o]
      BY <1>5, <2>2, <3>1
    <3>2. CASE row'[o] # row[o]
      <4>1. row' = [row EXCEPT ![o] = [row[o] EXCEPT !.status = goal[w],
                                 !.gateway = IF goal[w] = "bridged" THEN 0 ELSE @]]
        BY <1>14, <2>1, <3>2 DEF WriteOutcome, Cas
      <4>2. row'[o].status = goal[w]
        BY <4>1 DEF RowRec
      <4>3. SUFFICES ASSUME told[o] = "refunded", lost = 0 PROVE ToldOK(o)'
        BY <2>2 DEF ToldOK
      <4>4. /\ Paying(o) = {} /\ started[o] >= MaxAttempts
            /\ gateway[o][snap[w].gateway] = "returned"
        BY <1>3, <2>3, <4>3 DEF ToldOK
      <4>5. Reads(w) /\ cur[w] = o /\ ~(started[o] < MaxAttempts)
        BY <1>4, <2>1, <4>4 DEF ReadInv
      <4>6. goal[w] = "refunded"
        BY <2>2, <2>3, <4>3, <4>4, <4>5 DEF Reads
      <4>7. QED
        BY <2>2, <4>2, <4>4, <4>6, PayingSame DEF ToldOK
    <3>3. QED
      BY <3>1, <3>2
  <2>7. QED
    BY <1>3, <2>2, <2>4, <2>5, <2>6, AloneDone
<1>15. ASSUME NEW w \in Workers, BeginTick(w) PROVE AloneInv'
  <2>1. /\ ticking = {} /\ ticking' = {w}
        /\ UNCHANGED <<row, pc, cur, snap, goal, started, lost, told, gateway, unheard, stale>>
    BY <1>1, <1>15 DEF BeginTick
  <2>2. \A q \in Orders : ToldOK(q)'
    BY <1>5, <2>1
  <2>3. \A v \in Workers : pc'[v] = "idle"
    BY <2>1
  <2>4. \A v \in Workers : Alone(v)'
    BY <2>3 DEF Alone
  <2>5. QED
    BY <1>3, <2>1, <2>2, <2>4 DEF AloneInv
<1>16. ASSUME NEW w \in Workers, CrashWorker(w) PROVE AloneInv'
  <2>1. /\ Done(w) /\ ticking' = ticking \ {w}
        /\ UNCHANGED <<row, told, gateway, unheard, lost, started, stale, overlapped>>
    BY <1>16 DEF CrashWorker, Crash, ghosts
  <2>2. \A q \in Orders : ToldOK(q)'
    BY <1>5, <2>1
  <2>3. CASE w \in ticking
    BY <1>3, <2>1, <2>2, <2>3, AloneDone
  <2>4. CASE w \notin ticking
    <3>1. /\ pc'[w] = "idle"
          /\ \A v \in Workers : v # w => pc'[v] = pc[v] /\ cur'[v] = cur[v] /\ snap'[v] = snap[v]
                                         /\ goal'[v] = goal[v]
      BY <1>4, <1>16, <2>1, DoneType DEF CrashWorker
    <3>2. ASSUME NEW v \in Workers PROVE Alone(v)'
      <4>1. CASE v = w
        BY <3>1, <4>1 DEF Alone
      <4>2. CASE v # w
        BY <1>3, <2>1, <3>1, <4>2 DEF Alone
      <4>3. QED
        BY <4>1, <4>2
    <3>3. QED
      BY <1>3, <2>1, <2>2, <3>2 DEF AloneInv
  <2>5. QED
    BY <2>3, <2>4
<1>17. ASSUME UNCHANGED <<row, pc, cur, snap, goal, started, lost, stale, overlapped>>,
              ticking' \subseteq ticking, \A q \in Orders : ToldOK(q)'
       PROVE  AloneInv'
  <2>1. \A v \in Workers : Alone(v)'
    BY <1>3, <1>17 DEF Alone
  <2>2. QED
    BY <1>3, <1>17, <2>1 DEF AloneInv
<1>18. ASSUME NEW q \in Orders, NEW g \in GatewayIds, GatewayResolves(q, g) PROVE AloneInv'
  <2>1. UNCHANGED <<row, pc, cur, snap, goal, started, lost, told, stale, overlapped, ticking>>
    BY <1>18 DEF GatewayResolves, sharedVars, ghosts
  <2>2. \A p \in Orders : ToldOK(p)'
    BY <1>3, <1>4, <1>18, <2>1, PayingResolves, ToldKept
  <2>3. QED
    BY <1>17, <2>1, <2>2
<1>19. CASE LeaseStep \/ UNCHANGED vars
  <2>1. /\ UNCHANGED <<row, pc, cur, snap, goal, started, lost, told, gateway, unheard>>
        /\ UNCHANGED <<stale, overlapped>> /\ ticking' \subseteq ticking
    BY <1>19 DEF LeaseStep, LeaseExpires, EndTick, vars, sharedVars, dispatchVars, ghosts
  <2>2. QED
    BY <1>5, <1>17, <2>1
<1>20. QED
  BY <1>6, <1>7, <1>8, <1>9, <1>10, <1>11, <1>12, <1>13, <1>14, <1>15, <1>16, <1>18, <1>19
  DEF Next, Dispatch, Poll

\* Settled is said only of a paid order, whichever tick says it, and refunded only of one that
\* nothing known on Base can pay (advanceDispatching, the PaymentOrder it writes first).
THEOREM OutcomeIsTrueHolds == Spec => []OutcomeIsTrue
<1>1. ReadInv /\ ClaimInv /\ AloneInv => OutcomeIsTrue
  BY DEF ReadInv, Recorded, ClaimInv, ClaimOK, AloneInv, ToldOK, OutcomeIsTrue
<1>2. QED
  BY <1>1, TypeInit, TypeStep, ReadInit, ReadStep, ClaimInit, ClaimStep, AloneInit, AloneStep, PTL
  DEF Spec

-----------------------------------------------------------------------------
(***************************************************************************)
(* How rows end.                                                           *)
(***************************************************************************)
LEMMA RowsEnd ==
    ASSUME TInv, ReadInv, ClaimInv, [Next]_vars, NEW o \in Orders, o \notin stale'
    PROVE  /\ row[o].gateway # 0 /\ row'[o].gateway # row[o].gateway =>
                 gateway[o][row[o].gateway] = "returned"
           /\ row[o].status # "settled" /\ row'[o].status = "settled" =>
                 row[o].gateway # 0 /\ gateway[o][row[o].gateway] = "settled"
           /\ row[o].status \in Terminal => row'[o] = row[o]
<1> DEFINE Good == /\ row[o].gateway # 0 /\ row'[o].gateway # row[o].gateway =>
                          gateway[o][row[o].gateway] = "returned"
                   /\ row[o].status # "settled" /\ row'[o].status = "settled" =>
                          row[o].gateway # 0 /\ gateway[o][row[o].gateway] = "settled"
                   /\ row[o].status \in Terminal => row'[o] = row[o]
<1> USE TInvFacts
<1>1. ASSUME row'[o] = row[o] PROVE Good
  BY <1>1
<1>2. o \notin stale => ClaimOK(o)
  BY DEF ClaimInv
<1> HIDE DEF Good
<1>3. ASSUME NEW w \in Workers, ClaimDispatch(w) PROVE Good
  <2>1. CASE row'[o] # row[o]
    <3>1. /\ row[o].status = "bridged"
          /\ row' = [row EXCEPT ![o] = [row[o] EXCEPT !.status = "dispatching"]]
      BY <1>3, <2>1 DEF ClaimDispatch, Cas
    <3>2. row'[o].status = "dispatching" /\ row'[o].gateway = row[o].gateway
      BY <3>1 DEF RowRec
    <3>3. QED
      BY <3>1, <3>2 DEF Good, Terminal
  <2>2. QED
    BY <1>1, <2>1
<1>4. ASSUME NEW w \in Workers, Unclaim(w) PROVE Good
  <2>1. CASE row'[o] # row[o]
    <3>1. /\ row[o].status = "dispatching"
          /\ row' = [row EXCEPT ![o] = [row[o] EXCEPT !.status = "bridged"]]
      BY <1>4, <2>1 DEF Unclaim, Cas
    <3>2. row'[o].status = "bridged" /\ row'[o].gateway = row[o].gateway
      BY <3>1 DEF RowRec
    <3>3. QED
      BY <3>1, <3>2 DEF Good, Terminal
  <2>2. QED
    BY <1>1, <2>1
<1>5. ASSUME NEW w \in Workers, PersistGatewayId(w) PROVE Good
  <2>1. CASE row'[o] # row[o]
    <3>1. /\ row[o].status = "dispatching" /\ cur[w] = o /\ pc[w] = "persist"
          /\ row' = [row EXCEPT ![o] = [row[o] EXCEPT !.gateway = receipt[w]]]
      BY <1>5, <2>1 DEF PersistGatewayId, Cas
    <3>2. row'[o].status = "dispatching"
      BY <3>1 DEF RowRec
    <3>3. o \notin stale /\ row[o].gateway = 0
      BY <1>2, <1>5, <3>1 DEF PersistGatewayId, ghosts, ClaimOK, Claims, Claiming
    <3>4. QED
      BY <3>1, <3>2, <3>3 DEF Good, Terminal
  <2>2. QED
    BY <1>1, <2>1
<1>6. ASSUME NEW w \in Workers, WriteOutcome(w) PROVE Good
  <2>1. CASE row'[o] # row[o]
    <3>1. /\ row[o].status = "dispatching" /\ cur[w] = o /\ pc[w] = "write"
          /\ row' = [row EXCEPT ![o] = [row[o] EXCEPT !.status = goal[w],
                                     !.gateway = IF goal[w] = "bridged" THEN 0 ELSE @]]
      BY <1>6, <2>1 DEF WriteOutcome, Cas
    <3>2. stale' = IF row[o].gateway # snap[w].gateway THEN stale \cup {o} ELSE stale
      BY <1>6, <2>1, <3>1 DEF WriteOutcome
    <3>3. row[o].gateway = snap[w].gateway
      BY <3>2
    <3>4. Reads(w)
      BY DEF ReadInv
    <3>5. /\ row[o].gateway # 0
          /\ \/ goal[w] = "settled" /\ gateway[o][row[o].gateway] = "settled"
             \/ goal[w] \in {"bridged", "refunded"} /\ gateway[o][row[o].gateway] = "returned"
      BY <3>1, <3>3, <3>4 DEF Reads
    <3>6. /\ row'[o].status = goal[w]
          /\ row'[o].gateway = IF goal[w] = "bridged" THEN 0 ELSE row[o].gateway
      BY <3>1 DEF RowRec
    <3>7. QED
      BY <3>1, <3>5, <3>6 DEF Good, Terminal
  <2>2. QED
    BY <1>1, <2>1
<1>7. ASSUME UNCHANGED row PROVE Good
  BY <1>1, <1>7
<1>8. Good
  BY <1>3, <1>4, <1>5, <1>6, <1>7
  DEF Next, BeginTick, Dispatch, FetchBridged, BeginDispatch, PrepareFails, CreateNotSubmitted,
      CreateAmbiguous, CreateReturns, Poll, FetchDispatching, PollNothing, PollSettled,
      PollReturned, CrashWorker, Crash, LeaseStep, LeaseExpires, EndTick, GatewayResolves, vars,
      sharedVars
<1>9. QED
  BY <1>8 DEF Good

\* An id leaves a row, and a row ends, only by what became of the order it names, but for the write
\* that makes an order stale (WriteOutcome's guard on the status alone).
THEOREM EndedByItsOrderHolds == Spec => EndedByItsOrder
<1>1. TInv /\ ReadInv /\ ClaimInv /\ [Next]_vars =>
          [\A o \in Orders \ stale' :
             /\ row[o].gateway # 0 /\ row'[o].gateway # row[o].gateway =>
                   gateway[o][row[o].gateway] = "returned"
             /\ row[o].status # "settled" /\ row'[o].status = "settled" =>
                   row[o].gateway # 0 /\ gateway[o][row[o].gateway] = "settled"
             /\ row[o].status \in Terminal => row'[o] = row[o]]_vars
  BY RowsEnd
<1>2. QED
  BY <1>1, TypeInit, TypeStep, ReadInit, ReadStep, ClaimInit, ClaimStep, PTL
  DEF Spec, EndedByItsOrder

-----------------------------------------------------------------------------
(***************************************************************************)
(* The cap.  Attempts that ended with nil are reset; of every other one    *)
(* the counters keep track, and pay for what a lost row id may create in   *)
(* advance: Unspent is the set of those, counted as elements.              *)
(***************************************************************************)
Unspent(o) == { t \in Workers \X (1 .. SampledFully) : t[2] <= tried[t[1]][o] }

CapReached(o) == started[o] = MaxAttempts + MaxLosses

\* An event, or a loss, for every order created and for every attempt not reset.
Covered(o) ==
    CapReached(o) \/ Cardinality(Created(o)) + Cardinality(Unspent(o)) <= started[o] + lost

\* ... but for the order that the claimer's attempt has just created.
OneOver(o) ==
    CapReached(o) \/ Cardinality(Created(o)) + Cardinality(Unspent(o)) <= started[o] + lost + 1

MayCreate(o) == Cardinality(Created(o)) < MaxAttempts + lost

Counted(o) == /\ Cardinality(Created(o)) <= started[o] + lost
              /\ Cardinality(Created(o)) <= MaxAttempts + lost

Trying(w, o)    == pc[w] \in {"prepare", "create", "unclaim", "persist"} /\ cur[w] = o
MaySubmit(w, o) == pc[w] \in {"create", "unclaim"} /\ cur[w] = o
Persists(w, o)  == pc[w] = "persist" /\ cur[w] = o
TakesBack(w, o) == /\ pc[w] = "write" /\ goal[w] = "bridged" /\ cur[w] = o
                   /\ row[o].status = "dispatching" /\ row[o].gateway = snap[w].gateway

AttemptsOK(o) == /\ IsFiniteSet(Unspent(o))
                 /\ \A w \in Workers : Trying(w, o) => tried[w][o] > 0

CountOK(o) ==
    /\ Counted(o)
    /\ row[o].status = "bridged" => Covered(o) /\ MayCreate(o)
    /\ row[o].status = "dispatching" /\ row[o].gateway # 0 => Covered(o)
    /\ \A w \in Workers : /\ MaySubmit(w, o) => Covered(o) /\ MayCreate(o)
                          /\ Persists(w, o) => OneOver(o)
                          /\ TakesBack(w, o) => MayCreate(o)

CountInv == (\A o \in Orders : AttemptsOK(o)) /\ (\A o \in Orders \ stale : CountOK(o))

LEMMA CountNumbers ==
    ASSUME TInv, NEW o \in Orders
    PROVE  /\ IsFiniteSet(Created(o)) /\ Cardinality(Created(o)) \in Nat
           /\ IsFiniteSet(Unspent(o)) => Cardinality(Unspent(o)) \in Nat
           /\ started[o] \in Nat /\ lost \in Nat /\ MaxAttempts \in Nat \ {0}
           /\ MaxLosses \in Nat /\ SampledFully \in Nat /\ SampledFully > 0
           /\ tried \in [Workers -> [Orders -> 0 .. SampledFully]]
<1>1. Created(o) \in SUBSET GatewayIds /\ IsFiniteSet(GatewayIds)
  BY DispatchAssumption DEF Created, Known
<1>2. IsFiniteSet(Created(o))
  BY <1>1, FS_Subset
<1>3. /\ Cardinality(Created(o)) \in Nat
      /\ IsFiniteSet(Unspent(o)) => Cardinality(Unspent(o)) \in Nat
  BY <1>2, FS_CardinalityType
<1>4. QED
  BY <1>2, <1>3, DispatchAssumption DEF TInv, TypeOK

\* createOrder adds one.
LEMMA CreatedOneMore ==
    ASSUME TInv, NEW o \in Orders, NEW g \in GatewayIds, Creates(o, g), UNCHANGED unheard
    PROVE  /\ Cardinality(Created(o)') <= Cardinality(Created(o)) + 1
           /\ Cardinality(Created(o)') \in Nat
<1>1. /\ \A h \in GatewayIds : h # g => gateway'[o][h] = gateway[o][h]
      /\ gateway[o][g] = "none"
  BY CreatesMoves
<1>2. Created(o)' \in SUBSET (Created(o) \cup {g}) /\ g \notin Created(o)
  BY <1>1 DEF Created, Known
<1>3. /\ IsFiniteSet(Created(o) \cup {g})
      /\ Cardinality(Created(o) \cup {g}) = Cardinality(Created(o)) + 1
  BY <1>2, CountNumbers, FS_AddElement
<1>4. IsFiniteSet(Created(o)') /\ Cardinality(Created(o)') <= Cardinality(Created(o) \cup {g})
  BY <1>2, <1>3, FS_Subset
<1>5. QED
  BY <1>3, <1>4, FS_CardinalityType

\* Counters that do not grow keep what they covered.
LEMMA UnspentShrinks ==
    ASSUME NEW o \in Orders, IsFiniteSet(Unspent(o)), TInv, TInv',
           \A v \in Workers : tried'[v][o] <= tried[v][o]
    PROVE  /\ IsFiniteSet(Unspent(o)') /\ Cardinality(Unspent(o)') <= Cardinality(Unspent(o))
           /\ Cardinality(Unspent(o)') \in Nat /\ Cardinality(Unspent(o)) \in Nat
<1>1. \A v \in Workers : tried[v][o] \in Nat /\ tried'[v][o] \in Nat
  BY DEF TInv, TypeOK
<1>2. Unspent(o)' \in SUBSET Unspent(o)
  BY <1>1 DEF Unspent
<1>3. QED
  BY <1>2, FS_Subset, FS_CardinalityType

\* One more attempt is one more element.
LEMMA UnspentGrows ==
    ASSUME TInv, NEW w \in Workers, NEW o \in Orders, IsFiniteSet(Unspent(o)),
           tried[w][o] + 1 <= SampledFully,
           tried' = [tried EXCEPT ![w][o] = tried[w][o] + 1]
    PROVE  /\ IsFiniteSet(Unspent(o)')
           /\ Cardinality(Unspent(o)') = Cardinality(Unspent(o)) + 1
           /\ tried'[w][o] > 0
<1> DEFINE n == tried[w][o] + 1
<1>1. tried \in [Workers -> [Orders -> 0 .. SampledFully]] /\ SampledFully \in Nat
  BY CountNumbers
<1>2. n \in 1 .. SampledFully /\ tried'[w][o] = n
  BY <1>1
<1>3. \A v \in Workers : v # w => tried'[v][o] = tried[v][o]
  BY <1>1
<1>4. \A v \in Workers, k \in 1 .. SampledFully :
          k <= tried'[v][o] <=> k <= tried[v][o] \/ <<v, k>> = <<w, n>>
  <2> TAKE v \in Workers, k \in 1 .. SampledFully
  <2>1. CASE v = w
    BY <1>1, <1>2, <2>1
  <2>2. CASE v # w
    BY <1>3, <2>2
  <2>3. QED
    BY <2>1, <2>2
<1>5. Unspent(o)' = Unspent(o) \cup {<<w, n>>}
  BY <1>2, <1>4 DEF Unspent
<1>6. <<w, n>> \notin Unspent(o)
  BY <1>1 DEF Unspent
<1>7. /\ IsFiniteSet(Unspent(o) \cup {<<w, n>>})
      /\ Cardinality(Unspent(o) \cup {<<w, n>>}) = Cardinality(Unspent(o)) + 1
  BY <1>6, FS_AddElement
<1>8. tried'[w][o] > 0
  BY <1>1, <1>2
<1>9. QED
  BY <1>5, <1>7, <1>8

\* An attempt that is not reset is there to be spent.
LEMMA UnspentThere ==
    ASSUME TInv, NEW w \in Workers, NEW o \in Orders, IsFiniteSet(Unspent(o)), tried[w][o] > 0
    PROVE  Cardinality(Unspent(o)) > 0
<1>1. tried[w][o] \in 0 .. SampledFully /\ SampledFully \in Nat
  BY CountNumbers
<1>2. <<w, 1>> \in Unspent(o)
  BY <1>1 DEF Unspent
<1>3. Cardinality(Unspent(o)) \in Nat /\ Cardinality(Unspent(o)) # 0
  BY <1>2, FS_EmptySet, FS_CardinalityType
<1>4. QED
  BY <1>3

\* Timer.End spends it.
LEMMA UnspentReset ==
    ASSUME TInv, TInv', NEW w \in Workers, NEW o \in Orders, IsFiniteSet(Unspent(o)),
           tried[w][o] > 0, tried' = [tried EXCEPT ![w][o] = 0]
    PROVE  /\ IsFiniteSet(Unspent(o)')
           /\ Cardinality(Unspent(o)') + 1 <= Cardinality(Unspent(o))
<1>1. /\ tried \in [Workers -> [Orders -> 0 .. SampledFully]] /\ SampledFully \in Nat
  BY CountNumbers
<1>2. tried'[w][o] = 0 /\ \A v \in Workers : v # w => tried'[v][o] = tried[v][o]
  BY <1>1
<1>3. <<w, 1>> \in Unspent(o)
  BY <1>1 DEF Unspent
<1>4. Unspent(o)' \in SUBSET (Unspent(o) \ {<<w, 1>>})
  <2> SUFFICES ASSUME NEW v \in Workers, NEW k \in 1 .. SampledFully, k <= tried'[v][o]
               PROVE  k <= tried[v][o] /\ v # w
    BY DEF Unspent
  <2>1. v # w
    BY <1>2
  <2>2. QED
    BY <1>2, <2>1
<1>5. /\ IsFiniteSet(Unspent(o) \ {<<w, 1>>})
      /\ Cardinality(Unspent(o) \ {<<w, 1>>}) = Cardinality(Unspent(o)) - 1
  BY <1>3, FS_RemoveElement
<1>6. IsFiniteSet(Unspent(o)') /\ Cardinality(Unspent(o)') <= Cardinality(Unspent(o) \ {<<w, 1>>})
  BY <1>4, <1>5, FS_Subset
<1>7. Cardinality(Unspent(o)) \in Nat /\ Cardinality(Unspent(o)') \in Nat
  BY <1>6, FS_CardinalityType
<1>8. QED
  BY <1>5, <1>6, <1>7

\* What a step that creates nothing known does to the numbers of an order: no attempt is added
\* without an event or a loss.
Keeps(o) ==
    /\ Created(o)' = Created(o)
    /\ started[o] <= started'[o] /\ lost <= lost'
    /\ CapReached(o) => CapReached(o)'
    /\ IsFiniteSet(Unspent(o)')
    /\ \/ CapReached(o)'
       \/ Cardinality(Unspent(o)') + started[o] + lost
              <= Cardinality(Unspent(o)) + started'[o] + lost'

LEMMA KeepsNumbers ==
    ASSUME TInv, TInv', NEW o \in Orders, IsFiniteSet(Unspent(o)), Keeps(o)
    PROVE  /\ Counted(o) => Counted(o)'
           /\ Covered(o) => Covered(o)'
           /\ OneOver(o) => OneOver(o)'
           /\ MayCreate(o) => MayCreate(o)'
<1> DEFINE c == Cardinality(Created(o))
           u == Cardinality(Unspent(o))
           v == Cardinality(Unspent(o)')
<1>1. c \in Nat /\ u \in Nat /\ v \in Nat /\ MaxAttempts \in Nat
  BY CountNumbers, FS_CardinalityType DEF Keeps
<1>2. started[o] \in Nat /\ started'[o] \in Nat /\ lost \in Nat /\ lost' \in Nat
  BY DispatchAssumption DEF TInv, TypeOK
<1>3. /\ Created(o)' = Created(o) /\ started[o] <= started'[o] /\ lost <= lost'
      /\ CapReached(o) => CapReached(o)'
      /\ CapReached(o)' \/ v + started[o] + lost <= u + started'[o] + lost'
  BY DEF Keeps
<1>4. Cardinality(Created(o)') = c
  BY <1>3
<1>5. /\ Counted(o) <=> c <= started[o] + lost /\ c <= MaxAttempts + lost
      /\ Counted(o)' <=> c <= started'[o] + lost' /\ c <= MaxAttempts + lost'
      /\ MayCreate(o) <=> c < MaxAttempts + lost
      /\ MayCreate(o)' <=> c < MaxAttempts + lost'
  BY <1>4 DEF Counted, MayCreate
<1>6. /\ Covered(o) <=> (CapReached(o) \/ c + u <= started[o] + lost)
      /\ Covered(o)' <=> (CapReached(o)' \/ c + v <= started'[o] + lost')
      /\ OneOver(o) <=> (CapReached(o) \/ c + u <= started[o] + lost + 1)
      /\ OneOver(o)' <=> (CapReached(o)' \/ c + v <= started'[o] + lost' + 1)
  BY <1>4 DEF Covered, OneOver
<1> HIDE DEF c, u, v
<1>7. (Counted(o) => Counted(o)') /\ (MayCreate(o) => MayCreate(o)')
  BY <1>1, <1>2, <1>3, <1>5
<1>8. (Covered(o) => Covered(o)') /\ (OneOver(o) => OneOver(o)')
  BY <1>1, <1>2, <1>3, <1>6
<1>9. QED
  BY <1>7, <1>8

\* No attempt begins and none is lost.
LEMMA KeepsStill ==
    ASSUME TInv, TInv', NEW o \in Orders, IsFiniteSet(Unspent(o)), Created(o)' = Created(o),
           started'[o] = started[o], lost <= lost',
           \A v \in Workers : tried'[v][o] <= tried[v][o]
    PROVE  Keeps(o)
<1>1. IsFiniteSet(Unspent(o)') /\ Cardinality(Unspent(o)') <= Cardinality(Unspent(o))
      /\ Cardinality(Unspent(o)') \in Nat /\ Cardinality(Unspent(o)) \in Nat
  BY UnspentShrinks
<1>2. started[o] \in Nat /\ lost \in Nat /\ lost' \in Nat
  BY DispatchAssumption DEF TInv, TypeOK
<1>3. QED
  BY <1>1, <1>2 DEF Keeps, CapReached

LEMMA KeepsBegin ==
    ASSUME TInv, TInv', NEW w \in Workers, BeginDispatch(w), NEW q \in Orders,
           IsFiniteSet(Unspent(q))
    PROVE  Keeps(q) /\ (q = cur[w] => tried'[w][q] > 0)
<1>0. PICK o \in Orders : o = cur[w]
  BY TInvFacts DEF BeginDispatch
<1> DEFINE n == tried[w][o] + 1
<1>1. UNCHANGED <<gateway, unheard>>
  BY DEF BeginDispatch, ghosts
<1>2. /\ tried \in [Workers -> [Orders -> 0 .. SampledFully]] /\ SampledFully \in Nat
      /\ SampledFully > 0 /\ lost \in Nat /\ lost' \in Nat /\ MaxAttempts \in Nat
      /\ MaxLosses \in Nat /\ started \in [Orders -> 0 .. MaxAttempts + MaxLosses]
  BY DispatchAssumption DEF TInv, TypeOK
<1>3. tried' = [tried EXCEPT ![w][o] = IF n <= SampledFully THEN n ELSE tried[w][o]]
  BY <1>0 DEF BeginDispatch
<1>4. \/ /\ started' = [started EXCEPT ![o] = IF @ < MaxAttempts + MaxLosses THEN @ + 1 ELSE @]
         /\ lost' = lost
      \/ lost' = lost + 1 /\ started' = started
      \/ n > SampledFully /\ started' = started /\ lost' = lost
  BY <1>0 DEF BeginDispatch, Record
<1>5. /\ \A p \in Orders : p # o => started'[p] = started[p]
      /\ \/ started[o] < MaxAttempts + MaxLosses /\ started'[o] = started[o] + 1 /\ lost' = lost
         \/ started[o] = MaxAttempts + MaxLosses /\ started'[o] = started[o] /\ lost' = lost
         \/ started'[o] = started[o] /\ lost' = lost + 1
         \/ n > SampledFully /\ started'[o] = started[o] /\ lost' = lost
  BY <1>2, <1>4
<1>6. Created(q)' = Created(q)
  BY <1>1 DEF Created, Known
<1>7. lost <= lost'
  BY <1>2, <1>5
<1>8. CASE q # o
  <2>1. started'[q] = started[q] /\ \A v \in Workers : tried'[v][q] <= tried[v][q]
    BY <1>2, <1>3, <1>5, <1>8
  <2>2. QED
    BY <1>0, <1>6, <1>7, <1>8, <2>1, KeepsStill
<1>9. CASE q = o /\ n <= SampledFully
  <2>1. /\ IsFiniteSet(Unspent(o)') /\ tried'[w][o] > 0
        /\ Cardinality(Unspent(o)') = Cardinality(Unspent(o)) + 1
    BY <1>3, <1>9, UnspentGrows
  <2>2. started[o] \in Nat /\ Cardinality(Unspent(o)) \in Nat
    BY <1>2, <1>9, FS_CardinalityType
  <2>3. ~(n > SampledFully)
    BY <1>2, <1>9
  <2>4. \/ started[o] = MaxAttempts + MaxLosses /\ started'[o] = started[o]
        \/ /\ started'[o] + lost' = started[o] + lost + 1
           /\ started[o] <= started'[o] /\ started'[o] \in Nat
           /\ started[o] = MaxAttempts + MaxLosses => started'[o] = started[o]
    <3> HIDE DEF n
    <3>1. QED
      BY <1>2, <1>5, <2>2, <2>3
  <2>5. /\ CapReached(o) => CapReached(o)'
        /\ started[o] <= started'[o]
        /\ CapReached(o)' \/ started'[o] + lost' = started[o] + lost + 1
    BY <2>2, <2>4 DEF CapReached
  <2>6. CapReached(o)' \/ Cardinality(Unspent(o)') + started[o] + lost
                              <= Cardinality(Unspent(o)) + started'[o] + lost'
    BY <1>2, <2>1, <2>2, <2>4, <2>5
  <2>7. QED
    BY <1>6, <1>7, <1>9, <2>1, <2>5, <2>6 DEF Keeps
<1>10. CASE q = o /\ ~(n <= SampledFully)
  <2>1. tried'[w][o] = tried[w][o] /\ tried[w][o] > 0
    BY <1>2, <1>3, <1>10
  <2>2. \A v \in Workers : tried'[v][o] <= tried[v][o]
    BY <1>2, <1>3, <1>10
  <2>3. /\ IsFiniteSet(Unspent(o)') /\ Cardinality(Unspent(o)') <= Cardinality(Unspent(o))
        /\ Cardinality(Unspent(o)') \in Nat /\ Cardinality(Unspent(o)) \in Nat
    BY <1>10, <2>2, UnspentShrinks
  <2>4. /\ started[o] <= started'[o] /\ started[o] \in Nat /\ started'[o] \in Nat
        /\ CapReached(o) => CapReached(o)'
    <3>1. started[o] \in Nat /\ started'[o] \in Nat
      BY <1>2, DispatchAssumption DEF TInv, TypeOK
    <3>2. QED
      <4> HIDE DEF n
      <4>1. QED
        BY <1>2, <1>5, <3>1 DEF CapReached
  <2>5. QED
    BY <1>2, <1>6, <1>7, <1>10, <2>1, <2>3, <2>4 DEF Keeps
<1>11. QED
  BY <1>8, <1>9, <1>10

LEMMA CountInit == Init => CountInv
<1> SUFFICES ASSUME Init, NEW o \in Orders PROVE AttemptsOK(o) /\ CountOK(o)
  BY DEF CountInv
<1>1. \A w \in Workers : pc[w] = "idle"
  BY DEF Init
<1>2. Unspent(o) = {}
  BY DispatchAssumption DEF Init, Unspent
<1>3. Created(o) = {} /\ started[o] = 0 /\ lost = 0
  BY DEF Init, Created, Known
<1>4. /\ IsFiniteSet(Unspent(o)) /\ Cardinality(Unspent(o)) = 0 /\ Cardinality(Created(o)) = 0
  BY <1>2, <1>3, FS_EmptySet
<1>5. Covered(o) /\ MayCreate(o) /\ Counted(o)
  BY <1>3, <1>4, DispatchAssumption DEF Covered, MayCreate, Counted
<1>6. QED
  BY <1>1, <1>4, <1>5 DEF AttemptsOK, CountOK, Trying, MaySubmit, Persists, TakesBack

\* The step of one worker: it is enough to look at that worker and at the order's row.
LEMMA CountKept ==
    ASSUME TInv, TInv', NEW o \in Orders, AttemptsOK(o), o \notin stale' => CountOK(o), Keeps(o),
           NEW w \in Workers,
           \A v \in Workers : v # w => /\ pc'[v] = pc[v] /\ cur'[v] = cur[v] /\ snap'[v] = snap[v]
                                       /\ goal'[v] = goal[v] /\ tried'[v][o] = tried[v][o],
           Trying(w, o)' => tried'[w][o] > 0,
           o \notin stale' =>
               /\ row'[o].status = "bridged" => Covered(o) /\ MayCreate(o)
               /\ row'[o].status = "dispatching" /\ row'[o].gateway # 0 => Covered(o)'
               /\ MaySubmit(w, o)' => Covered(o) /\ MayCreate(o)
               /\ Persists(w, o)' => OneOver(o)
               /\ TakesBack(w, o)' => MayCreate(o)'
               /\ \A v \in Workers : v # w /\ TakesBack(v, o)' => TakesBack(v, o)
    PROVE  AttemptsOK(o)' /\ (o \notin stale' => CountOK(o)')
<1>1. AttemptsOK(o)'
  <2>1. IsFiniteSet(Unspent(o)')
    BY DEF Keeps
  <2>2. ASSUME NEW v \in Workers, Trying(v, o)' PROVE tried'[v][o] > 0
    <3>1. CASE v = w
      BY <2>2, <3>1
    <3>2. CASE v # w
      BY <2>2, <3>2 DEF AttemptsOK, Trying
    <3>3. QED
      BY <3>1, <3>2
  <2>3. QED
    BY <2>1, <2>2 DEF AttemptsOK
<1>2. ASSUME o \notin stale' PROVE CountOK(o)'
  <2>1. /\ Counted(o)' /\ (Covered(o) => Covered(o)') /\ (MayCreate(o) => MayCreate(o)')
        /\ OneOver(o) => OneOver(o)'
    BY <1>2, KeepsNumbers DEF AttemptsOK, CountOK
  <2>2. ASSUME NEW v \in Workers
        PROVE  /\ MaySubmit(v, o)' => Covered(o)' /\ MayCreate(o)'
               /\ Persists(v, o)' => OneOver(o)'
               /\ TakesBack(v, o)' => MayCreate(o)'
    <3>1. CASE v = w
      BY <1>2, <2>1, <3>1
    <3>2. CASE v # w
      BY <1>2, <2>1, <3>2 DEF CountOK, MaySubmit, Persists
    <3>3. QED
      BY <3>1, <3>2
  <2>3. QED
    BY <1>2, <2>1, <2>2 DEF CountOK
<1>3. QED
  BY <1>1, <1>2

\* ... and when the row stays as it is, at that worker alone.
LEMMA CountQuiet ==
    ASSUME TInv, TInv', NEW o \in Orders, AttemptsOK(o), o \notin stale' => CountOK(o), Keeps(o),
           NEW w \in Workers, row'[o] = row[o],
           \A v \in Workers : v # w => /\ pc'[v] = pc[v] /\ cur'[v] = cur[v] /\ snap'[v] = snap[v]
                                       /\ goal'[v] = goal[v] /\ tried'[v][o] = tried[v][o],
           Trying(w, o)' => tried'[w][o] > 0,
           o \notin stale' => /\ MaySubmit(w, o)' => Covered(o) /\ MayCreate(o)
                              /\ Persists(w, o)' => OneOver(o)
                              /\ TakesBack(w, o)' => MayCreate(o)'
    PROVE  AttemptsOK(o)' /\ (o \notin stale' => CountOK(o)')
<1>1. Covered(o) => Covered(o)'
  BY KeepsNumbers DEF AttemptsOK
<1>2. \A v \in Workers : v # w /\ TakesBack(v, o)' => TakesBack(v, o)
  BY DEF TakesBack
<1>3. QED
  BY <1>1, <1>2, CountKept DEF CountOK

\* A handler that ends.
LEMMA CountDone ==
    ASSUME TInv, TInv', NEW o \in Orders, AttemptsOK(o), o \notin stale' => CountOK(o), Keeps(o),
           NEW w \in Workers, row'[o] = row[o], Done(w),
           \A v \in Workers : v # w => goal'[v] = goal[v] /\ tried'[v][o] = tried[v][o]
    PROVE  AttemptsOK(o)' /\ (o \notin stale' => CountOK(o)')
<1>1. /\ pc'[w] = "idle"
      /\ \A v \in Workers : v # w => pc'[v] = pc[v] /\ cur'[v] = cur[v] /\ snap'[v] = snap[v]
  BY TInvFacts, DoneType
<1>2. ~Trying(w, o)' /\ ~MaySubmit(w, o)' /\ ~Persists(w, o)' /\ ~TakesBack(w, o)'
  BY <1>1 DEF Trying, MaySubmit, Persists, TakesBack
<1>3. QED
  BY <1>1, <1>2, CountQuiet

\* createOrder adds one to what the claimer's attempt, not reset yet, has paid for.
LEMMA CountCreates ==
    ASSUME TInv, TInv', ReadInv, NEW o \in Orders, AttemptsOK(o), o \notin stale,
           CountOK(o), ClaimOK(o), NEW w \in Workers, pc[w] = "create", cur[w] = o,
           NEW g \in GatewayIds, Creates(o, g), UNCHANGED <<row, unheard, started, lost, tried, goal>>,
           \A v \in Workers : v # w => pc'[v] = pc[v] /\ cur'[v] = cur[v] /\ snap'[v] = snap[v],
           pc'[w] \in {"idle", "persist"}
    PROVE  CountOK(o)'
<1>1. /\ row[o].status = "dispatching" /\ row[o].gateway = 0
      /\ \A v \in Workers : Claims(v, o) => v = w
  BY DEF ClaimOK, Claims, Claiming
<1>2. Covered(o) /\ MayCreate(o) /\ Counted(o) /\ tried[w][o] > 0 /\ IsFiniteSet(Unspent(o))
  BY DEF CountOK, MaySubmit, AttemptsOK, Trying
<1>3. Cardinality(Unspent(o)) \in Nat /\ Cardinality(Unspent(o)) > 0 /\ Unspent(o)' = Unspent(o)
  BY <1>2, UnspentThere, CountNumbers DEF Unspent
<1>4. Cardinality(Created(o)') <= Cardinality(Created(o)) + 1 /\ Cardinality(Created(o)') \in Nat
  BY CreatedOneMore
<1>5. Counted(o)'
  BY <1>2, <1>3, <1>4, CountNumbers DEF Counted, Covered, MayCreate, CapReached
<1>6. OneOver(o)'
  BY <1>2, <1>3, <1>4, CountNumbers DEF OneOver, Covered, CapReached
<1>7. ASSUME NEW v \in Workers PROVE ~MaySubmit(v, o)' /\ ~TakesBack(v, o)'
  <2>1. CASE v = w
    BY <2>1 DEF MaySubmit, TakesBack
  <2>2. CASE v # w
    <3>1. ~Claims(v, o)
      BY <1>1, <2>2
    <3>2. pc[v] = "write" => snap[v].gateway # 0
      BY DEF ReadInv, Reads
    <3>3. QED
      BY <1>1, <2>2, <3>1, <3>2 DEF MaySubmit, TakesBack, Claims, Claiming
  <2>3. QED
    BY <2>1, <2>2
<1>8. QED
  BY <1>1, <1>5, <1>6, <1>7 DEF CountOK

LEMMA CountStep ==
    ASSUME TInv, ReadInv, ClaimInv, CountInv, [Next]_vars
    PROVE  CountInv'
<1> TInv'
  BY TypeStep
<1>1. SUFFICES ASSUME NEW o \in Orders PROVE AttemptsOK(o)' /\ (o \notin stale' => CountOK(o)')
  BY DEF CountInv
<1> DEFINE Goal == AttemptsOK(o)' /\ (o \notin stale' => CountOK(o)')
<1>2. /\ AttemptsOK(o) /\ IsFiniteSet(Unspent(o))
      /\ o \notin stale' => o \notin stale /\ CountOK(o) /\ ClaimOK(o)
  <2>1. stale \subseteq stale'
    BY DEF Next, BeginTick, Dispatch, FetchBridged, BeginDispatch, PrepareFails, ClaimDispatch,
           CreateNotSubmitted, CreateAmbiguous, CreateReturns, Unclaim, PersistGatewayId, Poll,
           FetchDispatching, PollNothing, PollSettled, PollReturned, WriteOutcome, CrashWorker,
           LeaseStep, GatewayResolves, vars, dispatchVars, ghosts
  <2>2. QED
    BY <2>1 DEF CountInv, ClaimInv, AttemptsOK
<1> USE TInvFacts, Members
<1>3. /\ tried \in [Workers -> [Orders -> 0 .. SampledFully]] /\ SampledFully \in Nat
      /\ goal \in [Workers -> Statuses] /\ lost \in Nat /\ MaxAttempts \in Nat
      /\ started \in [Orders -> 0 .. MaxAttempts + MaxLosses] /\ MaxLosses \in Nat
  BY DispatchAssumption DEF TInv, TypeOK
<1>4. ASSUME Created(o)' = Created(o), UNCHANGED <<started, tried>>, lost <= lost' PROVE Keeps(o)
  BY <1>2, <1>3, <1>4, KeepsStill
<1>5. UNCHANGED <<gateway, unheard>> => Created(o)' = Created(o)
  BY DEF Created, Known
<1> HIDE DEF Goal
<1>6. ASSUME NEW w \in Workers, NEW q \in Orders, FetchBridged(w, q) \/ FetchDispatching(w, q)
      PROVE  Goal
  <2>1. UNCHANGED <<row, gateway, unheard, started, tried, lost, goal>>
    BY <1>6 DEF FetchBridged, FetchDispatching, dispatchVars, ghosts
  <2>2. /\ pc'[w] \in {"dispatch", "poll"}
        /\ \A v \in Workers : v # w => pc'[v] = pc[v] /\ cur'[v] = cur[v] /\ snap'[v] = snap[v]
    BY <1>6, FetchType DEF FetchBridged, FetchDispatching
  <2>3. ~Trying(w, o)' /\ ~MaySubmit(w, o)' /\ ~Persists(w, o)' /\ ~TakesBack(w, o)'
    BY <2>2 DEF Trying, MaySubmit, Persists, TakesBack
  <2>4. Keeps(o)
    BY <1>3, <1>4, <1>5, <2>1
  <2>5. QED
    BY <1>2, <2>1, <2>2, <2>3, <2>4, CountQuiet DEF Goal
<1>7. ASSUME NEW w \in Workers, BeginDispatch(w) PROVE Goal
  <2>1. Go(w, "prepare") /\ UNCHANGED <<row, goal>> /\ cur[w] \in Orders
    BY <1>7 DEF BeginDispatch
  <2>2. /\ pc'[w] = "prepare" /\ UNCHANGED <<cur, snap>>
        /\ \A v \in Workers : v # w => pc'[v] = pc[v]
    BY <2>1, GoType
  <2>3. Keeps(o) /\ (o = cur[w] => tried'[w][o] > 0)
    BY <1>2, <1>7, KeepsBegin
  <2>4. /\ Trying(w, o)' => tried'[w][o] > 0
        /\ ~MaySubmit(w, o)' /\ ~Persists(w, o)' /\ ~TakesBack(w, o)'
    BY <2>2, <2>3 DEF Trying, MaySubmit, Persists, TakesBack
  <2>5. \A v \in Workers : v # w => tried'[v][o] = tried[v][o]
    BY <1>3, <1>7, <2>1 DEF BeginDispatch
  <2>6. QED
    BY <1>2, <2>1, <2>2, <2>3, <2>4, <2>5, CountQuiet DEF Goal
<1>8. ASSUME NEW w \in Workers, PrepareFails(w) \/ PollNothing(w) PROVE Goal
  <2>1. Done(w) /\ UNCHANGED <<row, gateway, unheard, started, tried, lost, goal>>
    BY <1>8 DEF PrepareFails, PollNothing, DispatchFails, Rest, dispatchVars, ghosts
  <2>2. Keeps(o)
    BY <1>3, <1>4, <1>5, <2>1
  <2>3. QED
    BY <1>2, <2>1, <2>2, CountDone DEF Goal
\* An attempt that ends with nil is reset.
<1>9. ASSUME NEW w \in Workers, NEW q \in Orders, tried' = [tried EXCEPT ![w][q] = 0]
      PROVE  /\ \A v \in Workers : tried'[v][o] <= tried[v][o]
             /\ \A v \in Workers : v # w => tried'[v][o] = tried[v][o]
             /\ q # o => tried'[w][o] = tried[w][o]
  BY <1>3, <1>9
<1>10. ASSUME NEW w \in Workers, ClaimDispatch(w) PROVE Goal
  <2>1. PICK q \in Orders : q = cur[w]
    BY <1>10 DEF ClaimDispatch
  <2>2. UNCHANGED <<gateway, unheard, started, lost, goal, stale>> /\ pc[w] = "prepare"
    BY <1>10 DEF ClaimDispatch, Rest, ghosts
  <2>3. CASE row[q].status # "bridged"
    <3>1. Done(w) /\ row' = row /\ tried' = [tried EXCEPT ![w][q] = 0]
      BY <1>10, <2>1, <2>3 DEF ClaimDispatch, DispatchSucceeds, Cas
    <3>2. Keeps(o)
      BY <1>2, <1>3, <1>5, <1>9, <2>2, <3>1, KeepsStill
    <3>3. QED
      BY <1>2, <1>9, <2>2, <3>1, <3>2, CountDone DEF Goal
  <2>4. CASE row[q].status = "bridged"
    <3>1. /\ Go(w, "create") /\ UNCHANGED tried
          /\ row' = [row EXCEPT ![q] = [row[q] EXCEPT !.status = "dispatching"]]
      BY <1>10, <2>1, <2>4 DEF ClaimDispatch, Cas
    <3>2. /\ pc'[w] = "create" /\ UNCHANGED <<cur, snap>>
          /\ \A v \in Workers : v # w => pc'[v] = pc[v]
      BY <3>1, GoType
    <3>3. Keeps(o)
      BY <1>3, <1>4, <1>5, <2>2, <3>1
    <3>4. ~Persists(w, o)' /\ ~TakesBack(w, o)'
      BY <3>2 DEF Persists, TakesBack
    <3>5. Trying(w, o)' => tried'[w][o] > 0
      BY <1>2, <2>2, <3>1, <3>2 DEF AttemptsOK, Trying
    <3>6. CASE q # o
      <4>1. ~MaySubmit(w, o)' /\ row'[o] = row[o]
        BY <2>1, <3>1, <3>2, <3>6 DEF MaySubmit
      <4>2. QED
        BY <1>2, <2>2, <3>1, <3>2, <3>3, <3>4, <3>5, <4>1, CountQuiet DEF Goal
    <3>7. CASE q = o
      <4>1. row'[o].status = "dispatching" /\ row'[o].gateway = row[o].gateway
        BY <3>1, <3>7 DEF RowRec
      <4>2. o \notin stale' => row[o].gateway = 0 /\ Covered(o) /\ MayCreate(o)
        BY <1>2, <2>4, <3>7 DEF CountOK, ClaimOK
      <4>3. ASSUME o \notin stale', NEW v \in Workers PROVE ~TakesBack(v, o)'
        <5>1. pc[v] = "write" => snap[v].gateway # 0
          BY DEF ReadInv, Reads
        <5>2. QED
          BY <3>2, <4>1, <4>2, <4>3, <5>1 DEF TakesBack
      <4>4. QED
        BY <1>2, <2>2, <3>1, <3>2, <3>3, <3>4, <3>5, <4>1, <4>2, <4>3, CountKept DEF Goal
    <3>8. QED
      BY <3>6, <3>7
  <2>5. QED
    BY <2>3, <2>4
<1>11. ASSUME NEW w \in Workers, CreateNotSubmitted(w) PROVE Goal
  <2>1. pc[w] = "create" /\ Go(w, "unclaim") /\ UNCHANGED <<row, started, tried, lost, goal>>
    BY <1>11 DEF CreateNotSubmitted, Rest
  <2>2. /\ pc'[w] = "unclaim" /\ UNCHANGED <<cur, snap>>
        /\ \A v \in Workers : v # w => pc'[v] = pc[v]
    BY <2>1, GoType
  <2>3. Keeps(o)
    BY <1>3, <1>4, <1>11, <2>1, PayingUnheard
  <2>4. /\ Trying(w, o)' => tried'[w][o] > 0
        /\ MaySubmit(w, o)' => MaySubmit(w, o)
        /\ ~Persists(w, o)' /\ ~TakesBack(w, o)'
    BY <1>2, <2>1, <2>2 DEF AttemptsOK, Trying, MaySubmit, Persists, TakesBack
  <2>5. QED
    BY <1>2, <2>1, <2>2, <2>3, <2>4, CountQuiet DEF Goal, CountOK
<1>12. ASSUME NEW w \in Workers, CreateAmbiguous(w) \/ CreateReturns(w) PROVE Goal
  <2>1. PICK q \in Orders : q = cur[w]
    BY <1>12 DEF CreateAmbiguous, CreateReturns
  <2>2. pc[w] = "create" /\ UNCHANGED <<row, unheard, started, tried, lost, goal, stale>>
    BY <1>12 DEF CreateAmbiguous, CreateReturns, DispatchFails, Rest, ghosts
  <2>3. CASE CreateAmbiguous(w) /\ UNCHANGED gateway
    <3>1. Done(w)
      BY <2>3 DEF CreateAmbiguous, DispatchFails
    <3>2. Keeps(o)
      BY <1>3, <1>4, <1>5, <2>2, <2>3
    <3>3. QED
      BY <1>2, <2>2, <3>1, <3>2, CountDone DEF Goal
  <2>4. CASE ~(CreateAmbiguous(w) /\ UNCHANGED gateway)
    <3>1. PICK g \in GatewayIds : Creates(q, g)
      BY <1>12, <2>1, <2>4 DEF CreateAmbiguous, CreateReturns
    <3>2. /\ \A v \in Workers : v # w => pc'[v] = pc[v] /\ cur'[v] = cur[v] /\ snap'[v] = snap[v]
          /\ pc'[w] = "idle" \/ (pc'[w] = "persist" /\ cur'[w] = q)
      <4>1. CASE CreateAmbiguous(w)
        BY <4>1, DoneType DEF CreateAmbiguous, DispatchFails
      <4>2. CASE CreateReturns(w)
        BY <2>1, <4>2, GoType DEF CreateReturns
      <4>3. QED
        BY <1>12, <4>1, <4>2
    <3>3. CASE q # o
      <4>1. gateway'[o] = gateway[o]
        BY <3>1, <3>3, CreatesMoves
      <4>2. Created(o)' = Created(o)
        BY <2>2, <4>1 DEF Created, Known
      <4>3. Keeps(o)
        BY <1>3, <1>4, <2>2, <4>2
      <4>4. ~Trying(w, o)' /\ ~MaySubmit(w, o)' /\ ~Persists(w, o)' /\ ~TakesBack(w, o)'
        BY <3>2, <3>3 DEF Trying, MaySubmit, Persists, TakesBack
      <4>5. QED
        BY <1>2, <2>2, <3>2, <4>3, <4>4, CountQuiet DEF Goal
    <3>4. CASE q = o
      <4>1. AttemptsOK(o)'
        <5>1. Unspent(o)' = Unspent(o)
          BY <2>2 DEF Unspent
        <5>2. \A v \in Workers : Trying(v, o)' => Trying(v, o)
          BY <2>1, <2>2, <3>2, <3>4 DEF Trying
        <5>3. QED
          BY <1>2, <2>2, <5>1, <5>2 DEF AttemptsOK
      <4>2. ASSUME o \notin stale' PROVE CountOK(o)'
        BY <1>2, <2>1, <2>2, <3>1, <3>2, <3>4, <4>2, CountCreates
      <4>3. QED
        BY <4>1, <4>2 DEF Goal
    <3>5. QED
      BY <3>3, <3>4
  <2>5. QED
    BY <2>3, <2>4
<1>13. ASSUME NEW w \in Workers, Unclaim(w) PROVE Goal
  <2>1. PICK q \in Orders : q = cur[w]
    BY <1>13 DEF Unclaim
  <2>2. pc[w] = "unclaim" /\ Done(w) /\ UNCHANGED <<gateway, unheard, started, tried, lost, goal>>
    BY <1>13 DEF Unclaim, DispatchFails, Rest, ghosts
  <2>3. Keeps(o)
    BY <1>3, <1>4, <1>5, <2>2
  <2>4. CASE row'[o] = row[o]
    BY <1>2, <2>2, <2>3, <2>4, CountDone DEF Goal
  <2>5. CASE row'[o] # row[o]
    <3>1. q = o /\ row' = [row EXCEPT ![o] = [row[o] EXCEPT !.status = "bridged"]]
      BY <1>13, <2>1, <2>5 DEF Unclaim, Cas
    <3>2. row'[o].status = "bridged"
      BY <3>1 DEF RowRec
    <3>3. o \notin stale' => Covered(o) /\ MayCreate(o)
      BY <1>2, <2>1, <2>2, <3>1 DEF CountOK, MaySubmit
    <3>4. /\ pc'[w] = "idle"
          /\ \A v \in Workers : v # w => pc'[v] = pc[v] /\ cur'[v] = cur[v] /\ snap'[v] = snap[v]
      BY <2>2, DoneType
    <3>5. ~Trying(w, o)' /\ ~MaySubmit(w, o)' /\ ~Persists(w, o)' /\ ~TakesBack(w, o)'
      BY <3>4 DEF Trying, MaySubmit, Persists, TakesBack
    <3>6. \A v \in Workers : ~TakesBack(v, o)'
      BY <3>2 DEF TakesBack
    <3>7. QED
      BY <1>2, <2>2, <2>3, <3>2, <3>3, <3>4, <3>5, <3>6, CountKept DEF Goal
  <2>6. QED
    BY <2>4, <2>5
<1>14. ASSUME NEW w \in Workers, PersistGatewayId(w) PROVE Goal
  <2>1. PICK q \in Orders : q = cur[w]
    BY <1>14 DEF PersistGatewayId
  <2>2. pc[w] = "persist" /\ Done(w) /\ UNCHANGED <<gateway, unheard, started, lost, goal, stale>>
    BY <1>14 DEF PersistGatewayId, DispatchSucceeds, DispatchFails, ghosts
  <2>3. \/ row' = row /\ tried' = tried
        \/ /\ row' = [row EXCEPT ![q] = [row[q] EXCEPT !.gateway = receipt[w]]]
           /\ row[q].status = "dispatching" /\ tried' = [tried EXCEPT ![w][q] = 0]
    BY <1>14, <2>1 DEF PersistGatewayId, DispatchSucceeds, DispatchFails, Cas
  <2>4. Keeps(o)
    BY <1>2, <1>3, <1>4, <1>5, <1>9, <2>2, <2>3, KeepsStill
  <2>5. CASE row'[o] = row[o]
    BY <1>2, <1>9, <2>2, <2>3, <2>4, <2>5, CountDone DEF Goal
  <2>6. CASE row'[o] # row[o]
    <3>1. /\ q = o /\ row' = [row EXCEPT ![o] = [row[o] EXCEPT !.gateway = receipt[w]]]
          /\ row[o].status = "dispatching" /\ tried' = [tried EXCEPT ![w][o] = 0]
      BY <2>3, <2>6
    <3>2. row'[o].status = "dispatching" /\ row'[o].gateway = receipt[w]
      BY <3>1 DEF RowRec
    <3>3. /\ Cardinality(Unspent(o)') + 1 <= Cardinality(Unspent(o))
          /\ Cardinality(Unspent(o)') \in Nat /\ Cardinality(Unspent(o)) \in Nat
      <4>1. tried[w][o] > 0
        BY <1>2, <2>1, <2>2, <3>1 DEF AttemptsOK, Trying
      <4>2. IsFiniteSet(Unspent(o)') /\ Cardinality(Unspent(o)') + 1 <= Cardinality(Unspent(o))
        BY <1>2, <3>1, <4>1, UnspentReset
      <4>3. QED
        BY <1>2, <4>2, FS_CardinalityType
    <3>4. o \notin stale' => Covered(o)'
      <4>1. SUFFICES ASSUME o \notin stale' PROVE Covered(o)'
        OBVIOUS
      <4>2. OneOver(o)
        BY <1>2, <2>1, <2>2, <3>1, <4>1 DEF CountOK, Persists
      <4>3. Created(o)' = Created(o)
        BY <1>5, <2>2
      <4>4. QED
        BY <2>2, <3>3, <4>2, <4>3, CountNumbers DEF OneOver, Covered, CapReached
    <3>5. /\ pc'[w] = "idle"
          /\ \A v \in Workers : v # w => pc'[v] = pc[v] /\ cur'[v] = cur[v] /\ snap'[v] = snap[v]
      BY <2>2, DoneType
    <3>6. ~Trying(w, o)' /\ ~MaySubmit(w, o)' /\ ~Persists(w, o)' /\ ~TakesBack(w, o)'
      BY <3>5 DEF Trying, MaySubmit, Persists, TakesBack
    <3>7. ASSUME o \notin stale', NEW v \in Workers, v # w PROVE ~TakesBack(v, o)'
      <4>1. Claims(w, o)
        BY <2>1, <2>2, <3>1 DEF Claims, Claiming
      <4>2. Polls(v, o) => snap[v].gateway # receipt[w]
        BY <1>2, <2>2, <3>7, <4>1 DEF ClaimOK
      <4>3. QED
        BY <3>2, <3>5, <3>7, <4>2 DEF TakesBack, Polls
    <3>8. QED
      BY <1>2, <1>9, <2>2, <2>4, <3>1, <3>2, <3>4, <3>5, <3>6, <3>7, CountKept DEF Goal
  <2>7. QED
    BY <2>5, <2>6
\* What is polled as returned while fewer than MaxAttempts attempts are counted may be submitted
\* again.
<1>15. ASSUME NEW w \in Workers, PollSettled(w) \/ PollReturned(w) PROVE Goal
  <2>1. PICK q \in Orders : q = cur[w]
    BY <1>15 DEF PollSettled, PollReturned
  <2>2. /\ pc[w] = "poll" /\ Go(w, "write") /\ UNCHANGED <<row, gateway, unheard, started, tried>>
        /\ UNCHANGED stale
    BY <1>15 DEF PollSettled, PollReturned, Decide, ghosts
  <2>3. /\ pc'[w] = "write" /\ UNCHANGED <<cur, snap>>
        /\ \A v \in Workers : v # w => pc'[v] = pc[v]
    BY <2>2, GoType
  <2>4. /\ lost <= lost' /\ lost' \in Nat
        /\ \A v \in Workers : v # w => goal'[v] = goal[v]
        /\ goal'[w] = "bridged" => lost' = lost + 1 \/ started[q] < MaxAttempts
    BY <1>3, <1>15, <2>1 DEF PollSettled, PollReturned, Decide
  <2>5. Keeps(o)
    BY <1>4, <1>5, <2>2, <2>4
  <2>6. o \notin stale' /\ TakesBack(w, o)' => MayCreate(o)'
    <3>1. SUFFICES ASSUME o \notin stale', TakesBack(w, o)' PROVE MayCreate(o)'
      OBVIOUS
    <3>2. q = o /\ goal'[w] = "bridged"
      BY <2>1, <2>3, <3>1 DEF TakesBack
    <3>3. Counted(o) /\ Created(o)' = Created(o)
      BY <1>2, <1>5, <2>2, <3>1 DEF CountOK
    <3>4. QED
      BY <1>3, <2>4, <3>2, <3>3, CountNumbers DEF Counted, MayCreate
  <2>7. ~Trying(w, o)' /\ ~MaySubmit(w, o)' /\ ~Persists(w, o)'
    BY <2>3 DEF Trying, MaySubmit, Persists
  <2>8. QED
    BY <1>2, <2>2, <2>3, <2>4, <2>5, <2>6, <2>7, CountQuiet DEF Goal
<1>16. ASSUME NEW w \in Workers, WriteOutcome(w) PROVE Goal
  <2>1. PICK q \in Orders : q = cur[w]
    BY <1>16 DEF WriteOutcome
  <2>2. /\ pc[w] = "write" /\ Done(w) /\ UNCHANGED <<gateway, unheard, started, tried, lost>>
        /\ goal' = [goal EXCEPT ![w] = "bridged"]
    BY <1>16 DEF WriteOutcome
  <2>3. Keeps(o) /\ \A v \in Workers : v # w => goal'[v] = goal[v]
    BY <1>3, <1>4, <1>5, <2>2
  <2>4. CASE row'[o] = row[o]
    BY <1>2, <2>2, <2>3, <2>4, CountDone DEF Goal
  <2>5. CASE row'[o] # row[o]
    <3>1. /\ q = o /\ row[o].status = "dispatching"
          /\ row' = [row EXCEPT ![o] = [row[o] EXCEPT !.status = goal[w],
                                     !.gateway = IF goal[w] = "bridged" THEN 0 ELSE @]]
          /\ stale' = IF row[o].gateway # snap[w].gateway THEN stale \cup {o} ELSE stale
      BY <1>16, <2>1, <2>5 DEF WriteOutcome, Cas
    <3>2. row'[o].status = goal[w]
      BY <3>1 DEF RowRec
    <3>3. Reads(w) /\ cur[w] = o
      BY <2>1, <3>1 DEF ReadInv
    <3>4. goal[w] \in {"settled", "bridged", "refunded"} /\ snap[w].gateway # 0
      BY <2>2, <3>3 DEF Reads
    <3>5. o \notin stale' /\ goal[w] = "bridged" => Covered(o) /\ MayCreate(o)
      <4>1. SUFFICES ASSUME o \notin stale', goal[w] = "bridged" PROVE Covered(o) /\ MayCreate(o)
        OBVIOUS
      <4>2. row[o].gateway = snap[w].gateway
        BY <3>1, <4>1
      <4>3. QED
        BY <1>2, <2>2, <3>1, <3>3, <3>4, <4>1, <4>2 DEF CountOK, TakesBack
    <3>6. /\ pc'[w] = "idle"
          /\ \A v \in Workers : v # w => pc'[v] = pc[v] /\ cur'[v] = cur[v] /\ snap'[v] = snap[v]
      BY <2>2, DoneType
    <3>7. ~Trying(w, o)' /\ ~MaySubmit(w, o)' /\ ~Persists(w, o)' /\ ~TakesBack(w, o)'
      BY <3>6 DEF Trying, MaySubmit, Persists, TakesBack
    <3>8. row'[o].status # "dispatching" /\ \A v \in Workers : ~TakesBack(v, o)'
      BY <3>2, <3>4 DEF TakesBack
    <3>9. QED
      BY <1>2, <2>2, <2>3, <3>2, <3>5, <3>6, <3>7, <3>8, CountKept DEF Goal
  <2>6. QED
    BY <2>4, <2>5
<1>17. ASSUME NEW w \in Workers, CrashWorker(w) PROVE Goal
  <2>1. /\ Done(w) /\ UNCHANGED <<row, gateway, unheard, started, lost>>
        /\ goal' = [goal EXCEPT ![w] = "bridged"]
        /\ tried' = [tried EXCEPT ![w] = [p \in Orders |-> 0]]
    BY <1>17 DEF CrashWorker, Crash, ghosts
  <2>2. /\ \A v \in Workers : tried'[v][o] <= tried[v][o]
        /\ \A v \in Workers : v # w => goal'[v] = goal[v] /\ tried'[v][o] = tried[v][o]
    BY <1>3, <2>1
  <2>3. Keeps(o)
    BY <1>2, <1>3, <1>5, <2>1, <2>2, KeepsStill
  <2>4. QED
    BY <1>2, <2>1, <2>2, <2>3, CountDone DEF Goal
<1>18. ASSUME UNCHANGED <<row, pc, cur, snap, goal, started, tried, lost, stale>>,
              Created(o)' = Created(o)
       PROVE  Goal
  <2>1. Unspent(o)' = Unspent(o)
    BY <1>18 DEF Unspent
  <2>2. AttemptsOK(o)'
    BY <1>2, <1>18, <2>1 DEF AttemptsOK, Trying
  <2>3. o \notin stale' => CountOK(o)'
    BY <1>2, <1>18, <2>1
    DEF CountOK, Counted, Covered, CapReached, OneOver, MayCreate, MaySubmit, Persists, TakesBack
  <2>4. QED
    BY <2>2, <2>3 DEF Goal
<1>19. ASSUME NEW q \in Orders, NEW g \in GatewayIds, GatewayResolves(q, g) PROVE Goal
  <2>1. UNCHANGED <<row, pc, cur, snap, goal, started, tried, lost, stale>>
    BY <1>19 DEF GatewayResolves, sharedVars, ghosts
  <2>2. QED
    BY <1>18, <1>19, <2>1, PayingResolves
<1>20. ASSUME LeaseStep \/ (\E w \in Workers : BeginTick(w)) \/ UNCHANGED vars PROVE Goal
  <2>1. UNCHANGED <<row, pc, cur, snap, goal, started, tried, lost, stale, gateway, unheard>>
    BY <1>20 DEF LeaseStep, LeaseExpires, EndTick, BeginTick, vars, sharedVars, dispatchVars, ghosts
  <2>2. QED
    BY <1>5, <1>18, <2>1
<1>21. Goal
  BY <1>6, <1>7, <1>8, <1>10, <1>11, <1>12, <1>13, <1>14, <1>15, <1>16, <1>17, <1>19, <1>20
  DEF Next, Dispatch, Poll
<1>22. QED
  BY <1>21 DEF Goal

\* The retry cap holds on Base for every order it knows it created, but for events that were not
\* counted (advanceDispatching's attempts query, TimeSampled).
THEOREM CreatesAreCountedHolds == Spec => []CreatesAreCounted
<1>1. CountInv => CreatesAreCounted
  BY DEF CountInv, CountOK, Counted, CreatesAreCounted
<1>2. QED
  BY <1>1, TypeInit, TypeStep, ReadInit, ReadStep, ClaimInit, ClaimStep, CountInit, CountStep, PTL
  DEF Spec

=============================================================================
