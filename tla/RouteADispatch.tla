---------------------------- MODULE RouteADispatch ----------------------------
(***************************************************************************)
(* The dispatch half of Route A (mode lp): a bridged order is submitted to *)
(* the settlement Gateway on Base with createOrder, its fill is polled,    *)
(* and an unfilled order is submitted again, up to MaxAttempts times.      *)
(***************************************************************************)
EXTENDS RouteAOrders, FiniteSets

CONSTANTS
    MaxAttempts,   \* attempts after which an unfilled order is refunded, 3 in the code
    SampledFully,  \* attempts TimeSampled always records, 3 in the code
    MaxLosses,     \* bound: writes to and counts of route_a_events that fail
    MaxUnheard     \* bound: createOrders of one order that land and are called not sent

ASSUME DispatchAssumption ==
    /\ MaxAttempts \in Nat \ {0}
    /\ SampledFully \in Nat
    /\ SampledFully >= MaxAttempts
    /\ MaxLosses \in Nat /\ MaxUnheard \in Nat
    /\ GatewayIds \subseteq Nat
    /\ IsFiniteSet(GatewayIds)

VARIABLES
    goal,      \* [Workers -> Statuses], the status advanceDispatching is about to write
    tried,     \* [Workers -> [Orders -> Nat]], attemptCounters of evm_create_order
    receipt,   \* [Workers -> GatewayIds \cup {0}], the id createOrder returned
    started,   \* [Orders -> Nat], started rows of step evm_create_order
    lost,      \* ghost: started rows not written and counts that failed
    told,      \* [Orders -> ToldStatuses], what Route A last wrote to the PaymentOrder
    gateway,   \* [Orders -> [GatewayIds -> GatewayStates]], the orders on Base
    unheard,   \* ghost: [Orders -> SUBSET GatewayIds], created by a call that failed as not sent
    stale,     \* ghost: orders whose row took the outcome of an id it no longer had
    overlapped \* ghost: a tick began while another dispatcher was in one

ghosts == <<unheard, stale, overlapped>>
dispatchVars == <<goal, tried, receipt, started, lost, told, gateway, ghosts>>
vars == <<sharedVars, dispatchVars>>

\* The indexer (self-settle, card debit), a cancellation and the operator write the PaymentOrder
\* too, at any time; no handler here reads it.
ToldStatuses == {"nothing", "settled", "refunded"}

\* "returned" is both settlement statuses that end an order unpaid, refunded and
\* expired, which the code treats alike.
GatewayStates == {"none", "open", "settled", "returned"}

\* Of the orders on Base, those a dispatcher knows of or knows it may not know of.
Known(o)   == GatewayIds \ unheard[o]
Created(o) == { g \in Known(o) : gateway[o][g] # "none" }
Paying(o)  == { g \in Known(o) : gateway[o][g] \in {"open", "settled"} }
Paid(o)    == { g \in GatewayIds : gateway[o][g] = "settled" }

\* Orders start where the bridge half leaves them.
Bridged(known) == [ NewRow("lifi") EXCEPT !.status = "bridged", !.digest = TRUE,
                                          !.bridged_amount = known ]

Init ==
    /\ row \in [Orders -> { Bridged(known) : known \in BOOLEAN }]
    /\ pc = [w \in Workers |-> "idle"]
    /\ cur = [w \in Workers |-> Nil]
    /\ snap = [w \in Workers |-> NewRow("lifi")]
    /\ ticking = {} /\ lease = Nil /\ crashes = 0
    /\ goal = [w \in Workers |-> "bridged"]
    /\ tried = [w \in Workers |-> [o \in Orders |-> 0]]
    /\ receipt = [w \in Workers |-> 0]
    /\ started = [o \in Orders |-> 0]
    /\ lost = 0
    /\ told = [o \in Orders |-> "nothing"]
    /\ gateway = [o \in Orders |-> [g \in GatewayIds |-> "none"]]
    /\ unheard = [o \in Orders |-> {}] /\ stale = {} /\ overlapped = FALSE

BeginTick(w) ==
    /\ w \notin ticking
    /\ AcquireLease(w)
    /\ ticking' = ticking \cup {w}
    /\ overlapped' = (overlapped \/ ticking # {})
    /\ UNCHANGED <<row, pc, cur, snap, crashes, goal, tried, receipt, started, lost, told,
                   gateway, unheard, stale>>

-----------------------------------------------------------------------------
(* advanceBridged and dispatchLP *)

FetchBridged(w, o) ==
    /\ row[o].status = "bridged"
    /\ Fetch(w, o, "dispatch")
    /\ Frame /\ UNCHANGED <<row, dispatchVars>>

\* Mutant: any attempt may go unrecorded.
BeginDispatchUnrecorded(w) ==
    /\ pc[w] = "dispatch"
    /\ \E recorded \in BOOLEAN :
          started' = [started EXCEPT ![cur[w]] =
                          IF recorded /\ @ < MaxAttempts THEN @ + 1 ELSE @]
    /\ Go(w, "prepare")
    /\ Frame /\ UNCHANGED <<row, goal, tried, receipt, lost, told, gateway, ghosts>>

\* Time writes a started row, and LogOnce only logs it when the write fails.
Record(o) ==
    \/ /\ started' = [started EXCEPT ![o] = IF @ < MaxAttempts + MaxLosses THEN @ + 1 ELSE @]
       /\ UNCHANGED lost
    \/ /\ lost < MaxLosses
       /\ lost' = lost + 1
       /\ UNCHANGED started

\* TimeSampled: attempts 1..SampledFully and every tenth write a started row.  Beyond
\* SampledFully the counter stops here and either may happen; started stops where no
\* comparison can tell.
BeginDispatch(w) ==
    LET o == cur[w]
        n == tried[w][o] + 1
    IN  /\ pc[w] = "dispatch"
        /\ tried' = [tried EXCEPT ![w][o] = IF n <= SampledFully THEN n ELSE @]
        /\ \/ Record(o)
           \/ n > SampledFully /\ UNCHANGED <<started, lost>>
        /\ Go(w, "prepare")
        /\ Frame /\ UNCHANGED <<row, goal, receipt, told, gateway, ghosts>>

\* dispatchLP ends with an error: the attempt counter stays.
DispatchFails(w) == Done(w) /\ UNCHANGED tried

\* ... or with nil: Timer.End resets it.
DispatchSucceeds(w) == Done(w) /\ tried' = [tried EXCEPT ![w][cur[w]] = 0]

Rest == <<goal, receipt, started, lost, told>>

\* No bridged amount, no rate, a shortfall beyond maxDispatchShortfallBPS, no key, no
\* allowance: nothing was claimed.
PrepareFails(w) ==
    /\ pc[w] = "prepare"
    /\ DispatchFails(w)
    /\ Frame /\ UNCHANGED <<row, Rest, gateway, ghosts>>

\* One guarded write before createOrder; a stale row ends the attempt without error.
ClaimDispatch(w) ==
    LET o == cur[w]
    IN  /\ pc[w] = "prepare"
        /\ snap[w].bridged_amount
        /\ Cas(o, {"bridged"}, [row[o] EXCEPT !.status = "dispatching"])
        /\ IF row[o].status = "bridged"
           THEN Go(w, "create") /\ UNCHANGED tried
           ELSE DispatchSucceeds(w)
        /\ Frame /\ UNCHANGED <<Rest, gateway, ghosts>>

\* The order exists on Base from here on, under a fresh id.
Creates(o, g) ==
    /\ gateway[o][g] = "none"
    /\ gateway' = [gateway EXCEPT ![o][g] = "open"]

\* Building or sending the transaction fails, and the claim goes back.  The code takes that for
\* "definitely not on-chain", but a node that took the transaction and whose answer is lost or
\* late makes the same error.
CreateNotSubmitted(w) ==
    LET o == cur[w]
    IN  /\ pc[w] = "create"
        /\ \/ UNCHANGED <<gateway, unheard>>
           \/ /\ Cardinality(unheard[o]) < MaxUnheard
              /\ \E g \in GatewayIds :
                    Creates(o, g) /\ unheard' = [unheard EXCEPT ![o] = @ \cup {g}]
        /\ Go(w, "unclaim")
        /\ Frame /\ UNCHANGED <<row, Rest, tried, stale, overlapped>>

\* Mutant: a receipt not seen is taken for a transaction not sent.
CreateAmbiguousUnclaims(w) ==
    /\ pc[w] = "create"
    /\ \/ \E g \in GatewayIds : Creates(cur[w], g)
       \/ UNCHANGED gateway
    /\ Go(w, "unclaim")
    /\ Frame /\ UNCHANGED <<row, Rest, tried, ghosts>>

\* The receipt is not seen or not parsed, or it says that the order was mined and reverted:
\* all are SubmittedErrors, and the row stays claimed, without an id.
CreateAmbiguous(w) ==
    /\ pc[w] = "create"
    /\ \/ \E g \in GatewayIds : Creates(cur[w], g)
       \/ UNCHANGED gateway
    /\ DispatchFails(w)
    /\ Frame /\ UNCHANGED <<row, Rest, ghosts>>

\* The id is in the receipt; the worker holds it until it is written.
CreateReturns(w) ==
    /\ pc[w] = "create"
    /\ \E g \in GatewayIds :
          /\ Creates(cur[w], g)
          /\ receipt' = [receipt EXCEPT ![w] = g]
    /\ Go(w, "persist")
    /\ Frame /\ UNCHANGED <<row, goal, started, lost, told, tried, ghosts>>

Unclaim(w) ==
    LET o == cur[w]
    IN  /\ pc[w] = "unclaim"
        /\ \/ row[o].gateway = 0 /\ Cas(o, {"dispatching"}, [row[o] EXCEPT !.status = "bridged"])
           \/ UNCHANGED row         \* an id is there, or the database fails
        /\ DispatchFails(w)
        /\ Frame /\ UNCHANGED <<Rest, gateway, ghosts>>

PersistGatewayId(w) ==
    LET o == cur[w]
    IN  /\ pc[w] = "persist"
        /\ \/ /\ row[o].status = "dispatching"
              /\ Cas(o, {"dispatching"}, [row[o] EXCEPT !.gateway = receipt[w]])
              /\ DispatchSucceeds(w)
           \/ UNCHANGED row /\ DispatchFails(w)
        /\ receipt' = [receipt EXCEPT ![w] = 0]
        /\ Frame /\ UNCHANGED <<goal, started, lost, told, gateway, ghosts>>

-----------------------------------------------------------------------------
(* advanceDispatching *)

\* A dispatching row without a gateway id is only reported.
FetchDispatching(w, o) ==
    /\ row[o].status = "dispatching" /\ row[o].gateway # 0
    /\ Fetch(w, o, "poll")
    /\ Frame /\ UNCHANGED <<row, dispatchVars>>

PollNothing(w) ==
    /\ pc[w] = "poll"
    /\ Done(w)
    /\ Frame /\ UNCHANGED <<row, dispatchVars>>

\* The PaymentOrder is written, if at all, before the route_a_orders row.
Decide(w, status, said) ==
    /\ goal' = [goal EXCEPT ![w] = status]
    /\ \E p \in {said, told[cur[w]]} : told' = [told EXCEPT ![cur[w]] = p]
    /\ Go(w, "write")

\* Mutant: a fill that is not settled yet counts.
PollSettledEarly(w) ==
    /\ pc[w] = "poll"
    /\ gateway[cur[w]][snap[w].gateway] \in {"open", "settled"}
    /\ Decide(w, "settled", "settled")
    /\ Frame /\ UNCHANGED <<row, tried, receipt, started, lost, gateway, ghosts>>

PollSettled(w) ==
    /\ pc[w] = "poll"
    /\ gateway[cur[w]][snap[w].gateway] = "settled"
    /\ Decide(w, "settled", "settled")
    /\ Frame /\ UNCHANGED <<row, tried, receipt, started, lost, gateway, ghosts>>

\* Mutant: an order nobody has filled yet is taken back without asking the Gateway.
PollReturnedEarly(w) ==
    /\ pc[w] = "poll"
    /\ gateway[cur[w]][snap[w].gateway] \in {"open", "returned"}
    /\ Decide(w, "bridged", told[cur[w]])
    /\ Frame /\ UNCHANGED <<row, tried, receipt, started, lost, gateway, ghosts>>

\* Mutant: the aggregator's status is written through.
PollReturnedAsIs(w) ==
    /\ pc[w] = "poll"
    /\ gateway[cur[w]][snap[w].gateway] = "returned"
    /\ Decide(w, "expired", "refunded")
    /\ Frame /\ UNCHANGED <<row, tried, receipt, started, lost, gateway, ghosts>>

\* Unfilled: back to bridged while fewer than MaxAttempts attempts are counted, or when
\* counting fails, which the code takes for one attempt.
PollReturned(w) ==
    LET o == cur[w]
    IN  /\ pc[w] = "poll"
        /\ gateway[o][snap[w].gateway] = "returned"
        /\ \/ /\ IF started[o] < MaxAttempts
                 THEN Decide(w, "bridged", told[o])
                 ELSE Decide(w, "refunded", "refunded")
              /\ UNCHANGED lost
           \/ /\ lost < MaxLosses
              /\ lost' = lost + 1
              /\ Decide(w, "bridged", told[o])
        /\ Frame /\ UNCHANGED <<row, tried, receipt, started, gateway, ghosts>>

\* Mutant: the returned id is not cleared.
WriteOutcomeKeepsId(w) ==
    LET o == cur[w]
    IN  /\ pc[w] = "write"
        /\ \/ Cas(o, {"dispatching"}, [row[o] EXCEPT !.status = goal[w]])
           \/ UNCHANGED row
        /\ Done(w)
        /\ goal' = [goal EXCEPT ![w] = "bridged"]
        /\ Frame /\ UNCHANGED <<tried, receipt, started, lost, told, gateway, ghosts>>

\* The guard is on the status alone, not on the id that was polled.
WriteOutcome(w) ==
    LET o == cur[w]
    IN  /\ pc[w] = "write"
        /\ \/ /\ Cas(o, {"dispatching"},
                     [row[o] EXCEPT !.status = goal[w],
                                    !.gateway = IF goal[w] = "bridged" THEN 0 ELSE @])
              /\ stale' = IF row[o].status = "dispatching" /\ row[o].gateway # snap[w].gateway
                          THEN stale \cup {o} ELSE stale
           \/ UNCHANGED <<row, stale>>  \* the database fails; the next tick polls again
        /\ Done(w)
        /\ goal' = [goal EXCEPT ![w] = "bridged"]
        /\ Frame
        /\ UNCHANGED <<tried, receipt, started, lost, told, gateway, unheard, overlapped>>

-----------------------------------------------------------------------------
(* Outside the dispatcher *)

\* A provision node fills the order and the aggregator settles it, or it goes back.
GatewayResolves(o, g) ==
    /\ gateway[o][g] = "open"
    /\ \E outcome \in {"settled", "returned"} : gateway' = [gateway EXCEPT ![o][g] = outcome]
    /\ UNCHANGED <<sharedVars, goal, tried, receipt, started, lost, told, ghosts>>

CrashWorker(w) ==
    /\ Crash(w)
    /\ goal' = [goal EXCEPT ![w] = "bridged"]
    /\ tried' = [tried EXCEPT ![w] = [o \in Orders |-> 0]]
    /\ receipt' = [receipt EXCEPT ![w] = 0]
    /\ UNCHANGED <<started, lost, told, gateway, ghosts>>

-----------------------------------------------------------------------------

Dispatch(w) ==
    \/ \E o \in Orders : FetchBridged(w, o)
    \/ BeginDispatch(w) \/ PrepareFails(w) \/ ClaimDispatch(w)
    \/ CreateNotSubmitted(w) \/ CreateAmbiguous(w) \/ CreateReturns(w)
    \/ Unclaim(w) \/ PersistGatewayId(w)

Poll(w) ==
    \/ \E o \in Orders : FetchDispatching(w, o)
    \/ PollNothing(w) \/ PollSettled(w) \/ PollReturned(w) \/ WriteOutcome(w)

LeaseStep ==
    \/ LeaseExpires /\ UNCHANGED dispatchVars
    \/ \E w \in Workers : EndTick(w) /\ UNCHANGED dispatchVars

Next ==
    \/ \E w \in Workers : BeginTick(w) \/ Dispatch(w) \/ Poll(w) \/ CrashWorker(w)
    \/ LeaseStep
    \/ \E o \in Orders, g \in GatewayIds : GatewayResolves(o, g)

Spec == Init /\ [][Next]_vars

Answer(w) == PollSettled(w) \/ PollReturned(w)

WriteLands(w) == WriteOutcome(w) /\ row'[cur[w]] # row[cur[w]]

\* The cron ticks for ever on some instance, some handler that has begun goes on, ticks loop over
\* every row they fetched, the aggregator resolves every order, and neither its status endpoint
\* nor the write of the outcome fails for ever.  No particular instance has to go on.
Fairness ==
    /\ WF_vars(\E w \in Workers : BeginTick(w))
    /\ WF_vars(\E w \in Workers : Dispatch(w) \/ Poll(w))
    /\ SF_vars(\E w \in Workers : Answer(w))
    /\ SF_vars(\E w \in Workers : WriteLands(w))
    /\ \A o \in Orders :
          /\ SF_vars(\E w \in Workers : FetchDispatching(w, o))
          /\ WF_vars(\E g \in GatewayIds : GatewayResolves(o, g))

FairSpec == Spec /\ Fairness

-----------------------------------------------------------------------------
(* Properties *)

Steps == {"idle", "dispatch", "prepare", "create", "unclaim", "persist", "poll", "write"}

\* Every variable keeps its type (route_a_orders and payment_orders rows, dispatcher
\* memory, route_a_events count, orders on Base).
TypeOK ==
    /\ row \in [Orders -> RowRec]
    /\ pc \in [Workers -> Steps]
    /\ cur \in [Workers -> Orders \cup {Nil}]
    /\ snap \in [Workers -> RowRec]
    /\ ticking \subseteq Workers
    /\ lease \in Workers \cup {Nil}
    /\ crashes \in Nat
    /\ goal \in [Workers -> Statuses]
    /\ tried \in [Workers -> [Orders -> 0 .. SampledFully]]
    /\ receipt \in [Workers -> GatewayIds \cup {0}]
    /\ started \in [Orders -> 0 .. MaxAttempts + MaxLosses]
    /\ lost \in 0 .. MaxLosses
    /\ told \in [Orders -> ToldStatuses]
    /\ gateway \in [Orders -> [GatewayIds -> GatewayStates]]
    /\ unheard \in [Orders -> SUBSET GatewayIds]
    /\ stale \subseteq Orders /\ overlapped \in BOOLEAN

\* The merchant is not paid twice: of the Gateway orders ever created for one order at most one
\* can still be filled or has been, though ticks overlap, workers crash and receipts are lost
\* (dispatchLP's claim, the revert's empty-id guard, advanceDispatching's clearing of a returned
\* id).  The exceptions are the two ways in which the code gives up an id that may pay: createOrders
\* called not sent that were (unheard), and an outcome written over another id's (stale).
OnePayout == \A o \in Orders \ stale : \A g, h \in Paying(o) : g = h

\* What the operator and the merchant are told is what happened on Base: an order is settled, or
\* reported settled by the dispatcher, only when it has been paid out, whichever tick says so, and
\* refunded only when nothing created for it was or can be filled.  The PaymentOrder may be reported
\* refunded and the order still be paid after one failure of the database, when the row's write
\* fails after the PaymentOrder's and the next poll's count of attempts does too (PollReturned),
\* and when two ticks count attempts side by side: hence lost and overlapped.
OutcomeIsTrue ==
    \A o \in Orders :
        /\ row[o].status = "settled" \/ told[o] = "settled" => Paid(o) # {}
        /\ o \notin stale =>
              /\ row[o].status = "refunded" => Paying(o) = {}
              /\ told[o] = "refunded" /\ lost = 0 /\ ~overlapped => Paying(o) = {}

\* A bridged row owes its whole payout: nothing known to have been created for it earlier can
\* still pay (what lets dispatchLP submit it without looking at earlier ids).
BridgedOwesAll ==
    \A o \in Orders \ stale : row[o].status = "bridged" => Paying(o) = {}

\* The retry cap counts started events, which TimeSampled stops recording when attempts
\* keep failing, and is looked at only where an order comes back; still every order known to have
\* been created on Base is accounted for by an event or by a write or count of events that failed,
\* so without such failures none is created more than MaxAttempts times (advanceDispatching's
\* attempts query).
CreatesAreCounted ==
    \A o \in Orders \ stale : /\ Cardinality(Created(o)) <= started[o] + lost
                              /\ Cardinality(Created(o)) <= MaxAttempts + lost

\* advanceDispatching writes what it polled under a guard on the status alone: still an id leaves a
\* row only when the order it names has come back, a row is settled only by the order it names, and
\* a row that has ended stays as it is, but for the write that makes an order stale.
EndedByItsOrder ==
    [][\A o \in Orders \ stale' :
          /\ row[o].gateway # 0 /\ row'[o].gateway # row[o].gateway =>
                gateway[o][row[o].gateway] = "returned"
          /\ row[o].status # "settled" /\ row'[o].status = "settled" =>
                row[o].gateway # 0 /\ gateway[o][row[o].gateway] = "settled"
          /\ row[o].status \in Terminal => row'[o] = row[o]]_vars

\* A Gateway order whose id is on record is followed to its end: it settles the row, or the row
\* lets go of it to be submitted again or is refunded, through overlapping ticks, crashes and
\* failed polls and writes (advanceDispatching).
FillIsFollowed ==
    \A o \in Orders :
        row[o].status = "dispatching" /\ row[o].gateway # 0
            ~> row[o].gateway = 0 \/ row[o].status \in Terminal

=============================================================================
