---------------------------- MODULE RouteATreasury ----------------------------
(***************************************************************************)
(* Treasury mode (Route C): the merchant of a bridged order is paid from   *)
(* the platform's float on a bank rail, and the order's USDC goes through  *)
(* the Gateway on Base to refill the float.  An order the float cannot pay *)
(* falls back to lp mode, which is RouteADispatch on the same row.         *)
(***************************************************************************)
EXTENDS RouteAOrders, FiniteSets

CONSTANTS
    Refs,          \* attempt numbers a payout reference may carry
    Banks,         \* rails the operator may switch the float to
    DefaultRail,   \* the float rail before the first switch
    MaxFaults,     \* bound: crashes, switches of the rail and disowned payouts together
    MaxAttempts, SampledFully, MaxLosses, MaxUnheard   \* of RouteADispatch

ASSUME TreasuryAssumption ==
    /\ Refs \subseteq Nat \ {0}
    /\ IsFiniteSet(Refs) /\ IsFiniteSet(Banks)
    /\ Nil \notin Banks /\ DefaultRail \in Banks
    /\ MaxFaults \in Nat
    /\ GatewayIds \subseteq Nat /\ IsFiniteSet(GatewayIds)

VARIABLES
    goal, tried, receipt, started, lost, told, gateway, unheard, stale, overlapped,
                \* of RouteADispatch
    held,       \* [Workers -> HeldRec], the payout or the answer a handler holds
    floatRail,  \* rails:float_rail, the bank payouts are made and polled at
    switches,
    rail,       \* [Banks \X Orders \X Refs -> RailStates], the banks' transfers
    counted,    \* [Orders -> Nat], started rows of step treasury_payout at the last claim
    disowned,   \* ghost: accepted payouts whose submit call failed
    reloads,    \* ghost: [Orders -> SUBSET GatewayIds], Gateway orders that pay the float
    dropped     \* ghost: [Orders -> SUBSET GatewayIds], reloads whose id was not written

ghosts == <<unheard, stale, overlapped>>
dispatchVars == <<goal, tried, receipt, started, lost, told, gateway, ghosts>>
bankVars == <<floatRail, switches, rail, disowned>>
treasuryVars == <<held, counted, bankVars, reloads, dropped>>
vars == <<sharedVars, dispatchVars, treasuryVars>>

D == INSTANCE RouteADispatch

Modes == {"treasury", "lp"}

\* ref is the attempt number of treasury_payout_ref (0: empty), settlement the reload's
\* settlement_status.
TreasuryRowRec ==
    [ status : {"bridged", "dispatching", "settled", "refunded"}, mode : Modes,
      ref : Refs \cup {0}, gateway : GatewayIds \cup {0}, bridged_amount : BOOLEAN,
      settlement : D!GatewayStates ]

HeldRec == [ bank : Banks \cup {Nil}, ref : Refs \cup {0}, seen : D!GatewayStates ]

Nothing == [bank |-> Nil, ref |-> 0, seen |-> "none"]

RailStates == {"none", "processing", "success", "failed"}

\* Orders start where the bridge half leaves them.
Bridged(known) == [ status |-> "bridged", mode |-> "treasury", ref |-> 0, gateway |-> 0,
                    bridged_amount |-> known, settlement |-> "none" ]

Init ==
    /\ row \in [Orders -> { Bridged(known) : known \in BOOLEAN }]
    /\ pc = [w \in Workers |-> "idle"]
    /\ cur = [w \in Workers |-> Nil]
    /\ snap = [w \in Workers |-> NewRow("lifi")]
    /\ ticking = {} /\ lease = Nil /\ crashes = 0
    /\ goal = [w \in Workers |-> "bridged"]
    /\ tried = [w \in Workers |-> [o \in Orders |-> 0]]
    /\ receipt = [w \in Workers |-> 0]
    /\ started = [o \in Orders |-> 0] /\ lost = 0
    /\ told = [o \in Orders |-> "nothing"]
    /\ gateway = [o \in Orders |-> [g \in GatewayIds |-> "none"]]
    /\ unheard = [o \in Orders |-> {}] /\ stale = {} /\ overlapped = FALSE
    /\ held = [w \in Workers |-> Nothing]
    /\ floatRail = DefaultRail /\ switches = 0
    /\ rail = [p \in Banks \X Orders \X Refs |-> "none"]
    /\ disowned = {} /\ counted = [o \in Orders |-> 0]
    /\ reloads = [o \in Orders |-> {}] /\ dropped = [o \in Orders |-> {}]

Faults == crashes + switches + Cardinality(disowned)

Hold(w, bank, ref) ==
    held' = [held EXCEPT ![w] = [Nothing EXCEPT !.bank = bank, !.ref = ref]]

Finish(w) == Done(w) /\ held' = [held EXCEPT ![w] = Nothing]

Advance(w, step) == Go(w, step) /\ UNCHANGED held

\* A tick goes on to its phases only when some order is not in a terminal status.
Active == \E o \in Orders : row[o].status \notin Terminal

BeginTick(w) == Active /\ D!BeginTick(w) /\ UNCHANGED treasuryVars

-----------------------------------------------------------------------------
(* dispatchTreasury *)

FetchTreasury(w, o) ==
    /\ row[o].mode = "treasury" /\ row[o].status = "bridged"
    /\ Fetch(w, o, "gate")
    /\ Hold(w, floatRail, 0)
    /\ Frame /\ UNCHANGED <<row, dispatchVars, counted, bankVars, reloads, dropped>>

\* No rail, no recipient, no amount, no balance, or the claim's write fails.
GateFails(w) ==
    /\ pc[w] = "gate"
    /\ Finish(w)
    /\ Frame /\ UNCHANGED <<row, dispatchVars, counted, bankVars, reloads, dropped>>

Unclaimed(o) == row[o].status = "bridged" /\ row[o].mode = "treasury"

\* Below the rail's minimum, or more than the float holds.
FallbackToLp(w) ==
    LET o == cur[w]
    IN  /\ pc[w] = "gate"
        /\ row' = IF Unclaimed(o) THEN [row EXCEPT ![o].mode = "lp"] ELSE row
        /\ Finish(w)
        /\ Frame /\ UNCHANGED <<dispatchVars, counted, bankVars, reloads, dropped>>

\* The number counts the started rows, one more than at the last claim (numbers skipped by
\* attempts that claimed nothing are not told apart).  It repeats the row's own when attempts
\* kept failing and TimeSampled recorded none, and any when a row or the count is lost.
Numbers(o, n) ==
    \/ n \in {counted[o] + 1, row[o].ref} /\ UNCHANGED lost
    \/ n <= counted[o] /\ lost < MaxLosses /\ lost' = lost + 1

ClaimPayout(w, n) ==
    LET o == cur[w]
    IN  /\ pc[w] = "gate"
        /\ Numbers(o, n)
        /\ counted' = [counted EXCEPT ![o] = IF n > @ THEN n ELSE @]
        /\ IF Unclaimed(o)
           THEN /\ row' = [row EXCEPT ![o].status = "dispatching", ![o].ref = n]
                /\ Go(w, "transfer")
                /\ Hold(w, held[w].bank, n)
           ELSE Finish(w) /\ UNCHANGED row
        /\ Frame
        /\ UNCHANGED <<goal, tried, receipt, started, told, gateway, ghosts,
                       bankVars, reloads, dropped>>

Payout(w) == <<held[w].bank, cur[w], held[w].ref>>

\* provider.Transfer: a reference the bank knows is answered with its first transfer.
Accept(p, state) == rail' = IF rail[p] = "none" THEN [rail EXCEPT ![p] = state] ELSE rail

\* Mutant: a transfer the bank took is one it made.
SubmitPayoutTrusting(w) ==
    /\ pc[w] = "transfer"
    /\ \/ Accept(Payout(w), "processing") /\ Advance(w, "settle") /\ UNCHANGED disowned
       \/ UNCHANGED <<rail, disowned>> /\ Advance(w, "release")
    /\ Frame /\ UNCHANGED <<row, dispatchVars, counted, floatRail, switches, reloads, dropped>>

\* Accepted, made at once, or the call fails: not submitted, or taken with its answer lost.
SubmitPayout(w) ==
    LET p == Payout(w)
    IN  /\ pc[w] = "transfer"
        /\ \/ Accept(p, "processing") /\ UNCHANGED disowned
              /\ IF rail'[p] = "success" THEN Advance(w, "settle") ELSE Finish(w)
           \/ Accept(p, "success") /\ rail'[p] = "success" /\ UNCHANGED disowned
              /\ Advance(w, "settle")
           \/ UNCHANGED <<rail, disowned>> /\ Advance(w, "release")
           \/ /\ Faults < MaxFaults
              /\ Accept(p, "processing")
              /\ disowned' = disowned \cup {p}
              /\ Advance(w, "release")
        /\ Frame /\ UNCHANGED <<row, dispatchVars, counted, floatRail, switches, reloads, dropped>>

\* Guarded by the reference as well; the reference stays in the row.
ReleaseClaim(w) ==
    LET o == cur[w]
    IN  /\ pc[w] = "release"
        /\ \/ row[o].ref = held[w].ref /\ Cas(o, {"dispatching"}, [row[o] EXCEPT !.status = "bridged"])
           \/ UNCHANGED row          \* another reference is there, or the database fails
        /\ Finish(w)
        /\ Frame /\ UNCHANGED <<dispatchVars, counted, bankVars, reloads, dropped>>

-----------------------------------------------------------------------------
(* advanceTreasuryPayouts and finalizeTreasuryPayout *)

\* Mutant: only payouts without a reload are polled.
FetchPayoutUnreloaded(w, o) ==
    /\ row[o].mode = "treasury" /\ row[o].status = "dispatching" /\ row[o].ref # 0
    /\ row[o].gateway = 0
    /\ Fetch(w, o, "payout")
    /\ Hold(w, floatRail, row[o].ref)
    /\ Frame /\ UNCHANGED <<row, dispatchVars, counted, bankVars, reloads, dropped>>

FetchPayout(w, o) ==
    /\ row[o].mode = "treasury" /\ row[o].status = "dispatching" /\ row[o].ref # 0
    /\ Fetch(w, o, "payout")
    /\ Hold(w, floatRail, row[o].ref)
    /\ Frame /\ UNCHANGED <<row, dispatchVars, counted, bankVars, reloads, dropped>>

\* Mutant: what is not known to be made has failed.
PollPayoutHasty(w) ==
    /\ pc[w] = "payout"
    /\ Advance(w, IF rail[Payout(w)] = "success" THEN "settle" ELSE "retire")
    /\ Frame /\ UNCHANGED <<row, dispatchVars, counted, bankVars, reloads, dropped>>

\* The bank asked is the one the float is at now, which may not know the reference.
PollPayout(w) ==
    /\ pc[w] = "payout"
    /\ CASE rail[Payout(w)] = "success" -> Advance(w, "settle")
         [] rail[Payout(w)] = "failed"  -> Advance(w, "retire")
         [] OTHER                       -> Finish(w)
    /\ Frame /\ UNCHANGED <<row, dispatchVars, counted, bankVars, reloads, dropped>>

PollPayoutFails(w) ==
    /\ pc[w] = "payout"
    /\ Finish(w)
    /\ Frame /\ UNCHANGED <<row, dispatchVars, counted, bankVars, reloads, dropped>>

\* Mutant: a retired payout takes the reload's id with it.
RetirePayoutForgets(w) ==
    LET o == cur[w]
    IN  /\ pc[w] = "retire"
        /\ Cas(o, {"dispatching"}, [row[o] EXCEPT !.status = "bridged", !.ref = 0, !.gateway = 0])
        /\ Finish(w)
        /\ Frame /\ UNCHANGED <<dispatchVars, counted, bankVars, reloads, dropped>>

\* The guard is on the status alone, not on the reference that failed.
RetirePayout(w) ==
    LET o == cur[w]
    IN  /\ pc[w] = "retire"
        /\ \/ Cas(o, {"dispatching"}, [row[o] EXCEPT !.status = "bridged", !.ref = 0])
           \/ UNCHANGED row          \* the database fails; the next tick polls again
        /\ Finish(w)
        /\ Frame /\ UNCHANGED <<dispatchVars, counted, bankVars, reloads, dropped>>

\* The PaymentOrder is written after the row, and only by the handler that moved the row.
SettleRow(w) ==
    LET o == cur[w]
    IN  /\ pc[w] = "settle"
        /\ \/ /\ Cas(o, {"dispatching"}, [row[o] EXCEPT !.status = "settled"])
              /\ IF row[o].status = "dispatching" THEN Advance(w, "po") ELSE Finish(w)
           \/ UNCHANGED row /\ Finish(w)
        /\ Frame /\ UNCHANGED <<dispatchVars, counted, bankVars, reloads, dropped>>

SettlePaymentOrder(w) ==
    /\ pc[w] = "po"
    /\ \E p \in {"settled", told[cur[w]]} : told' = [told EXCEPT ![cur[w]] = p]
    /\ Finish(w)
    /\ Frame
    /\ UNCHANGED <<row, goal, tried, receipt, started, lost, gateway, ghosts,
                   counted, bankVars, reloads, dropped>>

-----------------------------------------------------------------------------
(* advanceFloatReload *)

FetchReload(w, o) ==
    /\ row[o].mode = "treasury" /\ row[o].status \in {"dispatching", "settled"}
    /\ row[o].settlement # "settled"
    /\ Fetch(w, o, IF row[o].gateway = 0 THEN "reload" ELSE "pollReload")
    /\ Frame /\ UNCHANGED <<row, dispatchVars, treasuryVars>>

\* No float account, no rate, no key, no allowance, no answer, not sent.
ReloadFails(w) ==
    /\ pc[w] \in {"reload", "pollReload"}
    /\ Finish(w)
    /\ Frame /\ UNCHANGED <<row, dispatchVars, counted, bankVars, reloads, dropped>>

\* createGatewayOrder: the order is on Base, under an id that is in the receipt.
ReloadReturns(w, g) ==
    LET o == cur[w]
    IN  /\ pc[w] = "reload" /\ snap[w].bridged_amount
        /\ D!Creates(o, g)
        /\ reloads' = [reloads EXCEPT ![o] = @ \cup {g}]
        /\ receipt' = [receipt EXCEPT ![w] = g]
        /\ Advance(w, "persistReload")
        /\ Frame /\ UNCHANGED <<row, goal, tried, started, lost, told, ghosts,
                             counted, bankVars, dropped>>

\* ... or it is, and the receipt is not seen or the answer to the submission is lost: nobody keeps
\* the id.
ReloadAmbiguous(w, g) ==
    LET o == cur[w]
    IN  /\ pc[w] = "reload" /\ snap[w].bridged_amount
        /\ D!Creates(o, g)
        /\ reloads' = [reloads EXCEPT ![o] = @ \cup {g}]
        /\ dropped' = [dropped EXCEPT ![o] = @ \cup {g}]
        /\ Finish(w)
        /\ Frame /\ UNCHANGED <<row, goal, tried, receipt, started, lost, told, ghosts,
                             counted, bankVars>>

\* Only where the id is still empty.
PersistReload(w) ==
    LET o == cur[w]
        g == receipt[w]
    IN  /\ pc[w] = "persistReload"
        /\ \/ /\ row[o].gateway = 0
              /\ row' = [row EXCEPT ![o].gateway = g]
              /\ UNCHANGED dropped
           \/ /\ UNCHANGED row
              /\ dropped' = [dropped EXCEPT ![o] = @ \cup {g}]
        /\ receipt' = [receipt EXCEPT ![w] = 0]
        /\ Finish(w)
        /\ Frame
        /\ UNCHANGED <<goal, tried, started, lost, told, gateway, ghosts,
                       counted, bankVars, reloads>>

PollReload(w) ==
    LET status == gateway[cur[w]][snap[w].gateway]
    IN  /\ pc[w] = "pollReload"
        /\ IF status = snap[w].settlement
           THEN Finish(w)
           ELSE /\ Go(w, "writeReload")
                /\ held' = [held EXCEPT ![w].seen = status]
        /\ Frame /\ UNCHANGED <<row, dispatchVars, counted, bankVars, reloads, dropped>>

\* Mutant: the reload's status ends the order, as in lp mode.
WriteReloadAsOutcome(w) ==
    /\ pc[w] = "writeReload"
    /\ row' = [row EXCEPT ![cur[w]].settlement = held[w].seen, ![cur[w]].status = held[w].seen]
    /\ Finish(w)
    /\ Frame /\ UNCHANGED <<dispatchVars, counted, bankVars, reloads, dropped>>

\* Unguarded: the row as it is by then.
WriteReload(w) ==
    /\ pc[w] = "writeReload"
    /\ \/ row' = [row EXCEPT ![cur[w]].settlement = held[w].seen]
       \/ UNCHANGED row
    /\ Finish(w)
    /\ Frame /\ UNCHANGED <<dispatchVars, counted, bankVars, reloads, dropped>>

-----------------------------------------------------------------------------
(* Outside the handlers *)

\* An order that fell back is dispatched and polled as in lp mode.
LpMode(w) ==
    /\ \/ \E o \in Orders : row[o].mode = "lp" /\ (D!FetchBridged(w, o) \/ D!FetchDispatching(w, o))
       \/ D!BeginDispatch(w) \/ D!PrepareFails(w) \/ D!ClaimDispatch(w)
       \/ D!CreateNotSubmitted(w) \/ D!CreateAmbiguous(w)
       \/ D!CreateReturns(w) \/ D!Unclaim(w) \/ D!PersistGatewayId(w)
       \/ D!PollNothing(w) \/ D!PollSettled(w) \/ D!PollReturned(w) \/ D!WriteOutcome(w)
    /\ UNCHANGED treasuryVars

\* SetFloatRail, from the admin dashboard.
SwitchRail(b) ==
    /\ Faults < MaxFaults /\ b # floatRail
    /\ switches' = switches + 1
    /\ floatRail' = b
    /\ UNCHANGED <<sharedVars, dispatchVars, held, counted, rail, disowned, reloads, dropped>>

RailResolves(p) ==
    /\ rail[p] = "processing"
    /\ \E state \in {"success", "failed"} : rail' = [rail EXCEPT ![p] = state]
    /\ UNCHANGED <<sharedVars, dispatchVars, held, counted, floatRail, switches, disowned, reloads, dropped>>

CrashWorker(w) ==
    /\ Faults < MaxFaults /\ D!CrashWorker(w)
    /\ held' = [held EXCEPT ![w] = Nothing]
    /\ dropped' = IF pc[w] = "persistReload"
                  THEN [dropped EXCEPT ![cur[w]] = @ \cup {receipt[w]}] ELSE dropped
    /\ UNCHANGED <<counted, bankVars, reloads>>

-----------------------------------------------------------------------------

PayoutStep(w) ==
    \/ GateFails(w) \/ FallbackToLp(w) \/ SubmitPayout(w) \/ ReleaseClaim(w)
    \/ PollPayout(w) \/ PollPayoutFails(w) \/ RetirePayout(w) \/ SettleRow(w) \/ SettlePaymentOrder(w)
    \/ \E n \in Refs : ClaimPayout(w, n)

ReloadStep(w) ==
    \/ ReloadFails(w) \/ PersistReload(w) \/ PollReload(w) \/ WriteReload(w)
    \/ \E g \in GatewayIds : ReloadReturns(w, g) \/ ReloadAmbiguous(w, g)

Handler(w) ==
    \/ \E o \in Orders : FetchTreasury(w, o) \/ FetchPayout(w, o) \/ FetchReload(w, o)
    \/ PayoutStep(w) \/ ReloadStep(w) \/ LpMode(w)

Outside ==
    \/ D!LeaseStep /\ UNCHANGED treasuryVars
    \/ \E b \in Banks : SwitchRail(b)
    \/ \E p \in Banks \X Orders \X Refs : RailResolves(p)
    \/ \E o \in Orders, g \in GatewayIds : D!GatewayResolves(o, g) /\ UNCHANGED treasuryVars

Next == Outside \/ \E w \in Workers : BeginTick(w) \/ Handler(w) \/ CrashWorker(w)

Spec == Init /\ [][Next]_vars

\* The cron ticks for ever, a handler that has begun goes on, a tick loops over every
\* payout it fetched, and neither the bank's status call nor the write of settled fails for ever.
Fairness ==
    /\ \A w \in Workers :
          /\ WF_vars(BeginTick(w))
          /\ WF_vars(PayoutStep(w) \/ ReloadStep(w) \/ LpMode(w))
          /\ SF_vars(PollPayout(w))
          /\ SF_vars(SettleRow(w) /\ row' # row)
          /\ \A o \in Orders : SF_vars(FetchPayout(w, o))

FairSpec == Spec /\ Fairness

-----------------------------------------------------------------------------
(* Properties *)

Steps == D!Steps \cup { "gate", "transfer", "release", "payout", "retire", "settle", "po",
                        "reload", "persistReload", "pollReload", "writeReload" }

\* Every variable keeps its type (route_a_orders rows in treasury mode, handlers, banks).
TypeOK ==
    /\ row \in [Orders -> TreasuryRowRec]
    /\ pc \in [Workers -> Steps]
    /\ cur \in [Workers -> Orders \cup {Nil}]
    /\ snap \in [Workers -> TreasuryRowRec \cup {NewRow("lifi")}]
    /\ ticking \subseteq Workers /\ lease \in Workers \cup {Nil} /\ crashes \in Nat
    /\ goal \in [Workers -> {"bridged", "settled", "refunded"}]
    /\ receipt \in [Workers -> GatewayIds \cup {0}]
    /\ told \in [Orders -> D!ToldStatuses]
    /\ gateway \in [Orders -> [GatewayIds -> D!GatewayStates]]
    /\ unheard \in [Orders -> SUBSET GatewayIds]
    /\ stale \subseteq Orders /\ overlapped \in BOOLEAN
    /\ held \in [Workers -> HeldRec]
    /\ floatRail \in Banks /\ switches \in Nat
    /\ rail \in [Banks \X Orders \X Refs -> RailStates]
    /\ disowned \subseteq Banks \X Orders \X Refs /\ counted \in [Orders -> Nat]
    /\ reloads \in [Orders -> SUBSET GatewayIds]
    /\ dropped \in [Orders -> SUBSET GatewayIds]

Transfers(o) == { p \in Banks \X {o} \X Refs : rail[p] \in {"processing", "success"} }

\* Gateway orders that pay the merchant, or still may, and are not called not sent.
Fills(o) == { g \in D!Known(o) \ reloads[o] : gateway[o][g] \in {"open", "settled"} }

\* The order fell back to lp mode with a reload's id in its row, which lp mode takes for
\* the merchant's (the run treasury_fallback).
Entangled(o) == row[o].mode = "lp" /\ reloads[o] # {}

\* A reference two banks know: it is idempotent at each of them only.
Reused(o) ==
    \E n \in Refs, b, c \in Banks : b # c /\ rail[<<b, o, n>>] # "none" /\ rail[<<c, o, n>>] # "none"

\* The header's money discipline: with the claim, the reference, the release and the
\* fallback the merchant is paid once, by the float or by the Gateway, through crashes,
\* retries and switches of the rail.  Its exceptions are transfers the code disowned and an
\* order whose reference was used at two banks: the poll may ask the wrong one.
PaidOnce ==
    LeaseHolds => \A o \in Orders :
        ~Entangled(o) /\ ~Reused(o) => Cardinality(Transfers(o) \ disowned) + Cardinality(Fills(o)) <= 1

Paid(o) ==
    \/ \E b \in Banks, n \in Refs : rail[<<b, o, n>>] = "success"
    \/ \E g \in GatewayIds \ reloads[o] : gateway[o][g] = "settled"

\* finalizeTreasuryPayout: settled means the merchant has the naira, whoever paid it.
SettledIsPaid ==
    LeaseHolds => \A o \in Orders :
        ~Entangled(o) => (row[o].status = "settled" \/ told[o] = "settled" => Paid(o))

\* The same of every order, as finalizeTreasuryPayout and dispatchLP's comments have it.
SettledMeansPaid == \A o \in Orders : row[o].status = "settled" => Paid(o)

\* submitFloatReload: an order's USDC goes to the float once, however often its payout
\* fails and is made again; each further reload is one whose id never reached the row.
ReloadedOnce == \A o \in Orders : Cardinality(reloads[o] \ dropped[o]) <= 1

\* A payout the bank made is followed to settled through crashes, failed status calls and
\* failed writes, unless the operator moves the float to another bank (or it was disowned).
PayoutIsFollowed ==
    \A o \in Orders, b \in Banks, n \in Refs :
        (/\ row[o].status = "dispatching" /\ row[o].mode = "treasury" /\ row[o].ref = n
         /\ rail[<<b, o, n>>] = "success" /\ <<b, o, n>> \notin disowned /\ floatRail = b)
            ~> (row[o].status = "settled" \/ floatRail # b)

=============================================================================
