----------------------------- MODULE RouteABridge -----------------------------
(***************************************************************************)
(* The bridge half of Route A: from a pending order whose deposit is on    *)
(* its way to the aggregator wallet on Sui, to USDC delivered on Base.     *)
(* Any number of dispatcher instances work on the same rows.  A step ends  *)
(* where the code makes a remote call another party can interleave with: a *)
(* guarded database write, a transaction, a crash.                         *)
(***************************************************************************)
EXTENDS RouteAOrders

CONSTANTS
    CctpEligible,          \* orders whose coin is native Sui USDC, with the CCTP rail ready
    BridgeFallbackAfter,   \* bridgeFallbackAfter, 3 in the code
    MaxQuoteRetries,       \* maxQuoteRetries, 10 in the code
    Float                  \* what the wallet holds from orders outside this instance

ASSUME BridgeAssumption ==
    /\ CctpEligible \subseteq Orders
    /\ BridgeFallbackAfter \in Nat \ {0}
    /\ MaxQuoteRetries \in Nat \ {0}
    /\ Float \in Nat

VARIABLES
    rail,        \* [Workers -> Rails], the rail of the attempt under way
    fallback,    \* [Workers -> BOOLEAN], the attempt is the other rail's
    fails,       \* [Workers -> [Orders -> Nat]], quoteFailCounts, per process
    arrived,     \* orders whose deposit has been self-settled to the aggregator wallet
    selfSettled, \* orders with a succeeded self_settle event
    wallet,      \* the aggregator's balance on Sui, in deposits
    burns,       \* ghost: bridge transactions of each order that took effect on Sui
    transfer     \* what the bridge made of the order's transaction

bridgeVars == <<rail, fallback, fails, arrived, selfSettled, wallet, burns, transfer>>
vars == <<sharedVars, bridgeVars>>

Transfers == {"none", "inFlight", "attested", "delivered", "refused"}

Other(r) == IF r = "cctp" THEN "lifi" ELSE "cctp"

\* startBridgeForProvider; advancePending chooses the fallback by the same test.
Primary(s, o) == IF s.provider = "cctp" \/ o \in CctpEligible THEN "cctp" ELSE "lifi"

Init ==
    /\ row \in [Orders -> { NewRow(r) : r \in Rails }]
    /\ pc = [w \in Workers |-> "idle"]
    /\ cur = [w \in Workers |-> Nil]
    /\ snap = [w \in Workers |-> NewRow("lifi")]
    /\ ticking = {} /\ lease = Nil /\ crashes = 0
    /\ rail = [w \in Workers |-> "lifi"]
    /\ fallback = [w \in Workers |-> FALSE]
    /\ fails = [w \in Workers |-> [o \in Orders |-> 0]]
    /\ arrived = {} /\ selfSettled = {} /\ wallet = Float
    /\ burns = [o \in Orders |-> 0]
    /\ transfer = [o \in Orders |-> "none"]

-----------------------------------------------------------------------------
(* Tick's head, and the end of every handler *)

\* Tick takes the lease and fails every order that outlived ReceiveAddressValidity
\* while still pending; which ones did is left open.
BeginTick(w) ==
    /\ w \notin ticking
    /\ AcquireLease(w)
    /\ ticking' = ticking \cup {w}
    /\ \E stale \in SUBSET Orders :
          row' = [o \in Orders |->
                    IF o \in stale /\ row[o].status \in {"pending", "awaiting_funds"}
                    THEN [row[o] EXCEPT !.status = "failed"] ELSE row[o]]
    /\ UNCHANGED <<pc, cur, snap, crashes, bridgeVars>>

Attempt(w, r, isFallback) ==
    /\ rail' = [rail EXCEPT ![w] = r]
    /\ fallback' = [fallback EXCEPT ![w] = isFallback]

NoAttempt(w) == Attempt(w, "lifi", FALSE)

\* The handler is over and nothing is kept of it but the failure counter.
Finish(w) == Done(w) /\ NoAttempt(w) /\ UNCHANGED fails

\* startBridge returned nil: the counter is dropped.
Succeed(w) ==
    /\ Done(w) /\ NoAttempt(w)
    /\ fails' = [fails EXCEPT ![w][cur[w]] = 0]

\* startBridge returned an error: count it, try the other rail from the threshold on,
\* and give the order up once the counter is full.
FailAttempt(w) ==
    LET o == cur[w]
        n == IF fallback[w] THEN fails[w][o] ELSE fails[w][o] + 1
    IN  /\ fails' = [fails EXCEPT ![w][o] = n]
        /\ IF ~fallback[w] /\ n >= BridgeFallbackAfter
           THEN Go(w, "start") /\ Attempt(w, Other(rail[w]), TRUE)
           ELSE /\ NoAttempt(w)
                /\ IF n >= MaxQuoteRetries THEN Go(w, "giveUp") ELSE Done(w)

Chain == <<arrived, selfSettled, wallet, burns, transfer>>

-----------------------------------------------------------------------------
(* advancePending *)

FetchPending(w, o) ==
    /\ row[o].status \in {"pending", "awaiting_funds"}
    /\ Fetch(w, o, "start")
    /\ Attempt(w, Primary(row[o], o), FALSE)
    /\ Frame /\ UNCHANGED <<row, fails, Chain>>

\* The balance, quote, rate or configuration lookup fails, the rail cannot carry the
\* coin, or LiFi's minimum delivery does not cover a quote made for CCTP.
StartFails(w) ==
    /\ pc[w] = "start"
    /\ FailAttempt(w)
    /\ Frame /\ UNCHANGED <<row, Chain>>

\* The rail can carry the order's coin (startCCTPBridge's gates).
RailOpen(w) == rail[w] = "cctp" => cur[w] \in CctpEligible

\* The pre-flight check: the wallet's whole balance, and the order's own self_settle
\* event only when the snapshot already says awaiting_funds.
DepositMissing(w) ==
    \/ snap[w].status = "awaiting_funds" /\ cur[w] \notin selfSettled
    \/ wallet < 1

AwaitDeposit(w) ==
    /\ pc[w] = "start" /\ RailOpen(w)
    /\ DepositMissing(w)
    /\ IF fallback[w]
       THEN FailAttempt(w) /\ UNCHANGED row
       ELSE /\ Finish(w)
            /\ IF snap[w].status = "pending"
               THEN Cas(cur[w], {"pending"}, [row[cur[w]] EXCEPT !.status = "awaiting_funds"])
               ELSE UNCHANGED row
    /\ Frame /\ UNCHANGED Chain

\* claimForBridging: one guarded write before anything is submitted.
Claim(w) ==
    LET o == cur[w]
        claimable == {"pending", "awaiting_funds"}
    IN  /\ pc[w] = "start" /\ RailOpen(w)
        /\ ~DepositMissing(w)
        /\ Cas(o, claimable, [row[o] EXCEPT !.status = "bridging", !.provider = rail[w]])
        /\ IF row[o].status \in claimable
           THEN Go(w, "submit") /\ UNCHANGED <<rail, fallback, fails>>
           ELSE Succeed(w)
        /\ Frame /\ UNCHANGED Chain

\* The signed transaction takes the deposit out of the wallet.
Lands(o) ==
    /\ wallet >= 1
    /\ wallet' = wallet - 1
    /\ burns' = [burns EXCEPT ![o] = @ + 1]
    /\ transfer' = [transfer EXCEPT ![o] = "inFlight"]
    /\ UNCHANGED <<arrived, selfSettled>>

\* The transaction was not built, not signed, or aborted in Move with CCTP reading the
\* effects: known not to have moved funds.
SubmitFails(w) ==
    /\ pc[w] = "submit"
    /\ Go(w, "revert")
    /\ Frame /\ UNCHANGED <<row, rail, fallback, fails, Chain>>

\* Mutant: a lost answer is taken for a failed submit and the claim is given back.
SubmitAmbiguousReverts(w) ==
    /\ pc[w] = "submit"
    /\ Lands(cur[w]) \/ UNCHANGED Chain
    /\ Go(w, "revert")
    /\ Frame /\ UNCHANGED <<row, rail, fallback, fails>>

\* The execute call fails or returns no digest: the transaction may have landed, the
\* order stays claimed, and the error is counted like any other.
SubmitAmbiguous(w) ==
    /\ pc[w] = "submit"
    /\ Lands(cur[w]) \/ UNCHANGED Chain
    /\ FailAttempt(w)
    /\ Frame /\ UNCHANGED row

\* A digest comes back.  startBridge does not look at the effects, so on LiFi it may be
\* the digest of a transaction that aborted.
SubmitReturns(w) ==
    /\ pc[w] = "submit"
    /\ Lands(cur[w]) \/ (rail[w] = "lifi" /\ UNCHANGED Chain)
    /\ Go(w, "persist")
    /\ Frame /\ UNCHANGED <<row, rail, fallback, fails>>

\* revertBridgingClaim; a database error here leaves the order claimed.
RevertClaim(w) ==
    LET o == cur[w]
    IN  /\ pc[w] = "revert"
        /\ \/ row[o].digest /\ UNCHANGED row
           \/ ~row[o].digest
              /\ Cas(o, {"bridging"}, [row[o] EXCEPT !.status = "pending"])
           \/ UNCHANGED row
        /\ FailAttempt(w)
        /\ Frame /\ UNCHANGED Chain

PersistDigest(w) ==
    LET o == cur[w]
    IN  /\ pc[w] = "persist"
        /\ \/ /\ row[o].status = "bridging"
              /\ Cas(o, {"bridging"}, [row[o] EXCEPT !.digest = TRUE])
              /\ Succeed(w)
           \/ UNCHANGED row /\ FailAttempt(w)
        /\ Frame /\ UNCHANGED Chain

\* The counter is full: failed, unless the row has left the pending states meanwhile.
GiveUp(w) ==
    LET o == cur[w]
    IN  /\ pc[w] = "giveUp"
        /\ Cas(o, {"pending", "awaiting_funds"}, [row[o] EXCEPT !.status = "failed"])
        /\ Succeed(w)
        /\ Frame /\ UNCHANGED Chain

-----------------------------------------------------------------------------
(* advanceBridging and advanceUncertain *)

\* A bridging row without a digest is only reported.
FetchBridging(w, o) ==
    /\ row[o].status = "bridging" /\ row[o].digest
    /\ Fetch(w, o, "poll")
    /\ Frame /\ UNCHANGED <<row, rail, fallback, fails, Chain>>

\* Mutant: advanceUncertain only knows LiFi.
FetchUncertainLifi(w, o) ==
    /\ row[o].status = "bridge_uncertain" /\ row[o].provider = "lifi"
    /\ Fetch(w, o, "recover")
    /\ Frame /\ UNCHANGED <<row, rail, fallback, fails, Chain>>

FetchUncertain(w, o) ==
    /\ row[o].status = "bridge_uncertain"
    /\ Fetch(w, o, "recover")
    /\ Frame /\ UNCHANGED <<row, rail, fallback, fails, Chain>>

Polling(w) == pc[w] \in {"poll", "recover"}

\* The status call fails, is rate limited, or reports nothing final.
PollNothing(w) ==
    /\ Polling(w)
    /\ Finish(w)
    /\ Frame /\ UNCHANGED <<row, Chain>>

\* Mutant: the status is not one of the schema's.
PollNotFoundMisspelt(w) ==
    /\ pc[w] = "poll"
    /\ Cas(cur[w], {"bridging"}, [row[cur[w]] EXCEPT !.status = "uncertain"])
    /\ Finish(w)
    /\ Frame /\ UNCHANGED Chain

\* The bridge does not know the transaction and the stale window of the tool is over.
\* It may have delivered all the same.
PollNotFound(w) ==
    /\ pc[w] = "poll"
    /\ Cas(cur[w], {"bridging"}, [row[cur[w]] EXCEPT !.status = "bridge_uncertain"])
    /\ Finish(w)
    /\ Frame /\ UNCHANGED Chain

\* LiFi says DONE; the receiving amount may be absent or not parse.
PollDone(w) ==
    LET o == cur[w]
        from == IF pc[w] = "poll" THEN {"bridging"} ELSE {"bridging", "bridge_uncertain"}
    IN  /\ Polling(w)
        /\ snap[w].provider = "lifi" /\ transfer[o] = "delivered"
        /\ \E known \in BOOLEAN :
              Cas(o, from, [row[o] EXCEPT !.status = "bridged", !.bridged_amount = known])
        /\ Finish(w)
        /\ Frame /\ UNCHANGED Chain

PollFailed(w) ==
    LET o == cur[w]
        from == IF pc[w] = "poll" THEN {"bridging"} ELSE {"bridge_uncertain"}
    IN  /\ Polling(w)
        /\ snap[w].provider = "lifi" /\ transfer[o] = "refused"
        /\ Cas(o, from, [row[o] EXCEPT !.status = "failed"])
        /\ Finish(w)
        /\ Frame /\ UNCHANGED Chain

\* Mutant: the window's write is not guarded by the status.
WindowExpiresUnguarded(w) ==
    /\ pc[w] = "recover"
    /\ row' = [row EXCEPT ![cur[w]].status = "failed"]
    /\ Finish(w)
    /\ Frame /\ UNCHANGED Chain

\* uncertainRecoveryWindow is over and the service still has no answer.
WindowExpires(w) ==
    /\ pc[w] = "recover"
    /\ Cas(cur[w], {"bridge_uncertain"}, [row[cur[w]] EXCEPT !.status = "failed"])
    /\ Finish(w)
    /\ Frame /\ UNCHANGED Chain

\* Mutant: Circle's attestation is taken for the mint.
MintSkipped(w) ==
    /\ Polling(w)
    /\ snap[w].provider = "cctp" /\ transfer[cur[w]] \in {"attested", "delivered"}
    /\ Go(w, "mark")
    /\ Frame /\ UNCHANGED <<row, rail, fallback, fails, Chain>>

\* finishCCTPMint: the attestation is there; receiveMessage unless the nonce is used.
Mint(w) ==
    LET o == cur[w]
    IN  /\ Polling(w)
        /\ snap[w].provider = "cctp" /\ transfer[o] \in {"attested", "delivered"}
        /\ transfer' = [transfer EXCEPT ![o] = "delivered"]
        /\ Go(w, "mark")
        /\ Frame /\ UNCHANGED <<row, rail, fallback, fails, arrived, selfSettled, wallet, burns>>

MarkBridged(w) ==
    LET o == cur[w]
    IN  /\ pc[w] = "mark"
        /\ Cas(o, {"bridging", "bridge_uncertain"},
               [row[o] EXCEPT !.status = "bridged", !.bridged_amount = TRUE])
        /\ Finish(w)
        /\ Frame /\ UNCHANGED Chain

\* The write fails; the next poll finds the nonce used and writes again.
MarkFails(w) ==
    /\ pc[w] = "mark"
    /\ Finish(w)
    /\ Frame /\ UNCHANGED <<row, Chain>>

-----------------------------------------------------------------------------
(* Outside the dispatcher: deposits and the bridges *)

\* The indexer or the card tap moves the order's deposit to the aggregator wallet ...
SelfSettle(o) ==
    /\ o \notin arrived
    /\ arrived' = arrived \cup {o}
    /\ wallet' = wallet + 1
    /\ UNCHANGED <<sharedVars, rail, fallback, fails, selfSettled, burns, transfer>>

\* ... and then records it.
RecordSelfSettle(o) ==
    /\ o \in arrived \ selfSettled
    /\ selfSettled' = selfSettled \cup {o}
    /\ UNCHANGED <<sharedVars, rail, fallback, fails, arrived, wallet, burns, transfer>>

\* LiFi's bridges deliver or refuse; Circle attests, and delivery is our own mint.
BridgeResolves(o) ==
    /\ transfer[o] = "inFlight"
    /\ \E outcome \in IF row[o].provider = "cctp" THEN {"attested"} ELSE {"delivered", "refused"} :
          transfer' = [transfer EXCEPT ![o] = outcome]
    /\ UNCHANGED <<sharedVars, rail, fallback, fails, arrived, selfSettled, wallet, burns>>

CrashWorker(w) ==
    /\ Crash(w)
    /\ NoAttempt(w)
    /\ fails' = [fails EXCEPT ![w] = [o \in Orders |-> 0]]
    /\ UNCHANGED Chain

-----------------------------------------------------------------------------

Pending(w) ==
    \/ \E o \in Orders : FetchPending(w, o)
    \/ StartFails(w) \/ AwaitDeposit(w) \/ Claim(w)
    \/ SubmitFails(w) \/ SubmitAmbiguous(w) \/ SubmitReturns(w)
    \/ RevertClaim(w) \/ PersistDigest(w) \/ GiveUp(w)

Chase(w, o) == FetchBridging(w, o) \/ FetchUncertain(w, o)

Poll(w) ==
    \/ \E o \in Orders : Chase(w, o)
    \/ PollNothing(w) \/ PollNotFound(w) \/ PollDone(w) \/ PollFailed(w)
    \/ WindowExpires(w) \/ Mint(w) \/ MarkBridged(w) \/ MarkFails(w)

LeaseStep ==
    \/ LeaseExpires /\ UNCHANGED bridgeVars
    \/ \E w \in Workers : EndTick(w) /\ UNCHANGED bridgeVars

Next ==
    \/ \E w \in Workers : BeginTick(w) \/ Pending(w) \/ Poll(w) \/ CrashWorker(w)
    \/ LeaseStep
    \/ \E o \in Orders : SelfSettle(o) \/ RecordSelfSettle(o) \/ BridgeResolves(o)

Spec == Init /\ [][Next]_vars

\* The status call has something to say: the outcome, or that a time window is over.
\* A transaction that never landed is never found.
Answer(w) ==
    \/ PollDone(w) \/ PollFailed(w) \/ Mint(w) \/ WindowExpires(w)
    \/ PollNotFound(w) /\ transfer[cur[w]] = "none"

\* The cron ticks for ever, a tick loops over every row it fetched, a handler that has
\* begun goes on, a bridge resolves, and neither the status call nor the write that
\* records a mint fails for ever.
Fairness ==
    /\ \A w \in Workers :
          /\ WF_vars(BeginTick(w))
          /\ WF_vars(Pending(w) \/ Poll(w))
          /\ SF_vars(Answer(w))
          /\ SF_vars(MarkBridged(w))
          /\ \A o \in Orders : SF_vars(Chase(w, o))
    /\ \A o \in Orders : WF_vars(BridgeResolves(o))

FairSpec == Spec /\ Fairness

-----------------------------------------------------------------------------
(* Properties *)

Steps == {"idle", "start", "submit", "revert", "persist", "giveUp", "poll", "recover", "mark"}

\* Every variable keeps its type (route_a_orders row, dispatcher memory, wallet).
TypeOK ==
    /\ row \in [Orders -> RowRec]
    /\ pc \in [Workers -> Steps]
    /\ cur \in [Workers -> Orders \cup {Nil}]
    /\ snap \in [Workers -> RowRec]
    /\ ticking \subseteq Workers
    /\ lease \in Workers \cup {Nil}
    /\ crashes \in Nat
    /\ rail \in [Workers -> Rails]
    /\ fallback \in [Workers -> BOOLEAN]
    /\ fails \in [Workers -> [Orders -> Nat]]
    /\ arrived \subseteq Orders /\ selfSettled \subseteq Orders
    /\ wallet \in Nat
    /\ burns \in [Orders -> Nat]
    /\ transfer \in [Orders -> Transfers]

\* An order's USDC leaves the aggregator wallet on Sui at most once, whatever instances
\* race, crash, retry, fall back to the other rail or lose an answer (the claim-first
\* writes of startBridge and startCCTPBridge).
BurnOnce == \A o \in Orders : burns[o] <= 1

\* Once an order's bridge transaction may have taken effect no path leads back to the
\* states from which it would be submitted again or given up as unfunded (the guards of
\* claimForBridging, revertBridgingClaim, advancePending's writes and Tick's expiry).
SpentIsClaimed ==
    \A o \in Orders :
        burns[o] > 0 => row[o].status \notin {"pending", "awaiting_funds"}

\* dispatchLP takes a bridged row for USDC sitting on Base: the order's own transfer has
\* been delivered, through whichever of the two rails and pollers the row got there.
BridgedIsDelivered ==
    \A o \in Orders : row[o].status = "bridged" => burns[o] = 1 /\ transfer[o] = "delivered"

\* An order is only chased by the digest of its own submit: a row that polls can see has
\* been claimed for good, and nothing clears its digest or its rail afterwards.
DigestIsFinal ==
    [][ \A o \in Orders : row[o].digest =>
            row'[o].digest /\ row'[o].provider = row[o].provider ]_vars

\* A failed order stays failed and a bridged one bridged, however stale the snapshot of
\* the instance that writes (Where(BridgeStatus...) on every update).
EndsStay ==
    [][ \A o \in Orders :
            row[o].status \in {"bridged", "failed"} => row'[o].status = row[o].status ]_vars

\* startCCTPBridge and startBridge bridge an order only once its own deposit has been
\* self-settled to the aggregator wallet.
OwnDepositFirst == \A o \in Orders : burns[o] > 0 => o \in arrived

\* A bridge whose digest is on record is followed to its end: the row leaves bridging and
\* bridge_uncertain, through crashes, lost answers and a mint recorded only at the second
\* try (the pollers, the per-tool stale window and the 24-hour recovery window).
ChasedToTheEnd ==
    \A o \in Orders :
        row[o].digest ~> row[o].status \notin {"bridging", "bridge_uncertain"}

=============================================================================
