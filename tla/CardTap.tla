------------------------------- MODULE CardTap -------------------------------
(***************************************************************************)
(* One linked Tapp card at the merchants' terminals: nonces, the debit     *)
(* handler (TapCardDebit) with any number of requests at once, the token   *)
(* that is rotated after each debit, wrong PINs and locks, and the resync  *)
(* of card and server.  Whether the chain accepts a debit is TappCard's    *)
(* matter: here it may, as long as there are funds.  The counters of       *)
(* mismatched tokens and of the day's spending decide nothing but refusals *)
(* and are left out, and the self_settle event of a debit is RouteABridge's. *)
(***************************************************************************)
EXTENDS Naturals

CONSTANTS
    Taps,         \* nonces issued, one for each purchase
    Handlers,     \* debit requests that may be in progress together
    MaxAttempts,  \* wrong PINs until the card locks, 5 in the code
    Funds,        \* debits the spending cap can pay
    MaxFaults,    \* bound: lost answers, failed writes and crashes explored
    MaxResets,    \* bound: unlocks and relinks explored
    Nil

ASSUME CardTapAssumption ==
    /\ MaxAttempts \in Nat \ {0}
    /\ Funds \in Nat /\ MaxFaults \in Nat /\ MaxResets \in Nat
    /\ Nil \notin Taps

\* Tokens are numbered in the order in which the server and the holder's app make them.
VARIABLES
    card,       \* CardRec, the row of tapp_cards
    nonce,      \* [Taps -> NonceStates], card_server_nonces
    po,         \* [Taps -> PoStatuses], the PaymentOrder of each purchase
    funds,      \* debits the spending cap can still pay
    debits,     \* [Taps -> Nat], debits on chain for each PaymentOrder
    chip,       \* the token on the physical card
    made,       \* tokens made so far
    app,        \* AppRec, the resync or relink the cardholder's app is in
    job,        \* [Handlers -> JobRec], requests in progress
    paid,       \* ghost: <<token, tap>> of every debit
    wrong,      \* ghost: wrong PINs shown since the attempts were last set to MaxAttempts
    overlapped, \* ghost: a request, a resync or a relink had another request in between
    copied,     \* ghost: a copy of the card got a new token
    unlinked,   \* ghost: tokens the app put on the card that Relink did not take in
    resets, faults

rows == <<card, nonce, po>>
chain == <<funds, debits>>
ghosts == <<paid, wrong, overlapped, copied, unlinked, resets, faults>>
vars == <<rows, chain, chip, made, app, job, ghosts>>

Statuses == {"live", "locked", "revoked"}
Tiers == {"none", "pin", "step_up", "granted"}    \* "granted" is step_up with its grant
NonceStates == {"absent", "gone"} \cup Tiers
PoStatuses == {"none", "open", "settled"}
Steps == {"idle", "lookup", "pin", "persist", "debit", "rotate", "write"}
Tokens == Nat \ {0}

CardRec == [ status : Statuses, attempts : 0 .. MaxAttempts, token : Tokens, resync : BOOLEAN ]
\* "tier" is that of the nonce and "attempts" that of the card as the handler loaded them,
\* "shown" the token in the request, "copy" whether it was read off a copy of the card.
JobRec == [ step : Steps, tap : Taps \cup {Nil}, tier : Tiers, shown : Tokens,
            copy : BOOLEAN, attempts : 0 .. MaxAttempts ]

NoJob == [ step |-> "idle", tap |-> Nil, tier |-> "none", shown |-> 1, copy |-> FALSE,
           attempts |-> 0 ]

\* "fetched": the token of the row, to be written to the card; "resynced" and "relinked": the
\* token is on the card and the server is still to be told.
AppRec == [ step : {"none", "fetched", "resynced", "relinked"}, token : Tokens ]
NoApp == [ step |-> "none", token |-> 1 ]

Init ==
    /\ card = [ status |-> "live", attempts |-> MaxAttempts, token |-> 1, resync |-> FALSE ]
    /\ nonce = [t \in Taps |-> "absent"]
    /\ po = [t \in Taps |-> "none"]
    /\ funds = Funds
    /\ debits = [t \in Taps |-> 0]
    /\ chip = 1 /\ made = 1
    /\ app = NoApp
    /\ job = [h \in Handlers |-> NoJob]
    /\ paid = {}
    /\ wrong = 0
    /\ overlapped = FALSE /\ copied = FALSE
    /\ unlinked = {}
    /\ resets = 0
    /\ faults = 0

At(h, step) == job[h].step = step
Go(h, step) == job' = [job EXCEPT ![h].step = step]
Answer(h) == job' = [job EXCEPT ![h] = NoJob]

Busy(S) == \E h \in S : ~At(h, "idle")

Fault == faults < MaxFaults /\ faults' = faults + 1
Bounded == resets < MaxResets /\ resets' = resets + 1

-----------------------------------------------------------------------------
(* Nonces *)

Issued(t) == nonce[t] \in Tiers

\* resolveTier puts an amount into any of the three tiers, as the limits are the owner's.
TapCardNonce(t) ==
    /\ nonce[t] = "absent"
    /\ card.status = "live"
    /\ \E tier \in {"none", "pin", "step_up"} : nonce' = [nonce EXCEPT ![t] = tier]
    /\ UNCHANGED <<card, po, chain, chip, made, app, job, ghosts>>

StepUpGrant(t) ==
    /\ nonce[t] = "step_up"
    /\ nonce' = [nonce EXCEPT ![t] = "granted"]
    /\ UNCHANGED <<card, po, chain, chip, made, app, job, ghosts>>

NonceExpires(t) ==
    /\ Issued(t)
    /\ nonce' = [nonce EXCEPT ![t] = "gone"]
    /\ UNCHANGED <<card, po, chain, chip, made, app, job, ghosts>>

-----------------------------------------------------------------------------
(* TapCardDebit *)

\* What the terminal reads is the card, or a copy of it made at any time before.
Begin(h, t, tier) ==
    /\ At(h, "idle")
    /\ nonce' = [nonce EXCEPT ![t] = "gone"]
    /\ \E k \in 1 .. made, copy \in BOOLEAN :
          /\ copy \/ k = chip
          /\ job' = [job EXCEPT ![h] = [ step |-> "lookup", tap |-> t, tier |-> tier,
                                         shown |-> k, copy |-> copy, attempts |-> 0 ]]
    /\ overlapped' = (overlapped \/ Busy(Handlers \ {h}))
    /\ UNCHANGED <<card, po, chain, chip, made, app, paid, wrong, copied, unlinked, resets, faults>>

\* Mutant: a nonce that was consumed before is accepted.
ConsumeNonceAgain(h, t) ==
    \/ Issued(t) /\ Begin(h, t, nonce[t])
    \/ nonce[t] = "gone" /\ Begin(h, t, "none")

\* consumeServerNonce: one guarded update, so one of several equal requests gets through.
ConsumeNonce(h, t) == Issued(t) /\ Begin(h, t, nonce[t])

\* Mutant: the token is not compared.
RefusedForStatus(h) == card.status # "live" \/ job[h].tier = "step_up"

\* Status, token and tier; the rest of the checks depends on data.
Refused(h) ==
    \/ card.status # "live"
    \/ card.token # job[h].shown
    \/ job[h].tier = "step_up"

\* The card is loaded here and never again: status, token, tier, PIN, amount and daily
\* limit are judged by this copy.  A request may be refused for its amount at any time.
Lookup(h) ==
    /\ At(h, "lookup")
    /\ \/ Answer(h)
       \/ /\ ~Refused(h)
          /\ \/ job' = [job EXCEPT ![h].step = "persist", ![h].tier = "none"]
             \/ /\ job[h].tier = "pin"
                /\ job' = [job EXCEPT ![h].step = "pin", ![h].tier = "none",
                                      ![h].attempts = card.attempts]
    /\ UNCHANGED <<rows, chain, chip, made, app, ghosts>>

\* Mutant: the card is locked only after one wrong PIN too many.
PinFailureLate(h) ==
    LET left == job[h].attempts
    IN  /\ At(h, "pin")
        /\ wrong' = wrong + 1
        /\ card' = [card EXCEPT !.attempts = IF left = 0 THEN 0 ELSE left - 1,
                                !.status = IF left = 0 THEN "locked" ELSE @]
        /\ Answer(h)
        /\ UNCHANGED <<nonce, po, chain, chip, made, app, paid, overlapped, copied, unlinked, resets,
                       faults>>

\* handlePinFailure counts down from the copy; a write that fails is only logged.
PinFailure(h) ==
    LET left == IF job[h].attempts = 0 THEN 0 ELSE job[h].attempts - 1
    IN  /\ At(h, "pin")
        /\ wrong' = wrong + 1
        /\ \/ /\ card' = [card EXCEPT !.attempts = left,
                                      !.status = IF left = 0 THEN "locked" ELSE @]
              /\ UNCHANGED faults
           \/ Fault /\ UNCHANGED card
        /\ Answer(h)
        /\ UNCHANGED <<nonce, po, chain, chip, made, app, paid, overlapped, copied, unlinked,
                       resets>>

\* PaymentOrder and RouteAOrder in one transaction, before the money moves.
PersistOrder(h) ==
    /\ At(h, "persist")
    /\ po' = [po EXCEPT ![job[h].tap] = "open"]
    /\ Go(h, "debit")
    /\ UNCHANGED <<card, nonce, chain, chip, made, app, ghosts>>

\* tapp_card::debit takes effect, with the order's id as its reference.
Moves(h) ==
    /\ funds > 0 /\ funds' = funds - 1
    /\ debits' = [debits EXCEPT ![job[h].tap] = @ + 1]
    /\ paid' = paid \cup {<<job[h].shown, job[h].tap>>}

DebitReturns(h) ==
    /\ At(h, "debit")
    /\ Moves(h)
    /\ Go(h, "rotate")
    /\ UNCHANGED <<rows, chip, made, app, wrong, overlapped, copied, unlinked, resets, faults>>

\* No rate, no sponsor, or the chain refuses: the order is on record and stays.
DebitFails(h) ==
    /\ At(h, "debit")
    /\ Answer(h)
    /\ UNCHANGED <<rows, chain, chip, made, app, ghosts>>

\* It took effect and the answer was lost; the merchant is told chain_debit_failed.
DebitUnanswered(h) ==
    /\ At(h, "debit")
    /\ Moves(h)
    /\ Fault /\ Answer(h)
    /\ UNCHANGED <<rows, chip, made, app, wrong, overlapped, copied, unlinked, resets>>

\* The row gets a new token whatever has become of it since it was loaded.
RotateToken(h) ==
    /\ At(h, "rotate")
    /\ \/ /\ made' = made + 1
          /\ card' = [card EXCEPT !.token = made + 1]
          /\ job' = [job EXCEPT ![h].step = "write", ![h].shown = made + 1]
          /\ UNCHANGED faults
       \/ Fault /\ Answer(h) /\ UNCHANGED <<card, made>>
    /\ UNCHANGED <<nonce, po, chain, chip, app, paid, wrong, overlapped, copied, unlinked, resets>>

\* The token is written to the card the terminal has, which may be a copy.
Lands(h) ==
    /\ chip' = IF job[h].copy THEN chip ELSE job[h].shown
    /\ copied' = (copied \/ job[h].copy)
    /\ card' = [card EXCEPT !.resync = FALSE]

\* Mutant: a torn write is acknowledged without a flag.
WriteTokenUnflagged(h) ==
    /\ At(h, "write")
    /\ Lands(h) \/ UNCHANGED <<chip, copied, card>>
    /\ Answer(h)
    /\ UNCHANGED <<nonce, po, chain, made, app, paid, wrong, overlapped, unlinked, resets, faults>>

\* The terminal writes the new token to the card, or the write is torn, and tells
\* TapCardTokenAck which; or nobody hears of it.
WriteToken(h) ==
    /\ At(h, "write")
    /\ \/ Lands(h) /\ UNCHANGED faults
       \/ UNCHANGED <<chip, copied, faults>> /\ card' = [card EXCEPT !.resync = TRUE]
       \/ Fault /\ UNCHANGED <<card, copied>> /\ chip' \in {chip, job[h].shown}
    /\ Answer(h)
    /\ UNCHANGED <<nonce, po, chain, made, app, paid, wrong, overlapped, unlinked, resets>>

Crash(h) ==
    /\ ~At(h, "idle")
    /\ Fault /\ Answer(h)
    /\ UNCHANGED <<rows, chain, chip, made, app, paid, wrong, overlapped, copied, unlinked, resets>>

\* handleCardDebited: the debit's event, any number of times or never.
CardDebited(t) ==
    /\ debits[t] > 0 /\ po[t] # "none"
    /\ po' = [po EXCEPT ![t] = "settled"]
    /\ UNCHANGED <<card, nonce, chain, chip, made, app, job, ghosts>>

-----------------------------------------------------------------------------
(* The cardholder's app and the operators *)

\* The app is external: it is in one resync or relink at a time, and the holder may start over.
AppFrame == UNCHANGED <<nonce, po, chain, job, paid, copied, faults>>

FetchResync ==
    /\ app.step # "relinked"
    /\ app' = [step |-> "fetched", token |-> card.token]
    /\ AppFrame /\ UNCHANGED <<card, chip, made, wrong, overlapped, unlinked, resets>>

\* The app writes what it fetched, whatever the row holds by then.  For that it needs the key on
\* the card, which is a new one where a relink did not go through.
WriteResync ==
    /\ app.step = "fetched" /\ chip \notin unlinked
    /\ chip' = app.token
    /\ app' = [app EXCEPT !.step = "resynced"]
    /\ overlapped' = (overlapped \/ app.token # card.token)
    /\ AppFrame /\ UNCHANGED <<card, made, wrong, unlinked, resets>>

\* A nonce that expired, or a request that is lost, leaves the app where it is.
ResyncComplete ==
    /\ app.step = "resynced"
    /\ card' = [card EXCEPT !.resync = FALSE]
    /\ app' = NoApp
    /\ overlapped' = (overlapped \/ app.token # card.token)
    /\ AppFrame /\ UNCHANGED <<chip, made, wrong, unlinked, resets>>

\* The app makes a token of its own and writes it to the card before the server hears of it.
WriteRelink ==
    /\ app.step # "relinked"
    /\ Bounded
    /\ made' = made + 1
    /\ chip' = made + 1
    /\ app' = [step |-> "relinked", token |-> made + 1]
    /\ overlapped' = (overlapped \/ Busy(Handlers))
    /\ AppFrame /\ UNCHANGED <<card, wrong, unlinked>>

\* The server takes in what the app wrote.
Relink ==
    /\ app.step = "relinked" /\ card.status = "live"
    /\ card' = [card EXCEPT !.token = app.token, !.resync = FALSE, !.attempts = MaxAttempts]
    /\ app' = NoApp
    /\ wrong' = 0
    /\ overlapped' = (overlapped \/ Busy(Handlers))
    /\ AppFrame /\ UNCHANGED <<chip, made, unlinked, resets>>

\* no_live_card: the card was locked or revoked since; or the request or the write is lost.
RelinkFails ==
    /\ app.step = "relinked"
    /\ \/ card.status # "live" /\ UNCHANGED faults
       \/ Fault
    /\ app' = NoApp
    /\ unlinked' = unlinked \cup {app.token}
    /\ UNCHANGED <<rows, chain, chip, made, job, paid, wrong, overlapped, copied, resets>>

\* The holder's Revoke and the operator's SetStatus.
Revoke ==
    /\ card' = [card EXCEPT !.status = "revoked"]
    /\ UNCHANGED <<nonce, po, chain, chip, made, app, job, ghosts>>

\* Mutant: a status the schema does not know.
LockCardMisspelt ==
    /\ card' = [card EXCEPT !.status = "lock", !.attempts = 0]
    /\ UNCHANGED <<nonce, po, chain, chip, made, app, job, ghosts>>

\* The operator's SetStatus, also over a revoked card.
LockCard ==
    /\ card' = [card EXCEPT !.status = "locked", !.attempts = 0]
    /\ UNCHANGED <<nonce, po, chain, chip, made, app, job, ghosts>>

Unlock ==
    /\ card.status # "revoked"
    /\ card' = [card EXCEPT !.status = "live", !.attempts = MaxAttempts]
    /\ Bounded /\ wrong' = 0
    /\ UNCHANGED <<nonce, po, chain, chip, made, app, job, paid, overlapped, copied, unlinked,
                   faults>>

RequestResync ==
    /\ card.status # "revoked"
    /\ card' = [card EXCEPT !.resync = TRUE]
    /\ UNCHANGED <<nonce, po, chain, chip, made, app, job, ghosts>>

-----------------------------------------------------------------------------

Handle(h) ==
    \/ \E t \in Taps : ConsumeNonce(h, t)
    \/ Lookup(h) \/ PinFailure(h) \/ PersistOrder(h)
    \/ DebitReturns(h) \/ DebitFails(h) \/ DebitUnanswered(h)
    \/ RotateToken(h) \/ WriteToken(h) \/ Crash(h)

Owner ==
    \/ FetchResync \/ WriteResync \/ ResyncComplete
    \/ WriteRelink \/ Relink \/ RelinkFails
    \/ Revoke

Operator == LockCard \/ Unlock \/ RequestResync

Next ==
    \/ \E h \in Handlers : Handle(h)
    \/ \E t \in Taps : TapCardNonce(t) \/ StepUpGrant(t) \/ NonceExpires(t) \/ CardDebited(t)
    \/ Owner \/ Operator

Spec == Init /\ [][Next]_vars

-----------------------------------------------------------------------------
(* Properties *)

\* Every variable keeps its type (tapp_cards, card_server_nonces).
TypeOK ==
    /\ card \in CardRec
    /\ nonce \in [Taps -> NonceStates]
    /\ po \in [Taps -> PoStatuses]
    /\ funds \in 0 .. Funds
    /\ debits \in [Taps -> Nat]
    /\ chip \in Tokens /\ made \in Tokens
    /\ app \in AppRec
    /\ job \in [Handlers -> JobRec]
    /\ paid \subseteq Tokens \X Taps
    /\ wrong \in Nat /\ resets \in 0 .. MaxResets /\ faults \in 0 .. MaxFaults
    /\ overlapped \in BOOLEAN /\ copied \in BOOLEAN /\ unlinked \subseteq Tokens

\* A purchase is debited once at most, and never without the order that handleCardDebited
\* looks for, however often the terminal sends the request and whatever becomes of the
\* handler (consumeServerNonce, persistTapCardPaymentOrder).
ChargedOnce ==
    \A t \in Taps : debits[t] <= 1 /\ (debits[t] = 1 => po[t] # "none")

\* A token that was read off the card pays once: a copy is worthless after the debit.  It
\* takes a fault, or two requests at once, to use it again (the rotation of TapCardDebit).
TokenPaysOnce ==
    faults = 0 /\ ~overlapped => \A p, q \in paid : p[1] = q[1] => p = q

\* Between two resets of the attempts a thief has MaxAttempts wrong PINs.  It takes two
\* requests at once, or a failed write, to get more (handlePinFailure counts from a copy).
PinBudget == ~overlapped => wrong <= MaxAttempts + faults

\* A card that carries an outdated token is flagged, so that its holder is told to resync it
\* before the next merchant refuses it, or the terminal or the app is about to report what it
\* wrote.  It takes a fault, a request that came in between, or a debit of a copy to lose track;
\* and a relink that is refused after the card was written, for which the code has no answer
\* (TapCardTokenAck, Resync, ResyncComplete, Relink).
ChipIsTracked ==
    faults = 0 /\ ~overlapped /\ ~copied /\ chip # card.token =>
        \/ card.resync
        \/ \E h \in Handlers : At(h, "write")
        \/ app.step = "relinked"
        \/ chip \in unlinked

=============================================================================
