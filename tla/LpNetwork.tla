----------------------------- MODULE LpNetwork -----------------------------
(***************************************************************************)
(* The LP network (mode lp_network): a registered LP funds a pooled bank   *)
(* balance by deposits, the dispatcher lets an LP fill an order (claim,    *)
(* bank payout to the merchant, USDC to the LP, settlement), and the LP    *)
(* withdraws.  The LP accounts and their ledger are the database's; the    *)
(* money is in the bank rail and in the aggregator's wallet.               *)
(***************************************************************************)
EXTENDS Naturals, FiniteSets

CONSTANTS
    Orders, Lps, Workers,
    Nil,          \* no order, no LP
    Deposits,     \* bank deposits that may come in
    Withdrawals,  \* withdrawal requests that may be made
    Target,       \* NGN every order owes its merchant, not below the rail's minimum
    Amounts,      \* NGN amounts deposited and withdrawn
    Attempts,     \* numbers the attempt-scoped references may carry
    Float,        \* orders' worth of other USDC in the wallet
    Banks,        \* rails the operator may switch the float to
    DefaultRail,  \* the float rail before the first switch
    MaxSwitches,  \* bound: switches of the float rail
    MaxFaults,    \* bound: crashes and failed database writes
    MaxDisowned   \* bound: transfers accepted by the rail whose submit call failed

ASSUME LpAssumption ==
    /\ Nil \notin Orders \cup Lps \cup Workers
    /\ Target \in Nat \ {0}
    /\ Amounts \subseteq Nat \ {0}
    /\ Attempts \subseteq Nat \ {0}
    /\ IsFiniteSet(Orders)
    /\ Nil \notin Banks /\ DefaultRail \in Banks /\ MaxSwitches \in Nat
    /\ Float \in Nat /\ MaxFaults \in Nat /\ MaxDisowned \in Nat

VARIABLES
    balance,    \* [Lps -> Nat], lp_accounts.balance
    entry,      \* [Refs -> EntryRec \cup {NoEntry}], lp_ledger_entries by provider_ref
    active,     \* LPs that are not suspended
    addressed,  \* LPs with a sui_usdc_address
    row,        \* [Orders -> RowRec]
    told,       \* orders whose PaymentOrder settleLpFill wrote as settled; the indexer, a
                \* cancellation and the operator write it too, and no handler here reads it
    job,        \* [Workers -> JobRec], the handler a dispatcher is in
    request,    \* [Withdrawals -> RequestRec], the Withdraw handlers
    rail,       \* [Debits -> RailStates], the bank's transfers
    received,   \* [Deposits -> [lp, amount]], deposits in the bank
    floatRail,  \* rails:float_rail, the bank fills are paid from and polled at
    switches,
    sentTo,     \* [Fills -> Banks \cup {Nil}], the bank a fill was submitted to
    wallet,     \* USDC at the aggregator, one unit per order
    delivered,  \* ghost: [Fills -> Nat], USDC transfers that landed
    disowned,   \* ghost: accepted transfers whose submit call failed
    overlapped, \* ghost: a handler began while another dispatcher was in one
    faults

books == <<balance, entry>>
money == <<rail, sentTo, received, wallet, delivered, disowned>>
operator == <<active, addressed, floatRail, switches>>
vars == <<books, operator, row, told, job, request, money, overlapped, faults>>

Fills   == {"fill"} \X Orders \X Attempts
Cashouts == {"withdrawal"} \X Withdrawals
Debits  == Fills \cup Cashouts
Credits == {"deposit"} \X Deposits
Refs    == Debits \cup Credits

Fill(o, n)  == <<"fill", o, n>>
Cashout(i)  == <<"withdrawal", i>>
Deposit(d)  == <<"deposit", d>>

NoEntry == [lp |-> "none", amount |-> 0, status |-> "none"]

EntryRec == [ lp : Lps, amount : Amounts \cup {Target},
              status : {"pending", "confirmed", "failed"} ]

\* attempt stands for treasury_payout_ref (0: empty), from which the code also derives the
\* fill's ledger reference; digest for bridge_tx_sui; parked for the marker in failure_reason.
RowRec == [ mode : {"lp_network", "lp"},
            status : {"pending", "dispatching", "settled", "failed"},
            attempt : Attempts \cup {0}, digest : BOOLEAN, parked : BOOLEAN ]

NewRow == [mode |-> "lp_network", status |-> "pending", attempt |-> 0,
           digest |-> FALSE, parked |-> FALSE]

\* attempt is the reference in the row as the handler loaded it, edges whether the
\* PaymentOrder was loaded with it, bank the float rail when it began.
JobRec == [ step : {"idle", "match", "claim", "submit", "release", "poll", "load", "deliver",
                    "park", "persist", "confirm", "settle", "po"},
            order : Orders \cup {Nil}, attempt : Attempts \cup {0}, lp : Lps \cup {Nil}, edges : BOOLEAN,
            bank : Banks \cup {Nil} ]

NoJob == [step |-> "idle", order |-> Nil, attempt |-> 0, lp |-> Nil, edges |-> FALSE, bank |-> Nil]

RequestRec == [ step : {"new", "reserve", "submit", "release", "done"},
                lp : Lps \cup {Nil}, amount : Amounts \cup {0} ]

RailStates == {"none", "processing", "success", "failed"}

TypeOK ==
    /\ balance \in [Lps -> Nat]
    /\ entry \in [Refs -> EntryRec \cup {NoEntry}]
    /\ active \subseteq Lps /\ addressed \subseteq Lps
    /\ row \in [Orders -> RowRec]
    /\ told \subseteq Orders
    /\ job \in [Workers -> JobRec]
    /\ request \in [Withdrawals -> RequestRec]
    /\ rail \in [Debits -> RailStates]
    /\ floatRail \in Banks /\ switches \in Nat /\ sentTo \in [Fills -> Banks \cup {Nil}]
    /\ received \in [Deposits -> [lp : Lps \cup {Nil}, amount : Amounts \cup {0}]]
    /\ wallet \in Nat
    /\ delivered \in [Fills -> Nat]
    /\ disowned \subseteq Debits
    /\ overlapped \in BOOLEAN /\ faults \in Nat

Init ==
    /\ balance = [l \in Lps |-> 0]
    /\ entry = [r \in Refs |-> NoEntry]
    /\ active = Lps /\ addressed = {}
    /\ row = [o \in Orders |-> NewRow] /\ told = {}
    /\ job = [w \in Workers |-> NoJob]
    /\ request = [i \in Withdrawals |-> [step |-> "new", lp |-> Nil, amount |-> 0]]
    /\ rail = [r \in Debits |-> "none"]
    /\ floatRail = DefaultRail /\ switches = 0 /\ sentTo = [r \in Fills |-> Nil]
    /\ received = [d \in Deposits |-> [lp |-> Nil, amount |-> 0]]
    /\ wallet = Float + Cardinality(Orders)
    /\ delivered = [r \in Fills |-> 0]
    /\ disowned = {} /\ overlapped = FALSE /\ faults = 0

-----------------------------------------------------------------------------
(* The ledger transactions *)

\* The entry's provider_ref is UNIQUE: the insert fails on a reference that was used.
Insert(r, l, amount, status) ==
    /\ entry[r] = NoEntry
    /\ entry' = [entry EXCEPT ![r] = [lp |-> l, amount |-> amount, status |-> status]]

\* Mutant: the balance was looked at before the transaction, which does not guard it.
ReserveTxUnguarded(r, l, amount) ==
    /\ balance' = [balance EXCEPT ![l] = @ - amount]
    /\ Insert(r, l, amount, "pending")

\* One transaction of a debit guarded by the balance and a pending entry.
ReserveTx(r, l, amount) ==
    /\ balance[l] >= amount
    /\ balance' = [balance EXCEPT ![l] = @ - amount]
    /\ Insert(r, l, amount, "pending")

\* Guarded on the entry being pending, a no-op otherwise.
ReleaseTx(r) ==
    IF entry[r].status = "pending"
    THEN /\ entry' = [entry EXCEPT ![r].status = "failed"]
         /\ balance' = [balance EXCEPT ![entry[r].lp] = @ + entry[r].amount]
    ELSE UNCHANGED books

\* Mutant: a success is written over whatever the entry says.
ConfirmTxUnguarded(r) ==
    /\ entry' = [entry EXCEPT ![r].status = "confirmed"]
    /\ UNCHANGED balance

\* No entry has the reference: nothing is written.
ConfirmTx(r) ==
    /\ entry' = IF r \in Refs /\ entry[r].status = "pending"
                THEN [entry EXCEPT ![r].status = "confirmed"] ELSE entry
    /\ UNCHANGED balance

\* provider.Transfer under reference r.  A duplicate reference is answered with the state of
\* the first transfer, so a reference moves money once.
Accept(r, state) == rail' = IF rail[r] = "none" THEN [rail EXCEPT ![r] = state] ELSE rail

\* The call fails.  Either nothing was submitted, or the rail took the transfer and its
\* answer was lost (a timeout, a connection closed, an answer that cannot be read).
SubmitError(r) ==
    \/ UNCHANGED <<rail, disowned>>
    \/ /\ Cardinality(disowned) < MaxDisowned
       /\ Accept(r, "processing")
       /\ disowned' = disowned \cup {r}

-----------------------------------------------------------------------------
(* LP accounts: admin, deposits, withdrawals *)

SetStatus(l) ==
    /\ active' = IF l \in active THEN active \ {l} ELSE active \cup {l}
    /\ UNCHANGED <<books, addressed, floatRail, switches, row, told, job, request, money,
                   overlapped, faults>>

UpdateAccount(l) ==
    /\ addressed' = addressed \cup {l}
    /\ UNCHANGED <<books, active, floatRail, switches, row, told, job, request, money,
                   overlapped, faults>>

\* SetFloatRail, from the admin dashboard.
SwitchRail(b) ==
    /\ switches < MaxSwitches /\ b # floatRail
    /\ floatRail' = b /\ switches' = switches + 1
    /\ UNCHANGED <<books, active, addressed, row, told, job, request, money, overlapped, faults>>

\* An LP wires money to its virtual account.
DepositArrives(d, l, amount) ==
    /\ received[d].lp = Nil
    /\ received' = [received EXCEPT ![d] = [lp |-> l, amount |-> amount]]
    /\ UNCHANGED <<books, operator, row, told, job, request, rail, sentTo, wallet,
                   delivered, disowned, overlapped, faults>>

\* Mutant: a webhook that is delivered again credits again.
HandleDepositAgain(d) ==
    LET got == received[d]
    IN  /\ got.lp # Nil
        /\ entry' = [entry EXCEPT ![Deposit(d)] = [lp |-> got.lp, amount |-> got.amount,
                                                  status |-> "confirmed"]]
        /\ balance' = [balance EXCEPT ![got.lp] = @ + got.amount]
        /\ UNCHANGED <<operator, row, told, job, request, money, overlapped, faults>>

\* The rail's webhook, at any time after the deposit and any number of times.
HandleDeposit(d) ==
    LET got == received[d]
    IN  /\ got.lp # Nil
        /\ Insert(Deposit(d), got.lp, got.amount, "confirmed")
        /\ balance' = [balance EXCEPT ![got.lp] = @ + got.amount]
        /\ UNCHANGED <<operator, row, told, job, request, money, overlapped, faults>>

AccountsFrame ==
    UNCHANGED <<operator, row, told, job, sentTo, received, wallet, delivered, overlapped>>

\* Withdraw, one request handler: load the account, reserve, submit, release.
Withdraw(i, l, amount) ==
    /\ request[i].step = "new"
    /\ l \in active
    /\ request' = [request EXCEPT ![i] = [step |-> "reserve", lp |-> l, amount |-> amount]]
    /\ AccountsFrame /\ UNCHANGED <<books, rail, disowned, faults>>

RequestGoes(i, step) == request' = [request EXCEPT ![i].step = step]

Reserve(i) ==
    /\ request[i].step = "reserve"
    /\ \/ ReserveTx(Cashout(i), request[i].lp, request[i].amount) /\ RequestGoes(i, "submit")
       \/ UNCHANGED books /\ RequestGoes(i, "done")
    /\ AccountsFrame /\ UNCHANGED <<rail, disowned, faults>>

SubmitWithdrawal(i) ==
    /\ request[i].step = "submit"
    /\ \/ Accept(Cashout(i), "processing") /\ RequestGoes(i, "done") /\ UNCHANGED disowned
       \/ SubmitError(Cashout(i)) /\ RequestGoes(i, "release")
    /\ AccountsFrame /\ UNCHANGED <<books, faults>>

ReleaseWithdrawal(i) ==
    /\ request[i].step = "release"
    /\ ReleaseTx(Cashout(i))
    /\ RequestGoes(i, "done")
    /\ AccountsFrame /\ UNCHANGED <<rail, disowned, faults>>

\* The process dies, or a transaction fails and the handler returns.
RequestStops(i) ==
    /\ request[i].step \in {"submit", "release"}
    /\ faults < MaxFaults /\ faults' = faults + 1
    /\ RequestGoes(i, "done")
    /\ AccountsFrame /\ UNCHANGED <<books, rail, disowned>>

\* The rail's webhook on a withdrawal, any number of times, also before the handler that
\* submitted it goes on.
HandleWithdrawalFinality(i) ==
    /\ \/ rail[Cashout(i)] = "success" /\ ConfirmTx(Cashout(i))
       \/ rail[Cashout(i)] = "failed" /\ ReleaseTx(Cashout(i))
    /\ AccountsFrame /\ UNCHANGED <<request, rail, disowned, faults>>

-----------------------------------------------------------------------------
(* The dispatcher.  A worker is one instance; its lease normally keeps the others out,  *)
(* and a handler that begins while another instance is in one sets overlapped.          *)

DispatcherFrame == UNCHANGED <<operator, request, received>>

Idle(w) == job' = [job EXCEPT ![w] = NoJob]

Go(w, step) == job' = [job EXCEPT ![w].step = step]

Claimed(w) == Fill(job[w].order, job[w].attempt)

Begin(w, o, step) ==
    /\ job[w].step = "idle"
    /\ job' = [job EXCEPT ![w] = [NoJob EXCEPT !.step = step, !.order = o,
                                               !.attempt = row[o].attempt, !.bank = floatRail]]
    /\ overlapped' = (overlapped \/ \E v \in Workers \ {w} : job[v].step # "idle")

\* What a step of a handler leaves alone besides its row, books and money.
Within == DispatcherFrame /\ UNCHANGED <<sentTo, overlapped, faults>>

\* Tick: orders older than the validity period are failed.
Expire(o) ==
    /\ row[o].status = "pending"
    /\ row' = [row EXCEPT ![o].status = "failed"]
    /\ UNCHANGED <<books, operator, told, job, request, money, overlapped, faults>>

\* advanceLpNetwork
FetchPending(w, o) ==
    /\ row[o].mode = "lp_network" /\ row[o].status = "pending"
    /\ Begin(w, o, "match")
    /\ DispatcherFrame
    /\ UNCHANGED <<books, row, told, rail, sentTo, wallet, delivered, disowned, faults>>

\* The richest LP that covers the target and has an address.  The orders' USDC is in the wallet
\* from the start: an order that still waits for its own is an order NoClaim leaves alone.
Matchable == { l \in active \cap addressed : balance[l] >= Target }

Match(w, l) ==
    /\ job[w].step = "match"
    /\ wallet > 0
    /\ l \in Matchable
    /\ \A k \in Matchable : balance[k] <= balance[l]
    /\ job' = [job EXCEPT ![w].step = "claim", ![w].lp = l]
    /\ Within /\ UNCHANGED <<books, row, told, rail, wallet, delivered, disowned>>

\* No LP can cover, or the query failed: the bridge takes the order.
LpNetworkFallback(w) ==
    LET o == job[w].order
    IN  /\ job[w].step = "match"
        /\ wallet > 0
        /\ row' = IF row[o].mode = "lp_network" /\ row[o].status = "pending"
                  THEN [row EXCEPT ![o].mode = "lp"] ELSE row
        /\ Idle(w)
        /\ Within /\ UNCHANGED <<books, told, rail, wallet, delivered, disowned>>

\* Funds not there yet, a balance that cannot be read, or a leg of the claim that failed and
\* rolled the others back.
NoClaim(w) ==
    /\ job[w].step \in {"match", "claim"}
    /\ Idle(w)
    /\ Within /\ UNCHANGED <<books, row, told, rail, wallet, delivered, disowned>>

\* One transaction.  The attempt number is a count of best-effort event rows (of the clock
\* when it cannot be read), so it may repeat; the UNIQUE reference of the entry refuses then.
\* The guard on the row names its status and not its mode.
Claim(w, n) ==
    LET o == job[w].order
    IN  /\ job[w].step = "claim"
        /\ ReserveTx(Fill(o, n), job[w].lp, Target)
        /\ row[o].status = "pending"
        /\ row' = [row EXCEPT ![o].status = "dispatching", ![o].attempt = n]
        /\ job' = [job EXCEPT ![w].step = "submit", ![w].attempt = n]
        /\ Within /\ UNCHANGED <<told, rail, wallet, delivered, disowned>>

\* Mutant: a transfer the bank accepted is taken for one it made.
SubmitPayoutTrusting(w) ==
    LET r == Claimed(w)
    IN  /\ job[w].step = "submit"
        /\ sentTo' = [sentTo EXCEPT ![r] = job[w].bank]
        /\ \/ Accept(r, "processing") /\ Go(w, "load") /\ UNCHANGED disowned
           \/ SubmitError(r) /\ Go(w, "release")
        /\ DispatcherFrame /\ UNCHANGED <<books, row, told, wallet, delivered, overlapped, faults>>

\* provider.Transfer, at the bank the handler picked when it began.
SubmitPayout(w) ==
    LET r == Claimed(w)
    IN  /\ job[w].step = "submit"
        /\ sentTo' = [sentTo EXCEPT ![r] = job[w].bank]
        /\ \/ Accept(r, "processing") /\ Idle(w) /\ UNCHANGED disowned
           \/ Accept(r, "success") /\ Go(w, "load") /\ UNCHANGED disowned
           \/ SubmitError(r) /\ Go(w, "release")
        /\ DispatcherFrame /\ UNCHANGED <<books, row, told, wallet, delivered, overlapped, faults>>

\* One transaction; the row is reset if it is dispatching, whatever its reference is.
ReleaseLpFill(w) ==
    LET o == job[w].order
        r == Claimed(w)
    IN  /\ job[w].step = "release"
        /\ ReleaseTx(r)
        /\ row' = IF entry[r].status = "pending" /\ row[o].status = "dispatching"
                  THEN [row EXCEPT ![o].status = "pending", ![o].attempt = 0] ELSE row
        /\ Idle(w)
        /\ Within /\ UNCHANGED <<told, rail, wallet, delivered, disowned>>

\* Mutant: orders whose digest is on record are left out of the query.
FetchPayoutUndelivered(w, o) ==
    /\ row[o].mode = "lp_network" /\ row[o].status = "dispatching" /\ row[o].attempt # 0
    /\ ~row[o].parked /\ ~row[o].digest
    /\ Begin(w, o, "poll")
    /\ DispatcherFrame
    /\ UNCHANGED <<books, row, told, rail, sentTo, wallet, delivered, disowned, faults>>

\* advanceLpNetworkPayouts
FetchPayout(w, o) ==
    /\ row[o].mode = "lp_network" /\ row[o].status = "dispatching" /\ row[o].attempt # 0
    /\ ~row[o].parked
    /\ Begin(w, o, IF row[o].digest THEN "confirm" ELSE "poll")
    /\ DispatcherFrame
    /\ UNCHANGED <<books, row, told, rail, sentTo, wallet, delivered, disowned, faults>>

\* Mutant: a payout still in progress is given up.
PollImpatient(w) ==
    /\ job[w].step = "poll"
    /\ \/ rail[Claimed(w)] = "success" /\ Go(w, "load")
       \/ rail[Claimed(w)] \in {"processing", "failed"} /\ Go(w, "release")
       \/ Idle(w)
    /\ Within /\ UNCHANGED <<books, row, told, rail, wallet, delivered, disowned>>

\* The status call answers, or it fails and leaves the order to the next tick.  A bank does not
\* know a reference that was submitted to another.
Poll(w) ==
    LET r == Claimed(w)
    IN  /\ job[w].step = "poll"
        /\ \/ sentTo[r] = job[w].bank /\ rail[r] = "success" /\ Go(w, "load")
           \/ sentTo[r] = job[w].bank /\ rail[r] = "failed" /\ Go(w, "release")
           \/ Idle(w)
        /\ Within /\ UNCHANGED <<books, row, told, rail, wallet, delivered, disowned>>

\* finalizeLpFill loads the order again and takes the fill from what it loaded; a row whose
\* reference is gone has no fill.
FinalizeLpFill(w) ==
    LET now == row[job[w].order]
        step == IF now.digest THEN "confirm" ELSE "deliver"
    IN  /\ job[w].step = "load"
        /\ IF now.digest \/ now.attempt # 0
           THEN job' = [job EXCEPT ![w].step = step, ![w].attempt = now.attempt, ![w].edges = TRUE]
           ELSE Idle(w)
        /\ Within /\ UNCHANGED <<books, row, told, rail, wallet, delivered, disowned>>

\* Mutant: an ambiguous transfer is left to the next tick.
DeliverUsdcRetries(w) ==
    LET lands == /\ wallet > 0
                 /\ wallet' = wallet - 1
                 /\ delivered' = [delivered EXCEPT ![Claimed(w)] = @ + 1]
    IN  /\ job[w].step = "deliver"
        /\ \/ lands /\ Go(w, "persist")
           \/ lands /\ Idle(w)
           \/ UNCHANGED <<wallet, delivered>> /\ Idle(w)
        /\ Within /\ UNCHANGED <<books, row, told, rail, disowned>>

\* suiTransferUSDC: the digest comes back, or an error does, of a transfer that may have landed.
DeliverUsdc(w) ==
    LET lands == /\ wallet > 0
                 /\ wallet' = wallet - 1
                 /\ delivered' = [delivered EXCEPT ![Claimed(w)] = @ + 1]
    IN  /\ job[w].step = "deliver"
        /\ \/ lands /\ Go(w, "persist")
           \/ lands /\ Go(w, "park")
           \/ UNCHANGED <<wallet, delivered>> /\ Go(w, "park")
        /\ Within /\ UNCHANGED <<books, row, told, rail, disowned>>

\* A guarded write; a stale row does not stop the handler that goes on.
WhileDispatching(o, new) == row' = IF row[o].status = "dispatching" THEN [row EXCEPT ![o] = new] ELSE row

Park(w) ==
    LET o == job[w].order
    IN  /\ job[w].step = "park"
        /\ WhileDispatching(o, [row[o] EXCEPT !.parked = TRUE])
        /\ Idle(w)
        /\ Within /\ UNCHANGED <<books, told, rail, wallet, delivered, disowned>>

PersistDigest(w) ==
    LET o == job[w].order
    IN  /\ job[w].step = "persist"
        /\ WhileDispatching(o, [row[o] EXCEPT !.digest = TRUE])
        /\ Go(w, "confirm")
        /\ Within /\ UNCHANGED <<books, told, rail, wallet, delivered, disowned>>

\* settleLpFill: the entry, the row, the PaymentOrder when it is loaded.  The entry's write may
\* fail without stopping the others.
ConfirmFill(w) ==
    /\ job[w].step = "confirm"
    /\ \/ ConfirmTx(Claimed(w)) /\ UNCHANGED faults
       \/ UNCHANGED books /\ faults < MaxFaults /\ faults' = faults + 1
    /\ Go(w, "settle")
    /\ DispatcherFrame
    /\ UNCHANGED <<row, told, rail, sentTo, wallet, delivered, disowned, overlapped>>

SettleLpFill(w) ==
    LET o == job[w].order
    IN  /\ job[w].step = "settle"
        /\ WhileDispatching(o, [row[o] EXCEPT !.status = "settled"])
        /\ IF row[o].status = "dispatching" /\ job[w].edges THEN Go(w, "po") ELSE Idle(w)
        /\ Within /\ UNCHANGED <<books, told, rail, wallet, delivered, disowned>>

SettlePaymentOrder(w) ==
    /\ job[w].step = "po"
    /\ told' = told \cup {job[w].order}
    /\ Idle(w)
    /\ Within /\ UNCHANGED <<books, row, rail, wallet, delivered, disowned>>

\* The process dies, or a write fails and the handler returns without it.
Stop(w) ==
    /\ job[w].step \notin {"idle", "match", "claim", "poll"}
    /\ faults < MaxFaults /\ faults' = faults + 1
    /\ Idle(w)
    /\ DispatcherFrame
    /\ UNCHANGED <<books, row, told, rail, sentTo, wallet, delivered, disowned, overlapped>>

-----------------------------------------------------------------------------
(* The bank *)

RailResolves(r) ==
    /\ rail[r] = "processing"
    /\ \E state \in {"success", "failed"} : rail' = [rail EXCEPT ![r] = state]
    /\ UNCHANGED <<books, operator, row, told, job, request, sentTo, received, wallet,
                   delivered, disowned, overlapped, faults>>

-----------------------------------------------------------------------------

Accounts ==
    \/ \E l \in Lps : SetStatus(l) \/ UpdateAccount(l)
    \/ \E b \in Banks : SwitchRail(b)
    \/ \E d \in Deposits, l \in Lps, amount \in Amounts : DepositArrives(d, l, amount)
    \/ \E d \in Deposits : HandleDeposit(d)
    \/ \E i \in Withdrawals, l \in Lps, amount \in Amounts : Withdraw(i, l, amount)
    \/ \E i \in Withdrawals :
          Reserve(i) \/ SubmitWithdrawal(i) \/ ReleaseWithdrawal(i) \/ RequestStops(i)
             \/ HandleWithdrawalFinality(i)

Handler(w) ==
    \/ LpNetworkFallback(w) \/ NoClaim(w) \/ SubmitPayout(w) \/ ReleaseLpFill(w)
    \/ Poll(w) \/ FinalizeLpFill(w) \/ DeliverUsdc(w) \/ Park(w) \/ PersistDigest(w)
    \/ ConfirmFill(w) \/ SettleLpFill(w) \/ SettlePaymentOrder(w)
    \/ \E l \in Lps : Match(w, l)
    \/ \E n \in Attempts : Claim(w, n)

Dispatcher ==
    \/ \E o \in Orders : Expire(o)
    \/ \E w \in Workers :
          Handler(w) \/ Stop(w) \/ \E o \in Orders : FetchPending(w, o) \/ FetchPayout(w, o)

Next == Accounts \/ Dispatcher \/ \E r \in Debits : RailResolves(r)

\* Some handler that has begun goes on, the bank ends every transfer, ticks loop over every row
\* they fetched, and the status call of a bank that knows the reference does not fail for ever.  No
\* particular instance has to go on.
Answer(w) == Poll(w) /\ job'[w].step # "idle"

Fairness ==
    /\ WF_vars(\E w \in Workers : Handler(w))
    /\ \A o \in Orders : SF_vars(\E w \in Workers : FetchPayout(w, o))
    /\ SF_vars(\E w \in Workers : Answer(w))
    /\ \A r \in Debits : WF_vars(RailResolves(r))

Spec == Init /\ [][Next]_vars /\ Fairness

-----------------------------------------------------------------------------
(* Properties *)

\* A sum over the domain of f, counted unit by unit.
Units(f) == UNION { {x} \X (1 .. f[x]) : x \in DOMAIN f }
Total(f) == Cardinality(Units(f))

Amount(r) == entry[r].amount

Worth(S) == Total([r \in S |-> Amount(r)])

InForce(S) == { r \in S : entry[r].status \in {"pending", "confirmed"} }

PaidOut == { r \in Debits : rail[r] = "success" }

\* The LPs' part of "pooled NGN == sum of LP ledger balances": what LPs may still spend, what is
\* reserved for them and what the bank paid out for them is what they deposited, and no more than
\* the transfers the code disowned.  It says nothing of the bank balance itself, from which
\* treasury payouts and the banks' fees are paid too and which is not the one a fill is paid from
\* after a switch of the rail.
DepositsCover ==
    Total(balance) + Worth(InForce(Debits) \ PaidOut) + Worth(PaidOut)
        <= Total([d \in Deposits |-> received[d].amount]) + Worth(disowned \cap PaidOut)

Moving(o) == { r \in Fills : r[2] = o /\ rail[r] \in {"processing", "success"} }

\* fillViaLpNetwork: the merchant of an order is paid by one transfer, but for those disowned,
\* with any number of dispatchers, crashes and attempts.
PaidOnce == \A o \in Orders : Cardinality(Moving(o) \ disowned) <= 1

\* The code takes a failed Transfer call for "definite no-submit": no order is paid twice.
NeverPaidTwice == \A o \in Orders : Cardinality(Moving(o) \cap PaidOut) <= 1

Deliveries(o) == Total([n \in Attempts |-> delivered[Fill(o, n)]])

\* finalizeLpFill: an ambiguous USDC transfer parks the order, so that the USDC of an order
\* leaves once; each fault between a transfer and its record costs at most one more.
DeliveredOnce == ~overlapped => \A o \in Orders : Deliveries(o) <= 1 + faults

Exchanged(r) == rail[r] = "success" /\ delivered[r] > 0

\* USDC goes only to the LP whose bank money reached the merchant; an LP's fill is final only
\* when it got the USDC, and an order is settled, or settleLpFill reports it settled, only after
\* both moved.
FillIsExchange ==
    ~overlapped \/ disowned = {} =>
        /\ \A r \in Fills : /\ delivered[r] > 0 => rail[r] = "success"
                            /\ entry[r].status = "confirmed" => delivered[r] > 0
        /\ \A o \in Orders : row[o].status = "settled" \/ o \in told =>
               \E n \in Attempts : Exchanged(Fill(o, n))

\* advanceLpNetworkPayouts finds a payout by mode, status and reference of the row: one that the
\* bank took is under the reference of its row, which stays dispatching until it is settled, and
\* stays in the mode that is polled.  The claim and the fallback guard the status and leave the mode
\* to the lease, as does this.
PaidInSight ==
    \A o \in Orders, n \in Attempts :
        rail[Fill(o, n)] \in {"processing", "success"} /\ Fill(o, n) \notin disowned =>
            /\ row[o].attempt = n /\ row[o].status \in {"dispatching", "settled"}
            /\ ~overlapped => row[o].mode = "lp_network"

L == INSTANCE Ledger WITH Amounts <- Amounts \cup {Target}

\* The accounts and entries implement the abstract ledger.
ImplementsLedger == L!Spec

Awaited(o) ==
    LET r == Fill(o, row[o].attempt)
    IN  /\ row[o].status = "dispatching" /\ row[o].mode = "lp_network"
        /\ rail[r] = "success" /\ sentTo[r] = floatRail

\* A payout that reached the merchant is followed by delivery and settlement or is parked for
\* an operator, through a crash, failed status calls, failed writes and overlapping ticks, unless
\* the operator moves the float to another bank: ticks then ask that bank, which does not know the
\* payout, until the float is moved back.
PaidIsFinished ==
    \A o \in Orders :
        Awaited(o) ~> \/ row[o].status # "dispatching" \/ row[o].parked
                      \/ sentTo[Fill(o, row[o].attempt)] # floatRail

=============================================================================
