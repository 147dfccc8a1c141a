--------------------------- MODULE LpNetworkProofs ---------------------------
(***************************************************************************)
(* Proofs about LpNetwork, for every set of orders, LPs, dispatchers,      *)
(* deposits and withdrawals, and any number of faults and lost answers.    *)
(***************************************************************************)
EXTENDS LpNetwork, FiniteSetTheorems, TLAPS

Sums == Amounts \cup {Target}

(***************************************************************************)
(* The inductive invariant.  A credit never waits, so only debits are      *)
(* confirmed or released; a handler that is about to write the books has   *)
(* an LP, an amount and a reference to write them with.                    *)
(***************************************************************************)
BooksOK ==
    /\ balance \in [Lps -> Nat]
    /\ entry \in [Refs -> EntryRec \cup {NoEntry}]
    /\ \A r \in Credits : entry[r].status # "pending"

RequestsOK ==
    /\ request \in [Withdrawals -> RequestRec]
    /\ \A i \in Withdrawals :
          request[i].step = "reserve" => request[i].lp \in Lps /\ request[i].amount \in Amounts

ReceivedOK ==
    /\ received \in [Deposits -> [lp : Lps \cup {Nil}, amount : Amounts \cup {0}]]
    /\ \A d \in Deposits : received[d].lp # Nil => received[d].amount \in Amounts

RowsOK == row \in [Orders -> RowRec] /\ told \subseteq Orders

Steps == {"idle", "match", "claim", "submit", "release", "poll", "load", "deliver",
          "park", "persist", "confirm", "settle", "po"}

JobOK(j) ==
    /\ j \in JobRec
    /\ j.step # "idle" => j.order \in Orders
    /\ j.step = "claim" => j.lp \in Lps
    /\ j.step \in {"submit", "release", "poll", "deliver"} => j.attempt \in Attempts

JobsOK == job \in [Workers -> JobRec] /\ \A w \in Workers : JobOK(job[w])

MoneyOK ==
    /\ rail \in [Debits -> RailStates]
    /\ disowned \subseteq Debits
    /\ wallet \in Nat
    /\ delivered \in [Fills -> Nat]

RestOK ==
    /\ active \subseteq Lps /\ addressed \subseteq Lps
    /\ floatRail \in Banks /\ switches \in Nat /\ sentTo \in [Fills -> Banks \cup {Nil}]
    /\ overlapped \in BOOLEAN /\ faults \in Nat

IInv == BooksOK /\ RequestsOK /\ ReceivedOK /\ RowsOK /\ JobsOK /\ MoneyOK /\ RestOK

-----------------------------------------------------------------------------
(* References *)

LEMMA FillRef == \A o \in Orders, n \in Attempts : Fill(o, n) \in Debits
  BY DEF Fill, Debits, Fills

LEMMA CashoutRef == \A i \in Withdrawals : Cashout(i) \in Debits
  BY DEF Cashout, Debits, Cashouts

LEMMA DepositRef == \A d \in Deposits : Deposit(d) \in Credits
  BY DEF Deposit, Credits

LEMMA NotBoth == Debits \cap Credits = {}
<1> SUFFICES ASSUME NEW r \in Debits, r \in Credits PROVE FALSE
  OBVIOUS
<1>1. r[1] = "deposit"
  BY DEF Credits
<1>2. CASE r \in Fills
  BY <1>1, <1>2 DEF Fills
<1>3. CASE r \in Cashouts
  BY <1>1, <1>3 DEF Cashouts
<1>4. QED
  BY <1>2, <1>3 DEF Debits

-----------------------------------------------------------------------------
(* The ledger transactions: each keeps the books' invariant and is a step   *)
(* of Ledger, or changes nothing.                                           *)

Booked == BooksOK' /\ [L!Next]_books

LEMMA SameBooks == ASSUME BooksOK, UNCHANGED books PROVE Booked
  BY DEF BooksOK, books, Booked

\* What an insert does to the entries.
LEMMA InsertOK ==
    ASSUME BooksOK, NEW r \in Refs, NEW l \in Lps, NEW a \in Sums,
           NEW s \in {"pending", "confirmed"}, Insert(r, l, a, s),
           r \in Credits => s = "confirmed"
    PROVE  /\ entry' \in [Refs -> EntryRec \cup {NoEntry}]
           /\ \A q \in Credits : entry'[q].status # "pending"
           /\ L!Book(r, l, a, s)
<1> DEFINE e == [lp |-> l, amount |-> a, status |-> s]
<1>1. e \in EntryRec
  BY DEF EntryRec, Sums
<1>2. entry' = [entry EXCEPT ![r] = e] /\ entry[r] = NoEntry
  BY DEF Insert
<1>3. entry' \in [Refs -> EntryRec \cup {NoEntry}]
  BY <1>1, <1>2 DEF BooksOK
<1>4. ASSUME NEW q \in Credits PROVE entry'[q].status # "pending"
  <2>1. q \in Refs
    BY DEF Refs
  <2>2. CASE q = r
    BY <1>2, <2>1, <2>2 DEF BooksOK
  <2>3. CASE q # r
    BY <1>2, <2>1, <2>3 DEF BooksOK
  <2>4. QED
    BY <2>2, <2>3
<1>5. L!Book(r, l, a, s)
  BY <1>2 DEF L!Book, L!NoEntry, NoEntry
<1>6. QED
  BY <1>3, <1>4, <1>5

LEMMA ReserveBooked ==
    ASSUME LpAssumption, BooksOK, NEW r \in Debits, NEW l \in Lps, NEW a \in Sums,
           ReserveTx(r, l, a)
    PROVE  Booked
<1>1. r \in Refs /\ r \notin Credits /\ Insert(r, l, a, "pending")
  BY NotBoth DEF Refs, ReserveTx
<1>2. /\ entry' \in [Refs -> EntryRec \cup {NoEntry}]
      /\ \A q \in Credits : entry'[q].status # "pending"
      /\ L!Book(r, l, a, "pending")
  BY <1>1, InsertOK
<1>3. a \in Nat /\ balance[l] \in Nat /\ balance[l] >= a
  BY DEF LpAssumption, Sums, ReserveTx, BooksOK
<1>4. balance' = [balance EXCEPT ![l] = @ - a] /\ balance' \in [Lps -> Nat]
  BY <1>3 DEF ReserveTx, BooksOK
<1>5. L!Reserve(r, l, a)
  BY <1>2, <1>3, <1>4 DEF L!Reserve
<1>6. L!Next
  BY <1>5 DEF L!Next, Sums
<1>7. QED
  BY <1>2, <1>4, <1>6 DEF Booked, BooksOK

LEMMA CreditBooked ==
    ASSUME LpAssumption, BooksOK, ReceivedOK, NEW d \in Deposits, HandleDeposit(d)
    PROVE  Booked
<1> DEFINE l == received[d].lp
           a == received[d].amount
           r == Deposit(d)
<1>1. l \in Lps /\ a \in Sums /\ r \in Credits /\ r \in Refs
  BY DepositRef DEF ReceivedOK, HandleDeposit, Sums, Refs, operator
<1>2. Insert(r, l, a, "confirmed") /\ balance' = [balance EXCEPT ![l] = @ + a]
  BY DEF HandleDeposit, operator
<1> HIDE DEF l, a, r
<1>3. /\ entry' \in [Refs -> EntryRec \cup {NoEntry}]
      /\ \A q \in Credits : entry'[q].status # "pending"
      /\ L!Book(r, l, a, "confirmed")
  BY <1>1, <1>2, InsertOK
<1>4. a \in Nat
  BY <1>1 DEF LpAssumption, Sums
<1>5. balance' \in [Lps -> Nat]
  BY <1>1, <1>2, <1>4 DEF BooksOK
<1>6. L!Credit(r, l, a)
  BY <1>2, <1>3 DEF L!Credit
<1>7. L!Next
  BY <1>1, <1>6 DEF L!Next, Sums
<1>8. QED
  BY <1>3, <1>5, <1>7 DEF Booked, BooksOK

\* A pending entry is a debit, with an LP and an amount.
LEMMA PendingIsDebit ==
    ASSUME LpAssumption, BooksOK, NEW r \in Refs, entry[r].status = "pending"
    PROVE  r \in Debits /\ entry[r] \in EntryRec /\ entry[r].lp \in Lps /\ entry[r].amount \in Nat
<1>1. r \in Debits
  BY DEF BooksOK, Refs
<1>2. entry[r] # NoEntry
  BY DEF NoEntry
<1>3. entry[r] \in EntryRec
  BY <1>2 DEF BooksOK
<1>4. QED
  BY <1>1, <1>3 DEF EntryRec, LpAssumption

\* Giving an entry one of its two ends.
LEMMA EndOK ==
    ASSUME LpAssumption, BooksOK, NEW r \in Refs, entry[r].status = "pending",
           NEW s \in {"confirmed", "failed"}, entry' = [entry EXCEPT ![r].status = s]
    PROVE  /\ entry' \in [Refs -> EntryRec \cup {NoEntry}]
           /\ \A q \in Credits : entry'[q].status # "pending"
<1> DEFINE e == [entry[r] EXCEPT !.status = s]
<1>1. e \in EntryRec /\ e.status = s
  BY PendingIsDebit DEF EntryRec
<1>2. entry' = [entry EXCEPT ![r] = e]
  BY DEF BooksOK
<1>3. \A q \in Refs : entry'[q] = IF q = r THEN e ELSE entry[q]
  BY <1>2 DEF BooksOK
<1>4. entry' \in [Refs -> EntryRec \cup {NoEntry}]
  BY <1>1, <1>2 DEF BooksOK
<1>5. QED
  BY <1>1, <1>3, <1>4 DEF BooksOK, Refs

LEMMA ReleaseBooked ==
    ASSUME LpAssumption, BooksOK, NEW r \in Debits, ReleaseTx(r)
    PROVE  Booked
<1>1. CASE entry[r].status # "pending"
  BY <1>1, SameBooks DEF ReleaseTx
<1>2. CASE entry[r].status = "pending"
  <2>1. r \in Refs
    BY DEF Refs
  <2>2. /\ entry' = [entry EXCEPT ![r].status = "failed"]
        /\ balance' = [balance EXCEPT ![entry[r].lp] = @ + entry[r].amount]
    BY <1>2 DEF ReleaseTx
  <2>3. entry[r].lp \in Lps /\ entry[r].amount \in Nat
    BY <1>2, <2>1, PendingIsDebit
  <2>4. balance' \in [Lps -> Nat]
    BY <2>2, <2>3 DEF BooksOK
  <2>5. L!Next
    BY <1>2, <2>2 DEF L!Next, L!Release
  <2>6. QED
    BY <1>2, <2>1, <2>2, <2>4, <2>5, EndOK DEF Booked, BooksOK
<1>3. QED
  BY <1>1, <1>2

LEMMA ConfirmBooked ==
    ASSUME LpAssumption, BooksOK, NEW r, ConfirmTx(r)
    PROVE  Booked
<1>1. CASE ~(r \in Refs /\ entry[r].status = "pending")
  BY <1>1, SameBooks DEF ConfirmTx, books
<1>2. CASE r \in Refs /\ entry[r].status = "pending"
  <2>1. entry' = [entry EXCEPT ![r].status = "confirmed"] /\ UNCHANGED balance
    BY <1>2 DEF ConfirmTx
  <2>2. r \in Debits
    BY <1>2, PendingIsDebit
  <2>3. L!Next
    BY <1>2, <2>1, <2>2 DEF L!Next, L!Confirm
  <2>4. QED
    BY <1>2, <2>1, <2>3, EndOK DEF Booked, BooksOK
<1>3. QED
  BY <1>1, <1>2

-----------------------------------------------------------------------------
(* Initially *)

LEMMA InitIInv == Init => IInv /\ L!Init
<1> SUFFICES ASSUME Init PROVE IInv /\ L!Init
  OBVIOUS
<1>1. BooksOK
  BY DEF Init, BooksOK, NoEntry, Refs
<1>2. RequestsOK /\ ReceivedOK
  BY DEF Init, RequestsOK, RequestRec, ReceivedOK
<1>3. RowsOK
  BY DEF Init, RowsOK, RowRec, NewRow
<1>4. JobsOK
  BY DEF Init, JobsOK, JobOK, JobRec, NoJob
<1>5. Cardinality(Orders) \in Nat
  BY LpAssumption, FS_CardinalityType DEF LpAssumption
<1>6. MoneyOK
  BY <1>5, LpAssumption DEF Init, MoneyOK, RailStates, LpAssumption
<1>7. RestOK
  BY LpAssumption DEF Init, RestOK, LpAssumption
<1>8. L!Init
  BY DEF Init, L!Init, L!NoEntry, NoEntry, Refs
<1>9. QED
  BY <1>1, <1>2, <1>3, <1>4, <1>6, <1>7, <1>8 DEF IInv

-----------------------------------------------------------------------------
(* The parts a step changes *)

LEMMA SameRequests == ASSUME RequestsOK, UNCHANGED request PROVE RequestsOK'
  BY DEF RequestsOK

LEMMA SameReceived == ASSUME ReceivedOK, UNCHANGED received PROVE ReceivedOK'
  BY DEF ReceivedOK

LEMMA SameRows == ASSUME RowsOK, UNCHANGED <<row, told>> PROVE RowsOK'
  BY DEF RowsOK

LEMMA SameJobs == ASSUME JobsOK, UNCHANGED job PROVE JobsOK'
  BY DEF JobsOK

LEMMA SameMoney ==
    ASSUME MoneyOK, UNCHANGED <<rail, disowned, wallet, delivered>> PROVE MoneyOK'
  BY DEF MoneyOK

LEMMA SameRest ==
    ASSUME RestOK, UNCHANGED <<operator, sentTo, overlapped, faults>> PROVE RestOK'
  BY DEF RestOK, operator

\* A request moves to a step other than reserve.
LEMMA RequestMoves ==
    ASSUME RequestsOK, NEW i \in Withdrawals, NEW s \in {"submit", "release", "done"},
           RequestGoes(i, s)
    PROVE  RequestsOK'
<1>1. request' = [request EXCEPT ![i].step = s] /\ request[i] \in RequestRec
  BY DEF RequestGoes, RequestsOK
<1>2. request'[i] = [request[i] EXCEPT !.step = s] /\ request'[i] \in RequestRec
      /\ request'[i].step = s
  BY <1>1 DEF RequestsOK, RequestRec
<1>3. request' \in [Withdrawals -> RequestRec]
  BY <1>1, <1>2 DEF RequestsOK
<1>4. QED
  BY <1>1, <1>2, <1>3 DEF RequestsOK

\* A handler changes its job to a job that is fit for its step.
LEMMA JobSet ==
    ASSUME JobsOK, NEW w \in Workers, NEW j, JobOK(j), job' = [job EXCEPT ![w] = j]
    PROVE  JobsOK'
  BY DEF JobsOK, JobOK

LEMMA JobIdle == ASSUME JobsOK, NEW w \in Workers, Idle(w) PROVE JobsOK'
<1>1. JobOK(NoJob)
  BY DEF JobOK, NoJob, JobRec
<1>2. QED
  BY <1>1, JobSet DEF Idle

LEMMA JobGoes ==
    ASSUME JobsOK, NEW w \in Workers, job[w].step # "idle", NEW s \in Steps, Go(w, s),
           s # "claim",
           s \in {"submit", "release", "poll", "deliver"} => job[w].attempt \in Attempts
    PROVE  JobsOK'
<1> DEFINE j == [job[w] EXCEPT !.step = s]
<1>1. job[w] \in JobRec /\ job[w].order \in Orders
  BY DEF JobsOK, JobOK
<1>2. j \in JobRec /\ j.step = s /\ j.order = job[w].order /\ j.attempt = job[w].attempt
  BY <1>1 DEF JobRec, Steps
<1>3. JobOK(j)
  BY <1>1, <1>2 DEF JobOK
<1>4. job' = [job EXCEPT ![w] = j]
  BY DEF Go, JobsOK
<1> HIDE DEF j
<1>5. QED
  BY <1>3, <1>4, JobSet

\* A guarded write of a row.
LEMMA RowSet ==
    ASSUME RowsOK, NEW o \in Orders, NEW new \in RowRec, WhileDispatching(o, new),
           UNCHANGED told
    PROVE  RowsOK'
  BY DEF RowsOK, WhileDispatching

LEMMA AcceptOK ==
    ASSUME MoneyOK, NEW r \in Debits, NEW s \in RailStates, Accept(r, s)
    PROVE  rail' \in [Debits -> RailStates]
  BY DEF MoneyOK, Accept

LEMMA ErrorOK ==
    ASSUME MoneyOK, NEW r \in Debits, SubmitError(r)
    PROVE  rail' \in [Debits -> RailStates] /\ disowned' \subseteq Debits
<1>1. "processing" \in RailStates
  BY DEF RailStates
<1>2. QED
  BY <1>1, AcceptOK DEF SubmitError, MoneyOK

-----------------------------------------------------------------------------
(* Steps of the accounts *)

Good == IInv' /\ [L!Next]_books

LEMMA AccountsGood == ASSUME IInv, Accounts PROVE Good
<1> USE LpAssumption
<1>0. BooksOK /\ RequestsOK /\ ReceivedOK /\ RowsOK /\ JobsOK /\ MoneyOK /\ RestOK
  BY DEF IInv
<1>1. ASSUME \/ \E l \in Lps : SetStatus(l) \/ UpdateAccount(l)
             \/ \E b \in Banks : SwitchRail(b)
      PROVE  Good
  <2>1. Booked /\ RequestsOK' /\ ReceivedOK' /\ RowsOK' /\ JobsOK' /\ MoneyOK'
    BY <1>0, <1>1, SameBooks, SameRequests, SameReceived, SameRows, SameJobs, SameMoney
    DEF SetStatus, UpdateAccount, SwitchRail, money, operator
  <2>2. RestOK'
    <3>1. RestOK
      BY <1>0
    <3>2. ASSUME NEW l \in Lps, SetStatus(l) \/ UpdateAccount(l) PROVE RestOK'
      BY <3>1, <3>2 DEF SetStatus, UpdateAccount, money, RestOK
    <3>3. ASSUME NEW b \in Banks, SwitchRail(b) PROVE RestOK'
      BY <3>1, <3>3 DEF SwitchRail, money, RestOK
    <3>4. QED
      BY <1>1, <3>2, <3>3
  <2>3. QED
    BY <2>1, <2>2 DEF Good, IInv, Booked
<1>2. ASSUME NEW d \in Deposits, NEW l \in Lps, NEW a \in Amounts, DepositArrives(d, l, a)
      PROVE  Good
  <2>1. Booked /\ RequestsOK' /\ RowsOK' /\ JobsOK' /\ MoneyOK' /\ RestOK'
    BY <1>0, <1>2, SameBooks, SameRequests, SameRows, SameJobs, SameMoney, SameRest
    DEF DepositArrives, operator
  <2>2. ReceivedOK'
    BY <1>0, <1>2 DEF DepositArrives, ReceivedOK, operator
  <2>3. QED
    BY <2>1, <2>2 DEF Good, IInv, Booked
<1>3. ASSUME NEW d \in Deposits, HandleDeposit(d) PROVE Good
  <2>1. RequestsOK' /\ ReceivedOK' /\ RowsOK' /\ JobsOK' /\ MoneyOK' /\ RestOK'
    BY <1>0, <1>3, SameRequests, SameReceived, SameRows, SameJobs, SameMoney, SameRest
    DEF HandleDeposit, money, operator
  <2>2. Booked
    BY <1>0, <1>3, CreditBooked
  <2>3. QED
    BY <2>1, <2>2 DEF Good, IInv, Booked
\* What the steps of a withdrawal leave alone.
<1>4. ASSUME AccountsFrame PROVE ReceivedOK' /\ RowsOK' /\ JobsOK'
  BY <1>0, <1>4, SameReceived, SameRows, SameJobs DEF AccountsFrame, operator
<1>5. ASSUME AccountsFrame, UNCHANGED <<rail, disowned>> PROVE MoneyOK'
  BY <1>0, <1>5, SameMoney DEF AccountsFrame, operator
<1>6. ASSUME AccountsFrame, UNCHANGED faults PROVE RestOK'
  BY <1>0, <1>6, SameRest DEF AccountsFrame, operator
<1>7. ASSUME NEW i \in Withdrawals, NEW l \in Lps, NEW a \in Amounts, Withdraw(i, l, a)
      PROVE  Good
  <2>1. Booked /\ ReceivedOK' /\ RowsOK' /\ JobsOK' /\ MoneyOK' /\ RestOK'
    BY <1>0, <1>4, <1>5, <1>6, <1>7, SameBooks DEF Withdraw
  <2>2. RequestsOK'
    BY <1>0, <1>7 DEF Withdraw, RequestsOK, RequestRec
  <2>3. QED
    BY <2>1, <2>2 DEF Good, IInv, Booked
<1>8. ASSUME NEW i \in Withdrawals, Reserve(i) PROVE Good
  <2>1. ReceivedOK' /\ RowsOK' /\ JobsOK' /\ MoneyOK' /\ RestOK'
    BY <1>4, <1>5, <1>6, <1>8 DEF Reserve
  <2>2. RequestsOK'
    BY <1>0, <1>8, RequestMoves DEF Reserve
  <2>3. Booked
    BY <1>0, <1>8, CashoutRef, ReserveBooked, SameBooks DEF Reserve, RequestsOK, Sums
  <2>4. QED
    BY <2>1, <2>2, <2>3 DEF Good, IInv, Booked
<1>9. ASSUME NEW i \in Withdrawals, SubmitWithdrawal(i) PROVE Good
  <2>1. Booked /\ ReceivedOK' /\ RowsOK' /\ JobsOK' /\ RestOK'
    BY <1>0, <1>4, <1>6, <1>9, SameBooks DEF SubmitWithdrawal
  <2>2. RequestsOK'
    BY <1>0, <1>9, RequestMoves DEF SubmitWithdrawal
  <2>3. rail' \in [Debits -> RailStates] /\ disowned' \subseteq Debits
    BY <1>0, <1>9, CashoutRef, AcceptOK, ErrorOK DEF SubmitWithdrawal, RailStates, MoneyOK
  <2>4. MoneyOK'
    BY <1>0, <1>9, <2>3 DEF SubmitWithdrawal, AccountsFrame, MoneyOK, operator
  <2>5. QED
    BY <2>1, <2>2, <2>4 DEF Good, IInv, Booked
<1>10. ASSUME NEW i \in Withdrawals, ReleaseWithdrawal(i) PROVE Good
  <2>1. ReceivedOK' /\ RowsOK' /\ JobsOK' /\ MoneyOK' /\ RestOK'
    BY <1>4, <1>5, <1>6, <1>10 DEF ReleaseWithdrawal
  <2>2. RequestsOK' /\ Booked
    BY <1>0, <1>10, RequestMoves, CashoutRef, ReleaseBooked DEF ReleaseWithdrawal
  <2>3. QED
    BY <2>1, <2>2 DEF Good, IInv, Booked
<1>11. ASSUME NEW i \in Withdrawals, RequestStops(i) PROVE Good
  <2>1. Booked /\ ReceivedOK' /\ RowsOK' /\ JobsOK' /\ MoneyOK'
    BY <1>0, <1>4, <1>5, <1>11, SameBooks DEF RequestStops
  <2>2. RequestsOK' /\ RestOK'
    BY <1>0, <1>11, RequestMoves DEF RequestStops, AccountsFrame, RestOK, operator
  <2>3. QED
    BY <2>1, <2>2 DEF Good, IInv, Booked
<1>12. ASSUME NEW i \in Withdrawals, HandleWithdrawalFinality(i) PROVE Good
  <2>1. ReceivedOK' /\ RowsOK' /\ JobsOK' /\ MoneyOK' /\ RestOK' /\ RequestsOK'
    BY <1>0, <1>4, <1>5, <1>6, <1>12, SameRequests DEF HandleWithdrawalFinality
  <2>2. Booked
    BY <1>0, <1>12, CashoutRef, ReleaseBooked, ConfirmBooked DEF HandleWithdrawalFinality
  <2>3. QED
    BY <2>1, <2>2 DEF Good, IInv, Booked
<1>13. QED
  BY <1>1, <1>2, <1>3, <1>7, <1>8, <1>9, <1>10, <1>11, <1>12 DEF Accounts

-----------------------------------------------------------------------------
(* Steps of the dispatcher *)

\* What a step within a handler leaves alone.
LEMMA WithinOK ==
    ASSUME RequestsOK, ReceivedOK, RestOK, Within
    PROVE  RequestsOK' /\ ReceivedOK' /\ RestOK'
  BY SameRequests, SameReceived, SameRest DEF Within, DispatcherFrame, operator

LEMMA SubmitFrame ==
    ASSUME RequestsOK, ReceivedOK, RestOK, NEW w \in Workers, Claimed(w) \in Fills,
           job[w].bank \in Banks \cup {Nil}, SubmitPayout(w)
    PROVE  RequestsOK' /\ ReceivedOK' /\ RestOK'
<1>1. sentTo' \in [Fills -> Banks \cup {Nil}]
  BY DEF SubmitPayout, RestOK
<1>2. QED
  BY <1>1, SameRequests, SameReceived DEF SubmitPayout, DispatcherFrame, RestOK, operator

LEMMA BeginOK ==
    ASSUME IInv, NEW w \in Workers, NEW o \in Orders,
           NEW s \in {"match", "poll", "confirm"}, Begin(w, o, s),
           s = "poll" => row[o].attempt \in Attempts
    PROVE  JobsOK' /\ overlapped' \in BOOLEAN
<1> DEFINE j == [NoJob EXCEPT !.step = s, !.order = o, !.attempt = row[o].attempt,
                              !.bank = floatRail]
<1>1. row[o].attempt \in Attempts \cup {0} /\ floatRail \in Banks
  BY DEF IInv, RowsOK, RowRec, RestOK
<1>2. JobOK(j)
  BY <1>1 DEF JobOK, JobRec, NoJob
<1>3. job' = [job EXCEPT ![w] = j]
  BY DEF Begin, operator
<1> HIDE DEF j
<1>4. JobsOK'
  BY <1>2, <1>3, JobSet DEF IInv
<1>5. overlapped' \in BOOLEAN
  BY DEF Begin, operator
<1>6. QED
  BY <1>4, <1>5

LEMMA FetchGood ==
    ASSUME IInv, NEW w \in Workers, NEW o \in Orders, FetchPending(w, o) \/ FetchPayout(w, o)
    PROVE  Good
<1>0. BooksOK /\ RequestsOK /\ ReceivedOK /\ RowsOK /\ JobsOK /\ MoneyOK /\ RestOK
  BY DEF IInv
<1>1. JobsOK' /\ overlapped' \in BOOLEAN
  <2>1. CASE FetchPending(w, o)
    BY <2>1, BeginOK DEF FetchPending, operator
  <2>2. CASE FetchPayout(w, o)
    <3>1. row[o].attempt \in Attempts
      BY <1>0, <2>2 DEF FetchPayout, RowsOK, RowRec, operator
    <3>2. QED
      BY <2>2, <3>1, BeginOK DEF FetchPayout, operator
  <2>3. QED
    BY <2>1, <2>2
<1>2. Booked /\ RequestsOK' /\ ReceivedOK' /\ RowsOK' /\ MoneyOK'
  BY <1>0, SameBooks, SameRequests, SameReceived, SameRows, SameMoney
  DEF FetchPending, FetchPayout, DispatcherFrame, operator
<1>3. RestOK'
  BY <1>0, <1>1 DEF FetchPending, FetchPayout, DispatcherFrame, RestOK, operator
<1>4. QED
  BY <1>1, <1>2, <1>3 DEF Good, IInv, Booked

LEMMA ClaimGood ==
    ASSUME IInv, NEW w \in Workers, NEW n \in Attempts, Claim(w, n)
    PROVE  Good
<1> USE LpAssumption
<1> DEFINE o == job[w].order
           j == [job[w] EXCEPT !.step = "submit", !.attempt = n]
<1>0. BooksOK /\ RequestsOK /\ ReceivedOK /\ RowsOK /\ JobsOK /\ MoneyOK /\ RestOK
  BY DEF IInv
<1>1. job[w] \in JobRec /\ o \in Orders /\ job[w].lp \in Lps
  BY <1>0 DEF Claim, JobsOK, JobOK
<1>2. Booked
  BY <1>0, <1>1, FillRef, ReserveBooked DEF Claim, Sums
<1>3. JobsOK'
  <2>1. JobOK(j)
    BY <1>1 DEF JobOK, JobRec
  <2>2. job' = [job EXCEPT ![w] = j]
    BY <1>0 DEF Claim, JobsOK
  <2> HIDE DEF j
  <2>3. QED
    BY <1>0, <2>1, <2>2, JobSet
<1>4. RowsOK'
  <2> DEFINE new == [row[o] EXCEPT !.status = "dispatching", !.attempt = n]
  <2>0. row[o] \in RowRec
    BY <1>0, <1>1 DEF RowsOK
  <2>1. new \in RowRec
    BY <2>0 DEF RowRec
  <2>2. row' = [row EXCEPT ![o] = new] /\ UNCHANGED told
    BY <1>0 DEF Claim, RowsOK
  <2> HIDE DEF new
  <2>3. QED
    BY <1>0, <1>1, <2>1, <2>2 DEF RowsOK
<1>5. RequestsOK' /\ ReceivedOK' /\ RestOK' /\ MoneyOK'
  BY <1>0, WithinOK, SameMoney DEF Claim
<1>6. QED
  BY <1>2, <1>3, <1>4, <1>5 DEF Good, IInv, Booked

\* The steps of a handler that write the books: release and confirm.
LEMMA ReleaseGood == ASSUME IInv, NEW w \in Workers, ReleaseLpFill(w) PROVE Good
<1> USE LpAssumption
<1> DEFINE o == job[w].order
           new == [row[o] EXCEPT !.status = "pending", !.attempt = 0]
<1>0. BooksOK /\ RequestsOK /\ ReceivedOK /\ RowsOK /\ JobsOK /\ MoneyOK /\ RestOK
  BY DEF IInv
<1>1. o \in Orders /\ job[w].attempt \in Attempts
  BY <1>0 DEF ReleaseLpFill, JobsOK, JobOK
<1>2. Booked
  BY <1>0, <1>1, FillRef, ReleaseBooked DEF ReleaseLpFill, Claimed
<1>3. RowsOK'
  <2>0. row[o] \in RowRec
    BY <1>0, <1>1 DEF RowsOK
  <2>1. new \in RowRec
    BY <2>0 DEF RowRec
  <2>2. (row' = [row EXCEPT ![o] = new] \/ row' = row) /\ UNCHANGED told
    BY <1>0 DEF ReleaseLpFill, RowsOK
  <2> HIDE DEF new
  <2>3. QED
    BY <1>0, <1>1, <2>1, <2>2 DEF RowsOK
<1>4. RequestsOK' /\ ReceivedOK' /\ RestOK' /\ MoneyOK' /\ JobsOK'
  BY <1>0, WithinOK, SameMoney, JobIdle DEF ReleaseLpFill
<1>5. QED
  BY <1>2, <1>3, <1>4 DEF Good, IInv, Booked

LEMMA ConfirmGood == ASSUME IInv, NEW w \in Workers, ConfirmFill(w) PROVE Good
<1> USE LpAssumption
<1>0. BooksOK /\ RequestsOK /\ ReceivedOK /\ RowsOK /\ JobsOK /\ MoneyOK /\ RestOK
  BY DEF IInv
<1>1. Booked
  BY <1>0, ConfirmBooked, SameBooks DEF ConfirmFill
<1>2. JobsOK'
  BY <1>0, JobGoes DEF ConfirmFill, Steps
<1>3. RequestsOK' /\ ReceivedOK' /\ RowsOK' /\ MoneyOK'
  BY <1>0, SameRequests, SameReceived, SameRows, SameMoney DEF ConfirmFill, DispatcherFrame, operator
<1>4. RestOK'
  BY <1>0 DEF ConfirmFill, DispatcherFrame, RestOK, operator
<1>5. QED
  BY <1>1, <1>2, <1>3, <1>4 DEF Good, IInv, Booked

\* The steps that touch the job alone.
LEMMA PlainGood ==
    ASSUME IInv, NEW w \in Workers,
           NoClaim(w) \/ Poll(w) \/ FinalizeLpFill(w) \/ \E l \in Lps : Match(w, l)
    PROVE  Good
<1>0. BooksOK /\ RequestsOK /\ ReceivedOK /\ RowsOK /\ JobsOK /\ MoneyOK /\ RestOK
  BY DEF IInv
<1>1. JobsOK'
  <2>1. CASE NoClaim(w)
    BY <1>0, <2>1, JobIdle DEF NoClaim
  <2>2. CASE Poll(w)
    <3>1. job[w].attempt \in Attempts
      BY <1>0, <2>2 DEF Poll, JobsOK, JobOK
    <3>2. QED
      BY <1>0, <2>2, <3>1, JobIdle, JobGoes DEF Poll, Steps
  <2>3. CASE FinalizeLpFill(w)
    <3> DEFINE now == row[job[w].order]
               step == IF now.digest THEN "confirm" ELSE "deliver"
               j == [job[w] EXCEPT !.step = step, !.attempt = now.attempt, !.edges = TRUE]
    <3>1. job[w] \in JobRec /\ job[w].order \in Orders
      BY <1>0, <2>3 DEF FinalizeLpFill, JobsOK, JobOK
    <3>2. now \in RowRec
      BY <1>0, <3>1 DEF RowsOK
    <3>3. CASE now.digest \/ now.attempt # 0
      <4>1. JobOK(j)
        BY <3>1, <3>2, <3>3 DEF JobOK, JobRec, RowRec
      <4>2. job' = [job EXCEPT ![w] = j]
        BY <1>0, <2>3, <3>3 DEF FinalizeLpFill, JobsOK
      <4> HIDE DEF j
      <4>3. QED
        BY <1>0, <4>1, <4>2, JobSet
    <3>4. CASE ~(now.digest \/ now.attempt # 0)
      BY <1>0, <2>3, <3>4, JobIdle DEF FinalizeLpFill
    <3>5. QED
      BY <3>3, <3>4
  <2>4. ASSUME NEW l \in Lps, Match(w, l) PROVE JobsOK'
    <3> DEFINE j == [job[w] EXCEPT !.step = "claim", !.lp = l]
    <3>1. job[w] \in JobRec /\ job[w].order \in Orders
      BY <1>0, <2>4 DEF Match, JobsOK, JobOK
    <3>2. JobOK(j)
      BY <3>1 DEF JobOK, JobRec
    <3>3. job' = [job EXCEPT ![w] = j]
      BY <1>0, <2>4 DEF Match, JobsOK
    <3> HIDE DEF j
    <3>4. QED
      BY <1>0, <3>2, <3>3, JobSet
  <2>5. QED
    BY <2>1, <2>2, <2>3, <2>4
<1>2. Within /\ UNCHANGED <<books, row, told, rail, wallet, delivered, disowned>>
  BY DEF NoClaim, Poll, FinalizeLpFill, Match
<1>3. Booked /\ RequestsOK' /\ ReceivedOK' /\ RestOK' /\ RowsOK' /\ MoneyOK'
  BY <1>0, <1>2, SameBooks, WithinOK, SameRows, SameMoney
<1>4. QED
  BY <1>1, <1>3 DEF Good, IInv, Booked

\* The steps that move money.
LEMMA SubmitGood == ASSUME IInv, NEW w \in Workers, SubmitPayout(w) PROVE Good
<1> DEFINE r == Claimed(w)
<1>0. BooksOK /\ RequestsOK /\ ReceivedOK /\ RowsOK /\ JobsOK /\ MoneyOK /\ RestOK
  BY DEF IInv
<1>1. r \in Debits /\ job[w].attempt \in Attempts
  BY <1>0, FillRef DEF SubmitPayout, JobsOK, JobOK, Claimed
<1>a. Claimed(w) \in Fills /\ job[w].bank \in Banks \cup {Nil}
  BY <1>0, <1>1 DEF SubmitPayout, JobsOK, JobOK, JobRec, Claimed, Fill, Fills
<1>2. Booked /\ RequestsOK' /\ ReceivedOK' /\ RestOK' /\ RowsOK'
  BY <1>0, <1>a, SameBooks, SubmitFrame, SameRows DEF SubmitPayout
<1>3. JobsOK'
  BY <1>0, <1>1, JobIdle, JobGoes DEF SubmitPayout, Steps
<1>4. rail' \in [Debits -> RailStates] /\ disowned' \subseteq Debits
  BY <1>0, <1>1, AcceptOK, ErrorOK DEF SubmitPayout, RailStates, MoneyOK
<1>5. MoneyOK'
  BY <1>0, <1>4 DEF SubmitPayout, MoneyOK
<1>6. QED
  BY <1>2, <1>3, <1>5 DEF Good, IInv, Booked

LEMMA DeliverGood == ASSUME IInv, NEW w \in Workers, DeliverUsdc(w) PROVE Good
<1>0. BooksOK /\ RequestsOK /\ ReceivedOK /\ RowsOK /\ JobsOK /\ MoneyOK /\ RestOK
  BY DEF IInv
<1>1. Claimed(w) \in Fills
  BY <1>0 DEF DeliverUsdc, JobsOK, JobOK, Claimed, Fill, Fills
<1>2. Booked /\ RequestsOK' /\ ReceivedOK' /\ RestOK' /\ RowsOK'
  BY <1>0, SameBooks, WithinOK, SameRows DEF DeliverUsdc
<1>3. JobsOK'
  BY <1>0, JobGoes DEF DeliverUsdc, Steps
<1>4. wallet' \in Nat /\ delivered' \in [Fills -> Nat]
  BY <1>0, <1>1 DEF DeliverUsdc, MoneyOK
<1>5. MoneyOK'
  BY <1>0, <1>4 DEF DeliverUsdc, MoneyOK
<1>6. QED
  BY <1>2, <1>3, <1>5 DEF Good, IInv, Booked

\* The steps that write the row or the PaymentOrder.
LEMMA WriteGood ==
    ASSUME IInv, NEW w \in Workers,
           \/ LpNetworkFallback(w) \/ Park(w) \/ PersistDigest(w)
           \/ SettleLpFill(w) \/ SettlePaymentOrder(w)
    PROVE  Good
<1> DEFINE o == job[w].order
<1>0. BooksOK /\ RequestsOK /\ ReceivedOK /\ RowsOK /\ JobsOK /\ MoneyOK /\ RestOK
  BY DEF IInv
<1>1. o \in Orders /\ job[w].step # "idle"
  BY <1>0 DEF LpNetworkFallback, Park, PersistDigest, SettleLpFill, SettlePaymentOrder,
              JobsOK, JobOK
<1>2. row[o] \in RowRec
  BY <1>0, <1>1 DEF RowsOK
<1>3. Within /\ UNCHANGED <<books, rail, wallet, delivered, disowned>>
  BY DEF LpNetworkFallback, Park, PersistDigest, SettleLpFill, SettlePaymentOrder
<1>4. Booked /\ RequestsOK' /\ ReceivedOK' /\ RestOK' /\ MoneyOK'
  BY <1>0, <1>3, SameBooks, WithinOK, SameMoney
<1>5. RowsOK'
  <2>1. CASE LpNetworkFallback(w)
    <3> DEFINE new == [row[o] EXCEPT !.mode = "lp"]
    <3>1. new \in RowRec
      BY <1>2 DEF RowRec
    <3>2. (row' = [row EXCEPT ![o] = new] \/ row' = row) /\ UNCHANGED told
      BY <1>0, <2>1 DEF LpNetworkFallback, RowsOK
    <3> HIDE DEF new
    <3>3. QED
      BY <1>0, <1>1, <3>1, <3>2 DEF RowsOK
  <2>2. CASE Park(w)
    <3>1. [row[o] EXCEPT !.parked = TRUE] \in RowRec
      BY <1>2 DEF RowRec
    <3>2. QED
      BY <1>0, <1>1, <2>2, <3>1, RowSet DEF Park
  <2>3. CASE PersistDigest(w)
    <3>1. [row[o] EXCEPT !.digest = TRUE] \in RowRec
      BY <1>2 DEF RowRec
    <3>2. QED
      BY <1>0, <1>1, <2>3, <3>1, RowSet DEF PersistDigest
  <2>4. CASE SettleLpFill(w)
    <3>1. [row[o] EXCEPT !.status = "settled"] \in RowRec
      BY <1>2 DEF RowRec
    <3>2. QED
      BY <1>0, <1>1, <2>4, <3>1, RowSet DEF SettleLpFill
  <2>5. CASE SettlePaymentOrder(w)
    BY <1>0, <1>1, <2>5 DEF SettlePaymentOrder, RowsOK
  <2>6. QED
    BY <2>1, <2>2, <2>3, <2>4, <2>5
<1>6. JobsOK'
  BY <1>0, <1>1, JobIdle, JobGoes
  DEF LpNetworkFallback, Park, PersistDigest, SettleLpFill, SettlePaymentOrder, Steps
<1>7. QED
  BY <1>4, <1>5, <1>6 DEF Good, IInv, Booked

LEMMA StopGood == ASSUME IInv, NEW w \in Workers, Stop(w) PROVE Good
<1>0. BooksOK /\ RequestsOK /\ ReceivedOK /\ RowsOK /\ JobsOK /\ MoneyOK /\ RestOK
  BY DEF IInv
<1>1. Booked /\ RequestsOK' /\ ReceivedOK' /\ RowsOK' /\ MoneyOK' /\ JobsOK'
  BY <1>0, SameBooks, SameRequests, SameReceived, SameRows, SameMoney, JobIdle
  DEF Stop, DispatcherFrame, operator
<1>2. RestOK'
  BY <1>0 DEF Stop, DispatcherFrame, RestOK, operator
<1>3. QED
  BY <1>1, <1>2 DEF Good, IInv, Booked

LEMMA ExpireGood == ASSUME IInv, NEW o \in Orders, Expire(o) PROVE Good
<1>0. BooksOK /\ RequestsOK /\ ReceivedOK /\ RowsOK /\ JobsOK /\ MoneyOK /\ RestOK
  BY DEF IInv
<1>1. Booked /\ RequestsOK' /\ ReceivedOK' /\ JobsOK' /\ MoneyOK' /\ RestOK'
  BY <1>0, SameBooks, SameRequests, SameReceived, SameJobs, SameMoney, SameRest
  DEF Expire, money, operator
<1>2. row[o] \in RowRec
  BY <1>0 DEF RowsOK
<1>3. [row[o] EXCEPT !.status = "failed"] \in RowRec
  BY <1>2 DEF RowRec
<1>4. RowsOK'
  BY <1>0, <1>3 DEF Expire, RowsOK, operator
<1>5. QED
  BY <1>1, <1>4 DEF Good, IInv, Booked

LEMMA DispatcherGood == ASSUME IInv, Dispatcher PROVE Good
<1>1. ASSUME NEW w \in Workers, Handler(w) PROVE Good
  BY <1>1, PlainGood, ClaimGood, SubmitGood, ReleaseGood, DeliverGood, ConfirmGood, WriteGood
  DEF Handler
<1>2. QED
  BY <1>1, StopGood, FetchGood, ExpireGood DEF Dispatcher

LEMMA RailGood == ASSUME IInv, NEW r \in Debits, RailResolves(r) PROVE Good
<1>0. BooksOK /\ RequestsOK /\ ReceivedOK /\ RowsOK /\ JobsOK /\ MoneyOK /\ RestOK
  BY DEF IInv
<1>1. Booked /\ RequestsOK' /\ ReceivedOK' /\ RowsOK' /\ JobsOK' /\ RestOK'
  BY <1>0, SameBooks, SameRequests, SameReceived, SameRows, SameJobs, SameRest
  DEF RailResolves, operator
<1>2. MoneyOK'
  BY <1>0 DEF RailResolves, MoneyOK, RailStates, operator
<1>3. QED
  BY <1>1, <1>2 DEF Good, IInv, Booked

LEMMA StutterGood == ASSUME IInv, UNCHANGED vars PROVE Good
<1>0. BooksOK /\ RequestsOK /\ ReceivedOK /\ RowsOK /\ JobsOK /\ MoneyOK /\ RestOK
  BY DEF IInv
<1>1. Booked /\ RequestsOK' /\ ReceivedOK' /\ RowsOK' /\ JobsOK' /\ MoneyOK' /\ RestOK'
  BY <1>0, SameBooks, SameRequests, SameReceived, SameRows, SameJobs, SameMoney, SameRest
  DEF vars, money, operator
<1>2. QED
  BY <1>1 DEF Good, IInv, Booked

LEMMA StepGood == IInv /\ [Next]_vars => Good
  BY AccountsGood, DispatcherGood, RailGood, StutterGood DEF Next

-----------------------------------------------------------------------------
(* The theorems *)

LEMMA Invariance == Spec => []IInv
<1>1. Init => IInv
  BY InitIInv
<1>2. IInv /\ [Next]_vars => IInv'
  BY StepGood DEF Good
<1>3. QED
  BY <1>1, <1>2, PTL DEF Spec

\* No guarded debit takes a balance below zero, and every handler, row, request and entry
\* keeps its type, for any number of dispatchers, LPs and orders.
THEOREM TypeCorrect == Spec => []TypeOK
<1>1. IInv => TypeOK
  BY DEF IInv, BooksOK, RequestsOK, ReceivedOK, RowsOK, JobsOK, MoneyOK, RestOK, TypeOK
<1>2. QED
  BY <1>1, Invariance, PTL

\* lp_account.go's discipline: every step of the deposits, withdrawals, fills and releases that
\* changes a balance is the ledger step that books, confirms or releases its entry.
THEOREM LedgerHolds == Spec => ImplementsLedger
<1>1. Init => L!Init
  BY InitIInv
<1>2. IInv /\ [Next]_vars => [L!Next]_<<balance, entry>>
  BY StepGood DEF Good, books
<1>3. QED
  BY <1>1, <1>2, Invariance, PTL DEF Spec, ImplementsLedger, L!Spec

-----------------------------------------------------------------------------
(***************************************************************************)
(* One payout per order.  The entry of a payout stays in force while the   *)
(* bank may still make it; an entry in force names the row's reference, so *)
(* that there is one; and a handler about to submit is the only one about  *)
(* to write under its reference.  The lease plays no part.                 *)
(***************************************************************************)
Forceful(f) == entry[f].status \in {"pending", "confirmed"}

Kept(f) ==
    /\ rail[f] \in {"processing", "success"} /\ f \notin disowned => Forceful(f)
    /\ rail[f] # "none" => entry[f] # NoEntry

Named(o, n) ==
    Forceful(Fill(o, n)) => row[o].attempt = n /\ row[o].status \in {"dispatching", "settled"}

Submitting(w) ==
    job[w].step = "submit" => rail[Claimed(w)] = "none" /\ Forceful(Claimed(w))

Releasing(w) ==
    job[w].step = "release" =>
        /\ entry[Claimed(w)] # NoEntry
        /\ rail[Claimed(w)] \in {"none", "failed"} \/ Claimed(w) \in disowned

Apart(v, w) ==
    v # w /\ job[w].step = "submit" /\ job[v].step \in {"submit", "release"}
        => Claimed(v) # Claimed(w)

PayInv ==
    /\ \A f \in Fills : Kept(f)
    /\ \A o \in Orders, n \in Attempts : Named(o, n)
    /\ \A w \in Workers : Submitting(w) /\ Releasing(w)
    /\ \A v, w \in Workers : Apart(v, w)

LEMMA FillIs ==
    ASSUME NEW o, NEW n, NEW p, NEW m
    PROVE  Fill(o, n) = Fill(p, m) <=> o = p /\ n = m
  BY DEF Fill

LEMMA FillsAre ==
    /\ \A o \in Orders, n \in Attempts : Fill(o, n) \in Fills
    /\ \A f \in Fills : \E o \in Orders, n \in Attempts : f = Fill(o, n)
    /\ Fills \subseteq Debits /\ Fills \subseteq Refs
    /\ \A i \in Withdrawals : Cashout(i) \notin Fills
    /\ \A d \in Deposits : Deposit(d) \notin Fills
<1>1. \A o \in Orders, n \in Attempts : Fill(o, n) \in Fills
  BY DEF Fill, Fills
<1>2. \A f \in Fills : \E o \in Orders, n \in Attempts : f = Fill(o, n)
  BY DEF Fill, Fills
<1>3. Fills \subseteq Debits /\ Fills \subseteq Refs
  BY DEF Debits, Refs
<1>4. \A i \in Withdrawals : Cashout(i) \notin Fills
  BY DEF Cashout, Fills
<1>5. \A d \in Deposits : Deposit(d) \notin Fills
  BY DEF Deposit, Fills
<1>6. QED
  BY <1>1, <1>2, <1>3, <1>4, <1>5

\* A handler that submits or releases has a fill.
LEMMA ClaimedIsFill ==
    ASSUME IInv, NEW w \in Workers, job[w].step \in {"submit", "release", "poll"}
    PROVE  Claimed(w) \in Fills /\ job[w].order \in Orders /\ job[w].attempt \in Attempts
<1>1. job[w].order \in Orders /\ job[w].attempt \in Attempts
  BY DEF IInv, JobsOK, JobOK
<1>2. QED
  BY <1>1, FillsAre DEF Claimed

LEMMA InitPay == Init => PayInv
<1> SUFFICES ASSUME Init PROVE PayInv
  OBVIOUS
<1>1. \A f \in Fills : rail[f] = "none" /\ entry[f] = NoEntry
  BY FillsAre DEF Init
<1>2. \A w \in Workers : job[w].step = "idle"
  BY DEF Init, NoJob
<1>3. QED
  BY <1>1, <1>2, FillsAre DEF PayInv, Kept, Named, Submitting, Releasing, Apart, Forceful, NoEntry

(* Steps that are neither a claim, a submit, a release nor one of the bank. *)

Framed ==
    /\ \A f \in Fills :
          /\ rail'[f] = rail[f]
          /\ f \in disowned => f \in disowned'
          /\ \/ entry'[f] = entry[f]
             \/ Forceful(f) /\ entry'[f].status = "confirmed"
    /\ \A w \in Workers : job'[w] = job[w] \/ job'[w].step \notin {"submit", "release"}
    /\ \A o \in Orders :
          /\ row'[o].attempt = row[o].attempt
          /\ \/ row'[o].status = row[o].status
             \/ row[o].status = "pending"
             \/ row'[o].status = "settled"

LEMMA PayFrame ==
    ASSUME IInv, PayInv, Framed
    PROVE  PayInv'
<1>1. ASSUME NEW f \in Fills
      PROVE  (Forceful(f)' <=> Forceful(f)) /\ (entry[f] # NoEntry => entry'[f] # NoEntry)
  BY <1>1 DEF Framed, Forceful, NoEntry
<1>2. \A f \in Fills : Kept(f)'
  BY <1>1 DEF Framed, PayInv, Kept
<1>3. ASSUME NEW o \in Orders, NEW n \in Attempts PROVE Named(o, n)'
  <2>1. Fill(o, n) \in Fills /\ Named(o, n)
    BY FillsAre DEF PayInv
  <2>2. Fill(o, n)' = Fill(o, n)
    BY DEF Fill
  <2>3. Forceful(Fill(o, n))' <=> Forceful(Fill(o, n))
    BY <1>1, <2>1, <2>2
  <2>4. QED
    BY <2>1, <2>3 DEF Framed, Named
<1>4. ASSUME NEW w \in Workers, job'[w].step \in {"submit", "release"}
      PROVE  job'[w] = job[w] /\ Claimed(w)' = Claimed(w) /\ Claimed(w) \in Fills
  BY <1>4, ClaimedIsFill DEF Framed, Claimed, Fill
<1>5. ASSUME NEW w \in Workers PROVE Submitting(w)' /\ Releasing(w)'
  <2>1. Submitting(w) /\ Releasing(w)
    BY DEF PayInv
  <2>2. Submitting(w)'
    BY <1>1, <1>4, <2>1 DEF Framed, Submitting, Forceful
  <2>3. Releasing(w)'
    BY <1>1, <1>4, <2>1 DEF Framed, Releasing
  <2>4. QED
    BY <2>2, <2>3
<1>6. ASSUME NEW v \in Workers, NEW w \in Workers PROVE Apart(v, w)'
  <2>1. Apart(v, w)
    BY DEF PayInv
  <2>2. QED
    BY <1>4, <2>1 DEF Apart
<1>7. QED
  BY <1>2, <1>3, <1>5, <1>6 DEF PayInv

\* Requests and webhooks leave the fills, and the transfers that pay them, alone.
LEMMA AccountsFramed ==
    ASSUME IInv, Accounts
    PROVE  /\ UNCHANGED <<job, row, delivered, overlapped>>
           /\ \A f \in Fills :
                 /\ entry'[f] = entry[f] /\ rail'[f] = rail[f]
                 /\ f \in disowned => f \in disowned'
           /\ disowned \subseteq disowned'
<1>0. entry \in [Refs -> EntryRec \cup {NoEntry}] /\ rail \in [Debits -> RailStates]
  BY DEF IInv, BooksOK, MoneyOK
<1>1. disowned \subseteq disowned'
  BY DEF Accounts, SetStatus, UpdateAccount, SwitchRail, DepositArrives, HandleDeposit, Withdraw, Reserve,
         SubmitWithdrawal, SubmitError, ReleaseWithdrawal, RequestStops, HandleWithdrawalFinality,
         money, operator
<1>2. UNCHANGED <<job, row, delivered, overlapped>>
  BY DEF Accounts, SetStatus, UpdateAccount, SwitchRail, DepositArrives, HandleDeposit, Withdraw, Reserve,
         SubmitWithdrawal, ReleaseWithdrawal, RequestStops, HandleWithdrawalFinality, AccountsFrame,
         money, operator
<1>3. ASSUME NEW f \in Fills PROVE entry'[f] = entry[f]
  <2>1. f \in Refs
    BY FillsAre
  <2>2. ASSUME NEW r \in Refs, r # f,
               \/ \E l, a, s : Insert(r, l, a, s)
               \/ ReleaseTx(r) \/ ConfirmTx(r) \/ UNCHANGED books
        PROVE  entry'[f] = entry[f]
    BY <1>0, <2>1, <2>2 DEF Insert, ReleaseTx, ConfirmTx, books
  <2>3. ASSUME NEW i \in Withdrawals,
               \/ Reserve(i) \/ SubmitWithdrawal(i) \/ ReleaseWithdrawal(i) \/ RequestStops(i)
               \/ HandleWithdrawalFinality(i)
        PROVE  entry'[f] = entry[f]
    <3>1. Cashout(i) \in Refs /\ Cashout(i) # f
      BY CashoutRef, FillsAre DEF Refs
    <3>2. \/ \E l, a, s : Insert(Cashout(i), l, a, s)
          \/ ReleaseTx(Cashout(i)) \/ ConfirmTx(Cashout(i)) \/ UNCHANGED books
      BY <2>3 DEF Reserve, ReserveTx, SubmitWithdrawal, ReleaseWithdrawal, RequestStops,
                  HandleWithdrawalFinality
    <3>3. QED
      BY <2>2, <3>1, <3>2
  <2>4. ASSUME NEW d \in Deposits, HandleDeposit(d) PROVE entry'[f] = entry[f]
    <3>1. Deposit(d) \in Refs /\ Deposit(d) # f
      BY DepositRef, FillsAre DEF Refs
    <3>2. \E l, a, s : Insert(Deposit(d), l, a, s)
      BY <2>4 DEF HandleDeposit, operator
    <3>3. QED
      BY <2>2, <3>1, <3>2
  <2>5. QED
    BY <2>3, <2>4 DEF Accounts, SetStatus, UpdateAccount, SwitchRail, DepositArrives, Withdraw, books, operator
<1>4. ASSUME NEW f \in Fills PROVE rail'[f] = rail[f] /\ (f \in disowned => f \in disowned')
  <2>1. ASSUME NEW i \in Withdrawals, SubmitWithdrawal(i)
        PROVE  rail'[f] = rail[f] /\ (f \in disowned => f \in disowned')
    <3>1. Cashout(i) # f /\ f \in Debits
      BY FillsAre
    <3>2. QED
      BY <1>0, <2>1, <3>1 DEF SubmitWithdrawal, SubmitError, Accept
  <2>2. CASE UNCHANGED <<rail, disowned>>
    BY <2>2
  <2>3. QED
    BY <2>1, <2>2 DEF Accounts, SetStatus, UpdateAccount, SwitchRail, DepositArrives, HandleDeposit, Withdraw,
                      Reserve, ReleaseWithdrawal, RequestStops, HandleWithdrawalFinality, money, operator
<1>5. QED
  BY <1>1, <1>2, <1>3, <1>4

LEMMA AccountsPay == ASSUME IInv, PayInv, Accounts PROVE PayInv'
  BY AccountsFramed, PayFrame DEF Framed

(* Steps of the dispatcher that neither claim, submit nor release. *)

LEMMA QuietPay ==
    ASSUME IInv, PayInv, NEW w \in Workers,
           \/ NoClaim(w) \/ LpNetworkFallback(w) \/ FinalizeLpFill(w) \/ DeliverUsdc(w)
           \/ Park(w) \/ PersistDigest(w) \/ ConfirmFill(w) \/ SettleLpFill(w)
           \/ SettlePaymentOrder(w) \/ Stop(w)
           \/ \E l \in Lps : Match(w, l)
           \/ \E o \in Orders : FetchPending(w, o) \/ FetchPayout(w, o)
    PROVE  PayInv'
<1>0. /\ job \in [Workers -> JobRec] /\ row \in [Orders -> RowRec]
      /\ entry \in [Refs -> EntryRec \cup {NoEntry}]
  BY DEF IInv, JobsOK, RowsOK, BooksOK
<1>1. UNCHANGED <<rail, disowned>>
  BY DEF NoClaim, LpNetworkFallback, FinalizeLpFill, DeliverUsdc, Park, PersistDigest, ConfirmFill,
         SettleLpFill, SettlePaymentOrder, Stop, Match, FetchPending, FetchPayout, operator
<1>2. ASSUME NEW f \in Fills
      PROVE  entry'[f] = entry[f] \/ (Forceful(f) /\ entry'[f].status = "confirmed")
  <2>1. f \in Refs
    BY FillsAre
  <2>2. ASSUME NEW r, ConfirmTx(r)
        PROVE  entry'[f] = entry[f] \/ (Forceful(f) /\ entry'[f].status = "confirmed")
    <3>1. CASE r \in Refs /\ entry[r].status = "pending"
      <4>1. entry' = [entry EXCEPT ![r].status = "confirmed"] /\ entry[r] \in EntryRec
        BY <2>2, <3>1, LpAssumption, PendingIsDebit DEF ConfirmTx, IInv
      <4>2. CASE f = r
        BY <1>0, <2>1, <3>1, <4>1, <4>2 DEF Forceful, EntryRec
      <4>3. CASE f # r
        BY <1>0, <2>1, <4>1, <4>3
      <4>4. QED
        BY <4>2, <4>3
    <3>2. CASE ~(r \in Refs /\ entry[r].status = "pending")
      BY <2>2, <3>2 DEF ConfirmTx
    <3>3. QED
      BY <3>1, <3>2
  <2>3. CASE ConfirmFill(w)
    BY <2>2, <2>3 DEF ConfirmFill, books
  <2>4. CASE UNCHANGED entry
    BY <2>4
  <2>5. QED
    BY <2>3, <2>4 DEF NoClaim, LpNetworkFallback, FinalizeLpFill, DeliverUsdc, Park, PersistDigest,
                      SettleLpFill, SettlePaymentOrder, Stop, Match, FetchPending, FetchPayout, books, operator
<1>3. ASSUME NEW v \in Workers
      PROVE  job'[v] = job[v] \/ job'[v].step \notin {"submit", "release"}
  <2>1. \/ Idle(w)
        \/ \E s \in Steps \ {"submit", "release"} :
              \/ Go(w, s)
              \/ \E o \in Orders : Begin(w, o, s)
              \/ \E a : job' = [job EXCEPT ![w].step = s, ![w].attempt = a, ![w].edges = TRUE]
              \/ \E l : job' = [job EXCEPT ![w].step = s, ![w].lp = l]
    BY DEF NoClaim, LpNetworkFallback, FinalizeLpFill, DeliverUsdc, Park, PersistDigest, ConfirmFill,
           SettleLpFill, SettlePaymentOrder, Stop, Match, FetchPending, FetchPayout, Steps, operator
  <2>2. v # w => job'[v] = job[v]
    BY <1>0, <2>1 DEF Idle, Go, Begin, operator
  <2>3. CASE Idle(w)
    BY <1>0, <2>2, <2>3 DEF Idle, NoJob
  <2>4. ASSUME NEW s \in Steps \ {"submit", "release"},
               \/ Go(w, s)
               \/ \E o \in Orders : Begin(w, o, s)
               \/ \E a : job' = [job EXCEPT ![w].step = s, ![w].attempt = a, ![w].edges = TRUE]
               \/ \E l : job' = [job EXCEPT ![w].step = s, ![w].lp = l]
        PROVE  job'[v] = job[v] \/ job'[v].step \notin {"submit", "release"}
    <3>1. CASE Go(w, s)
      BY <1>0, <2>2, <3>1 DEF Go, JobRec
    <3>2. ASSUME NEW o \in Orders, Begin(w, o, s) PROVE v = w => job'[v].step = s
      BY <1>0, <3>2 DEF Begin, NoJob, operator
    <3>3. ASSUME NEW a, job' = [job EXCEPT ![w].step = s, ![w].attempt = a, ![w].edges = TRUE]
          PROVE  v = w => job'[v].step = s
      BY <1>0, <3>3 DEF JobRec
    <3>4. ASSUME NEW l, job' = [job EXCEPT ![w].step = s, ![w].lp = l]
          PROVE  v = w => job'[v].step = s
      BY <1>0, <3>4 DEF JobRec
    <3>5. QED
      BY <2>2, <2>4, <3>1, <3>2, <3>3, <3>4
  <2>5. QED
    BY <2>1, <2>3, <2>4
<1>4. ASSUME NEW o \in Orders
      PROVE  /\ row'[o].attempt = row[o].attempt
             /\ \/ row'[o].status = row[o].status
                \/ row[o].status = "pending"
                \/ row'[o].status = "settled"
  <2>1. \/ UNCHANGED row
        \/ LpNetworkFallback(w) \/ Park(w) \/ PersistDigest(w) \/ SettleLpFill(w)
    BY DEF NoClaim, FinalizeLpFill, DeliverUsdc, ConfirmFill, SettlePaymentOrder, Stop, Match,
           FetchPending, FetchPayout, operator
  <2>2. QED
    BY <1>0, <2>1 DEF LpNetworkFallback, Park, PersistDigest, SettleLpFill, WhileDispatching, RowRec
<1>5. QED
  BY <1>1, <1>2, <1>3, <1>4, PayFrame DEF Framed

LEMMA ExpirePay == ASSUME IInv, PayInv, NEW o \in Orders, Expire(o) PROVE PayInv'
<1>1. row \in [Orders -> RowRec]
  BY DEF IInv, RowsOK
<1>2. Framed
  BY <1>1 DEF Expire, Framed, RowRec, books, money, operator
<1>3. QED
  BY <1>2, PayFrame

(* The four steps that matter. *)

\* A claim: the entry is new, so that nobody holds its reference; the row was pending, so that
\* no other entry of the order is in force.
LEMMA ClaimPay ==
    ASSUME IInv, PayInv, NEW w \in Workers, NEW n \in Attempts, Claim(w, n) PROVE PayInv'
<1> DEFINE o == job[w].order
           r == Fill(o, n)
<1>0. /\ job \in [Workers -> JobRec] /\ row \in [Orders -> RowRec] /\ o \in Orders
      /\ entry \in [Refs -> EntryRec \cup {NoEntry}]
  BY DEF IInv, JobsOK, JobOK, RowsOK, BooksOK, Claim
<1>1. r \in Fills /\ r \in Refs
  BY <1>0, FillsAre
<1>2. entry[r] = NoEntry /\ ~Forceful(r) /\ rail[r] = "none"
  BY <1>1 DEF Claim, ReserveTx, Insert, PayInv, Kept, Forceful, NoEntry
<1>3. /\ entry'[r].status = "pending" /\ entry'[r] # NoEntry
      /\ \A f \in Fills : f # r => entry'[f] = entry[f]
  <2>1. entry' = [entry EXCEPT ![r] = [lp |-> job[w].lp, amount |-> Target, status |-> "pending"]]
    BY DEF Claim, ReserveTx, Insert
  <2>2. \A f \in Fills : f \in Refs
    BY FillsAre
  <2>3. entry'[r] = [lp |-> job[w].lp, amount |-> Target, status |-> "pending"]
    BY <1>0, <1>1, <2>1
  <2>4. entry'[r].status = "pending" /\ NoEntry.status = "none"
    BY <2>3 DEF NoEntry
  <2>5. QED
    BY <1>0, <2>1, <2>2, <2>4
<1>4. UNCHANGED <<rail, disowned>>
  BY DEF Claim
<1>5. /\ row[o].status = "pending"
      /\ row'[o].status = "dispatching" /\ row'[o].attempt = n
      /\ \A p \in Orders : p # o => row'[p] = row[p]
  BY <1>0 DEF Claim, RowRec
<1>6. /\ job'[w].step = "submit" /\ job'[w].order = o /\ job'[w].attempt = n
      /\ \A v \in Workers : v # w => job'[v] = job[v]
  BY <1>0 DEF Claim, JobRec
<1>7. \A v \in Workers :
         /\ v = w => Claimed(v)' = r
         /\ v # w => Claimed(v)' = Claimed(v)
  BY <1>6 DEF Claimed, Fill
<1>8. ASSUME NEW v \in Workers, v # w, job[v].step \in {"submit", "release"}
      PROVE  Claimed(v) # r /\ Claimed(v) \in Fills
  <2>1. entry[Claimed(v)] # NoEntry
    BY <1>8 DEF PayInv, Submitting, Releasing, Forceful, NoEntry
  <2>2. QED
    BY <1>2, <1>8, <2>1, ClaimedIsFill
<1> HIDE DEF r, o
<1>9. ASSUME NEW f \in Fills PROVE Kept(f)'
  <2>1. CASE f = r
    BY <1>2, <1>3, <1>4, <2>1 DEF Kept, Forceful
  <2>2. CASE f # r
    BY <1>3, <1>4, <1>9, <2>2 DEF PayInv, Kept, Forceful
  <2>3. QED
    BY <2>1, <2>2
<1>10. ASSUME NEW p \in Orders, NEW m \in Attempts PROVE Named(p, m)'
  <2>1. Fill(p, m)' = Fill(p, m) /\ Fill(p, m) \in Fills /\ Named(p, m)
    BY FillsAre DEF PayInv, Fill
  <2>2. CASE p = o /\ m = n
    BY <1>5, <2>2 DEF Named
  <2>3. CASE p = o /\ m # n
    <3>1. Fill(p, m) # r
      BY <2>3, FillIs DEF r
    <3>2. entry'[Fill(p, m)] = entry[Fill(p, m)]
      BY <1>3, <2>1, <3>1
    <3>3. ~Forceful(Fill(p, m))
      BY <1>5, <2>1, <2>3 DEF Named
    <3>4. QED
      BY <2>1, <3>2, <3>3 DEF Named, Forceful
  <2>4. CASE p # o
    <3>1. Fill(p, m) # r
      BY <2>4, FillIs DEF r
    <3>2. entry'[Fill(p, m)] = entry[Fill(p, m)] /\ row'[p] = row[p]
      BY <1>3, <1>5, <2>1, <2>4, <3>1
    <3>3. QED
      BY <2>1, <3>2 DEF Named, Forceful
  <2>5. QED
    BY <2>2, <2>3, <2>4
<1>11. ASSUME NEW v \in Workers PROVE Submitting(v)' /\ Releasing(v)'
  <2>1. CASE v = w
    BY <1>2, <1>3, <1>4, <1>6, <1>7, <2>1 DEF Submitting, Releasing, Forceful
  <2>2. CASE v # w
    <3>1. Submitting(v) /\ Releasing(v)
      BY DEF PayInv
    <3>2. QED
      BY <1>3, <1>4, <1>6, <1>7, <1>8, <2>2, <3>1 DEF Submitting, Releasing, Forceful
  <2>3. QED
    BY <2>1, <2>2
<1>12. ASSUME NEW u \in Workers, NEW v \in Workers PROVE Apart(u, v)'
  <2>1. Apart(u, v)
    BY DEF PayInv
  <2>2. QED
    BY <1>6, <1>7, <1>8, <2>1 DEF Apart
<1>13. QED
  BY <1>9, <1>10, <1>11, <1>12 DEF PayInv

\* A submit: the entry is in force, and no other handler is about to submit or release under
\* the same reference.
LEMMA SubmitPay == ASSUME IInv, PayInv, NEW w \in Workers, SubmitPayout(w) PROVE PayInv'
<1> DEFINE r == Claimed(w)
<1>0. job \in [Workers -> JobRec] /\ rail \in [Debits -> RailStates] /\ r \in Fills
  BY ClaimedIsFill DEF IInv, JobsOK, MoneyOK, SubmitPayout
<1>1. UNCHANGED <<entry, row>>
  BY DEF SubmitPayout, books
<1>2. job[w].step = "submit" /\ rail[r] = "none" /\ Forceful(r)
  BY DEF SubmitPayout, PayInv, Submitting
<1>3. \A f \in Fills : f # r => rail'[f] = rail[f]
  BY <1>0, FillsAre DEF SubmitPayout, SubmitError, Accept
<1>4. disowned \subseteq disowned'
  BY DEF SubmitPayout, SubmitError
<1>5. /\ job'[w].step \in {"idle", "load", "release"}
      /\ job'[w].step = "release" =>
            /\ job'[w].order = job[w].order /\ job'[w].attempt = job[w].attempt
            /\ rail'[r] = "none" \/ r \in disowned'
      /\ \A v \in Workers : v # w => job'[v] = job[v]
  <2>1. \/ Idle(w) \/ Go(w, "load")
        \/ Go(w, "release") /\ (rail' = rail \/ r \in disowned')
    BY DEF SubmitPayout, SubmitError
  <2>2. job[w] \in JobRec
    BY <1>0
  <2>3. CASE Idle(w)
    BY <1>0, <2>3 DEF Idle, NoJob
  <2>4. CASE Go(w, "load")
    BY <1>0, <2>2, <2>4 DEF Go, JobRec
  <2>5. CASE Go(w, "release") /\ (rail' = rail \/ r \in disowned')
    BY <1>0, <1>2, <2>2, <2>5 DEF Go, JobRec
  <2>6. QED
    BY <2>1, <2>3, <2>4, <2>5
<1>6. \A v \in Workers : v # w \/ job'[v].step = "release" => Claimed(v)' = Claimed(v)
  BY <1>5 DEF Claimed, Fill
<1>7. ASSUME NEW v \in Workers, v # w, job[v].step \in {"submit", "release"}
      PROVE  Claimed(v) # r /\ Claimed(v) \in Fills
  BY <1>2, <1>7, ClaimedIsFill DEF PayInv, Apart
<1> HIDE DEF r
<1>8. ASSUME NEW f \in Fills PROVE Kept(f)'
  <2>1. CASE f = r
    BY <1>1, <1>2, <2>1 DEF Kept, Forceful, NoEntry
  <2>2. CASE f # r
    BY <1>1, <1>3, <1>4, <1>8, <2>2 DEF PayInv, Kept, Forceful
  <2>3. QED
    BY <2>1, <2>2
<1>9. ASSUME NEW p \in Orders, NEW m \in Attempts PROVE Named(p, m)'
  BY <1>1 DEF PayInv, Named, Forceful, Fill
<1>10. ASSUME NEW v \in Workers PROVE Submitting(v)' /\ Releasing(v)'
  <2>1. CASE v = w
    BY <1>1, <1>2, <1>5, <1>6, <2>1 DEF Submitting, Releasing, Forceful, NoEntry, r
  <2>2. CASE v # w
    <3>1. Submitting(v) /\ Releasing(v)
      BY DEF PayInv
    <3>2. QED
      BY <1>1, <1>3, <1>4, <1>5, <1>6, <1>7, <2>2, <3>1 DEF Submitting, Releasing, Forceful
  <2>3. QED
    BY <2>1, <2>2
<1>11. ASSUME NEW u \in Workers, NEW v \in Workers PROVE Apart(u, v)'
  <2>1. Apart(u, v)
    BY DEF PayInv
  <2>2. QED
    BY <1>2, <1>5, <1>6, <1>7, <2>1 DEF Apart, r
<1>12. QED
  BY <1>8, <1>9, <1>10, <1>11 DEF PayInv

\* A release: the entry it ends is the row's, and the bank has not taken, or has refused, its
\* transfer, unless the transfer is one the code disowned.
LEMMA ReleasePay == ASSUME IInv, PayInv, NEW w \in Workers, ReleaseLpFill(w) PROVE PayInv'
<1> DEFINE o == job[w].order
           n == job[w].attempt
           r == Claimed(w)
<1>0. /\ job \in [Workers -> JobRec] /\ row \in [Orders -> RowRec]
      /\ entry \in [Refs -> EntryRec \cup {NoEntry}]
      /\ o \in Orders /\ n \in Attempts /\ r \in Fills /\ r \in Refs /\ r = Fill(o, n)
  BY ClaimedIsFill, FillsAre DEF IInv, JobsOK, RowsOK, BooksOK, ReleaseLpFill, Claimed
<1>1. UNCHANGED <<rail, disowned>>
  BY DEF ReleaseLpFill
<1>2. job'[w].step = "idle" /\ \A v \in Workers : v # w => job'[v] = job[v]
  BY <1>0 DEF ReleaseLpFill, Idle, NoJob
<1>3. CASE entry[r].status # "pending"
  <2>1. UNCHANGED <<entry, row>>
    BY <1>3 DEF ReleaseLpFill, ReleaseTx, books
  <2>2. QED
    BY <1>1, <1>2, <2>1, PayFrame DEF Framed
<1>4. CASE entry[r].status = "pending"
  <2>1. /\ entry'[r].status = "failed"
        /\ \A f \in Fills : f # r => entry'[f] = entry[f]
    <3>1. entry' = [entry EXCEPT ![r].status = "failed"]
      BY <1>4 DEF ReleaseLpFill, ReleaseTx
    <3>2. entry[r] \in EntryRec
      BY <1>0, <1>4, LpAssumption, PendingIsDebit DEF IInv
    <3>3. QED
      BY <1>0, <3>1, <3>2, FillsAre DEF EntryRec
  <2>2. row[o].attempt = n
    BY <1>0, <1>4 DEF PayInv, Named, Forceful
  <2>3. \A p \in Orders : p # o => row'[p] = row[p]
    BY <1>0 DEF ReleaseLpFill
  <2>4. job[w].step = "release"
        /\ (rail[r] \in {"none", "failed"} \/ r \in disowned)
    BY DEF ReleaseLpFill, PayInv, Releasing
  <2>5. \A v \in Workers : v # w => Claimed(v)' = Claimed(v)
    BY <1>2 DEF Claimed, Fill
  <2>6. ASSUME NEW v \in Workers, v # w, job[v].step = "submit"
        PROVE  Claimed(v) # r /\ Claimed(v) \in Fills
    BY <2>4, <2>6, ClaimedIsFill DEF PayInv, Apart
  <2> HIDE DEF o, n, r
  <2>7. ASSUME NEW f \in Fills PROVE Kept(f)'
    <3>1. CASE f = r
      BY <1>1, <2>1, <2>4, <3>1 DEF Kept, NoEntry
    <3>2. CASE f # r
      BY <1>1, <2>1, <2>7, <3>2 DEF PayInv, Kept, Forceful
    <3>3. QED
      BY <3>1, <3>2
  <2>8. ASSUME NEW p \in Orders, NEW m \in Attempts PROVE Named(p, m)'
    <3>1. Fill(p, m)' = Fill(p, m) /\ Fill(p, m) \in Fills /\ Named(p, m)
      BY FillsAre DEF PayInv, Fill
    <3>2. CASE p = o /\ m = n
      BY <1>0, <2>1, <3>1, <3>2 DEF Named, Forceful
    <3>3. CASE p = o /\ m # n
      <4>1. Fill(p, m) # r
        BY <1>0, <3>3, FillIs
      <4>2. QED
        BY <2>1, <2>2, <3>1, <3>3, <4>1 DEF Named, Forceful
    <3>4. CASE p # o
      <4>1. Fill(p, m) # r
        BY <1>0, <3>4, FillIs
      <4>2. QED
        BY <2>1, <2>3, <3>1, <3>4, <4>1 DEF Named, Forceful
    <3>5. QED
      BY <3>2, <3>3, <3>4
  <2>9. ASSUME NEW v \in Workers PROVE Submitting(v)' /\ Releasing(v)'
    <3>1. CASE v = w
      BY <1>2, <3>1 DEF Submitting, Releasing
    <3>2. CASE v # w
      <4>1. Submitting(v) /\ Releasing(v) /\ Claimed(v)' = Claimed(v)
        BY <2>5, <3>2 DEF PayInv
      <4>2. Submitting(v)'
        BY <1>1, <1>2, <2>1, <2>6, <3>2, <4>1 DEF Submitting, Forceful
      <4>3. job[v].step = "release" => Claimed(v) \in Fills
        BY ClaimedIsFill
      <4>4. Releasing(v)'
        BY <1>1, <1>2, <2>1, <3>2, <4>1, <4>3 DEF Releasing, NoEntry
      <4>5. QED
        BY <4>2, <4>4
    <3>3. QED
      BY <3>1, <3>2
  <2>10. ASSUME NEW u \in Workers, NEW v \in Workers PROVE Apart(u, v)'
    <3>1. Apart(u, v)
      BY DEF PayInv
    <3>2. QED
      BY <1>2, <2>5, <3>1 DEF Apart
  <2>11. QED
    BY <2>7, <2>8, <2>9, <2>10 DEF PayInv
<1>5. QED
  BY <1>3, <1>4

\* A status call answers that the transfer failed: it was made, so that it is nobody's to submit.
LEMMA PollPay == ASSUME IInv, PayInv, NEW w \in Workers, Poll(w) PROVE PayInv'
<1>0. job \in [Workers -> JobRec] /\ Claimed(w) \in Fills
  BY ClaimedIsFill DEF IInv, JobsOK, Poll
<1>1. UNCHANGED <<entry, row, rail, disowned>>
  BY DEF Poll, books
<1>2. \A v \in Workers : v # w => job'[v] = job[v]
  BY <1>0 DEF Poll, Idle, Go
<1>3. CASE job'[w].step # "release"
  <2>1. job'[w].step # "submit"
    BY <1>0 DEF Poll, Idle, Go, NoJob, JobRec
  <2>2. QED
    BY <1>1, <1>2, <1>3, <2>1, PayFrame DEF Framed
<1>4. CASE job'[w].step = "release"
  <2>1. /\ rail[Claimed(w)] = "failed"
        /\ job'[w].order = job[w].order /\ job'[w].attempt = job[w].attempt
    BY <1>0, <1>4 DEF Poll, Idle, Go, NoJob, JobRec
  <2>2. entry[Claimed(w)] # NoEntry
    BY <1>0, <2>1 DEF PayInv, Kept
  <2>3. \A v \in Workers : Claimed(v)' = Claimed(v)
    BY <1>2, <2>1 DEF Claimed, Fill
  <2>4. (\A f \in Fills : Kept(f)') /\ \A o \in Orders, n \in Attempts : Named(o, n)'
    BY <1>1 DEF PayInv, Kept, Named, Forceful, Fill
  <2>5. ASSUME NEW v \in Workers PROVE Submitting(v)' /\ Releasing(v)'
    BY <1>1, <1>2, <1>4, <2>1, <2>2, <2>3 DEF PayInv, Submitting, Releasing, Forceful
  <2>6. ASSUME NEW u \in Workers, NEW v \in Workers PROVE Apart(u, v)'
    <3>1. Apart(u, v) /\ Submitting(v)
      BY DEF PayInv
    <3>2. QED
      BY <1>2, <1>4, <2>1, <2>3, <3>1 DEF Apart, Submitting
  <2>7. QED
    BY <2>4, <2>5, <2>6 DEF PayInv
<1>5. QED
  BY <1>3, <1>4

\* The bank ends a transfer it had taken.
LEMMA RailPay == ASSUME IInv, PayInv, NEW r \in Debits, RailResolves(r) PROVE PayInv'
<1>0. rail \in [Debits -> RailStates]
  BY DEF IInv, MoneyOK
<1>1. UNCHANGED <<entry, row, job, disowned>> /\ rail[r] = "processing"
  BY DEF RailResolves, books, operator
<1>2. /\ rail'[r] \in {"success", "failed"}
      /\ \A f \in Debits : f # r => rail'[f] = rail[f]
  BY <1>0 DEF RailResolves, operator
<1>3. \A v \in Workers : Claimed(v)' = Claimed(v)
  BY <1>1 DEF Claimed, Fill
<1>4. \A f \in Fills : Kept(f)'
  BY <1>1, <1>2, FillsAre DEF PayInv, Kept, Forceful
<1>5. \A o \in Orders, n \in Attempts : Named(o, n)'
  BY <1>1 DEF PayInv, Named, Forceful, Fill
<1>6. ASSUME NEW v \in Workers PROVE Submitting(v)' /\ Releasing(v)'
  <2>1. job[v].step \in {"submit", "release"} => Claimed(v) \in Debits
    BY ClaimedIsFill, FillsAre
  <2>2. QED
    BY <1>1, <1>2, <1>3, <2>1 DEF PayInv, Submitting, Releasing, Forceful
<1>7. \A u, v \in Workers : Apart(u, v)'
  BY <1>1, <1>3 DEF PayInv, Apart
<1>8. QED
  BY <1>4, <1>5, <1>6, <1>7 DEF PayInv

LEMMA StepPay == IInv /\ PayInv /\ [Next]_vars => PayInv'
<1> SUFFICES ASSUME IInv, PayInv, [Next]_vars PROVE PayInv'
  OBVIOUS
<1>1. ASSUME NEW w \in Workers, Handler(w) PROVE PayInv'
  BY <1>1, QuietPay, ClaimPay, SubmitPay, ReleasePay, PollPay DEF Handler
<1>2. CASE Dispatcher
  BY <1>1, <1>2, QuietPay, ExpirePay DEF Dispatcher
<1>3. CASE UNCHANGED vars
  <2>1. Framed
    BY <1>3 DEF Framed, vars, books, money, operator
  <2>2. QED
    BY <2>1, PayFrame
<1>4. QED
  BY <1>2, <1>3, AccountsPay, RailPay DEF Next

\* fillViaLpNetwork: whatever dispatchers, crashes and attempts do to it, an order's merchant
\* is paid by one transfer at most, those the code disowned left aside.
THEOREM PaidOnceHolds == Spec => []PaidOnce
<1>1. IInv /\ PayInv => PaidOnce
  <2> SUFFICES ASSUME PayInv, NEW o \in Orders PROVE Cardinality(Moving(o) \ disowned) <= 1
    BY DEF PaidOnce
  <2> DEFINE M == Moving(o) \ disowned
  <2>1. ASSUME NEW f \in M, NEW g \in M PROVE f = g
    <3>1. f \in Fills /\ g \in Fills /\ f[2] = o /\ g[2] = o /\ Forceful(f) /\ Forceful(g)
      BY DEF Moving, PayInv, Kept
    <3>2. /\ \E n \in Attempts : f = Fill(o, n)
          /\ \E n \in Attempts : g = Fill(o, n)
      BY <3>1 DEF Fills, Fill
    <3>3. f = Fill(o, row[o].attempt) /\ g = Fill(o, row[o].attempt)
      BY <3>1, <3>2 DEF PayInv, Named
    <3>4. QED
      BY <3>3
  <2> HIDE DEF M
  <2>2. CASE M = {}
    BY <2>2, FS_EmptySet DEF M
  <2>3. CASE M # {}
    <3>1. PICK f \in M : TRUE
      BY <2>3
    <3>2. M = {f}
      BY <2>1, <3>1
    <3>3. Cardinality(M) = 1
      BY <3>2, FS_Singleton
    <3>4. QED
      BY <3>3 DEF M
  <2>4. QED
    BY <2>2, <2>3
<1>2. Init => PayInv
  BY InitPay
<1>3. IInv /\ PayInv /\ [Next]_vars => PayInv'
  BY StepPay
<1>4. Spec => []PayInv
  BY <1>2, <1>3, Invariance, PTL DEF Spec
<1>5. QED
  BY <1>1, <1>4, Invariance, PTL

-----------------------------------------------------------------------------
(***************************************************************************)
(* The fill is an exchange.  A handler that delivers holds the reference   *)
(* of a transfer that was made, and one that confirms that of a delivery;  *)
(* the digest in a row is that of its own reference.  Where no transfer    *)
(* was disowned the row cannot turn to another reference meanwhile, as     *)
(* PayInv says; where no handlers overlap nobody is there to turn it.      *)
(***************************************************************************)
Guarded == ~overlapped \/ disowned = {}

Solo ==
    ~overlapped => \A v, w \in Workers : v # w => job[v].step = "idle" \/ job[w].step = "idle"

Backs(f) ==
    /\ delivered[f] > 0 => rail[f] = "success"
    /\ entry[f].status = "confirmed" => delivered[f] > 0

Digested(o) ==
    row[o].digest =>
        /\ row[o].status # "pending" /\ row[o].attempt \in Attempts
        /\ delivered[Fill(o, row[o].attempt)] > 0

Handling(w) ==
    LET now == row[job[w].order]
    IN  /\ job[w].step \in {"load", "deliver"} =>
               job[w].attempt \in Attempts /\ rail[Claimed(w)] = "success"
        /\ job[w].step \in {"persist", "confirm"} =>
               job[w].attempt \in Attempts /\ delivered[Claimed(w)] > 0
        /\ ~overlapped /\ job[w].step \in {"submit", "release", "poll"} =>
               now.attempt = job[w].attempt /\ ~now.digest
        /\ ~overlapped /\ job[w].step \in {"load", "deliver", "persist"} =>
               now.attempt = job[w].attempt

Exchanges ==
    /\ \A f \in Fills : Backs(f)
    /\ \A o \in Orders : Digested(o)
    /\ \A w \in Workers : Handling(w)

XInv == Solo /\ (Guarded => Exchanges)

\* The row of a transfer that was made, and that nobody disowned, has its reference.
LEMMA MadeIsNamed ==
    ASSUME PayInv, disowned = {}, NEW o \in Orders, NEW n \in Attempts,
           rail[Fill(o, n)] = "success"
    PROVE  row[o].attempt = n
<1>1. Fill(o, n) \in Fills
  BY FillsAre
<1>2. Forceful(Fill(o, n))
  BY <1>1 DEF PayInv, Kept
<1>3. QED
  BY <1>2 DEF PayInv, Named

\* What a handler that has polled a transfer knows of the row.
LEMMA HandlingNamed ==
    ASSUME IInv, PayInv, XInv, Guarded, NEW w \in Workers,
           job[w].step \in {"load", "deliver", "persist"}
    PROVE  /\ job[w].order \in Orders /\ job[w].attempt \in Attempts
           /\ row[job[w].order].attempt = job[w].attempt
           /\ Claimed(w) \in Fills /\ rail[Claimed(w)] = "success"
<1>1. job[w].order \in Orders
  BY DEF IInv, JobsOK, JobOK
<1>2. Handling(w) /\ \A f \in Fills : Backs(f)
  BY DEF XInv, Exchanges
<1>3. job[w].attempt \in Attempts
  BY <1>2 DEF Handling
<1>4. Claimed(w) = Fill(job[w].order, job[w].attempt) /\ Claimed(w) \in Fills
  BY <1>1, <1>3, FillsAre DEF Claimed
<1>5. rail[Claimed(w)] = "success"
  BY <1>2, <1>4 DEF Handling, Backs
<1>6. row[job[w].order].attempt = job[w].attempt
  BY <1>1, <1>2, <1>3, <1>4, <1>5, MadeIsNamed DEF Handling, Guarded
<1>7. QED
  BY <1>1, <1>3, <1>4, <1>5, <1>6

LEMMA Moves ==
    ASSUME IInv, NEW w \in Workers, NEW s \in Steps, Go(w, s)
    PROVE  /\ job'[w].step = s /\ job'[w].order = job[w].order
           /\ job'[w].attempt = job[w].attempt
           /\ \A v \in Workers : v # w => job'[v] = job[v]
           /\ \A v \in Workers : Claimed(v)' = Claimed(v)
<1>1. job \in [Workers -> JobRec]
  BY DEF IInv, JobsOK
<1>2. /\ job'[w].step = s /\ job'[w].order = job[w].order /\ job'[w].attempt = job[w].attempt
      /\ \A v \in Workers : v # w => job'[v] = job[v]
  BY <1>1 DEF Go, JobRec
<1>3. QED
  BY <1>2 DEF Claimed, Fill

LEMMA Rests ==
    ASSUME IInv, NEW w \in Workers, Idle(w)
    PROVE  job'[w].step = "idle" /\ \A v \in Workers : v # w => job'[v] = job[v]
  BY DEF Idle, NoJob, IInv, JobsOK

\* Nothing that was made is undone.
Onward ==
    \A f \in Fills : /\ rail[f] = "success" => rail'[f] = "success"
                     /\ delivered[f] > 0 => delivered'[f] > 0

\* A handler goes on or ends: the others are where they were.
LEMMA HandlerX ==
    ASSUME IInv, XInv, Guarded' => Guarded, NEW w \in Workers, job[w].step # "idle",
           \A v \in Workers : v # w => job'[v] = job[v],
           overlapped' = overlapped, Onward,
           Guarded' => /\ Handling(w)'
                       /\ \A f \in Fills : Backs(f)'
                       /\ \A o \in Orders : Digested(o)'
    PROVE  XInv'
<1>1. Solo'
  BY DEF XInv, Solo
<1>2. ASSUME Guarded', NEW v \in Workers, v # w PROVE Handling(v)'
  <2>1. job'[v] = job[v] /\ Claimed(v)' = Claimed(v) /\ Handling(v)
    BY <1>2 DEF Claimed, Fill, XInv, Exchanges
  <2>2. ~overlapped => job[v].step = "idle"
    BY <1>2 DEF XInv, Solo
  <2>3. job[v].step # "idle" /\ job[v].attempt \in Attempts => Claimed(v) \in Fills
    BY FillsAre DEF IInv, JobsOK, JobOK, Claimed
  <2>4. QED
    BY <2>1, <2>2, <2>3 DEF Handling, Onward
<1>3. QED
  BY <1>1, <1>2 DEF XInv, Exchanges

\* Rows and fills that a step leaves alone.
LEMMA SameDigests ==
    ASSUME IInv, NEW o \in Orders, Digested(o), Onward,
           row'[o].digest = row[o].digest, row'[o].attempt = row[o].attempt,
           row[o].status # "pending" => row'[o].status # "pending"
    PROVE  Digested(o)'
<1>1. row'[o].attempt \in Attempts => Fill(o, row[o].attempt) \in Fills
  BY FillsAre
<1>2. Fill(o, row[o].attempt)' = Fill(o, row[o].attempt)
  BY DEF Fill
<1>3. QED
  BY <1>1, <1>2 DEF Digested, Onward

LEMMA SameFills ==
    ASSUME NEW f \in Fills, Backs(f), rail'[f] = rail[f], delivered' = delivered,
           entry'[f] = entry[f] \/ entry'[f].status # "confirmed"
    PROVE  Backs(f)'
  BY DEF Backs

\* Steps outside the handlers.
LEMMA OutsideX ==
    ASSUME IInv, XInv, Guarded' => Guarded, job' = job, overlapped' = overlapped,
           delivered' = delivered, Onward,
           \A f \in Fills : entry'[f] = entry[f]
                            /\ (rail'[f] = rail[f] \/ rail[f] # "success"),
           \A o \in Orders : /\ row'[o].digest = row[o].digest
                             /\ row'[o].attempt = row[o].attempt
                             /\ row[o].status # "pending" => row'[o].status # "pending"
    PROVE  XInv'
<1>1. Solo'
  BY DEF XInv, Solo
<1>2. SUFFICES ASSUME Guarded' PROVE Exchanges'
  BY <1>1 DEF XInv
<1>3. Exchanges
  BY <1>2 DEF XInv
<1>4. ASSUME NEW f \in Fills PROVE Backs(f)'
  BY <1>3 DEF Exchanges, Backs, Onward
<1>5. ASSUME NEW o \in Orders PROVE Digested(o)'
  BY <1>3, SameDigests DEF Exchanges
<1>6. ASSUME NEW v \in Workers PROVE Handling(v)'
  <2>1. Claimed(v)' = Claimed(v) /\ Handling(v)
    BY <1>3 DEF Exchanges, Claimed, Fill
  <2>2. job[v].step # "idle" => job[v].order \in Orders
    BY DEF IInv, JobsOK, JobOK
  <2>3. job[v].step # "idle" /\ job[v].attempt \in Attempts => Claimed(v) \in Fills
    BY <2>2, FillsAre DEF Claimed
  <2>4. QED
    BY <2>1, <2>2, <2>3 DEF Handling, Onward
<1>7. QED
  BY <1>4, <1>5, <1>6 DEF Exchanges

\* Overlap and disowned transfers are never taken back.
LEMMA GuardStep == ASSUME IInv, [Next]_vars PROVE Guarded' => Guarded
<1>1. CASE Accounts
  BY <1>1, AccountsFramed DEF Guarded
<1>2. ASSUME NEW w \in Workers, Handler(w) PROVE overlapped' = overlapped /\ disowned \subseteq disowned'
  <2>1. CASE SubmitPayout(w)
    BY <2>1 DEF SubmitPayout, SubmitError, Within, operator
  <2>2. CASE ~SubmitPayout(w)
    BY <1>2, <2>2 DEF Handler, LpNetworkFallback, NoClaim, ReleaseLpFill, Poll, FinalizeLpFill,
       DeliverUsdc, Park, PersistDigest, ConfirmFill, SettleLpFill, SettlePaymentOrder, Match,
       Claim, Within, operator
  <2>3. QED
    BY <2>1, <2>2
<1>3. CASE Dispatcher
  <2>1. ASSUME NEW o \in Orders, Expire(o) PROVE UNCHANGED <<overlapped, disowned>>
    BY <2>1 DEF Expire, money, operator
  <2>2. ASSUME NEW w \in Workers, Stop(w) PROVE UNCHANGED <<overlapped, disowned>>
    BY <2>2 DEF Stop
  <2>3. ASSUME NEW w \in Workers, NEW o \in Orders, FetchPending(w, o) \/ FetchPayout(w, o)
        PROVE  (overlapped => overlapped') /\ UNCHANGED disowned
    BY <2>3 DEF FetchPending, FetchPayout, Begin, operator
  <2>4. QED
    BY <1>2, <1>3, <2>1, <2>2, <2>3 DEF Dispatcher, Guarded
<1>4. CASE \E r \in Debits : RailResolves(r)
  BY <1>4 DEF RailResolves, Guarded, operator
<1>5. CASE UNCHANGED vars
  BY <1>5 DEF vars, money, Guarded, operator
<1>6. QED
  BY <1>1, <1>3, <1>4, <1>5 DEF Next

(* The handlers' steps that move no money and write no entry. *)

LEMMA PlainX ==
    ASSUME IInv, XInv, Guarded' => Guarded, NEW w \in Workers, job[w].step # "idle",
           \A v \in Workers : v # w => job'[v] = job[v],
           job'[w].step \in {"idle", "claim", "settle", "po"},
           UNCHANGED <<overlapped, rail, delivered, entry>>,
           \A o \in Orders : /\ row'[o].digest = row[o].digest
                             /\ row'[o].attempt = row[o].attempt
                             /\ row[o].status # "pending" => row'[o].status # "pending"
    PROVE  XInv'
<1>1. Onward
  BY DEF Onward
<1>2. ASSUME Guarded', NEW f \in Fills PROVE Backs(f)'
  BY <1>2 DEF XInv, Exchanges, Backs
<1>3. ASSUME Guarded', NEW o \in Orders PROVE Digested(o)'
  BY <1>1, <1>3, SameDigests DEF XInv, Exchanges
<1>4. Handling(w)'
  BY DEF Handling
<1>5. QED
  BY <1>1, <1>2, <1>3, <1>4, HandlerX

LEMMA QuietX ==
    ASSUME IInv, XInv, Guarded' => Guarded, NEW w \in Workers,
           \/ NoClaim(w) \/ LpNetworkFallback(w) \/ Park(w) \/ SettleLpFill(w)
           \/ SettlePaymentOrder(w) \/ Stop(w)
           \/ \E l \in Lps : Match(w, l)
    PROVE  XInv'
<1>0. job \in [Workers -> JobRec] /\ row \in [Orders -> RowRec]
  BY DEF IInv, JobsOK, RowsOK
<1>1. job[w].step # "idle" /\ UNCHANGED <<overlapped, rail, delivered, entry>>
  BY DEF NoClaim, LpNetworkFallback, Park, SettleLpFill, SettlePaymentOrder, Stop, Match, Within, books, operator
<1>2. /\ job'[w].step \in {"idle", "claim", "po"}
      /\ \A v \in Workers : v # w => job'[v] = job[v]
  <2>1. CASE \E l \in Lps : Match(w, l)
    BY <1>0, <2>1 DEF Match, JobRec
  <2>2. CASE ~\E l \in Lps : Match(w, l)
    <3>1. Idle(w) \/ Go(w, "po")
      BY <2>2 DEF NoClaim, LpNetworkFallback, Park, SettleLpFill, SettlePaymentOrder, Stop
    <3>2. QED
      BY <3>1, Moves, Rests DEF Steps
  <2>3. QED
    BY <2>1, <2>2
<1>3. ASSUME NEW o \in Orders
      PROVE  /\ row'[o].digest = row[o].digest
             /\ row'[o].attempt = row[o].attempt
             /\ row[o].status # "pending" => row'[o].status # "pending"
  BY <1>0 DEF NoClaim, LpNetworkFallback, Park, SettleLpFill, SettlePaymentOrder, Stop, Match,
     WhileDispatching, RowRec
<1>4. QED
  BY <1>1, <1>2, <1>3, PlainX

(* The handlers' steps that move money, write an entry or take up an order. *)

\* A tick takes up an order: another handler under way makes it an overlap.
LEMMA FetchX ==
    ASSUME IInv, XInv, Guarded' => Guarded, NEW w \in Workers, NEW o \in Orders,
           FetchPending(w, o) \/ FetchPayout(w, o)
    PROVE  XInv'
<1>0. job \in [Workers -> JobRec] /\ row \in [Orders -> RowRec]
  BY DEF IInv, JobsOK, RowsOK
<1>1. UNCHANGED <<entry, row, rail, delivered>>
  BY DEF FetchPending, FetchPayout, books, operator
<1>2. PICK step \in {"match", "poll", "confirm"} :
         /\ Begin(w, o, step)
         /\ step = "poll" => ~row[o].digest /\ row[o].attempt # 0
         /\ step = "confirm" => row[o].digest
  BY DEF FetchPending, FetchPayout, operator
<1>3. /\ job'[w].step = step /\ job'[w].order = o /\ job'[w].attempt = row[o].attempt
      /\ \A v \in Workers : v # w => job'[v] = job[v]
  BY <1>0, <1>2 DEF Begin, NoJob, operator
<1>4. overlapped' = (overlapped \/ \E v \in Workers \ {w} : job[v].step # "idle")
  BY <1>2 DEF Begin, operator
<1>5. Solo'
  BY <1>3, <1>4 DEF XInv, Solo
<1>6. SUFFICES ASSUME Guarded' PROVE Exchanges'
  BY <1>5 DEF XInv
<1>7. Exchanges
  BY <1>6 DEF XInv
<1>8. \A f \in Fills : Backs(f)'
  BY <1>1, <1>7 DEF Exchanges, Backs
<1>9. \A p \in Orders : Digested(p)'
  BY <1>1, <1>7 DEF Exchanges, Digested, Fill
<1>10. ASSUME NEW v \in Workers, v # w PROVE Handling(v)'
  BY <1>1, <1>3, <1>4, <1>7, <1>10 DEF Exchanges, Handling, Claimed, Fill
<1>11. Handling(w)'
  <2>1. Claimed(w)' = Fill(o, row[o].attempt)
    BY <1>3 DEF Claimed, Fill
  <2>2. Digested(o)
    BY <1>7 DEF Exchanges
  <2>3. QED
    BY <1>1, <1>2, <1>3, <2>1, <2>2 DEF Handling, Digested
<1>12. QED
  BY <1>8, <1>9, <1>10, <1>11 DEF Exchanges

\* A claim enters a pending debit and gives its reference to a row without a digest.
LEMMA ClaimX ==
    ASSUME IInv, XInv, Guarded' => Guarded, NEW w \in Workers, NEW n \in Attempts, Claim(w, n)
    PROVE  XInv'
<1> DEFINE o == job[w].order
<1>0. /\ job \in [Workers -> JobRec] /\ row \in [Orders -> RowRec] /\ o \in Orders
      /\ entry \in [Refs -> EntryRec \cup {NoEntry}]
  BY DEF IInv, JobsOK, JobOK, RowsOK, BooksOK, Claim
<1>1. UNCHANGED <<overlapped, rail, delivered>> /\ job[w].step = "claim"
  BY DEF Claim, Within, operator
<1>2. /\ job'[w].step = "submit" /\ job'[w].order = o /\ job'[w].attempt = n
      /\ \A v \in Workers : v # w => job'[v] = job[v]
  BY <1>0 DEF Claim, JobRec
<1>3. /\ row[o].status = "pending"
      /\ row'[o].attempt = n /\ row'[o].digest = row[o].digest
      /\ \A p \in Orders : p # o => row'[p] = row[p]
  BY <1>0 DEF Claim, RowRec
<1>4. \A f \in Fills : entry'[f] = entry[f] \/ entry'[f].status # "confirmed"
  BY <1>0, FillsAre DEF Claim, ReserveTx, Insert
<1> HIDE DEF o
<1>5. Onward
  BY <1>1 DEF Onward
<1>6. ASSUME Guarded' PROVE /\ Handling(w)'
                            /\ \A f \in Fills : Backs(f)'
                            /\ \A p \in Orders : Digested(p)'
  <2>1. Exchanges
    BY <1>6 DEF XInv
  <2>2. \A f \in Fills : Backs(f)'
    BY <1>1, <1>4, <2>1, SameFills DEF Exchanges
  <2>3. ~row[o].digest
    BY <1>0, <1>3, <2>1 DEF Exchanges, Digested
  <2>4. ASSUME NEW p \in Orders PROVE Digested(p)'
    <3>1. CASE p = o
      BY <1>3, <2>3, <3>1 DEF Digested
    <3>2. CASE p # o
      BY <1>3, <1>5, <2>1, <3>2, SameDigests DEF Exchanges
    <3>3. QED
      BY <3>1, <3>2
  <2>5. Handling(w)'
    BY <1>2, <1>3, <2>3 DEF Handling
  <2>6. QED
    BY <2>2, <2>4, <2>5
<1>7. QED
  BY <1>1, <1>2, <1>5, <1>6, HandlerX

\* The transfer submitted is new to the bank, so that no earlier answer is undone.
LEMMA SubmitX ==
    ASSUME IInv, PayInv, XInv, Guarded' => Guarded, NEW w \in Workers, SubmitPayout(w)
    PROVE  XInv'
<1> DEFINE r == Claimed(w)
<1>0. /\ rail \in [Debits -> RailStates] /\ job[w].step = "submit"
      /\ r \in Fills /\ r \in Debits /\ job[w].attempt \in Attempts /\ rail[r] = "none"
  BY ClaimedIsFill, FillsAre DEF IInv, MoneyOK, SubmitPayout, PayInv, Submitting
<1>1. UNCHANGED <<overlapped, entry, row, delivered>>
  BY DEF SubmitPayout, Within, books, operator
<1>2. \A f \in Debits : f # r => rail'[f] = rail[f]
  BY <1>0 DEF SubmitPayout, SubmitError, Accept
<1>3. \/ Idle(w)
      \/ rail'[r] = "success" /\ Go(w, "load")
      \/ Go(w, "release")
  BY <1>0 DEF SubmitPayout, Accept
<1>4. /\ \A v \in Workers : v # w => job'[v] = job[v]
      /\ \/ job'[w].step = "idle"
         \/ /\ job'[w].order = job[w].order /\ job'[w].attempt = job[w].attempt
            /\ Claimed(w)' = r
            /\ \/ job'[w].step = "release"
               \/ job'[w].step = "load" /\ rail'[r] = "success"
  <2>1. CASE Idle(w)
    BY <2>1, Rests
  <2>2. CASE rail'[r] = "success" /\ Go(w, "load")
    BY <2>2, Moves DEF Steps
  <2>3. CASE Go(w, "release")
    BY <2>3, Moves DEF Steps
  <2>4. QED
    BY <1>3, <2>1, <2>2, <2>3
<1> HIDE DEF r
<1>5. Onward
  BY <1>0, <1>1, <1>2, FillsAre DEF Onward
<1>6. ASSUME Guarded' PROVE /\ Handling(w)'
                            /\ \A f \in Fills : Backs(f)'
                            /\ \A p \in Orders : Digested(p)'
  <2>1. Exchanges
    BY <1>6 DEF XInv
  <2>2. \A f \in Fills : Backs(f)'
    BY <1>1, <1>5, <2>1 DEF Exchanges, Backs, Onward
  <2>3. \A p \in Orders : Digested(p)'
    BY <1>1, <1>5, <2>1, SameDigests DEF Exchanges
  <2>4. Handling(w)'
    BY <1>0, <1>1, <1>4, <2>1 DEF Exchanges, Handling
  <2>5. QED
    BY <2>2, <2>3, <2>4
<1>7. QED
  BY <1>0, <1>1, <1>4, <1>5, <1>6, HandlerX

\* The row a release resets has no digest: one would be that of a transfer that was made, under
\* the row's reference, while the transfer released was not.
LEMMA ReleaseX ==
    ASSUME IInv, PayInv, XInv, Guarded' => Guarded, NEW w \in Workers, ReleaseLpFill(w)
    PROVE  XInv'
<1> DEFINE o == job[w].order
           n == job[w].attempt
           r == Claimed(w)
<1>0. /\ job[w].step = "release" /\ r \in Fills /\ o \in Orders /\ n \in Attempts /\ r = Fill(o, n)
      /\ row \in [Orders -> RowRec] /\ entry \in [Refs -> EntryRec \cup {NoEntry}]
  BY ClaimedIsFill DEF IInv, RowsOK, BooksOK, ReleaseLpFill, Claimed
<1>1. UNCHANGED <<overlapped, rail, delivered, disowned>>
  BY DEF ReleaseLpFill, Within, operator
<1>2. job'[w].step = "idle" /\ \A v \in Workers : v # w => job'[v] = job[v]
  BY Rests DEF ReleaseLpFill
<1>3. \A f \in Fills : entry'[f] = entry[f] \/ entry'[f].status # "confirmed"
  <2>1. \/ entry' = entry
        \/ entry' = [entry EXCEPT ![r].status = "failed"]
    BY DEF ReleaseLpFill, ReleaseTx, books
  <2>2. entry[r] \in EntryRec \cup {NoEntry} /\ r \in Refs
    BY <1>0, FillsAre
  <2>3. ASSUME NEW f \in Fills PROVE entry'[f] = entry[f] \/ entry'[f].status # "confirmed"
    <3>1. f \in Refs
      BY FillsAre
    <3>2. CASE f = r
      BY <1>0, <2>1, <2>2, <3>2 DEF EntryRec, NoEntry
    <3>3. CASE f # r
      BY <1>0, <2>1, <3>1, <3>3
    <3>4. QED
      BY <3>2, <3>3
  <2>4. QED
    BY <2>3
<1>4. /\ row' = row \/ entry[r].status = "pending"
      /\ row' = row \/ row'[o].digest = row[o].digest
      /\ \A p \in Orders : p # o => row'[p] = row[p]
  BY <1>0 DEF ReleaseLpFill, RowRec
<1>5. rail[r] \in {"none", "failed"} \/ r \in disowned
  BY <1>0 DEF PayInv, Releasing
<1> HIDE DEF o, n, r
<1>6. Onward
  BY <1>1 DEF Onward
<1>7. ASSUME Guarded' PROVE /\ Handling(w)'
                            /\ \A f \in Fills : Backs(f)'
                            /\ \A p \in Orders : Digested(p)'
  <2>1. Exchanges
    BY <1>7 DEF XInv
  <2>2. \A f \in Fills : Backs(f)'
    BY <1>1, <1>3, <2>1, SameFills DEF Exchanges
  <2>3. row' = row \/ ~row[o].digest
    <3>1. CASE ~overlapped
      BY <1>0, <2>1, <3>1 DEF Exchanges, Handling, o
    <3>2. CASE disowned = {}
      <4>1. SUFFICES ASSUME row' # row, row[o].digest PROVE FALSE
        OBVIOUS
      <4>2. row[o].attempt = n
        BY <1>0, <1>4, <4>1 DEF PayInv, Named, Forceful
      <4>3. delivered[r] > 0
        BY <1>0, <2>1, <4>1, <4>2 DEF Exchanges, Digested
      <4>4. rail[r] = "success"
        BY <1>0, <2>1, <4>3 DEF Exchanges, Backs
      <4>5. QED
        BY <1>5, <3>2, <4>4
    <3>3. QED
      BY <1>7, <3>1, <3>2 DEF Guarded
  <2>4. ASSUME NEW p \in Orders PROVE Digested(p)'
    <3>1. CASE row' = row
      BY <1>6, <2>1, <3>1, SameDigests DEF Exchanges
    <3>2. CASE row' # row /\ p = o
      BY <1>4, <2>3, <3>2 DEF Digested
    <3>3. CASE p # o
      BY <1>4, <1>6, <2>1, <3>3, SameDigests DEF Exchanges
    <3>4. QED
      BY <3>1, <3>2, <3>3
  <2>5. Handling(w)'
    BY <1>2 DEF Handling
  <2>6. QED
    BY <2>2, <2>4, <2>5
<1>8. QED
  BY <1>0, <1>1, <1>2, <1>6, <1>7, HandlerX

\* A handler goes on with its books and rows as they are.
LEMMA GoesX ==
    ASSUME IInv, XInv, Guarded' => Guarded, NEW w \in Workers, job[w].step # "idle",
           \A v \in Workers : v # w => job'[v] = job[v],
           UNCHANGED <<overlapped, entry, row, rail, delivered>>,
           Guarded' => Handling(w)'
    PROVE  XInv'
<1>1. Onward
  BY DEF Onward
<1>2. ASSUME Guarded', NEW f \in Fills PROVE Backs(f)'
  BY <1>2 DEF XInv, Exchanges, Backs
<1>3. ASSUME Guarded', NEW o \in Orders PROVE Digested(o)'
  BY <1>1, <1>3, SameDigests DEF XInv, Exchanges
<1>4. QED
  BY <1>1, <1>2, <1>3, HandlerX

LEMMA PollX ==
    ASSUME IInv, XInv, Guarded' => Guarded, NEW w \in Workers, Poll(w)
    PROVE  XInv'
<1>1. UNCHANGED <<overlapped, entry, row, rail, delivered>> /\ job[w].step = "poll"
      /\ job[w].attempt \in Attempts
  BY ClaimedIsFill DEF Poll, Within, books, operator
<1>2. CASE Idle(w)
  <2>1. job'[w].step = "idle" /\ \A v \in Workers : v # w => job'[v] = job[v]
    BY <1>2, Rests
  <2>2. Handling(w)'
    BY <2>1 DEF Handling
  <2>3. QED
    BY <1>1, <2>1, <2>2, GoesX
<1>3. ASSUME NEW s \in {"load", "release"}, Go(w, s), s = "load" => rail[Claimed(w)] = "success"
      PROVE  XInv'
  <2>1. /\ job'[w].step = s /\ job'[w].order = job[w].order
        /\ job'[w].attempt = job[w].attempt
        /\ \A v \in Workers : v # w => job'[v] = job[v]
        /\ Claimed(w)' = Claimed(w)
    BY <1>3, Moves DEF Steps
  <2>2. Guarded' => Handling(w)'
    BY <1>1, <1>3, <2>1 DEF XInv, Exchanges, Handling
  <2>3. QED
    BY <1>1, <2>1, <2>2, GoesX
<1>4. QED
  BY <1>2, <1>3 DEF Poll

\* The fill loaded again is still that of the transfer that was made.
LEMMA FinalizeX ==
    ASSUME IInv, PayInv, XInv, Guarded' => Guarded, NEW w \in Workers, FinalizeLpFill(w)
    PROVE  XInv'
<1> DEFINE o == job[w].order
           j == [job[w] EXCEPT !.step = IF row[o].digest THEN "confirm" ELSE "deliver",
                               !.attempt = row[o].attempt, !.edges = TRUE]
<1>0. job \in [Workers -> JobRec] /\ job[w].step = "load" /\ o \in Orders
  BY DEF IInv, JobsOK, JobOK, FinalizeLpFill
<1>1. UNCHANGED <<overlapped, entry, row, rail, delivered>>
  BY DEF FinalizeLpFill, Within, books, operator
<1>2. \A v \in Workers : v # w => job'[v] = job[v]
  BY <1>0 DEF FinalizeLpFill, Idle
<1>3. ASSUME Guarded' PROVE Handling(w)'
  <2>1. /\ row[o].attempt = job[w].attempt /\ job[w].attempt \in Attempts
        /\ rail[Claimed(w)] = "success"
    BY <1>0, <1>3, HandlingNamed
  <2>2. CASE Idle(w)
    <3>1. job'[w].step = "idle"
      BY <2>2, Rests
    <3>2. QED
      BY <3>1 DEF Handling
  <2>3. CASE ~Idle(w)
    <3>1. /\ job'[w].step = IF row[o].digest THEN "confirm" ELSE "deliver"
          /\ job'[w].order = o /\ job'[w].attempt = job[w].attempt
      BY <1>0, <2>1, <2>3 DEF FinalizeLpFill, JobRec
    <3>2. Claimed(w)' = Claimed(w) /\ Claimed(w) = Fill(o, row[o].attempt)
      BY <2>1, <3>1 DEF Claimed, Fill
    <3>3. row[o].digest => delivered[Claimed(w)] > 0
      BY <1>0, <1>3, <3>2 DEF XInv, Exchanges, Digested
    <3>4. QED
      BY <1>1, <2>1, <3>1, <3>2, <3>3 DEF Handling
  <2>4. QED
    BY <2>2, <2>3
<1>4. QED
  BY <1>0, <1>1, <1>2, <1>3, GoesX

\* USDC leaves for a transfer that was made.
LEMMA DeliverX ==
    ASSUME IInv, PayInv, XInv, Guarded' => Guarded, NEW w \in Workers, DeliverUsdc(w)
    PROVE  XInv'
<1> DEFINE r == Claimed(w)
           lands == delivered' = [delivered EXCEPT ![r] = @ + 1]
<1>0. delivered \in [Fills -> Nat] /\ job[w].step = "deliver"
  BY DEF IInv, MoneyOK, DeliverUsdc
<1>1. UNCHANGED <<overlapped, entry, row, rail>>
  BY DEF DeliverUsdc, Within, books, operator
<1>2. \/ lands /\ Go(w, "persist")
      \/ (lands \/ delivered' = delivered) /\ Go(w, "park")
  BY DEF DeliverUsdc
<1>3. PICK s \in {"persist", "park"} : Go(w, s) /\ (s = "persist" => lands)
  BY <1>2
<1>4. /\ job'[w].step = s /\ job'[w].order = job[w].order
      /\ job'[w].attempt = job[w].attempt
      /\ \A v \in Workers : v # w => job'[v] = job[v]
      /\ Claimed(w)' = r
  BY <1>3, Moves DEF Steps
<1>5. \A f \in Fills : /\ delivered[f] > 0 => delivered'[f] > 0
                       /\ f # r => delivered'[f] = delivered[f]
  BY <1>0, <1>2
<1>6. r \in Fills /\ lands => delivered'[r] > 0
  BY <1>0
<1> HIDE DEF r, lands
<1>7. Onward
  BY <1>1, <1>5 DEF Onward
<1>8. ASSUME Guarded' PROVE /\ Handling(w)'
                            /\ \A f \in Fills : Backs(f)'
                            /\ \A p \in Orders : Digested(p)'
  <2>1. Exchanges
    BY <1>8 DEF XInv
  <2>2. /\ job[w].attempt \in Attempts /\ row[job[w].order].attempt = job[w].attempt
        /\ r \in Fills /\ rail[r] = "success"
    BY <1>0, <1>8, HandlingNamed DEF r
  <2>3. \A f \in Fills : Backs(f)'
    BY <1>1, <1>5, <2>1, <2>2 DEF Exchanges, Backs
  <2>4. \A p \in Orders : Digested(p)'
    BY <1>1, <1>7, <2>1, SameDigests DEF Exchanges
  <2>5. Handling(w)'
    BY <1>1, <1>3, <1>4, <1>6, <2>2 DEF Handling
  <2>6. QED
    BY <2>3, <2>4, <2>5
<1>9. QED
  BY <1>0, <1>1, <1>4, <1>7, <1>8, HandlerX

\* The digest goes into the row whose reference it was delivered for.
LEMMA PersistX ==
    ASSUME IInv, PayInv, XInv, Guarded' => Guarded, NEW w \in Workers, PersistDigest(w)
    PROVE  XInv'
<1> DEFINE o == job[w].order
           n == job[w].attempt
<1>0. row \in [Orders -> RowRec] /\ job[w].step = "persist"
  BY DEF IInv, RowsOK, PersistDigest
<1>1. UNCHANGED <<overlapped, entry, rail, delivered>>
  BY DEF PersistDigest, Within, books, operator
<1>2. /\ job'[w].step = "confirm" /\ job'[w].attempt = n
      /\ \A v \in Workers : v # w => job'[v] = job[v]
      /\ Claimed(w)' = Claimed(w)
  BY Moves DEF PersistDigest, Steps
<1>3. /\ \A p \in Orders : p # o => row'[p] = row[p]
      /\ \/ row' = row
         \/ o \in Orders => /\ row'[o].status = "dispatching"
                            /\ row'[o].attempt = row[o].attempt
  BY <1>0 DEF PersistDigest, WhileDispatching, RowRec
<1>4. Onward
  BY <1>1 DEF Onward
<1>5. ASSUME Guarded' PROVE /\ Handling(w)'
                            /\ \A f \in Fills : Backs(f)'
                            /\ \A p \in Orders : Digested(p)'
  <2>1. Exchanges
    BY <1>5 DEF XInv
  <2>2. o \in Orders /\ n \in Attempts /\ row[o].attempt = n
    BY <1>0, <1>5, HandlingNamed
  <2>3. delivered[Fill(o, n)] > 0
    BY <1>0, <2>1 DEF Exchanges, Handling, Claimed
  <2>4. \A f \in Fills : Backs(f)'
    BY <1>1, <2>1 DEF Exchanges, Backs
  <2>5. ASSUME NEW p \in Orders PROVE Digested(p)'
    <3>1. CASE row' = row \/ p # o
      BY <1>3, <1>4, <2>1, <3>1, SameDigests DEF Exchanges
    <3>2. CASE row' # row /\ p = o
      BY <1>1, <1>3, <2>2, <2>3, <3>2 DEF Digested, Fill
    <3>3. QED
      BY <3>1, <3>2
  <2>6. Handling(w)'
    BY <1>1, <1>2, <2>2, <2>3 DEF Handling, Claimed
  <2>7. QED
    BY <2>4, <2>5, <2>6
<1>6. QED
  BY <1>0, <1>1, <1>2, <1>4, <1>5, HandlerX

\* The entry confirmed is that of a delivery.
LEMMA ConfirmX ==
    ASSUME IInv, XInv, Guarded' => Guarded, NEW w \in Workers, ConfirmFill(w)
    PROVE  XInv'
<1> DEFINE r == Claimed(w)
<1>0. job[w].step = "confirm" /\ entry \in [Refs -> EntryRec \cup {NoEntry}]
  BY DEF IInv, BooksOK, ConfirmFill
<1>1. UNCHANGED <<overlapped, row, rail, delivered>>
  BY DEF ConfirmFill
<1>2. job'[w].step = "settle" /\ \A v \in Workers : v # w => job'[v] = job[v]
  BY Moves DEF ConfirmFill, Steps
<1>3. \A f \in Fills : f # r => entry'[f] = entry[f]
  BY <1>0, FillsAre DEF ConfirmFill, ConfirmTx, books
<1>4. Onward
  BY <1>1 DEF Onward
<1>5. ASSUME Guarded' PROVE /\ Handling(w)'
                            /\ \A f \in Fills : Backs(f)'
                            /\ \A p \in Orders : Digested(p)'
  <2>1. Exchanges
    BY <1>5 DEF XInv
  <2>2. delivered[r] > 0
    BY <1>0, <2>1 DEF Exchanges, Handling
  <2>3. \A f \in Fills : Backs(f)'
    BY <1>1, <1>3, <2>1, <2>2 DEF Exchanges, Backs
  <2>4. \A p \in Orders : Digested(p)'
    BY <1>1, <1>4, <2>1, SameDigests DEF Exchanges
  <2>5. Handling(w)'
    BY <1>2 DEF Handling
  <2>6. QED
    BY <2>3, <2>4, <2>5
<1>6. QED
  BY <1>0, <1>1, <1>2, <1>4, <1>5, HandlerX

LEMMA StepX == IInv /\ PayInv /\ XInv /\ [Next]_vars => XInv'
<1> SUFFICES ASSUME IInv, PayInv, XInv, [Next]_vars PROVE XInv'
  OBVIOUS
<1>0. Guarded' => Guarded
  BY GuardStep
<1>1. ASSUME NEW w \in Workers, Handler(w) PROVE XInv'
  BY <1>0, <1>1, QuietX, ClaimX, SubmitX, ReleaseX, PollX, FinalizeX, DeliverX, PersistX, ConfirmX
  DEF Handler
<1>2. ASSUME NEW o \in Orders, Expire(o) PROVE XInv'
  <2>1. row \in [Orders -> RowRec]
    BY DEF IInv, RowsOK
  <2>2. UNCHANGED <<job, overlapped, entry, rail, delivered>> /\ Onward
    BY <1>2 DEF Expire, books, money, Onward, operator
  <2>3. \A p \in Orders : /\ row'[p].digest = row[p].digest
                          /\ row'[p].attempt = row[p].attempt
                          /\ row[p].status # "pending" => row'[p].status # "pending"
    BY <1>2, <2>1 DEF Expire, RowRec, operator
  <2>4. QED
    BY <1>0, <2>2, <2>3, OutsideX
<1>3. CASE Dispatcher
  BY <1>0, <1>1, <1>2, <1>3, QuietX, FetchX DEF Dispatcher
<1>4. CASE Accounts
  <2>1. Onward
    BY <1>4, AccountsFramed DEF Onward
  <2>2. QED
    BY <1>0, <1>4, <2>1, AccountsFramed, OutsideX
<1>5. ASSUME NEW r \in Debits, RailResolves(r) PROVE XInv'
  <2>1. UNCHANGED <<job, overlapped, entry, row, delivered>>
    BY <1>5 DEF RailResolves, books, operator
  <2>2. \A f \in Fills : rail'[f] = rail[f] \/ rail[f] # "success"
    BY <1>5, FillsAre DEF RailResolves, IInv, MoneyOK, operator
  <2>3. Onward
    BY <2>1, <2>2 DEF Onward, RailResolves, operator
  <2>4. QED
    BY <1>0, <2>1, <2>2, <2>3, OutsideX
<1>6. CASE UNCHANGED vars
  <2>1. UNCHANGED <<job, overlapped, entry, row, rail, delivered>> /\ Onward
    BY <1>6 DEF vars, books, money, Onward, operator
  <2>2. QED
    BY <1>0, <2>1, OutsideX
<1>7. QED
  BY <1>3, <1>4, <1>5, <1>6 DEF Next

LEMMA InitX == Init => XInv
<1> SUFFICES ASSUME Init PROVE XInv
  OBVIOUS
<1>1. \A f \in Fills : delivered[f] = 0 /\ entry[f].status = "none"
  BY FillsAre DEF Init, NoEntry
<1>2. /\ \A w \in Workers : job[w].step = "idle"
      /\ \A o \in Orders : ~row[o].digest
  BY DEF Init, NoJob, NewRow
<1>3. QED
  BY <1>1, <1>2 DEF XInv, Solo, Exchanges, Backs, Digested, Handling

(* Settlement comes after the exchange: a handler that settles has confirmed a fill. *)

HasExchange(o) == \E n \in Attempts : Exchanged(Fill(o, n))

Settled(o) == row[o].status = "settled" \/ o \in told

Settlements ==
    Guarded => /\ \A o \in Orders : Settled(o) => HasExchange(o)
               /\ \A w \in Workers : job[w].step \in {"settle", "po"} => HasExchange(job[w].order)

LEMMA StepOnward == IInv /\ [Next]_vars => Onward
<1> SUFFICES ASSUME IInv, [Next]_vars PROVE Onward
  OBVIOUS
<1>0. rail \in [Debits -> RailStates] /\ delivered \in [Fills -> Nat]
  BY DEF IInv, MoneyOK
<1>1. \/ UNCHANGED rail
      \/ \E r, s : Accept(r, s)
      \/ \E r \in Debits, s \in {"success", "failed"} :
            rail[r] = "processing" /\ rail' = [rail EXCEPT ![r] = s]
  BY DEF Next, Accounts, Dispatcher, Handler, SetStatus, UpdateAccount, SwitchRail, DepositArrives, HandleDeposit,
         Withdraw, Reserve, SubmitWithdrawal, SubmitError, ReleaseWithdrawal, RequestStops,
         HandleWithdrawalFinality, Expire, LpNetworkFallback, NoClaim, SubmitPayout, ReleaseLpFill,
         Poll, FinalizeLpFill, DeliverUsdc, Park, PersistDigest, ConfirmFill, SettleLpFill,
         SettlePaymentOrder, Match, Claim, Stop, FetchPending, FetchPayout, RailResolves,
         money, vars, operator
<1>2. UNCHANGED delivered \/ \E r : delivered' = [delivered EXCEPT ![r] = @ + 1]
  BY DEF Next, Accounts, Dispatcher, Handler, SetStatus, UpdateAccount, SwitchRail, DepositArrives, HandleDeposit,
         Withdraw, Reserve, SubmitWithdrawal, ReleaseWithdrawal, RequestStops, AccountsFrame,
         HandleWithdrawalFinality, Expire, LpNetworkFallback, NoClaim, SubmitPayout, ReleaseLpFill,
         Poll, FinalizeLpFill, DeliverUsdc, Park, PersistDigest, ConfirmFill, SettleLpFill,
         SettlePaymentOrder, Match, Claim, Stop, FetchPending, FetchPayout, RailResolves,
         money, vars, operator
<1>3. ASSUME NEW f \in Fills PROVE rail[f] = "success" => rail'[f] = "success"
  BY <1>0, <1>1, FillsAre DEF Accept
<1>4. ASSUME NEW f \in Fills PROVE delivered[f] > 0 => delivered'[f] > 0
  BY <1>0, <1>2
<1>5. QED
  BY <1>3, <1>4 DEF Onward

\* An order is settled by a handler that has confirmed its fill.
LEMMA WhoSettles ==
    ASSUME IInv, [Next]_vars
    PROVE  /\ \A o \in Orders :
                 Settled(o)' => Settled(o)
                                \/ \E w \in Workers : job[w].step \in {"settle", "po"} /\ job[w].order = o
           /\ \A w \in Workers :
                 job'[w].step \in {"settle", "po"} =>
                    job[w].step \in {"confirm", "settle", "po"} /\ job'[w].order = job[w].order
<1> DEFINE Kind == /\ \A o \in Orders :
                         Settled(o)' => Settled(o)
                            \/ \E w \in Workers : job[w].step \in {"settle", "po"} /\ job[w].order = o
                   /\ \A w \in Workers :
                         job'[w].step \in {"settle", "po"} =>
                            job[w].step \in {"confirm", "settle", "po"} /\ job'[w].order = job[w].order
<1>0. job \in [Workers -> JobRec] /\ row \in [Orders -> RowRec]
  BY DEF IInv, JobsOK, RowsOK
<1>1. ASSUME UNCHANGED <<job, row, told>> PROVE Kind
  BY <1>1 DEF Settled
<1>2. ASSUME NEW w \in Workers, \A v \in Workers : v # w => job'[v] = job[v],
             job'[w].step \notin {"settle", "po"}, UNCHANGED told,
             \A o \in Orders : row'[o].status = "settled" => row[o].status = "settled"
      PROVE  Kind
  BY <1>2 DEF Settled
<1>3. ASSUME NEW w \in Workers, Go(w, "settle") \/ Go(w, "po") \/ Idle(w)
      PROVE  \A v \in Workers : /\ v # w => job'[v] = job[v]
                                /\ job'[w].step \in {"settle", "po", "idle"}
                                /\ job'[w].step # "idle" => job'[w].order = job[w].order
  BY <1>3, Moves, Rests DEF Steps
<1>4. ASSUME NEW w \in Workers, ConfirmFill(w) PROVE Kind
  <2>1. UNCHANGED <<row, told>> /\ job[w].step = "confirm" /\ Go(w, "settle")
    BY <1>4 DEF ConfirmFill
  <2>2. QED
    BY <1>3, <2>1 DEF Settled
<1>5. ASSUME NEW w \in Workers, SettleLpFill(w) PROVE Kind
  <2>1. UNCHANGED told /\ job[w].step = "settle" /\ (Go(w, "po") \/ Idle(w))
    BY <1>5 DEF SettleLpFill
  <2>2. \A o \in Orders : o # job[w].order => row'[o] = row[o]
    BY <1>0, <1>5 DEF SettleLpFill, WhileDispatching
  <2>3. QED
    BY <1>3, <2>1, <2>2 DEF Settled
<1>6. ASSUME NEW w \in Workers, SettlePaymentOrder(w) PROVE Kind
  <2>1. /\ UNCHANGED row /\ job[w].step = "po" /\ Idle(w)
        /\ told' = told \cup {job[w].order}
    BY <1>6 DEF SettlePaymentOrder
  <2>2. QED
    BY <1>3, <2>1 DEF Settled
<1>7. ASSUME NEW w \in Workers,
             \/ LpNetworkFallback(w) \/ NoClaim(w) \/ SubmitPayout(w) \/ ReleaseLpFill(w) \/ Poll(w)
             \/ FinalizeLpFill(w) \/ DeliverUsdc(w) \/ Park(w) \/ PersistDigest(w) \/ Stop(w)
             \/ (\E l \in Lps : Match(w, l)) \/ (\E n \in Attempts : Claim(w, n))
             \/ (\E o \in Orders : FetchPending(w, o) \/ FetchPayout(w, o))
      PROVE  Kind
  <2>1. UNCHANGED told
    BY <1>7 DEF LpNetworkFallback, NoClaim, SubmitPayout, ReleaseLpFill, Poll, FinalizeLpFill,
                DeliverUsdc, Park, PersistDigest, Stop, Match, Claim, FetchPending, FetchPayout, operator
  <2>2. \A o \in Orders : row'[o].status = "settled" => row[o].status = "settled"
    <3>1. CASE UNCHANGED row
      BY <3>1
    <3>2. CASE LpNetworkFallback(w)
      BY <1>0, <3>2 DEF LpNetworkFallback, RowRec
    <3>3. CASE ReleaseLpFill(w)
      BY <1>0, <3>3 DEF ReleaseLpFill, RowRec
    <3>4. CASE Park(w)
      BY <1>0, <3>4 DEF Park, WhileDispatching, RowRec
    <3>5. CASE PersistDigest(w)
      BY <1>0, <3>5 DEF PersistDigest, WhileDispatching, RowRec
    <3>6. ASSUME NEW n \in Attempts, Claim(w, n)
          PROVE  \A o \in Orders : row'[o].status = "settled" => row[o].status = "settled"
      <4>1. row' = [row EXCEPT ![job[w].order].status = "dispatching", ![job[w].order].attempt = n]
        BY <3>6 DEF Claim
      <4>2. QED
        BY <1>0, <4>1 DEF RowRec
    <3>7. QED
      BY <1>7, <3>1, <3>2, <3>3, <3>4, <3>5, <3>6
      DEF NoClaim, SubmitPayout, Poll, FinalizeLpFill, DeliverUsdc, Stop, Match, FetchPending,
          FetchPayout, operator
  <2>3. /\ \A v \in Workers : v # w => job'[v] = job[v]
        /\ job'[w].step \notin {"settle", "po"}
    <3>1. CASE Idle(w) \/ \E s \in Steps \ {"settle", "po"} : Go(w, s)
      BY <3>1, Moves, Rests
    <3>2. CASE FinalizeLpFill(w)
      BY <1>0, <3>2 DEF FinalizeLpFill, Idle, NoJob, JobRec
    <3>3. CASE (\E l \in Lps : Match(w, l)) \/ (\E n \in Attempts : Claim(w, n))
      <4>1. CASE \E l \in Lps : Match(w, l)
        <5>1. PICK l \in Lps : job' = [job EXCEPT ![w].step = "claim", ![w].lp = l]
          BY <4>1 DEF Match
        <5>2. QED
          BY <1>0, <5>1 DEF JobRec
      <4>2. CASE \E n \in Attempts : Claim(w, n)
        <5>1. PICK n \in Attempts : job' = [job EXCEPT ![w].step = "submit", ![w].attempt = n]
          BY <4>2 DEF Claim
        <5>2. QED
          BY <1>0, <5>1 DEF JobRec
      <4>3. QED
        BY <3>3, <4>1, <4>2
    <3>4. CASE \E o \in Orders : FetchPending(w, o) \/ FetchPayout(w, o)
      <4>1. \E o \in Orders, s \in {"match", "poll", "confirm"} : Begin(w, o, s)
        BY <3>4 DEF FetchPending, FetchPayout, operator
      <4>2. QED
        BY <1>0, <4>1 DEF Begin, NoJob, operator
    <3>5. QED
      BY <1>7, <3>1, <3>2, <3>3, <3>4
      DEF LpNetworkFallback, NoClaim, SubmitPayout, ReleaseLpFill, Poll, DeliverUsdc, Park,
          PersistDigest, Stop, Steps
  <2>4. QED
    BY <1>2, <2>1, <2>2, <2>3
<1>8. ASSUME NEW o \in Orders, Expire(o) PROVE Kind
  <2>1. UNCHANGED <<job, told>>
    BY <1>8 DEF Expire, operator
  <2>2. \A p \in Orders : row'[p].status = "settled" => row[p].status = "settled"
    BY <1>0, <1>8 DEF Expire, RowRec, operator
  <2>3. QED
    BY <2>1, <2>2 DEF Settled
<1>9. CASE Accounts \/ (\E r \in Debits : RailResolves(r)) \/ UNCHANGED vars
  BY <1>1, <1>9 DEF Accounts, SetStatus, UpdateAccount, SwitchRail, DepositArrives, HandleDeposit, Withdraw,
     Reserve, SubmitWithdrawal, ReleaseWithdrawal, RequestStops, HandleWithdrawalFinality,
     AccountsFrame, RailResolves, vars, operator
<1>10. CASE Dispatcher
  BY <1>4, <1>5, <1>6, <1>7, <1>8, <1>10 DEF Dispatcher, Handler
<1>11. QED
  BY <1>9, <1>10 DEF Next

LEMMA StepSettlements == IInv /\ XInv /\ Settlements /\ [Next]_vars => Settlements'
<1> SUFFICES ASSUME IInv, XInv, Settlements, [Next]_vars, Guarded'
             PROVE  /\ \A o \in Orders : Settled(o)' => HasExchange(o)'
                    /\ \A w \in Workers :
                          job'[w].step \in {"settle", "po"} => HasExchange(job[w].order)'
  BY DEF Settlements
<1>1. Guarded /\ Onward
  BY GuardStep, StepOnward
<1>2. ASSUME NEW o \in Orders, HasExchange(o) PROVE HasExchange(o)'
  BY <1>1, <1>2, FillsAre DEF HasExchange, Exchanged, Onward, Fill
<1>3. ASSUME NEW w \in Workers, job[w].step \in {"confirm", "settle", "po"}
      PROVE  job[w].order \in Orders /\ HasExchange(job[w].order)
  <2>1. job[w].order \in Orders
    BY <1>3 DEF IInv, JobsOK, JobOK
  <2>2. CASE job[w].step = "confirm"
    <3>1. job[w].attempt \in Attempts /\ delivered[Claimed(w)] > 0
      BY <1>1, <2>2 DEF XInv, Exchanges, Handling
    <3>2. Claimed(w) \in Fills
      BY <2>1, <3>1, FillsAre DEF Claimed
    <3>3. rail[Claimed(w)] = "success"
      BY <1>1, <3>1, <3>2 DEF XInv, Exchanges, Backs
    <3>4. QED
      BY <2>1, <3>1, <3>3 DEF HasExchange, Exchanged, Claimed
  <2>3. QED
    BY <1>1, <1>3, <2>1, <2>2 DEF Settlements
<1>4. ASSUME NEW o \in Orders, Settled(o)' PROVE HasExchange(o)'
  BY <1>1, <1>2, <1>3, <1>4, WhoSettles DEF Settlements
<1>5. ASSUME NEW w \in Workers, job'[w].step \in {"settle", "po"} PROVE HasExchange(job[w].order)'
  <2>1. PICK o \in Orders : job[w].order = o /\ job'[w].order = o /\ HasExchange(o)
    BY <1>3, <1>5, WhoSettles
  <2>2. HasExchange(o)'
    BY <1>2, <2>1
  <2>3. QED
    BY <2>1, <2>2 DEF HasExchange, Exchanged, Fill
<1>6. QED
  BY <1>4, <1>5

\* finalizeLpFill, settleLpFill: USDC goes only to the LP whose bank money reached the merchant,
\* a fill is final only when its LP got the USDC, and an order is settled, or reported settled by
\* settleLpFill, only after both, unless handlers overlapped and the code disowned a transfer.
THEOREM FillIsExchangeHolds == Spec => []FillIsExchange
<1>1. XInv /\ Settlements => FillIsExchange
  BY DEF XInv, Exchanges, Backs, Guarded, Settlements, Settled, HasExchange, FillIsExchange
<1>2. Spec => []PayInv
  BY InitPay, StepPay, Invariance, PTL DEF Spec
<1>3. Init => XInv
  BY InitX
<1>4. IInv /\ PayInv /\ XInv /\ [Next]_vars => XInv'
  BY StepX
<1>5. Spec => []XInv
  BY <1>2, <1>3, <1>4, Invariance, PTL DEF Spec
<1>6. Init => Settlements
  BY DEF Init, Settlements, Settled, NewRow, NoJob
<1>7. IInv /\ XInv /\ Settlements /\ [Next]_vars => Settlements'
  BY StepSettlements
<1>8. Spec => []Settlements
  BY <1>5, <1>6, <1>7, Invariance, PTL DEF Spec
<1>9. QED
  BY <1>1, <1>5, <1>8, PTL

-----------------------------------------------------------------------------
(***************************************************************************)
(* Sums.  A total counts units, so that what a step adds or takes is the   *)
(* cardinality of the units that come or go; the sets stay finite because  *)
(* every step moves finitely many.                                         *)
(***************************************************************************)
LEMMA UnitIn ==
    ASSUME NEW f, NEW u
    PROVE  u \in Units(f) <=> \E x \in DOMAIN f : \E k \in 1 .. f[x] : u = <<x, k>>
  BY DEF Units

LEMMA UnitIs ==
    ASSUME NEW f, NEW x, NEW k
    PROVE  <<x, k>> \in Units(f) <=> x \in DOMAIN f /\ k \in 1 .. f[x]
<1>1. ASSUME NEW y \in DOMAIN f, NEW m \in 1 .. f[y], <<x, k>> = <<y, m>>
      PROVE  x \in DOMAIN f /\ k \in 1 .. f[x]
  BY <1>1
<1>2. QED
  BY <1>1, UnitIn

\* Less at every point.
LEMMA UnitsFewer ==
    ASSUME NEW f, NEW g,
           \A x \in DOMAIN f : f[x] \in Nat /\ (f[x] = 0 \/ (x \in DOMAIN g /\ g[x] \in Nat /\ f[x] <= g[x]))
    PROVE  Units(f) \subseteq Units(g)
<1> SUFFICES ASSUME NEW x \in DOMAIN f, NEW k \in 1 .. f[x]
             PROVE  <<x, k>> \in Units(g)
  BY UnitIn
<1>1. f[x] \in Nat /\ k \in Nat /\ 1 <= k /\ k <= f[x]
  OBVIOUS
<1>2. x \in DOMAIN g /\ g[x] \in Nat /\ f[x] <= g[x]
  BY <1>1
<1>3. k \in 1 .. g[x]
  BY <1>1, <1>2
<1>4. QED
  BY <1>2, <1>3, UnitIs

LEMMA TotalFewer ==
    ASSUME NEW f, NEW g, IsFiniteSet(Units(g)),
           \A x \in DOMAIN f : f[x] \in Nat /\ (f[x] = 0 \/ (x \in DOMAIN g /\ g[x] \in Nat /\ f[x] <= g[x]))
    PROVE  IsFiniteSet(Units(f)) /\ Total(f) \in Nat /\ Total(g) \in Nat /\ Total(f) <= Total(g)
<1>1. Units(f) \in SUBSET Units(g)
  BY UnitsFewer
<1>2. IsFiniteSet(Units(f)) /\ Cardinality(Units(f)) <= Cardinality(Units(g))
  BY <1>1, FS_Subset
<1>3. Cardinality(Units(f)) \in Nat /\ Cardinality(Units(g)) \in Nat
  BY <1>2, FS_CardinalityType
<1>4. QED
  BY <1>2, <1>3 DEF Total

\* One point gains a: as many units come.
LEMMA TotalMore ==
    ASSUME NEW f, NEW g, NEW x \in DOMAIN f, NEW a \in Nat, IsFiniteSet(Units(f)),
           DOMAIN g = DOMAIN f, f[x] \in Nat, g[x] = f[x] + a,
           \A y \in DOMAIN f : y # x => g[y] = f[y]
    PROVE  /\ IsFiniteSet(Units(g))
           /\ Total(f) \in Nat /\ Total(g) \in Nat /\ Total(g) = Total(f) + a
<1> DEFINE I == f[x] + 1 .. f[x] + a
           C == {x} \X I
<1>1. IsFiniteSet(C) /\ Cardinality(C) = a
  <2>1. f[x] + 1 \in Int /\ f[x] + a \in Int
    OBVIOUS
  <2>2. /\ IsFiniteSet(I)
        /\ Cardinality(I) = IF f[x] + 1 > f[x] + a THEN 0 ELSE (f[x] + a) - (f[x] + 1) + 1
    BY <2>1, FS_Interval
  <2>3. Cardinality(I) = a
    BY <2>2
  <2>4. IsFiniteSet({x}) /\ Cardinality({x}) = 1
    BY FS_Singleton
  <2> HIDE DEF I
  <2>5. IsFiniteSet({x} \X I) /\ Cardinality({x} \X I) = 1 * a
    BY <2>2, <2>3, <2>4, FS_Product
  <2>6. QED
    BY <2>5
<1>2. Units(g) = Units(f) \cup C
  <2>1. ASSUME NEW y \in DOMAIN g, NEW k \in 1 .. g[y] PROVE <<y, k>> \in Units(f) \cup C
    <3>1. CASE y # x
      BY <2>1, <3>1, UnitIs
    <3>2. CASE y = x
      <4>1. k \in 1 .. f[x] \/ k \in f[x] + 1 .. f[x] + a
        BY <2>1, <3>2
      <4>2. QED
        BY <3>2, <4>1, UnitIs
    <3>3. QED
      BY <3>1, <3>2
  <2>2. ASSUME NEW y \in DOMAIN f, NEW k \in 1 .. f[y] PROVE <<y, k>> \in Units(g)
    <3>1. k \in 1 .. g[y]
      BY <2>2
    <3>2. QED
      BY <3>1, UnitIs
  <2>3. ASSUME NEW k \in f[x] + 1 .. f[x] + a PROVE <<x, k>> \in Units(g)
    <3>1. k \in 1 .. g[x]
      BY <2>3
    <3>2. QED
      BY <3>1, UnitIs
  <2>4. \A u \in Units(g) : u \in Units(f) \cup C
    <3> HIDE DEF C
    <3>1. QED
      BY <2>1, UnitIn
  <2>5. \A u \in Units(f) : u \in Units(g)
    BY <2>2, UnitIn
  <2>6. \A u \in C : u \in Units(g)
    BY <2>3
  <2>7. QED
    BY <2>4, <2>5, <2>6
<1>3. Units(f) \cap C = {}
  <2>1. ASSUME NEW k \in f[x] + 1 .. f[x] + a PROVE <<x, k>> \notin Units(f)
    <3>1. k \notin 1 .. f[x]
      BY <2>1
    <3>2. QED
      BY <3>1, UnitIs
  <2>2. QED
    BY <2>1
<1> HIDE DEF C
<1>4. /\ IsFiniteSet(Units(f) \cup C)
      /\ Cardinality(Units(f) \cup C) = Cardinality(Units(f)) + a - Cardinality(Units(f) \cap C)
  BY <1>1, FS_Union
<1>5. Cardinality(Units(f) \cap C) = 0
  BY <1>3, FS_EmptySet
<1>6. Cardinality(Units(f)) \in Nat
  BY FS_CardinalityType
<1>7. QED
  BY <1>2, <1>4, <1>5, <1>6 DEF Total

\* The same step seen from the other side.
LEMMA TotalLess ==
    ASSUME NEW f, NEW g, NEW x \in DOMAIN f, NEW a \in Nat, IsFiniteSet(Units(f)),
           DOMAIN g = DOMAIN f, g[x] \in Nat, f[x] = g[x] + a,
           \A y \in DOMAIN f : y # x => g[y] = f[y], \A y \in DOMAIN f : f[y] \in Nat
    PROVE  /\ IsFiniteSet(Units(g))
           /\ Total(f) \in Nat /\ Total(g) \in Nat /\ Total(f) = Total(g) + a
<1>1. \A y \in DOMAIN g : g[y] \in Nat /\ y \in DOMAIN f /\ f[y] \in Nat /\ g[y] <= f[y]
  OBVIOUS
<1>2. IsFiniteSet(Units(g))
  BY <1>1, TotalFewer
<1>3. QED
  BY <1>2, TotalMore

-----------------------------------------------------------------------------
(***************************************************************************)
(* Solvency.  A step of the ledger moves units between a balance and the   *)
(* debits in force, or brings those of a deposit: their sum is what was    *)
(* credited, and what was credited was received.  A transfer that was made *)
(* and is not disowned has its debit in force, the fills by PayInv, the    *)
(* withdrawals by what follows.                                            *)
(***************************************************************************)
Held == [r \in Debits |-> IF Forceful(r) THEN Amount(r) ELSE 0]

Entered == [d \in Deposits |-> entry[Deposit(d)].amount]

Debited == [r \in Debits |-> Amount(r)]

Incoming == [d \in Deposits |-> received[d].amount]

Conserved ==
    /\ IsFiniteSet(Units(balance)) /\ IsFiniteSet(Units(Held)) /\ IsFiniteSet(Units(Entered))
    /\ IsFiniteSet(Units(Debited))
    /\ Total(balance) + Total(Held) = Total(Entered)

LEMMA EntryNumbers ==
    ASSUME LpAssumption, BooksOK
    PROVE  /\ \A r \in Refs : entry[r].amount \in Nat /\ entry[r].status \in {"none", "pending", "confirmed", "failed"}
           /\ \A r \in Debits : Held[r] \in Nat /\ Debited[r] \in Nat /\ Held[r] <= Debited[r]
           /\ \A d \in Deposits : Entered[d] \in Nat
           /\ DOMAIN Held = Debits /\ DOMAIN Debited = Debits /\ DOMAIN Entered = Deposits
           /\ DOMAIN balance = Lps /\ \A l \in Lps : balance[l] \in Nat
<1>1. ASSUME NEW r \in Refs
      PROVE  entry[r].amount \in Nat /\ entry[r].status \in {"none", "pending", "confirmed", "failed"}
  <2>1. entry[r] \in EntryRec \/ entry[r] = NoEntry
    BY DEF BooksOK
  <2>2. CASE entry[r] \in EntryRec
    <3>1. entry[r].amount \in Amounts \cup {Target} /\ entry[r].status \in {"pending", "confirmed", "failed"}
      BY <2>2 DEF EntryRec
    <3>2. QED
      BY <3>1 DEF LpAssumption
  <2>3. CASE entry[r] = NoEntry
    BY <2>3 DEF NoEntry
  <2>4. QED
    BY <2>1, <2>2, <2>3
<1>2. \A r \in Debits : Held[r] \in Nat /\ Debited[r] \in Nat /\ Held[r] <= Debited[r]
  BY <1>1 DEF Held, Debited, Amount, Refs
<1>3. \A d \in Deposits : Entered[d] \in Nat
  BY <1>1, DepositRef DEF Entered, Refs
<1>4. DOMAIN Held = Debits /\ DOMAIN Debited = Debits /\ DOMAIN Entered = Deposits
  BY DEF Held, Debited, Entered
<1>5. DOMAIN balance = Lps /\ \A l \in Lps : balance[l] \in Nat
  BY DEF BooksOK
<1>6. QED
  BY <1>1, <1>2, <1>3, <1>4, <1>5

LEMMA DepositIs ==
    ASSUME NEW d, NEW e
    PROVE  Deposit(d) = Deposit(e) <=> d = e
  BY DEF Deposit

\* A credit: the units come in and go to a balance.
LEMMA CreditConserves ==
    ASSUME LpAssumption, BooksOK, BooksOK', Conserved,
           NEW r \in Credits, NEW l \in Lps, NEW a \in Sums, L!Credit(r, l, a)
    PROVE  Conserved'
<1>1. PICK d \in Deposits : r = Deposit(d)
  BY DEF Credits, Deposit
<1>2. a \in Nat /\ r \in Refs /\ r \notin Debits /\ Debits \subseteq Refs
  BY NotBoth DEF LpAssumption, Sums, Refs
<1>3. /\ entry[r] = NoEntry
      /\ entry' = [entry EXCEPT ![r] = [lp |-> l, amount |-> a, status |-> "confirmed"]]
      /\ balance' = [balance EXCEPT ![l] = @ + a]
  BY DEF L!Credit, L!Book, L!NoEntry, NoEntry
<1>4. entry'[r].amount = a /\ \A q \in Refs : q # r => entry'[q] = entry[q]
  BY <1>2, <1>3 DEF BooksOK
<1>5. Held' = Held /\ Debited' = Debited
  BY <1>2, <1>4 DEF Held, Debited, Forceful, Amount
<1>6. Entered'[d] = Entered[d] + a /\ \A e \in Deposits : e # d => Entered'[e] = Entered[e]
  <2>1. Entered[d] = 0 /\ Entered'[d] = a
    BY <1>1, <1>3, <1>4 DEF Entered, NoEntry
  <2>2. ASSUME NEW e \in Deposits, e # d PROVE Entered'[e] = Entered[e]
    <3>1. Deposit(e) \in Refs /\ Deposit(e) # r
      BY <1>1, <2>2, DepositRef, DepositIs DEF Refs
    <3>2. QED
      BY <1>4, <3>1 DEF Entered
  <2>3. QED
    BY <1>2, <2>1, <2>2
<1>7. balance'[l] = balance[l] + a /\ \A k \in Lps : k # l => balance'[k] = balance[k]
  BY <1>3 DEF BooksOK
<1>8. DOMAIN Entered' = DOMAIN Entered /\ DOMAIN balance' = DOMAIN balance
  BY DEF Entered, BooksOK
<1>9. /\ IsFiniteSet(Units(Entered)') /\ Total(Entered) \in Nat /\ Total(Entered)' \in Nat
      /\ Total(Entered)' = Total(Entered) + a
  BY <1>2, <1>6, <1>8, EntryNumbers, TotalMore DEF Conserved
<1>10. /\ IsFiniteSet(Units(balance)') /\ Total(balance) \in Nat /\ Total(balance)' \in Nat
       /\ Total(balance)' = Total(balance) + a
  BY <1>2, <1>7, <1>8, EntryNumbers, TotalMore DEF Conserved
<1>11. Units(Held)' = Units(Held) /\ Units(Debited)' = Units(Debited)
  BY <1>5 DEF Units
<1>12. Total(Held)' = Total(Held) /\ Total(Held) \in Nat
  BY <1>11, FS_CardinalityType DEF Total, Conserved
<1>13. QED
  BY <1>2, <1>9, <1>10, <1>11, <1>12 DEF Conserved

\* The step of one debit, whose units go from the balance to the debits in force or back.
LEMMA HeldMoves ==
    ASSUME LpAssumption, BooksOK, BooksOK', NEW r \in Debits,
           \A q \in Refs : q # r => entry'[q] = entry[q]
    PROVE  /\ DOMAIN Held' = DOMAIN Held /\ DOMAIN Debited' = DOMAIN Debited
           /\ \A q \in Debits : q # r => Held'[q] = Held[q] /\ Debited'[q] = Debited[q]
           /\ Units(Entered)' = Units(Entered)
<1>1. \A q \in Debits : q \in Refs
  BY DEF Refs
<1>2. \A q \in Debits : q # r => Held'[q] = Held[q] /\ Debited'[q] = Debited[q]
  BY <1>1 DEF Held, Debited, Forceful, Amount
<1>3. ASSUME NEW d \in Deposits PROVE Deposit(d) \in Refs /\ Deposit(d) # r
  BY DepositRef, NotBoth DEF Refs
<1>4. Entered' = Entered
  BY <1>3 DEF Entered
<1>5. DOMAIN Held' = DOMAIN Held /\ DOMAIN Debited' = DOMAIN Debited
  BY DEF Held, Debited
<1>6. QED
  BY <1>2, <1>4, <1>5 DEF Units

LEMMA ReserveConserves ==
    ASSUME LpAssumption, BooksOK, BooksOK', Conserved,
           NEW r \in Debits, NEW l \in Lps, NEW a \in Sums, L!Reserve(r, l, a)
    PROVE  Conserved'
<1>1. a \in Nat /\ r \in Refs
  BY DEF LpAssumption, Sums, Refs
<1>2. /\ entry[r] = NoEntry /\ balance[l] >= a
      /\ entry' = [entry EXCEPT ![r] = [lp |-> l, amount |-> a, status |-> "pending"]]
      /\ balance' = [balance EXCEPT ![l] = @ - a]
  BY DEF L!Reserve, L!Book, L!NoEntry, NoEntry
<1>3. /\ entry'[r].amount = a /\ entry'[r].status = "pending"
      /\ \A q \in Refs : q # r => entry'[q] = entry[q]
  BY <1>1, <1>2 DEF BooksOK
<1>4. /\ DOMAIN Held' = DOMAIN Held /\ DOMAIN Debited' = DOMAIN Debited
      /\ \A q \in Debits : q # r => Held'[q] = Held[q] /\ Debited'[q] = Debited[q]
      /\ Units(Entered)' = Units(Entered)
  BY <1>3, HeldMoves
<1>5. Held[r] = 0 /\ Held'[r] = a /\ Debited[r] = 0 /\ Debited'[r] = a
  BY <1>2, <1>3 DEF Held, Debited, Forceful, Amount, NoEntry
<1>6. balance[l] \in Nat /\ balance'[l] = balance[l] - a
      /\ \A k \in Lps : k # l => balance'[k] = balance[k]
  BY <1>2 DEF BooksOK
<1>7. balance[l] = balance'[l] + a /\ balance'[l] \in Nat
  BY <1>1, <1>2, <1>6
<1>8. DOMAIN Held = Debits /\ DOMAIN Debited = Debits /\ DOMAIN balance = Lps /\ DOMAIN balance' = Lps
      /\ \A k \in Lps : balance[k] \in Nat
  BY EntryNumbers DEF BooksOK
<1>9. /\ IsFiniteSet(Units(Held)') /\ Total(Held) \in Nat /\ Total(Held)' \in Nat
      /\ Total(Held)' = Total(Held) + a
  BY <1>1, <1>4, <1>5, <1>8, TotalMore DEF Conserved
<1>10. IsFiniteSet(Units(Debited)')
  BY <1>1, <1>4, <1>5, <1>8, TotalMore DEF Conserved
<1>11. /\ IsFiniteSet(Units(balance)') /\ Total(balance) \in Nat /\ Total(balance)' \in Nat
       /\ Total(balance) = Total(balance)' + a
  BY <1>1, <1>6, <1>7, <1>8, TotalLess DEF Conserved
<1>12. Total(Entered)' = Total(Entered)
  BY <1>4 DEF Total
<1>13. QED
  BY <1>1, <1>4, <1>9, <1>10, <1>11, <1>12 DEF Conserved

LEMMA ReleaseConserves ==
    ASSUME LpAssumption, BooksOK, BooksOK', Conserved, NEW r \in Debits, L!Release(r)
    PROVE  Conserved'
<1> DEFINE l == entry[r].lp
           a == entry[r].amount
<1>1. r \in Refs /\ entry[r].status = "pending"
  BY DEF Refs, L!Release
<1>2. l \in Lps /\ a \in Nat /\ entry[r] \in EntryRec
  BY <1>1, PendingIsDebit
<1>3. /\ entry' = [entry EXCEPT ![r].status = "failed"]
      /\ balance' = [balance EXCEPT ![l] = @ + a]
  BY DEF L!Release
<1>4. /\ entry'[r].amount = a /\ entry'[r].status = "failed"
      /\ \A q \in Refs : q # r => entry'[q] = entry[q]
  BY <1>1, <1>2, <1>3 DEF BooksOK, EntryRec
<1>5. /\ DOMAIN Held' = DOMAIN Held /\ DOMAIN Debited' = DOMAIN Debited
      /\ \A q \in Debits : q # r => Held'[q] = Held[q] /\ Debited'[q] = Debited[q]
      /\ Units(Entered)' = Units(Entered)
  BY <1>4, HeldMoves
<1>6. Held[r] = a /\ Held'[r] = 0 /\ Debited'[r] = Debited[r]
  BY <1>1, <1>4 DEF Held, Debited, Forceful, Amount
<1>7. balance'[l] = balance[l] + a /\ \A k \in Lps : k # l => balance'[k] = balance[k]
  BY <1>2, <1>3 DEF BooksOK
<1> HIDE DEF l, a
<1>8. /\ DOMAIN Held = Debits /\ DOMAIN Debited = Debits /\ DOMAIN balance = Lps /\ DOMAIN balance' = Lps
      /\ \A k \in Lps : balance[k] \in Nat
      /\ \A q \in Debits : Held[q] \in Nat
  BY EntryNumbers DEF BooksOK
<1>9. Debited' = Debited
  BY <1>5, <1>6, <1>8 DEF Debited
<1>10. Held[r] = Held'[r] + a /\ Held'[r] \in Nat
  BY <1>2, <1>6
<1>11. /\ IsFiniteSet(Units(Held)') /\ Total(Held) \in Nat /\ Total(Held)' \in Nat
       /\ Total(Held) = Total(Held)' + a
  BY <1>2, <1>5, <1>8, <1>10, TotalLess DEF Conserved
<1>12. /\ IsFiniteSet(Units(balance)') /\ Total(balance) \in Nat /\ Total(balance)' \in Nat
       /\ Total(balance)' = Total(balance) + a
  BY <1>2, <1>7, <1>8, TotalMore DEF Conserved
<1>13. Total(Entered)' = Total(Entered) /\ Units(Debited)' = Units(Debited)
  BY <1>5, <1>9 DEF Total, Units
<1>14. QED
  BY <1>2, <1>5, <1>11, <1>12, <1>13 DEF Conserved

LEMMA ConfirmConserves ==
    ASSUME LpAssumption, BooksOK, BooksOK', Conserved, NEW r \in Debits, L!Confirm(r)
    PROVE  Conserved'
<1>1. r \in Refs /\ entry[r].status = "pending"
  BY DEF Refs, L!Confirm
<1>2. entry[r] \in EntryRec
  BY <1>1, PendingIsDebit
<1>3. entry' = [entry EXCEPT ![r].status = "confirmed"] /\ balance' = balance
  BY DEF L!Confirm
<1>4. /\ entry'[r].amount = entry[r].amount /\ entry'[r].status = "confirmed"
      /\ \A q \in Refs : q # r => entry'[q] = entry[q]
  BY <1>1, <1>2, <1>3 DEF BooksOK, EntryRec
<1>5. /\ \A q \in Debits : q # r => Held'[q] = Held[q] /\ Debited'[q] = Debited[q]
      /\ Units(Entered)' = Units(Entered)
  BY <1>4, HeldMoves
<1>6. Held'[r] = Held[r] /\ Debited'[r] = Debited[r]
  BY <1>1, <1>4 DEF Held, Debited, Forceful, Amount
<1>7. Held' = Held /\ Debited' = Debited
  BY <1>5, <1>6 DEF Held, Debited
<1>8. /\ Units(Held)' = Units(Held) /\ Units(Debited)' = Units(Debited)
      /\ Units(balance)' = Units(balance)
  BY <1>3, <1>7 DEF Units
<1>9. QED
  BY <1>5, <1>8 DEF Conserved, Total

LEMMA LedgerConserves ==
    ASSUME LpAssumption, BooksOK, BooksOK', Conserved, [L!Next]_books
    PROVE  Conserved'
<1>1. CASE UNCHANGED books
  <2>1. Held' = Held /\ Debited' = Debited /\ Entered' = Entered /\ balance' = balance
    BY <1>1 DEF books, Held, Debited, Entered, Forceful, Amount
  <2>2. QED
    BY <2>1 DEF Conserved, Total, Units
<1>2. CASE L!Next
  BY <1>2, CreditConserves, ReserveConserves, ConfirmConserves, ReleaseConserves DEF L!Next, Sums
<1>3. QED
  BY <1>1, <1>2

LEMMA InitConserved == Init => Conserved
<1> SUFFICES ASSUME Init PROVE Conserved
  OBVIOUS
<1>1. /\ \A l \in Lps : balance[l] = 0
      /\ \A r \in Refs : entry[r].amount = 0
      /\ DOMAIN balance = Lps
  BY DEF Init, NoEntry
<1>2. \A r \in Debits : Held[r] = 0 /\ Debited[r] = 0
  BY <1>1 DEF Held, Debited, Amount, Refs
<1>3. \A d \in Deposits : Entered[d] = 0
  BY <1>1, DepositRef DEF Entered, Refs
<1>4. DOMAIN Held = Debits /\ DOMAIN Debited = Debits /\ DOMAIN Entered = Deposits
  BY DEF Held, Debited, Entered
<1>5. ASSUME NEW f, \A x \in DOMAIN f : f[x] = 0 PROVE Units(f) = {}
  BY <1>5 DEF Units
<1>6. Units(balance) = {} /\ Units(Held) = {} /\ Units(Debited) = {} /\ Units(Entered) = {}
  BY <1>1, <1>2, <1>3, <1>4, <1>5
<1>7. QED
  BY <1>6, FS_EmptySet DEF Conserved, Total

(* Deposits and withdrawals, which the dispatcher leaves alone. *)

LEMMA NotFills ==
    /\ \A r \in Cashouts \cup Credits : r \in Refs /\ r \notin Fills /\ \A o, n : r # Fill(o, n)
    /\ Cashouts \subseteq Debits /\ Debits = Fills \cup Cashouts
    /\ \A r \in Cashouts : \E i \in Withdrawals : r = Cashout(i)
    /\ \A i \in Withdrawals : Cashout(i) \in Cashouts
    /\ \A i \in Withdrawals, d \in Deposits : Cashout(i) # Deposit(d)
    /\ \A i, j : Cashout(i) = Cashout(j) <=> i = j
<1>1. ASSUME NEW r \in Cashouts \cup Credits
      PROVE  r \in Refs /\ r \notin Fills /\ \A o, n : r # Fill(o, n)
  <2>1. r[1] # "fill"
    BY DEF Cashouts, Credits
  <2>2. \A o, n : r # Fill(o, n)
    BY <2>1 DEF Fill
  <2>3. r \notin Fills
    BY <2>1 DEF Fills
  <2>4. QED
    BY <2>2, <2>3 DEF Refs, Debits
<1>2. Cashouts \subseteq Debits /\ Debits = Fills \cup Cashouts
  BY DEF Debits
<1>3. /\ \A r \in Cashouts : \E i \in Withdrawals : r = Cashout(i)
      /\ \A i \in Withdrawals : Cashout(i) \in Cashouts
  BY DEF Cashouts, Cashout
<1>4. /\ \A i \in Withdrawals, d \in Deposits : Cashout(i) # Deposit(d)
      /\ \A i, j : Cashout(i) = Cashout(j) <=> i = j
  BY DEF Cashout, Deposit
<1>5. QED
  BY <1>1, <1>2, <1>3, <1>4

LEMMA DispatcherApart ==
    ASSUME IInv, Dispatcher
    PROVE  /\ UNCHANGED <<request, received>> /\ disowned \subseteq disowned'
           /\ \A r \in Cashouts \cup Credits : entry'[r] = entry[r]
           /\ \A r \in Cashouts : rail'[r] = rail[r]
<1>0. entry \in [Refs -> EntryRec \cup {NoEntry}] /\ rail \in [Debits -> RailStates]
  BY DEF IInv, BooksOK, MoneyOK
<1>1. UNCHANGED <<request, received>>
  BY DEF Dispatcher, Handler, Expire, LpNetworkFallback, NoClaim, SubmitPayout, ReleaseLpFill, Poll,
         FinalizeLpFill, DeliverUsdc, Park, PersistDigest, ConfirmFill, SettleLpFill,
         SettlePaymentOrder, Match, Claim, Stop, FetchPending, FetchPayout, Within,
         DispatcherFrame, money, operator
<1>2. disowned \subseteq disowned'
  BY DEF Dispatcher, Handler, Expire, LpNetworkFallback, NoClaim, SubmitPayout, SubmitError,
         ReleaseLpFill, Poll, FinalizeLpFill, DeliverUsdc, Park, PersistDigest, ConfirmFill,
         SettleLpFill, SettlePaymentOrder, Match, Claim, Stop, FetchPending, FetchPayout, money, operator
<1>3. \/ UNCHANGED entry
      \/ \E o, n : \/ \E l, a, s : Insert(Fill(o, n), l, a, s)
                   \/ ReleaseTx(Fill(o, n)) \/ ConfirmTx(Fill(o, n))
  BY DEF Dispatcher, Handler, Expire, LpNetworkFallback, NoClaim, SubmitPayout, ReleaseLpFill, Poll,
         FinalizeLpFill, DeliverUsdc, Park, PersistDigest, ConfirmFill, SettleLpFill,
         SettlePaymentOrder, Match, Claim, ReserveTx, Stop, FetchPending, FetchPayout, Claimed, books, operator
<1>4. ASSUME NEW r \in Cashouts \cup Credits PROVE entry'[r] = entry[r]
  <2>1. r \in Refs /\ \A o, n : r # Fill(o, n)
    BY NotFills
  <2>2. QED
    BY <1>0, <1>3, <2>1 DEF Insert, ReleaseTx, ConfirmTx, books
<1>5. UNCHANGED rail \/ \E o, n : \E s : Accept(Fill(o, n), s)
  BY DEF Dispatcher, Handler, Expire, LpNetworkFallback, NoClaim, SubmitPayout, SubmitError,
         ReleaseLpFill, Poll, FinalizeLpFill, DeliverUsdc, Park, PersistDigest, ConfirmFill,
         SettleLpFill, SettlePaymentOrder, Match, Claim, Stop, FetchPending, FetchPayout, Claimed, money, operator
<1>6. ASSUME NEW r \in Cashouts PROVE rail'[r] = rail[r]
  <2>1. r \in Debits /\ \A o, n : r # Fill(o, n)
    BY NotFills
  <2>2. QED
    BY <1>0, <1>5, <2>1 DEF Accept
<1>7. QED
  BY <1>1, <1>2, <1>4, <1>6

\* A deposit is credited once, with what was received; a withdrawal that is submitted has its
\* debit, and one that is released was not made or is disowned.
Backed(d) ==
    /\ entry[Deposit(d)] # NoEntry =>
          received[d].lp # Nil /\ entry[Deposit(d)].amount = received[d].amount
    /\ received[d].lp = Nil => received[d].amount = 0

Requested(i) ==
    LET r == Cashout(i)
    IN  /\ Kept(r)
        /\ request[i].step = "submit" => rail[r] = "none" /\ Forceful(r)
        /\ request[i].step = "release" => rail[r] \in {"none", "failed"} \/ r \in disowned

Paying ==
    /\ \A d \in Deposits : Backed(d)
    /\ \A i \in Withdrawals : Requested(i)
    /\ IsFiniteSet(Units(Incoming))

LEMMA SameBacked ==
    ASSUME NEW d, Backed(d), entry'[Deposit(d)] = entry[Deposit(d)], received'[d] = received[d]
    PROVE  Backed(d)'
  BY DEF Backed, Deposit

LEMMA SameRequested ==
    ASSUME NEW i, Requested(i), disowned \subseteq disowned',
           entry'[Cashout(i)] = entry[Cashout(i)], rail'[Cashout(i)] = rail[Cashout(i)],
           request'[i] = request[i] \/ request'[i].step \notin {"submit", "release"}
    PROVE  Requested(i)'
  BY DEF Requested, Kept, Forceful, Cashout

LEMMA SameIncoming ==
    ASSUME IsFiniteSet(Units(Incoming)), UNCHANGED received
    PROVE  IsFiniteSet(Units(Incoming))'
<1>1. Incoming' = Incoming
  BY DEF Incoming
<1>2. Units(Incoming)' = Units(Incoming)
  BY <1>1 DEF Units
<1>3. QED
  BY <1>2

\* A step of one withdrawal.
LEMMA WithdrawalPaying ==
    ASSUME IInv, Paying, NEW i \in Withdrawals, UNCHANGED received, disowned \subseteq disowned',
           \A r \in Refs : r # Cashout(i) => entry'[r] = entry[r],
           \A r \in Debits : r # Cashout(i) => rail'[r] = rail[r],
           \A j \in Withdrawals : j # i => request'[j] = request[j],
           Requested(i)'
    PROVE  Paying'
<1>1. ASSUME NEW d \in Deposits PROVE Backed(d)'
  <2>1. Deposit(d) \in Refs /\ Deposit(d) # Cashout(i) /\ Backed(d)
    BY DepositRef, NotFills DEF Refs, Paying
  <2>2. QED
    BY <2>1, SameBacked
<1>2. ASSUME NEW j \in Withdrawals, j # i PROVE Requested(j)'
  <2>1. Cashout(j) \in Debits /\ Cashout(j) \in Refs /\ Cashout(j) # Cashout(i) /\ Requested(j)
    BY <1>2, NotFills DEF Paying, Refs
  <2>2. QED
    BY <1>2, <2>1, SameRequested
<1>3. IsFiniteSet(Units(Incoming))'
  BY SameIncoming DEF Paying
<1>4. QED
  BY <1>1, <1>2, <1>3 DEF Paying

LEMMA RequestWent ==
    ASSUME IInv, NEW i \in Withdrawals, NEW s, RequestGoes(i, s)
    PROVE  request'[i].step = s /\ \A j \in Withdrawals : j # i => request'[j] = request[j]
<1>1. request \in [Withdrawals -> RequestRec]
  BY DEF IInv, RequestsOK
<1>2. QED
  BY <1>1 DEF RequestGoes, RequestRec

\* What the transactions and the rail do to other references, and to their own.
LEMMA OneEntry ==
    ASSUME IInv, NEW r \in Refs,
           \/ UNCHANGED books \/ (\E l, a, s : Insert(r, l, a, s)) \/ ReleaseTx(r) \/ ConfirmTx(r)
    PROVE  \A q \in Refs : q # r => entry'[q] = entry[q]
<1>1. entry \in [Refs -> EntryRec \cup {NoEntry}]
  BY DEF IInv, BooksOK
<1>2. QED
  BY <1>1 DEF Insert, ReleaseTx, ConfirmTx, books

LEMMA OneTransfer ==
    ASSUME IInv, NEW r \in Debits, NEW s, Accept(r, s)
    PROVE  /\ \A q \in Debits : q # r => rail'[q] = rail[q]
           /\ rail'[r] = IF rail[r] = "none" THEN s ELSE rail[r]
<1>1. rail \in [Debits -> RailStates]
  BY DEF IInv, MoneyOK
<1>2. QED
  BY <1>1 DEF Accept

LEMMA CashoutEnds ==
    ASSUME IInv, NEW r \in Debits
    PROVE  /\ ReleaseTx(r) => (entry[r] # NoEntry => entry'[r] # NoEntry)
           /\ ConfirmTx(r) => /\ entry[r] # NoEntry => entry'[r] # NoEntry
                              /\ Forceful(r) => Forceful(r)'
<1>0. r \in Refs /\ entry \in [Refs -> EntryRec \cup {NoEntry}]
  BY DEF Refs, IInv, BooksOK
<1>1. CASE entry[r].status = "pending"
  <2>1. entry[r] \in EntryRec
    BY <1>0, <1>1, LpAssumption, PendingIsDebit DEF IInv
  <2>2. \A s : entry' = [entry EXCEPT ![r].status = s] => entry'[r].status = s
    BY <1>0, <2>1 DEF EntryRec
  <2>3. ReleaseTx(r) => entry'[r].status = "failed"
    BY <1>1, <2>2 DEF ReleaseTx
  <2>4. ConfirmTx(r) => entry'[r].status = "confirmed"
    BY <1>0, <1>1, <2>2 DEF ConfirmTx
  <2>5. QED
    BY <2>3, <2>4 DEF Forceful, NoEntry
<1>2. CASE entry[r].status # "pending"
  BY <1>2 DEF ReleaseTx, ConfirmTx, Forceful, books
<1>3. QED
  BY <1>1, <1>2

LEMMA ReservePaying == ASSUME IInv, Paying, NEW i \in Withdrawals, Reserve(i) PROVE Paying'
<1> DEFINE r == Cashout(i)
<1>0. r \in Debits /\ r \in Refs /\ Requested(i)
  BY NotFills DEF Refs, Paying
<1>1. UNCHANGED <<received, rail, disowned>>
  BY DEF Reserve, AccountsFrame, operator
<1>2. CASE ReserveTx(r, request[i].lp, request[i].amount) /\ RequestGoes(i, "submit")
  <2>1. Insert(r, request[i].lp, request[i].amount, "pending") /\ entry[r] = NoEntry
    BY <1>2 DEF ReserveTx, Insert
  <2>2. entry'[r].status = "pending"
    BY <1>0, <2>1 DEF Insert, IInv, BooksOK
  <2>3. rail[r] = "none"
    BY <1>0, <2>1 DEF Requested, Kept
  <2>4. request'[i].step = "submit" /\ \A j \in Withdrawals : j # i => request'[j] = request[j]
    BY <1>2, RequestWent
  <2>5. Requested(i)'
    BY <1>1, <2>2, <2>3, <2>4 DEF Requested, Kept, Forceful, Cashout, NoEntry
  <2>6. \A q \in Refs : q # r => entry'[q] = entry[q]
    BY <1>0, <2>1, OneEntry
  <2>7. QED
    BY <1>1, <2>4, <2>5, <2>6, WithdrawalPaying
<1>3. CASE UNCHANGED books /\ RequestGoes(i, "done")
  <2>1. request'[i].step = "done" /\ \A j \in Withdrawals : j # i => request'[j] = request[j]
    BY <1>3, RequestWent
  <2>2. Requested(i)'
    BY <1>0, <1>1, <1>3, <2>1, SameRequested DEF books
  <2>3. \A q \in Refs : entry'[q] = entry[q]
    BY <1>3 DEF books
  <2>4. QED
    BY <1>1, <2>1, <2>2, <2>3, WithdrawalPaying
<1>4. QED
  BY <1>2, <1>3 DEF Reserve

LEMMA SubmitPaying == ASSUME IInv, Paying, NEW i \in Withdrawals, SubmitWithdrawal(i) PROVE Paying'
<1> DEFINE r == Cashout(i)
<1>0. r \in Debits /\ Requested(i)
  BY NotFills DEF Paying
<1>1. UNCHANGED <<received, entry>> /\ rail[r] = "none" /\ Forceful(r) /\ disowned \subseteq disowned'
  BY <1>0 DEF SubmitWithdrawal, SubmitError, AccountsFrame, books, Requested, operator
<1>2. entry[r] # NoEntry
  BY <1>1 DEF Forceful, NoEntry
<1>3. \A q \in Debits : q # r => rail'[q] = rail[q]
  BY <1>0, OneTransfer DEF SubmitWithdrawal, SubmitError
<1>4. /\ \/ request'[i].step = "done" /\ rail'[r] = "processing"
         \/ /\ request'[i].step = "release"
            /\ rail'[r] = "none" \/ r \in disowned'
      /\ \A j \in Withdrawals : j # i => request'[j] = request[j]
  <2>1. CASE Accept(r, "processing") /\ RequestGoes(i, "done")
    BY <1>0, <1>1, <2>1, OneTransfer, RequestWent
  <2>2. CASE SubmitError(r) /\ RequestGoes(i, "release")
    BY <1>1, <2>2, RequestWent DEF SubmitError
  <2>3. QED
    BY <2>1, <2>2 DEF SubmitWithdrawal
<1>5. Requested(i)'
  BY <1>1, <1>2, <1>4 DEF Requested, Kept, Forceful, Cashout
<1>6. QED
  BY <1>1, <1>3, <1>4, <1>5, WithdrawalPaying

\* The last steps of a withdrawal, and the bank's word on it.
LEMMA EndPaying ==
    ASSUME IInv, Paying, NEW i \in Withdrawals,
           ReleaseWithdrawal(i) \/ RequestStops(i) \/ HandleWithdrawalFinality(i)
    PROVE  Paying'
<1> DEFINE r == Cashout(i)
<1>0. r \in Debits /\ r \in Refs /\ Requested(i)
  BY NotFills DEF Refs, Paying
<1>1. UNCHANGED <<received, rail, disowned>>
  BY DEF ReleaseWithdrawal, RequestStops, HandleWithdrawalFinality, AccountsFrame, operator
<1>2. \A q \in Refs : q # r => entry'[q] = entry[q]
  BY <1>0, OneEntry DEF ReleaseWithdrawal, RequestStops, HandleWithdrawalFinality
<1>3. CASE ReleaseWithdrawal(i)
  <2>1. request'[i].step = "done" /\ \A j \in Withdrawals : j # i => request'[j] = request[j]
    BY <1>3, RequestWent DEF ReleaseWithdrawal
  <2>2. rail[r] \in {"none", "failed"} \/ r \in disowned
    BY <1>0, <1>3 DEF Requested, ReleaseWithdrawal
  <2>3. entry[r] # NoEntry => entry'[r] # NoEntry
    BY <1>0, <1>3, CashoutEnds DEF ReleaseWithdrawal
  <2>4. Requested(i)'
    BY <1>0, <1>1, <2>1, <2>2, <2>3 DEF Requested, Kept, Cashout
  <2>5. QED
    BY <1>1, <1>2, <2>1, <2>4, WithdrawalPaying
<1>4. CASE RequestStops(i)
  <2>1. request'[i].step = "done" /\ \A j \in Withdrawals : j # i => request'[j] = request[j]
    BY <1>4, RequestWent DEF RequestStops
  <2>2. Requested(i)'
    BY <1>0, <1>1, <1>4, <2>1, SameRequested DEF RequestStops, books
  <2>3. QED
    BY <1>1, <1>2, <2>1, <2>2, WithdrawalPaying
<1>5. CASE HandleWithdrawalFinality(i)
  <2>1. UNCHANGED request
    BY <1>5 DEF HandleWithdrawalFinality
  <2>2. \/ rail[r] = "success" /\ (Forceful(r) => Forceful(r)')
        \/ rail[r] = "failed"
    BY <1>0, <1>5, CashoutEnds DEF HandleWithdrawalFinality
  <2>3. entry[r] # NoEntry => entry'[r] # NoEntry
    BY <1>0, <1>5, CashoutEnds DEF HandleWithdrawalFinality
  <2>4. r' = r
    BY DEF Cashout
  <2> HIDE DEF r
  <2>5. Kept(r)'
    BY <1>0, <1>1, <2>2, <2>3, <2>4 DEF Requested, Kept, r
  <2>6. Requested(i)'
    BY <1>0, <1>1, <2>1, <2>2, <2>4, <2>5 DEF Requested, r
  <2>7. QED
    BY <1>1, <1>2, <2>1, <2>6, WithdrawalPaying DEF r
<1>6. QED
  BY <1>3, <1>4, <1>5

LEMMA ArrivesPaying ==
    ASSUME IInv, Paying, NEW d \in Deposits, NEW l \in Lps, NEW a \in Amounts, DepositArrives(d, l, a)
    PROVE  Paying'
<1>0. a \in Nat /\ l # Nil /\ \A e \in Deposits : Incoming[e] = received[e].amount
  BY LpAssumption DEF LpAssumption, Incoming
<1>1. /\ UNCHANGED <<entry, request, rail, disowned>>
      /\ received[d].lp = Nil
      /\ received' = [received EXCEPT ![d] = [lp |-> l, amount |-> a]]
  BY DEF DepositArrives, books, operator
<1>2. /\ received'[d].lp = l /\ received'[d].amount = a
      /\ \A e \in Deposits : e # d => received'[e] = received[e]
  BY <1>1 DEF IInv, ReceivedOK
<1>3. ASSUME NEW e \in Deposits PROVE Backed(e)'
  <2>1. CASE e # d
    BY <1>1, <1>2, <2>1, SameBacked DEF Paying
  <2>2. CASE e = d
    BY <1>0, <1>1, <1>2, <2>2 DEF Paying, Backed, Deposit
  <2>3. QED
    BY <2>1, <2>2
<1>4. \A i \in Withdrawals : Requested(i)'
  BY <1>1, SameRequested DEF Paying
<1>5. received[d].amount = 0
  BY <1>1 DEF Paying, Backed
<1>6. Incoming[d] = 0 /\ Incoming'[d] = 0 + a
      /\ \A e \in DOMAIN Incoming : e # d => Incoming'[e] = Incoming[e]
  BY <1>0, <1>2, <1>5 DEF Incoming
<1>7. DOMAIN Incoming' = DOMAIN Incoming /\ d \in DOMAIN Incoming
  BY DEF Incoming
<1>8. IsFiniteSet(Units(Incoming)')
  <2>1. Incoming'[d] = Incoming[d] + a /\ Incoming[d] \in Nat
    BY <1>6
  <2>2. IsFiniteSet(Units(Incoming))
    BY DEF Paying
  <2>3. QED
    BY <1>0, <1>6, <1>7, <2>1, <2>2, TotalMore
<1>9. QED
  BY <1>3, <1>4, <1>8 DEF Paying

LEMMA HandleDepositPaying == ASSUME IInv, Paying, NEW d \in Deposits, HandleDeposit(d) PROVE Paying'
<1> DEFINE r == Deposit(d)
<1>0. r \in Refs
  BY DepositRef DEF Refs
<1>1. /\ UNCHANGED <<received, request, rail, disowned>>
      /\ received[d].lp # Nil
      /\ Insert(r, received[d].lp, received[d].amount, "confirmed")
  BY DEF HandleDeposit, money, operator
<1>2. \A q \in Refs : q # r => entry'[q] = entry[q]
  BY <1>0, <1>1, OneEntry
<1>3. entry'[r].amount = received[d].amount
  BY <1>0, <1>1 DEF Insert, IInv, BooksOK
<1>4. ASSUME NEW e \in Deposits PROVE Backed(e)'
  <2>1. CASE e # d
    <3>1. Deposit(e) \in Refs /\ Deposit(e) # r
      BY <2>1, DepositRef, DepositIs DEF Refs
    <3>2. QED
      BY <1>1, <1>2, <3>1, SameBacked DEF Paying
  <2>2. CASE e = d
    BY <1>1, <1>3, <2>2 DEF Paying, Backed, Deposit
  <2>3. QED
    BY <2>1, <2>2
<1>5. ASSUME NEW i \in Withdrawals PROVE Requested(i)'
  <2>1. Cashout(i) \in Refs /\ Cashout(i) # r
    BY NotFills
  <2>2. QED
    BY <1>1, <1>2, <2>1, SameRequested DEF Paying
<1>6. QED
  BY <1>1, <1>4, <1>5, SameIncoming DEF Paying

\* A step that leaves deposits, withdrawals and what the bank made of them alone.
LEMMA SamePaying ==
    ASSUME IInv, Paying, UNCHANGED received, disowned \subseteq disowned',
           \A r \in Cashouts \cup Credits : entry'[r] = entry[r],
           \A r \in Cashouts : rail'[r] = rail[r],
           \A i \in Withdrawals : request'[i] = request[i] \/ request'[i].step \notin {"submit", "release"}
    PROVE  Paying'
<1>1. \A d \in Deposits : Backed(d)'
  BY DepositRef, SameBacked DEF Paying
<1>2. \A i \in Withdrawals : Requested(i)'
  BY NotFills, SameRequested DEF Paying
<1>3. QED
  BY <1>1, <1>2, SameIncoming DEF Paying

LEMMA RailPaying == ASSUME IInv, Paying, NEW r \in Debits, RailResolves(r) PROVE Paying'
<1>1. UNCHANGED <<entry, request, received, disowned>> /\ rail[r] = "processing"
  BY DEF RailResolves, books, operator
<1>2. /\ rail'[r] \in {"success", "failed"}
      /\ \A q \in Debits : q # r => rail'[q] = rail[q]
  BY DEF RailResolves, IInv, MoneyOK, operator
<1>3. ASSUME NEW i \in Withdrawals PROVE Requested(i)'
  <2>1. Cashout(i) \in Debits /\ Requested(i)
    BY NotFills DEF Paying
  <2>2. CASE Cashout(i) # r
    BY <1>1, <1>2, <2>1, <2>2, SameRequested
  <2>3. CASE Cashout(i) = r
    BY <1>1, <1>2, <2>1, <2>3 DEF Requested, Kept, Forceful, Cashout
  <2>4. QED
    BY <2>2, <2>3
<1>4. \A d \in Deposits : Backed(d)'
  BY <1>1, SameBacked DEF Paying
<1>5. QED
  BY <1>1, <1>3, <1>4, SameIncoming DEF Paying

LEMMA StepPaying == IInv /\ Paying /\ [Next]_vars => Paying'
<1> SUFFICES ASSUME IInv, Paying, [Next]_vars PROVE Paying'
  OBVIOUS
<1>1. CASE Dispatcher
  BY <1>1, DispatcherApart, SamePaying
<1>2. ASSUME \/ \E l \in Lps : SetStatus(l) \/ UpdateAccount(l)
             \/ \E b \in Banks : SwitchRail(b)
      PROVE  Paying'
  <2>1. UNCHANGED <<received, disowned, entry, rail, request>>
    BY <1>2 DEF SetStatus, UpdateAccount, SwitchRail, books, money, operator
  <2>2. QED
    BY <2>1, SamePaying
<1>3. ASSUME NEW i \in Withdrawals, NEW l \in Lps, NEW a \in Amounts, Withdraw(i, l, a) PROVE Paying'
  <2>1. UNCHANGED <<received, disowned, entry, rail>>
    BY <1>3 DEF Withdraw, AccountsFrame, books, operator
  <2>2. \A j \in Withdrawals : request'[j] = request[j] \/ request'[j].step \notin {"submit", "release"}
    BY <1>3 DEF Withdraw, IInv, RequestsOK
  <2>3. QED
    BY <2>1, <2>2, SamePaying
<1>4. CASE Accounts
  BY <1>2, <1>3, <1>4, ArrivesPaying, HandleDepositPaying, ReservePaying, SubmitPaying, EndPaying
  DEF Accounts
<1>5. CASE UNCHANGED vars
  <2>1. UNCHANGED <<received, disowned, entry, rail, request>>
    BY <1>5 DEF vars, books, money, operator
  <2>2. QED
    BY <2>1, SamePaying
<1>6. QED
  BY <1>1, <1>4, <1>5, RailPaying DEF Next

LEMMA InitPaying == Init => Paying
<1> SUFFICES ASSUME Init PROVE Paying
  OBVIOUS
<1>1. \A d \in Deposits : Deposit(d) \in Refs
  BY DepositRef DEF Refs
<1>2. \A d \in Deposits : Backed(d)
  BY <1>1 DEF Init, Backed
<1>3. \A i \in Withdrawals : Requested(i)
  BY NotFills DEF Init, Requested, Kept
<1>4. \A d \in Deposits : Incoming[d] = 0
  BY DEF Init, Incoming
<1>5. DOMAIN Incoming = Deposits
  BY DEF Incoming
<1>6. Units(Incoming) = {}
  BY <1>4, <1>5 DEF Units
<1>7. QED
  BY <1>2, <1>3, <1>6, FS_EmptySet DEF Paying

\* What was made or is in force, but for the disowned, is held.
LEMMA PaidIsHeld ==
    ASSUME IInv, PayInv, Conserved, Paying
    PROVE  /\ Worth(InForce(Debits) \ PaidOut) + Worth(PaidOut) <= Total(Held) + Worth(disowned \cap PaidOut)
           /\ Worth(InForce(Debits) \ PaidOut) \in Nat /\ Worth(PaidOut) \in Nat
           /\ Total(Held) \in Nat /\ Worth(disowned \cap PaidOut) \in Nat
<1> DEFINE Part(S) == Units([r \in S |-> Amount(r)])
           A == Part(InForce(Debits) \ PaidOut)
           B == Part(PaidOut)
           C == Part(disowned \cap PaidOut)
           H == Units(Held)
           D == Units(Debited)
<1>1. ASSUME NEW S, NEW r, NEW k
      PROVE  <<r, k>> \in Part(S) <=> r \in S /\ k \in 1 .. Amount(r)
  <2> DEFINE f == [q \in S |-> Amount(q)]
  <2>1. <<r, k>> \in Units(f) <=> r \in DOMAIN f /\ k \in 1 .. f[r]
    BY UnitIs
  <2>2. QED
    BY <2>1
<1>2. ASSUME NEW S, NEW u \in Part(S)
      PROVE  \E r \in S : \E k \in 1 .. Amount(r) : u = <<r, k>>
  <2> DEFINE f == [q \in S |-> Amount(q)]
  <2>1. \E r \in DOMAIN f : \E k \in 1 .. f[r] : u = <<r, k>>
    BY <1>2, UnitIn
  <2>2. QED
    BY <2>1
<1> HIDE DEF Part
<1>3. ASSUME NEW r \in Debits, NEW k PROVE <<r, k>> \in H <=> Forceful(r) /\ k \in 1 .. Amount(r)
  <2>1. <<r, k>> \in H <=> r \in DOMAIN Held /\ k \in 1 .. Held[r]
    BY UnitIs
  <2>2. QED
    BY <2>1 DEF Held
<1>4. PaidOut \subseteq Debits /\ InForce(Debits) \subseteq Debits /\ D = Part(Debits)
  BY DEF PaidOut, InForce, Part, Debited
<1>5. A \subseteq D /\ B \subseteq D /\ C \subseteq D
  BY <1>1, <1>2, <1>4
<1>6. IsFiniteSet(A) /\ IsFiniteSet(B) /\ IsFiniteSet(C) /\ IsFiniteSet(H)
  BY <1>5, FS_Subset DEF Conserved
<1>7. A \cap B = {}
  BY <1>1, <1>2
<1>8. \A r \in PaidOut : r \in disowned \/ Forceful(r)
  <2>1. ASSUME NEW r \in Debits PROVE Kept(r)
    BY NotFills DEF PayInv, Paying, Requested
  <2>2. QED
    BY <2>1 DEF PaidOut, Kept
<1>9. A \cup B \subseteq H \cup C
  <2>1. ASSUME NEW u \in A PROVE u \in H
    <3>1. PICK r \in InForce(Debits) \ PaidOut : \E k \in 1 .. Amount(r) : u = <<r, k>>
      BY <1>2
    <3>2. r \in Debits /\ Forceful(r)
      BY DEF InForce, Forceful
    <3>3. QED
      BY <1>3, <3>1, <3>2
  <2>2. ASSUME NEW u \in B PROVE u \in H \cup C
    <3>1. PICK r \in PaidOut : \E k \in 1 .. Amount(r) : u = <<r, k>>
      BY <1>2
    <3>2. CASE r \in disowned
      BY <1>1, <3>1, <3>2
    <3>3. CASE Forceful(r)
      BY <1>3, <1>4, <3>1, <3>3
    <3>4. QED
      BY <1>8, <3>2, <3>3
  <2>3. QED
    BY <2>1, <2>2
<1> HIDE DEF A, B, C, H, D
<1>10. Cardinality(A \cup B) = Cardinality(A) + Cardinality(B) - Cardinality({})
  BY <1>6, <1>7, FS_Union
<1>11. /\ IsFiniteSet(H \cup C)
       /\ Cardinality(H \cup C) = Cardinality(H) + Cardinality(C) - Cardinality(H \cap C)
  BY <1>6, FS_Union
<1>12. Cardinality(A \cup B) <= Cardinality(H \cup C)
  BY <1>9, <1>11, FS_Subset
<1>13. IsFiniteSet(H \cap C)
  BY <1>6, FS_Subset
<1>14. /\ Cardinality(A) \in Nat /\ Cardinality(B) \in Nat /\ Cardinality(C) \in Nat
       /\ Cardinality(H) \in Nat /\ Cardinality(H \cap C) \in Nat
       /\ Cardinality({}) = 0
  BY <1>6, <1>13, FS_CardinalityType, FS_EmptySet
<1>15. Cardinality(A) + Cardinality(B) <= Cardinality(H) + Cardinality(C)
  BY <1>10, <1>11, <1>12, <1>14
<1>16. /\ Worth(InForce(Debits) \ PaidOut) = Cardinality(A) /\ Worth(PaidOut) = Cardinality(B)
       /\ Worth(disowned \cap PaidOut) = Cardinality(C) /\ Total(Held) = Cardinality(H)
  BY DEF Worth, Total, A, B, C, H, Part
<1>17. QED
  BY <1>14, <1>15, <1>16

\* The LPs' side of route_a_lp_network.go's "pooled NGN == sum of LP ledger balances", for any
\* number of LPs, orders, deposits, withdrawals and dispatchers: what LPs may spend, what is
\* reserved for them and what was paid out for them is what they deposited, but for the
\* transfers the code disowned.
THEOREM DepositsCoverHolds == Spec => []DepositsCover
<1>1. IInv /\ PayInv /\ Conserved /\ Paying => DepositsCover
  <2> SUFFICES ASSUME IInv, PayInv, Conserved, Paying PROVE DepositsCover
    OBVIOUS
  <2>1. /\ \A d \in DOMAIN Entered :
              /\ Entered[d] \in Nat
              /\ Entered[d] = 0 \/ (d \in DOMAIN Incoming /\ Incoming[d] \in Nat /\ Entered[d] <= Incoming[d])
    <3>1. ASSUME NEW d \in Deposits
          PROVE  /\ Entered[d] \in Nat
                 /\ Entered[d] = 0 \/ (Incoming[d] \in Nat /\ Entered[d] <= Incoming[d])
      <4>1. Entered[d] \in Nat
        BY LpAssumption, EntryNumbers DEF IInv
      <4>2. Entered[d] = 0 \/ Entered[d] = Incoming[d]
        BY DEF Paying, Backed, Entered, Incoming, NoEntry
      <4>3. QED
        BY <4>1, <4>2
    <3>2. DOMAIN Entered = Deposits /\ DOMAIN Incoming = Deposits
      BY DEF Entered, Incoming
    <3>3. QED
      BY <3>1, <3>2
  <2>2. Total(Entered) \in Nat /\ Total(Incoming) \in Nat /\ Total(Entered) <= Total(Incoming)
    BY <2>1, TotalFewer DEF Paying
  <2>3. Total(balance) \in Nat /\ Total(balance) + Total(Held) = Total(Entered)
    BY FS_CardinalityType DEF Conserved, Total
  <2>4. Total(balance) + Worth(InForce(Debits) \ PaidOut) + Worth(PaidOut)
            <= Total(Incoming) + Worth(disowned \cap PaidOut)
    BY <2>2, <2>3, PaidIsHeld
  <2>5. QED
    BY <2>4 DEF DepositsCover, Incoming
<1>2. Init => PayInv /\ Conserved /\ Paying
  BY InitPay, InitConserved, InitPaying
<1>3. IInv /\ PayInv /\ Paying /\ [Next]_vars => PayInv' /\ Paying'
  BY StepPay, StepPaying
<1>4. IInv /\ IInv' /\ Conserved /\ [Next]_vars => Conserved'
  BY LpAssumption, StepGood, LedgerConserves DEF Good, IInv
<1>5. Spec => [](PayInv /\ Conserved /\ Paying)
  BY <1>2, <1>3, <1>4, Invariance, PTL DEF Spec
<1>6. QED
  BY <1>1, <1>5, Invariance, PTL

-----------------------------------------------------------------------------
(***************************************************************************)
(* One delivery per order, but for the faults.  A handler on its way to    *)
(* the USDC transfer works on an order that is open: dispatching, with no  *)
(* digest and not parked.  While nobody records a transfer, an open order  *)
(* has at most one delivery for each fault; the one that is being recorded *)
(* closes it.  Where no handlers overlap, the deliveries of an order are   *)
(* all under the reference in its row, which turns to another one only     *)
(* while there are none.                                                   *)
(***************************************************************************)
Undelivered(o) == \A n \in Attempts : delivered[Fill(o, n)] = 0

Open(o) == row[o].status = "dispatching" /\ ~row[o].digest /\ ~row[o].parked

Recording(w, o) == job[w].order = o /\ job[w].step \in {"persist", "park"}

Delivered(o) ==
    /\ \A n \in Attempts : delivered[Fill(o, n)] > 0 =>
           row[o].attempt = n /\ row[o].status \in {"dispatching", "settled"}
    /\ row[o].status = "pending" => ~row[o].parked
    /\ \A n \in Attempts : delivered[Fill(o, n)] <= 1 + faults
    /\ Open(o) /\ (\A w \in Workers : ~Recording(w, o)) =>
           \A n \in Attempts : delivered[Fill(o, n)] <= faults

Minding(w) ==
    /\ job[w].step \in {"submit", "release", "poll", "load", "deliver"} => Open(job[w].order)
    /\ job[w].step \in {"submit", "release"} => Undelivered(job[w].order)

DInv == ~overlapped => (\A o \in Orders : Delivered(o)) /\ (\A w \in Workers : Minding(w))

\* An order to which nothing is delivered, and which nobody leaves open with a transfer unrecorded.
LEMMA KeepsDelivered ==
    ASSUME IInv, NEW o \in Orders, Delivered(o), delivered' = delivered,
           faults' \in Nat, faults' >= faults,
           row'[o].attempt = row[o].attempt,
           \/ row'[o].status = row[o].status
           \/ row[o].status = "dispatching" /\ row'[o].status = "settled"
           \/ row[o].status = "pending" /\ row'[o].status = "failed",
           row'[o].status = "pending" => row'[o].parked = row[o].parked,
           Open(o)' => Open(o),
           \/ faults' > faults \/ ~Open(o)'
           \/ \A w \in Workers : Recording(w, o) => Recording(w, o)'
    PROVE  Delivered(o)'
<1>1. \A n \in Attempts : delivered[Fill(o, n)] \in Nat /\ Fill(o, n)' = Fill(o, n)
  BY FillsAre DEF IInv, MoneyOK, Fill
<1>2. faults \in Nat
  BY DEF IInv, RestOK
<1>3. ASSUME NEW n \in Attempts, delivered[Fill(o, n)] > 0
      PROVE  row'[o].attempt = n /\ row'[o].status \in {"dispatching", "settled"}
  BY <1>3 DEF Delivered
<1>4. row'[o].status = "pending" => ~row'[o].parked
  BY DEF Delivered
<1>5. \A n \in Attempts : delivered[Fill(o, n)] <= 1 + faults'
  BY <1>1, <1>2 DEF Delivered
<1>6. ASSUME Open(o)', \A w \in Workers : ~Recording(w, o)', NEW n \in Attempts
      PROVE  delivered[Fill(o, n)] <= faults'
  <2>1. CASE faults' > faults
    BY <1>1, <1>2, <2>1 DEF Delivered
  <2>2. CASE \A w \in Workers : Recording(w, o) => Recording(w, o)'
    BY <1>1, <1>2, <1>6, <2>2 DEF Delivered
  <2>3. QED
    BY <1>6, <2>1, <2>2
<1>7. QED
  BY <1>1, <1>3, <1>4, <1>5, <1>6 DEF Delivered

\* A handler's step, where it is alone.
LEMMA HandlerD ==
    ASSUME IInv, XInv, DInv, NEW w \in Workers, job[w].step # "idle",
           \A v \in Workers : v # w => job'[v] = job[v], overlapped' = overlapped,
           ~overlapped => (\A o \in Orders : Delivered(o)') /\ Minding(w)'
    PROVE  DInv'
<1>1. ASSUME ~overlapped, NEW v \in Workers, v # w PROVE Minding(v)'
  BY <1>1 DEF XInv, Solo, Minding
<1>2. QED
  BY <1>1 DEF DInv

\* A step that writes no row and delivers nothing, and records nothing unless it is a fault.
LEMMA GoesD ==
    ASSUME IInv, XInv, DInv, NEW w \in Workers, job[w].step # "idle",
           \A v \in Workers : v # w => job'[v] = job[v],
           UNCHANGED <<overlapped, row, delivered>>, faults' \in Nat, faults' >= faults,
           faults' > faults \/ job[w].step \notin {"persist", "park"},
           ~overlapped => Minding(w)'
    PROVE  DInv'
<1>1. ASSUME ~overlapped, NEW o \in Orders PROVE Delivered(o)'
  <2>1. faults' > faults \/ \A v \in Workers : Recording(v, o) => Recording(v, o)'
    BY DEF Recording
  <2>2. Open(o)' => Open(o)
    BY DEF Open
  <2>3. QED
    BY <1>1, <2>1, <2>2, KeepsDelivered DEF DInv
<1>2. QED
  BY <1>1, HandlerD

LEMMA QuietD ==
    ASSUME IInv, XInv, DInv, NEW w \in Workers,
           \/ NoClaim(w) \/ SettlePaymentOrder(w) \/ ConfirmFill(w) \/ Stop(w)
           \/ \E l \in Lps : Match(w, l)
    PROVE  DInv'
<1>1. /\ job[w].step # "idle" /\ UNCHANGED <<overlapped, row, delivered>>
      /\ faults' = faults + 1 \/ (faults' = faults /\ job[w].step \notin {"persist", "park"})
  BY DEF NoClaim, SettlePaymentOrder, ConfirmFill, Stop, Match, Within, operator
<1>2. faults' \in Nat /\ faults' >= faults
      /\ (faults' > faults \/ job[w].step \notin {"persist", "park"})
  BY <1>1 DEF IInv, RestOK
<1>3. /\ job'[w].step \in {"idle", "claim", "settle"}
      /\ \A v \in Workers : v # w => job'[v] = job[v]
  <2>1. CASE \E l \in Lps : Match(w, l)
    BY <2>1 DEF Match, JobRec, IInv, JobsOK
  <2>2. CASE ~\E l \in Lps : Match(w, l)
    <3>1. Idle(w) \/ Go(w, "settle")
      BY <2>2 DEF NoClaim, SettlePaymentOrder, ConfirmFill, Stop
    <3>2. QED
      BY <3>1, Moves, Rests DEF Steps
  <2>3. QED
    BY <2>1, <2>2
<1>4. Minding(w)'
  BY <1>3 DEF Minding
<1>5. QED
  BY <1>1, <1>2, <1>3, <1>4, GoesD

\* The answers of the bank: a transfer that failed has no delivery, whatever the reference.
LEMMA AnswerD ==
    ASSUME IInv, XInv, DInv, NEW w \in Workers, SubmitPayout(w) \/ Poll(w)
    PROVE  DInv'
<1>1. /\ job[w].step \in {"submit", "poll"} /\ UNCHANGED <<overlapped, row, delivered, faults>>
  BY DEF SubmitPayout, Poll, Within, operator
<1>2. CASE Idle(w)
  <2>1. job'[w].step = "idle" /\ \A v \in Workers : v # w => job'[v] = job[v]
    BY <1>2, Rests
  <2>2. Minding(w)'
    BY <2>1 DEF Minding
  <2>3. QED
    BY <1>1, <2>1, <2>2, GoesD DEF IInv, RestOK
<1>3. ASSUME NEW s \in {"load", "release"}, Go(w, s),
             s = "release" => job[w].step = "submit" \/ rail[Claimed(w)] = "failed"
      PROVE  DInv'
  <2>1. /\ job'[w].step = s /\ job'[w].order = job[w].order
        /\ \A v \in Workers : v # w => job'[v] = job[v]
    BY <1>3, Moves DEF Steps
  <2>2. ASSUME ~overlapped PROVE Minding(w)'
    <3>1. Open(job[w].order) /\ (job[w].step = "submit" => Undelivered(job[w].order))
      BY <1>1, <2>2 DEF DInv, Minding
    <3>2. CASE s = "load"
      BY <1>1, <2>1, <3>1, <3>2 DEF Minding, Open
    <3>3. CASE s = "release"
      <4>1. Undelivered(job[w].order)
        <5>1. CASE job[w].step = "submit"
          BY <3>1, <5>1
        <5>2. CASE job[w].step = "poll" /\ rail[Claimed(w)] = "failed"
          <6>1. /\ row[job[w].order].attempt = job[w].attempt
                /\ \A f \in Fills : delivered[f] > 0 => rail[f] = "success"
            BY <2>2, <5>2 DEF XInv, Guarded, Exchanges, Handling, Backs
          <6>2. Claimed(w) \in Fills /\ job[w].order \in Orders /\ job[w].attempt \in Attempts
            BY <5>2, ClaimedIsFill
          <6>3. delivered[Claimed(w)] = 0
            BY <5>2, <6>1, <6>2 DEF IInv, MoneyOK
          <6>4. ASSUME NEW n \in Attempts PROVE delivered[Fill(job[w].order, n)] = 0
            <7>1. delivered[Fill(job[w].order, n)] \in Nat
              BY <6>2, FillsAre DEF IInv, MoneyOK
            <7>2. delivered[Fill(job[w].order, n)] > 0 => n = job[w].attempt
              BY <2>2, <6>1, <6>2 DEF DInv, Delivered
            <7>3. QED
              BY <6>3, <7>1, <7>2 DEF Claimed
          <6>5. QED
            BY <6>4 DEF Undelivered
        <5>3. QED
          BY <1>1, <1>3, <3>3, <5>1, <5>2
      <4>2. QED
        BY <1>1, <2>1, <3>1, <4>1 DEF Minding, Open, Undelivered, Fill
    <3>4. QED
      BY <3>2, <3>3
  <2>3. QED
    BY <1>1, <2>1, <2>2, GoesD DEF IInv, RestOK
<1>4. QED
  BY <1>1, <1>2, <1>3 DEF SubmitPayout, Poll

\* The row loaded again is still open, so that the handler goes to deliver.
LEMMA FinalizeD ==
    ASSUME IInv, XInv, DInv, NEW w \in Workers, FinalizeLpFill(w)
    PROVE  DInv'
<1> DEFINE o == job[w].order
<1>0. job \in [Workers -> JobRec] /\ job[w].step = "load"
  BY DEF IInv, JobsOK, FinalizeLpFill
<1>1. UNCHANGED <<overlapped, row, delivered, faults>>
  BY DEF FinalizeLpFill, Within, operator
<1>2. \A v \in Workers : v # w => job'[v] = job[v]
  BY <1>0 DEF FinalizeLpFill, Idle
<1>3. ASSUME ~overlapped PROVE Minding(w)'
  <2>1. Open(o)
    BY <1>0, <1>3 DEF DInv, Minding
  <2>2. CASE Idle(w)
    <3>1. job'[w].step = "idle"
      BY <2>2, Rests
    <3>2. QED
      BY <3>1 DEF Minding
  <2>3. CASE ~Idle(w)
    <3>1. job'[w].step \in {"confirm", "deliver"} /\ job'[w].order = o
      BY <1>0, <2>3 DEF FinalizeLpFill, JobRec
    <3>2. QED
      BY <1>1, <2>1, <3>1 DEF Minding, Open
  <2>4. QED
    BY <2>2, <2>3
<1>4. QED
  BY <1>0, <1>1, <1>2, <1>3, GoesD DEF IInv, RestOK

\* The guarded writes of a row: what was recorded closes it.
LEMMA WriteD ==
    ASSUME IInv, XInv, DInv, NEW w \in Workers,
           LpNetworkFallback(w) \/ Park(w) \/ PersistDigest(w) \/ SettleLpFill(w)
    PROVE  DInv'
<1>o. PICK o \in Orders : job[w].order = o
  BY DEF IInv, JobsOK, JobOK, LpNetworkFallback, Park, PersistDigest, SettleLpFill
<1>0. row \in [Orders -> RowRec]
  BY DEF IInv, RowsOK
<1>1. job[w].step # "idle" /\ UNCHANGED <<overlapped, delivered, faults>>
  BY DEF LpNetworkFallback, Park, PersistDigest, SettleLpFill, Within, operator
<1>2. /\ job'[w].step \in {"idle", "confirm", "po"}
      /\ \A v \in Workers : v # w => job'[v] = job[v]
  <2>1. Idle(w) \/ Go(w, "confirm") \/ Go(w, "po")
    BY DEF LpNetworkFallback, Park, PersistDigest, SettleLpFill
  <2>2. QED
    BY <2>1, Moves, Rests DEF Steps
<1>3. \A p \in Orders : p # o => row'[p] = row[p]
  BY <1>0, <1>o DEF LpNetworkFallback, Park, PersistDigest, SettleLpFill, WhileDispatching
<1>4. /\ row'[o].attempt = row[o].attempt
      /\ \/ row'[o].status = row[o].status
         \/ row[o].status = "dispatching" /\ row'[o].status = "settled"
      /\ row'[o].status = "pending" => row'[o].parked = row[o].parked
      /\ Open(o)' => Open(o)
      /\ job[w].step \in {"persist", "park"} => ~Open(o)'
  <2>1. CASE LpNetworkFallback(w)
    BY <1>0, <1>o, <2>1 DEF LpNetworkFallback, RowRec, Open
  <2>2. CASE Park(w)
    BY <1>0, <1>o, <2>2 DEF Park, WhileDispatching, RowRec, Open
  <2>3. CASE PersistDigest(w)
    BY <1>0, <1>o, <2>3 DEF PersistDigest, WhileDispatching, RowRec, Open
  <2>4. CASE SettleLpFill(w)
    BY <1>0, <1>o, <2>4 DEF SettleLpFill, WhileDispatching, RowRec, Open
  <2>5. QED
    BY <2>1, <2>2, <2>3, <2>4
<1>5. ASSUME ~overlapped, NEW p \in Orders PROVE Delivered(p)'
  <2>1. faults' \in Nat /\ faults' >= faults
    BY <1>1 DEF IInv, RestOK
  <2>2. Delivered(p)
    BY <1>5 DEF DInv
  <2>3. CASE p # o
    <3>1. row'[p] = row[p] /\ (Open(p)' => Open(p))
      BY <1>3, <2>3 DEF Open
    <3>2. \A v \in Workers : Recording(v, p) => Recording(v, p)'
      BY <1>2, <2>3, <1>o DEF Recording
    <3>3. QED
      BY <1>1, <2>1, <2>2, <3>1, <3>2, KeepsDelivered
  <2>4. CASE p = o
    <3>1. ~Open(p)' \/ \A v \in Workers : Recording(v, p) => Recording(v, p)'
      BY <1>2, <1>4, <1>o, <2>4 DEF Recording
    <3>2. QED
      BY <1>1, <1>4, <2>1, <2>2, <2>4, <3>1, KeepsDelivered
  <2>5. QED
    BY <2>3, <2>4
<1>6. Minding(w)'
  BY <1>2 DEF Minding
<1>7. QED
  BY <1>1, <1>2, <1>5, <1>6, HandlerD

\* What a step of the handler of one order leaves alone of the others'.
LEMMA OthersDelivered ==
    ASSUME IInv, NEW w \in Workers, NEW p \in Orders, p # job[w].order, Delivered(p),
           row'[p] = row[p], faults' = faults,
           \A n \in Attempts : delivered'[Fill(p, n)] = delivered[Fill(p, n)],
           \A v \in Workers : v # w => job'[v] = job[v]
    PROVE  Delivered(p)'
<1>1. \A v \in Workers : Recording(v, p) => Recording(v, p)'
  BY DEF Recording
<1>2. \A n \in Attempts : delivered'[Fill(p, n)'] = delivered[Fill(p, n)]
  BY DEF Fill
<1>3. Open(p)' <=> Open(p)
  BY DEF Open
<1>4. QED
  BY <1>1, <1>2, <1>3 DEF Delivered

\* A claim opens a pending order, of which nothing was delivered.
LEMMA ClaimD ==
    ASSUME IInv, XInv, DInv, NEW w \in Workers, NEW n \in Attempts, Claim(w, n)
    PROVE  DInv'
<1>o. PICK o \in Orders : job[w].order = o
  BY DEF IInv, JobsOK, JobOK, Claim
<1>0. /\ row \in [Orders -> RowRec] /\ job \in [Workers -> JobRec]
      /\ job[w].step = "claim" /\ row[o].status = "pending"
  BY <1>o DEF IInv, RowsOK, JobsOK, Claim
<1>1. UNCHANGED <<overlapped, delivered, faults>>
  BY DEF Claim, Within, operator
<1>2. /\ job'[w].step = "submit" /\ job'[w].order = o
      /\ \A v \in Workers : v # w => job'[v] = job[v]
  BY <1>0, <1>o DEF Claim, JobRec
<1>3. /\ row'[o].status = "dispatching" /\ row'[o].digest = row[o].digest
      /\ row'[o].parked = row[o].parked
      /\ \A p \in Orders : p # o => row'[p] = row[p]
  BY <1>0, <1>o DEF Claim, RowRec
<1>4. ASSUME ~overlapped PROVE Undelivered(o) /\ Open(o)'
  <2>1. Delivered(o) /\ Digested(o)
    BY <1>0, <1>4 DEF DInv, XInv, Guarded, Exchanges
  <2>2. ~row[o].digest /\ ~row[o].parked
    BY <1>0, <2>1 DEF Delivered, Digested
  <2>3. ASSUME NEW m \in Attempts PROVE delivered[Fill(o, m)] = 0
    <3>1. delivered[Fill(o, m)] \in Nat
      BY <1>0, FillsAre DEF IInv, MoneyOK
    <3>2. ~(delivered[Fill(o, m)] > 0)
      BY <1>0, <2>1 DEF Delivered
    <3>3. QED
      BY <3>1, <3>2
  <2>4. QED
    BY <1>0, <1>3, <2>2, <2>3, <1>o DEF Undelivered, Open
<1>5. ASSUME ~overlapped, NEW p \in Orders PROVE Delivered(p)'
  <2>1. CASE p # o
    BY <1>1, <1>2, <1>3, <1>5, <2>1, <1>o, OthersDelivered DEF DInv
  <2>2. CASE p = o
    <3>1. \A m \in Attempts : delivered'[Fill(o, m)'] = 0
      BY <1>1, <1>4, <1>5, <1>o DEF Undelivered, Fill
    <3>2. faults' \in Nat
      BY <1>1 DEF IInv, RestOK
    <3>3. row'[p].status # "pending"
      BY <1>3, <2>2
    <3>4. \A m \in Attempts : delivered'[Fill(p, m)'] = 0
      BY <2>2, <3>1
    <3>5. QED
      BY <3>2, <3>3, <3>4 DEF Delivered
  <2>3. QED
    BY <2>1, <2>2
<1>6. ASSUME ~overlapped PROVE Minding(w)'
  <2>1. job'[w].order = o /\ Undelivered(o) /\ Open(o)'
    BY <1>2, <1>4, <1>6
  <2>2. QED
    BY <1>1, <2>1, <1>o DEF Minding, Undelivered, Open, Fill
<1>7. QED
  BY <1>0, <1>1, <1>2, <1>5, <1>6, HandlerD

\* A release turns a row back of which nothing was delivered.
LEMMA ReleaseD ==
    ASSUME IInv, XInv, DInv, NEW w \in Workers, ReleaseLpFill(w)
    PROVE  DInv'
<1>o. PICK o \in Orders : job[w].order = o
  BY DEF IInv, JobsOK, JobOK, ReleaseLpFill
<1>0. /\ row \in [Orders -> RowRec] /\ job[w].step = "release"
  BY DEF IInv, RowsOK, ReleaseLpFill
<1>1. UNCHANGED <<overlapped, delivered, faults>>
  BY DEF ReleaseLpFill, Within, operator
<1>2. job'[w].step = "idle" /\ \A v \in Workers : v # w => job'[v] = job[v]
  BY Rests DEF ReleaseLpFill
<1>3. /\ row'[o] = row[o] \/ (row'[o].status = "pending" /\ row'[o].parked = row[o].parked)
      /\ \A p \in Orders : p # o => row'[p] = row[p]
  BY <1>0, <1>o DEF ReleaseLpFill, RowRec
<1>4. ASSUME ~overlapped PROVE Undelivered(o) /\ Open(o)
  BY <1>0, <1>4, <1>o DEF DInv, Minding
<1>5. ASSUME ~overlapped, NEW p \in Orders PROVE Delivered(p)'
  <2>1. CASE p # o
    BY <1>1, <1>2, <1>3, <1>5, <2>1, <1>o, OthersDelivered DEF DInv
  <2>2. CASE p = o
    <3>1. \A m \in Attempts : delivered'[Fill(p, m)'] = 0
      BY <1>1, <1>4, <1>5, <2>2, <1>o DEF Undelivered, Fill
    <3>2. faults' \in Nat
      BY <1>1 DEF IInv, RestOK
    <3>3. row'[p].status = "pending" => ~row'[p].parked
      BY <1>3, <1>4, <1>5, <2>2 DEF Open
    <3>4. QED
      BY <3>1, <3>2, <3>3 DEF Delivered
  <2>3. QED
    BY <2>1, <2>2
<1>6. Minding(w)'
  BY <1>2 DEF Minding
<1>7. QED
  BY <1>0, <1>1, <1>2, <1>5, <1>6, HandlerD

\* USDC leaves under the reference of an open row, and goes on record next.
LEMMA DeliverD ==
    ASSUME IInv, PayInv, XInv, DInv, NEW w \in Workers, DeliverUsdc(w)
    PROVE  DInv'
<1>o. PICK o \in Orders : job[w].order = o
  BY DEF IInv, JobsOK, JobOK, DeliverUsdc
<1>0. /\ delivered \in [Fills -> Nat] /\ faults \in Nat /\ job[w].step = "deliver"
  BY DEF IInv, MoneyOK, RestOK, DeliverUsdc
<1>1. UNCHANGED <<overlapped, row, faults>>
  BY DEF DeliverUsdc, Within, operator
<1>2. PICK s \in {"persist", "park"} : Go(w, s)
  BY DEF DeliverUsdc
<1>3. /\ job'[w].step = s /\ job'[w].order = o
      /\ \A v \in Workers : v # w => job'[v] = job[v]
  BY <1>o, <1>2, Moves DEF Steps
<1>4. delivered' = delivered \/ delivered' = [delivered EXCEPT ![Claimed(w)] = @ + 1]
  BY DEF DeliverUsdc
<1>5. ASSUME ~overlapped, NEW p \in Orders PROVE Delivered(p)'
  <2>1. /\ Claimed(w) = Fill(o, row[o].attempt) /\ row[o].attempt \in Attempts
        /\ Claimed(w) \in Fills
    BY <1>o, <1>0, <1>5, HandlingNamed DEF Guarded, Claimed
  <2>2. Open(o) /\ Delivered(p)
    BY <1>o, <1>0, <1>5 DEF DInv, Minding
  <2>3. \A f \in Fills : f # Claimed(w) => delivered'[f] = delivered[f]
    BY <1>0, <1>4
  <2>4. CASE p # o
    <3>1. ASSUME NEW n \in Attempts PROVE delivered'[Fill(p, n)] = delivered[Fill(p, n)]
      BY <2>1, <2>3, <2>4, FillsAre, FillIs
    <3>2. QED
      BY <1>o, <1>1, <1>3, <2>2, <2>4, <3>1, OthersDelivered
  <2>5. CASE p = o
    <3>1. \A v \in Workers : ~Recording(v, o)
      BY <1>0, <1>5 DEF XInv, Solo, Recording
    <3>2. \A n \in Attempts : delivered[Fill(o, n)] <= faults
      BY <2>2, <2>5, <3>1 DEF Delivered
    <3>3. ASSUME NEW n \in Attempts
          PROVE  /\ delivered'[Fill(o, n)] <= 1 + faults
                 /\ delivered'[Fill(o, n)] > 0 => row[o].attempt = n
      <4>1. Fill(o, n) \in Fills /\ delivered[Fill(o, n)] \in Nat
        BY <1>0, FillsAre
      <4>2. CASE n = row[o].attempt
        <5>1. Fill(o, n) = Claimed(w)
          BY <2>1, <4>2
        <5>2. delivered'[Fill(o, n)] \in {delivered[Fill(o, n)], delivered[Fill(o, n)] + 1}
          BY <1>0, <1>4, <4>1, <5>1
        <5>3. QED
          BY <1>0, <3>2, <4>1, <4>2, <5>2
      <4>3. CASE n # row[o].attempt
        <5>1. delivered'[Fill(o, n)] = delivered[Fill(o, n)]
          BY <2>1, <2>3, <4>1, <4>3, FillIs
        <5>2. ~(delivered[Fill(o, n)] > 0)
          BY <2>2, <2>5, <4>3 DEF Delivered
        <5>3. QED
          BY <1>0, <3>2, <4>1, <5>1, <5>2
      <4>4. QED
        BY <4>2, <4>3
    <3>4. Recording(w, o)'
      BY <1>3 DEF Recording
    <3>5. row'[o].status = "dispatching"
      BY <1>1, <2>2 DEF Open
    <3>6. \A n \in Attempts : Fill(o, n)' = Fill(o, n)
      BY DEF Fill
    <3>7. QED
      BY <1>1, <2>5, <3>3, <3>4, <3>5, <3>6 DEF Delivered
  <2>6. QED
    BY <2>4, <2>5
<1>6. Minding(w)'
  BY <1>3 DEF Minding
<1>7. QED
  BY <1>0, <1>1, <1>3, <1>5, <1>6, HandlerD

\* A tick takes up an order, open when it is to be polled.
LEMMA FetchD ==
    ASSUME IInv, XInv, DInv, NEW w \in Workers, NEW o \in Orders,
           FetchPending(w, o) \/ FetchPayout(w, o)
    PROVE  DInv'
<1>0. job \in [Workers -> JobRec] /\ row \in [Orders -> RowRec]
  BY DEF IInv, JobsOK, RowsOK
<1>1. UNCHANGED <<row, delivered, faults>>
  BY DEF FetchPending, FetchPayout, operator
<1>2. PICK step \in {"match", "poll", "confirm"} :
         /\ Begin(w, o, step)
         /\ step = "poll" => Open(o)
  BY DEF FetchPending, FetchPayout, Open, operator
<1>3. /\ job[w].step = "idle" /\ job'[w].step = step /\ job'[w].order = o
      /\ \A v \in Workers : v # w => job'[v] = job[v]
  BY <1>0, <1>2 DEF Begin, NoJob, operator
<1>4. overlapped' = (overlapped \/ \E v \in Workers \ {w} : job[v].step # "idle")
  BY <1>2 DEF Begin, operator
<1>5. SUFFICES ASSUME ~overlapped' PROVE (\A p \in Orders : Delivered(p)') /\ (\A v \in Workers : Minding(v)')
  BY DEF DInv
<1>6. ~overlapped /\ \A v \in Workers : job[v].step = "idle"
  BY <1>3, <1>4, <1>5
<1>7. ASSUME NEW p \in Orders PROVE Delivered(p)'
  <2>1. \A v \in Workers : Recording(v, p) => Recording(v, p)'
    BY <1>6 DEF Recording
  <2>2. Open(p)' => Open(p)
    BY <1>1 DEF Open
  <2>3. faults' \in Nat /\ faults' >= faults /\ Delivered(p)
    BY <1>1, <1>6 DEF IInv, RestOK, DInv
  <2>4. QED
    BY <1>1, <2>1, <2>2, <2>3, KeepsDelivered
<1>8. ASSUME NEW v \in Workers, v # w PROVE Minding(v)'
  BY <1>3, <1>6, <1>8 DEF Minding
<1>9. Minding(w)'
  BY <1>1, <1>2, <1>3 DEF Minding, Open
<1>10. QED
  BY <1>7, <1>8, <1>9

\* Steps outside the handlers.
LEMMA OutsideD ==
    ASSUME IInv, DInv, UNCHANGED <<job, delivered, overlapped>>, faults' \in Nat, faults' >= faults,
           \A p \in Orders : \/ row'[p] = row[p]
                             \/ /\ row[p].status = "pending" /\ row'[p].status = "failed"
                                /\ row'[p].attempt = row[p].attempt
    PROVE  DInv'
<1>1. \A p \in Orders : (Open(p)' => Open(p)) /\ (Open(p) => Open(p)')
  BY DEF Open
<1>2. ASSUME ~overlapped, NEW p \in Orders PROVE Delivered(p)'
  <2>1. \A v \in Workers : Recording(v, p) => Recording(v, p)'
    BY DEF Recording
  <2>2. QED
    BY <1>1, <1>2, <2>1, KeepsDelivered DEF DInv
<1>3. ASSUME ~overlapped, NEW v \in Workers PROVE Minding(v)'
  <2>1. CASE job[v].step = "idle"
    BY <2>1 DEF Minding
  <2>2. CASE job[v].step # "idle"
    <3>1. PICK o \in Orders : job[v].order = o
      BY <2>2 DEF IInv, JobsOK, JobOK
    <3>2. Minding(v) /\ (Open(o) => Open(o)')
      BY <1>1, <1>3 DEF DInv
    <3>3. Undelivered(o)' = Undelivered(o)
      BY DEF Undelivered, Fill
    <3>4. job'[v].order = o
      BY <3>1
    <3>5. QED
      BY <3>1, <3>2, <3>3, <3>4 DEF Minding, Open, Undelivered, Fill
  <2>3. QED
    BY <2>1, <2>2
<1>4. QED
  BY <1>2, <1>3 DEF DInv

LEMMA StepD == IInv /\ PayInv /\ XInv /\ DInv /\ [Next]_vars => DInv'
<1> SUFFICES ASSUME IInv, PayInv, XInv, DInv, [Next]_vars PROVE DInv'
  OBVIOUS
<1>0. faults \in Nat
  BY DEF IInv, RestOK
<1>1. ASSUME NEW w \in Workers, Handler(w) PROVE DInv'
  BY <1>1, QuietD, AnswerD, FinalizeD, WriteD, ClaimD, ReleaseD, DeliverD DEF Handler
<1>2. ASSUME NEW o \in Orders, Expire(o) PROVE DInv'
  <2>1. UNCHANGED <<job, delivered, overlapped, faults>>
    BY <1>2 DEF Expire, money, operator
  <2>2. row \in [Orders -> RowRec]
    BY DEF IInv, RowsOK
  <2>3. \A p \in Orders : \/ row'[p] = row[p]
                          \/ /\ row[p].status = "pending" /\ row'[p].status = "failed"
                             /\ row'[p].attempt = row[p].attempt
    BY <1>2, <2>2 DEF Expire, RowRec, operator
  <2>4. QED
    BY <1>0, <2>1, <2>3, OutsideD
<1>3. CASE Dispatcher
  BY <1>1, <1>2, <1>3, QuietD, FetchD DEF Dispatcher
<1>4. CASE Accounts
  <2>1. faults' = faults \/ faults' = faults + 1
    BY <1>4 DEF Accounts, SetStatus, UpdateAccount, SwitchRail, DepositArrives, HandleDeposit, Withdraw, Reserve,
                SubmitWithdrawal, ReleaseWithdrawal, RequestStops, HandleWithdrawalFinality, operator
  <2>2. faults' \in Nat /\ faults' >= faults
    BY <1>0, <2>1
  <2>3. QED
    BY <1>4, <2>2, AccountsFramed, OutsideD
<1>5. CASE \E r \in Debits : RailResolves(r)
  <2>1. UNCHANGED <<job, row, delivered, overlapped, faults>>
    BY <1>5 DEF RailResolves, operator
  <2>2. QED
    BY <1>0, <2>1, OutsideD
<1>6. CASE UNCHANGED vars
  <2>1. UNCHANGED <<job, row, delivered, overlapped, faults>>
    BY <1>6 DEF vars, money, operator
  <2>2. QED
    BY <1>0, <2>1, OutsideD
<1>7. QED
  BY <1>3, <1>4, <1>5, <1>6 DEF Next

LEMMA InitD == Init => DInv
<1> SUFFICES ASSUME Init PROVE DInv
  OBVIOUS
<1>1. \A o \in Orders, n \in Attempts : delivered[Fill(o, n)] = 0
  BY FillsAre DEF Init
<1>2. /\ \A o \in Orders : ~row[o].parked
      /\ \A w \in Workers : job[w].step = "idle"
      /\ faults = 0
  BY DEF Init, NoJob, NewRow
<1>3. \A o \in Orders : Delivered(o)
  BY <1>1, <1>2 DEF Delivered
<1>4. \A w \in Workers : Minding(w)
  BY <1>2 DEF Minding
<1>5. QED
  BY <1>3, <1>4 DEF DInv

\* finalizeLpFill: where no handlers overlap, the USDC of an order leaves once, and once more at
\* most for each crash or failed write between a transfer and its record.
THEOREM DeliveredOnceHolds == Spec => []DeliveredOnce
<1>1. IInv /\ DInv => DeliveredOnce
  <2> SUFFICES ASSUME IInv, DInv, ~overlapped, NEW o \in Orders PROVE Deliveries(o) <= 1 + faults
    BY DEF DeliveredOnce
  <2> DEFINE f == [n \in Attempts |-> delivered[Fill(o, n)]]
             z == [n \in Attempts |-> 0]
  <2>1. /\ Delivered(o) /\ faults \in Nat
        /\ \A n \in Attempts : f[n] \in Nat
    BY FillsAre DEF DInv, IInv, RestOK, MoneyOK
  <2>2. Units(z) = {}
    BY DEF Units
  <2>3. IsFiniteSet(Units(z)) /\ Total(z) = 0
    BY <2>2, FS_EmptySet DEF Total
  <2>4. DOMAIN f = Attempts /\ DOMAIN z = Attempts /\ \A n \in Attempts : z[n] = 0
    OBVIOUS
  <2>5. \A n \in Attempts : f[n] > 0 => row[o].attempt = n
    BY <2>1 DEF Delivered
  <2>6. \A n \in Attempts : f[n] <= 1 + faults
    BY <2>1 DEF Delivered
  <2> HIDE DEF f, z
  <2>7. CASE row[o].attempt \in Attempts
    <3> DEFINE n == row[o].attempt
    <3>1. \A m \in Attempts : m # n => f[m] = 0
      BY <2>1, <2>5
    <3>2. f[n] \in Nat /\ z[n] = 0 /\ f[n] = z[n] + f[n]
      BY <2>1, <2>4, <2>7
    <3>3. \A m \in DOMAIN z : m # n => f[m] = z[m]
      BY <2>4, <3>1
    <3>4. Total(f) = Total(z) + f[n]
      BY <2>3, <2>4, <2>7, <3>2, <3>3, TotalMore
    <3>5. QED
      BY <2>3, <2>6, <2>7, <3>2, <3>4 DEF Deliveries, f
  <2>8. CASE row[o].attempt \notin Attempts
    <3>1. \A m \in Attempts : f[m] = 0
      BY <2>1, <2>5, <2>8
    <3>2. Units(f) = {}
      BY <2>4, <3>1 DEF Units
    <3>3. Total(f) = 0
      BY <3>2, FS_EmptySet DEF Total
    <3>4. QED
      BY <2>1, <3>3 DEF Deliveries, f
  <2>9. QED
    BY <2>7, <2>8
<1>2. Spec => [](PayInv /\ XInv)
  BY InitPay, StepPay, InitX, StepX, Invariance, PTL DEF Spec
<1>3. Init => DInv
  BY InitD
<1>4. IInv /\ PayInv /\ XInv /\ DInv /\ [Next]_vars => DInv'
  BY StepD
<1>5. Spec => []DInv
  BY <1>2, <1>3, <1>4, Invariance, PTL DEF Spec
<1>6. QED
  BY <1>1, <1>5, Invariance, PTL

-----------------------------------------------------------------------------
(***************************************************************************)
(* A payout stays in the poller's sight.  The reference and the status of  *)
(* its row are PayInv's.  The mode is the handlers': where they do not     *)
(* overlap, one that is about to claim works on an order in mode           *)
(* lp_network, and the fallback turns only a pending row.                  *)
(***************************************************************************)
Mode(o) == row[o].status \in {"dispatching", "settled"} => row[o].mode = "lp_network"

Claiming(w) == job[w].step \in {"match", "claim"} => row[job[w].order].mode = "lp_network"

MInv == ~overlapped => (\A o \in Orders : Mode(o)) /\ (\A w \in Workers : Claiming(w))

\* A step under which every row keeps its mode and none that is not dispatching becomes so or
\* settled, and no handler comes to match or claim.
LEMMA KeepsMode ==
    ASSUME IInv, MInv, overlapped' => overlapped, overlapped => overlapped',
           \A o \in Orders : /\ row'[o].mode = row[o].mode
                             /\ row'[o].status \in {"dispatching", "settled"} =>
                                   row[o].status \in {"dispatching", "settled"},
           \A w \in Workers : job'[w].step \in {"match", "claim"} =>
                                 job[w].step \in {"match", "claim"} /\ job'[w].order = job[w].order
    PROVE  MInv'
<1> SUFFICES ASSUME ~overlapped PROVE (\A o \in Orders : Mode(o)') /\ (\A w \in Workers : Claiming(w)')
  BY DEF MInv
<1>1. ASSUME NEW o \in Orders PROVE Mode(o)'
  BY DEF MInv, Mode
<1>2. ASSUME NEW w \in Workers PROVE Claiming(w)'
  <2>1. CASE job'[w].step \notin {"match", "claim"}
    BY <2>1 DEF Claiming
  <2>2. CASE job'[w].step \in {"match", "claim"}
    <3>1. PICK o \in Orders : job[w].order = o /\ job'[w].order = o
      BY <2>2 DEF IInv, JobsOK, JobOK
    <3>2. row[o].mode = "lp_network"
      BY <2>2, <3>1 DEF MInv, Claiming
    <3>3. QED
      BY <3>1, <3>2 DEF Claiming
  <2>3. QED
    BY <2>1, <2>2
<1>3. QED
  BY <1>1, <1>2

LEMMA FetchMode ==
    ASSUME IInv, MInv, NEW w \in Workers, NEW o \in Orders,
           FetchPending(w, o) \/ FetchPayout(w, o)
    PROVE  MInv'
<1>0. job \in [Workers -> JobRec]
  BY DEF IInv, JobsOK
<1>1. UNCHANGED row
  BY DEF FetchPending, FetchPayout, operator
<1>2. PICK step \in {"match", "poll", "confirm"} :
         Begin(w, o, step) /\ (step = "match" => row[o].mode = "lp_network")
  BY DEF FetchPending, FetchPayout, operator
<1>3. /\ job'[w].step = step /\ job'[w].order = o
      /\ \A v \in Workers : v # w => job'[v] = job[v]
      /\ ~overlapped' => ~overlapped
  BY <1>0, <1>2 DEF Begin, NoJob, operator
<1>4. QED
  BY <1>1, <1>2, <1>3 DEF MInv, Mode, Claiming

\* The fallback turns the mode of a pending row; nobody else is at work.
LEMMA FallbackMode ==
    ASSUME IInv, XInv, MInv, NEW w \in Workers, LpNetworkFallback(w)
    PROVE  MInv'
<1>0. row \in [Orders -> RowRec]
  BY DEF IInv, RowsOK
<1> DEFINE o == job[w].order
<1>1. /\ UNCHANGED overlapped /\ Idle(w) /\ job[w].step = "match"
      /\ row' = IF row[o].mode = "lp_network" /\ row[o].status = "pending"
                THEN [row EXCEPT ![o].mode = "lp"] ELSE row
  BY DEF LpNetworkFallback, Within, operator
<1>2. o \in Orders
  BY <1>1 DEF IInv, JobsOK, JobOK
<1>3. \A p \in Orders : Mode(p) => Mode(p)'
  BY <1>0, <1>1, <1>2 DEF Mode, RowRec
<1>4. ASSUME ~overlapped, NEW v \in Workers PROVE job'[v].step = "idle"
  BY <1>1, <1>4, Rests DEF XInv, Solo
<1>5. QED
  BY <1>1, <1>3, <1>4 DEF MInv, Claiming

LEMMA ClaimMode ==
    ASSUME IInv, MInv, NEW w \in Workers, NEW n \in Attempts, Claim(w, n)
    PROVE  MInv'
<1>0. job \in [Workers -> JobRec] /\ row \in [Orders -> RowRec]
  BY DEF IInv, JobsOK, RowsOK
<1> DEFINE o == job[w].order
<1>1. /\ UNCHANGED overlapped /\ job[w].step = "claim"
      /\ row' = [row EXCEPT ![o].status = "dispatching", ![o].attempt = n]
      /\ job' = [job EXCEPT ![w].step = "submit", ![w].attempt = n]
  BY DEF Claim, Within, operator
<1>2. /\ job'[w].step = "submit" /\ \A v \in Workers : v # w => job'[v] = job[v]
  BY <1>0, <1>1 DEF JobRec
<1>3. o \in Orders
  BY <1>1 DEF IInv, JobsOK, JobOK
<1>4. /\ \A p \in Orders : row'[p].mode = row[p].mode
      /\ \A p \in Orders : p # o => row'[p] = row[p]
  BY <1>0, <1>1, <1>3 DEF RowRec
<1> SUFFICES ASSUME ~overlapped PROVE (\A p \in Orders : Mode(p)') /\ (\A v \in Workers : Claiming(v)')
  BY <1>1 DEF MInv
<1>5. Claiming(w) /\ row[o].mode = "lp_network"
  BY <1>1 DEF MInv, Claiming
<1>6. \A p \in Orders : Mode(p)'
  BY <1>4, <1>5 DEF MInv, Mode
<1>7. ASSUME NEW v \in Workers, job'[v].step \in {"match", "claim"} PROVE Claiming(v)'
  <2>1. job'[v] = job[v]
    BY <1>2, <1>7
  <2>2. PICK p \in Orders : job[v].order = p
    BY <1>7, <2>1 DEF IInv, JobsOK, JobOK
  <2>3. row[p].mode = "lp_network"
    BY <1>7, <2>1, <2>2 DEF MInv, Claiming
  <2>4. QED
    BY <1>4, <2>1, <2>2, <2>3 DEF Claiming
<1>8. QED
  BY <1>6, <1>7 DEF Claiming

\* The other steps of a handler write no mode and put no order in dispatching.
LEMMA HandlerMode ==
    ASSUME IInv, MInv, NEW w \in Workers,
           \/ NoClaim(w) \/ SubmitPayout(w) \/ ReleaseLpFill(w) \/ Poll(w) \/ FinalizeLpFill(w)
           \/ DeliverUsdc(w) \/ Park(w) \/ PersistDigest(w) \/ ConfirmFill(w) \/ SettleLpFill(w)
           \/ SettlePaymentOrder(w) \/ Stop(w) \/ \E l \in Lps : Match(w, l)
    PROVE  MInv'
<1>0. job \in [Workers -> JobRec] /\ row \in [Orders -> RowRec]
  BY DEF IInv, JobsOK, RowsOK
<1> DEFINE RowsKept ==
             \A p \in Orders : /\ row'[p].mode = row[p].mode
                               /\ row'[p].status \in {"dispatching", "settled"} =>
                                     row[p].status \in {"dispatching", "settled"}
           JobsKept ==
             \A v \in Workers : job'[v].step \in {"match", "claim"} =>
                                   job[v].step \in {"match", "claim"} /\ job'[v].order = job[v].order
<1>1. UNCHANGED overlapped
  BY DEF NoClaim, SubmitPayout, ReleaseLpFill, Poll, FinalizeLpFill, DeliverUsdc, Park,
         PersistDigest, ConfirmFill, SettleLpFill, SettlePaymentOrder, Stop, Match, Within, operator
<1>2. RowsKept
  <2>1. CASE row' = row
    BY <2>1
  <2>2. CASE ReleaseLpFill(w)
    BY <1>0, <2>2 DEF ReleaseLpFill, RowRec
  <2>3. CASE Park(w)
    BY <1>0, <2>3 DEF Park, WhileDispatching, RowRec
  <2>4. CASE PersistDigest(w)
    BY <1>0, <2>4 DEF PersistDigest, WhileDispatching, RowRec
  <2>5. CASE SettleLpFill(w)
    BY <1>0, <2>5 DEF SettleLpFill, WhileDispatching, RowRec
  <2>6. QED
    BY <2>1, <2>2, <2>3, <2>4, <2>5
    DEF NoClaim, SubmitPayout, Poll, FinalizeLpFill, DeliverUsdc, ConfirmFill,
        SettlePaymentOrder, Stop, Match
<1>3. JobsKept
  <2>1. CASE Idle(w)
    BY <2>1, Rests
  <2>2. CASE \E s \in Steps \ {"match", "claim"} : Go(w, s)
    BY <2>2, Moves
  <2>3. CASE \E l \in Lps : Match(w, l)
    <3>1. PICK l \in Lps : job' = [job EXCEPT ![w].step = "claim", ![w].lp = l]
      BY <2>3 DEF Match
    <3>2. job[w].step = "match"
      BY <2>3 DEF Match
    <3>3. QED
      BY <1>0, <3>1, <3>2 DEF JobRec
  <2>4. CASE FinalizeLpFill(w)
    BY <1>0, <2>1, <2>4 DEF FinalizeLpFill, JobRec
  <2>5. QED
    BY <2>1, <2>2, <2>3, <2>4
    DEF NoClaim, SubmitPayout, ReleaseLpFill, Poll, DeliverUsdc, Park, PersistDigest, ConfirmFill,
        SettleLpFill, SettlePaymentOrder, Stop, Steps
<1> HIDE DEF RowsKept, JobsKept
<1>4. QED
  BY <1>1, <1>2, <1>3, KeepsMode DEF RowsKept, JobsKept

LEMMA StepM == IInv /\ XInv /\ MInv /\ [Next]_vars => MInv'
<1> SUFFICES ASSUME IInv, XInv, MInv, [Next]_vars PROVE MInv'
  OBVIOUS
<1>1. ASSUME NEW w \in Workers, Handler(w) PROVE MInv'
  BY <1>1, FallbackMode, ClaimMode, HandlerMode DEF Handler
<1>2. ASSUME UNCHANGED <<job, overlapped>>,
             UNCHANGED row \/ \E o \in Orders : Expire(o)
      PROVE  MInv'
  <2>1. row \in [Orders -> RowRec]
    BY DEF IInv, RowsOK
  <2>2. \A p \in Orders : /\ row'[p].mode = row[p].mode
                          /\ row'[p].status \in {"dispatching", "settled"} =>
                                row[p].status \in {"dispatching", "settled"}
    BY <1>2, <2>1 DEF Expire, RowRec, operator
  <2>3. QED
    BY <1>2, <2>2, KeepsMode
<1>3. CASE Dispatcher
  <2>1. ASSUME NEW o \in Orders, Expire(o) PROVE UNCHANGED <<job, overlapped>>
    BY <2>1 DEF Expire, operator
  <2>2. QED
    BY <1>1, <1>2, <1>3, <2>1, FetchMode, HandlerMode DEF Dispatcher
<1>4. CASE Accounts
  BY <1>2, <1>4, AccountsFramed
<1>5. CASE \E r \in Debits : RailResolves(r)
  BY <1>2, <1>5 DEF RailResolves, operator
<1>6. CASE UNCHANGED vars
  BY <1>2, <1>6 DEF vars, operator
<1>7. QED
  BY <1>3, <1>4, <1>5, <1>6 DEF Next

\* advanceLpNetworkPayouts: a payout the bank took is under the reference of its row, which is
\* dispatching or settled and, where no handlers overlap, in the mode that is polled.
THEOREM PaidInSightHolds == Spec => []PaidInSight
<1>1. PayInv /\ MInv => PaidInSight
  <2> SUFFICES ASSUME PayInv, MInv, NEW o \in Orders, NEW n \in Attempts,
                      rail[Fill(o, n)] \in {"processing", "success"}, Fill(o, n) \notin disowned
               PROVE  /\ row[o].attempt = n /\ row[o].status \in {"dispatching", "settled"}
                      /\ ~overlapped => row[o].mode = "lp_network"
    BY DEF PaidInSight
  <2>1. Fill(o, n) \in Fills
    BY FillsAre
  <2>2. Forceful(Fill(o, n))
    BY <2>1 DEF PayInv, Kept
  <2>3. row[o].attempt = n /\ row[o].status \in {"dispatching", "settled"}
    BY <2>2 DEF PayInv, Named
  <2>4. QED
    BY <2>3 DEF MInv, Mode
<1>2. Init => MInv
  BY DEF Init, MInv, Mode, Claiming, NewRow, NoJob
<1>3. Spec => [](PayInv /\ XInv)
  BY InitPay, InitX, StepPay, StepX, Invariance, PTL DEF Spec
<1>4. Spec => []MInv
  BY <1>2, <1>3, StepM, Invariance, PTL DEF Spec
<1>5. QED
  BY <1>1, <1>3, <1>4, PTL

=============================================================================
