------------------------------- MODULE Ledger -------------------------------
(***************************************************************************)
(* What the LP ledger promises (ent/schema/lp_account.go): the balance of   *)
(* an LP changes only together with the ledger entry that justifies it.    *)
(* A credit is booked once, for good.  A debit first reserves what the     *)
(* balance covers and then is confirmed or released, once.                 *)
(***************************************************************************)
EXTENDS Naturals

CONSTANTS Lps,      \* liquidity providers
          Credits,  \* references a credit may be booked under
          Debits,   \* references a debit may be booked under
          Amounts   \* amounts booked

VARIABLES balance,  \* [Lps -> Nat]
          entry     \* [Credits \cup Debits -> EntryRec \cup {NoEntry}]

NoEntry == [lp |-> "none", amount |-> 0, status |-> "none"]

EntryRec == [lp : Lps, amount : Amounts, status : {"pending", "confirmed", "failed"}]

Init == /\ balance = [l \in Lps |-> 0]
        /\ entry = [r \in Credits \cup Debits |-> NoEntry]

Book(r, l, amount, status) ==
    /\ entry[r] = NoEntry
    /\ entry' = [entry EXCEPT ![r] = [lp |-> l, amount |-> amount, status |-> status]]

Credit(r, l, amount) ==
    /\ Book(r, l, amount, "confirmed")
    /\ balance' = [balance EXCEPT ![l] = @ + amount]

Reserve(r, l, amount) ==
    /\ balance[l] >= amount
    /\ Book(r, l, amount, "pending")
    /\ balance' = [balance EXCEPT ![l] = @ - amount]

Confirm(r) ==
    /\ entry[r].status = "pending"
    /\ entry' = [entry EXCEPT ![r].status = "confirmed"]
    /\ UNCHANGED balance

Release(r) ==
    /\ entry[r].status = "pending"
    /\ entry' = [entry EXCEPT ![r].status = "failed"]
    /\ balance' = [balance EXCEPT ![entry[r].lp] = @ + entry[r].amount]

Next ==
    \/ \E l \in Lps, amount \in Amounts :
          (\E r \in Credits : Credit(r, l, amount)) \/ (\E r \in Debits : Reserve(r, l, amount))
    \/ \E r \in Debits : Confirm(r) \/ Release(r)

Spec == Init /\ [][Next]_<<balance, entry>>

=============================================================================
