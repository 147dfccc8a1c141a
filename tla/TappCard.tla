------------------------------- MODULE TappCard -------------------------------
(***************************************************************************)
(* The Tapp card spending cap (tapp_card.move): a shared object its owner  *)
(* funds and Rails debits, within a daily and a per-tap limit that the     *)
(* Move code alone enforces.  One action per entry function; every assert! *)
(* and overflow is a guard.                                                *)
(***************************************************************************)
EXTENDS Integers

CONSTANTS
    Cards,     \* ids the cap objects may have
    Users,     \* addresses that sign
    Amounts,   \* coin values and debit amounts tried, 0 among them
    Limits,    \* limit arguments tried
    MaxDay,    \* bound: last UTC day explored
    MaxFunded, \* bound: coins put into one cap over its life
    MaxU64     \* 2^64 - 1 in the code

ASSUME CardAssumption ==
    /\ MaxU64 \in Nat /\ MaxFunded \in Nat /\ MaxDay \in Nat \ {0}
    /\ Amounts \subseteq 0 .. MaxU64
    /\ Limits \subseteq 0 .. MaxU64

VARIABLES
    cap,       \* [Cards -> CapRec]
    day,       \* the Clock, in whole UTC days
    received,  \* ghost: coins ever put into each cap
    released,  \* ghost: coins each cap ever paid out
    today,     \* ghost: what each cap was debited on the present day
    top        \* ghost: the highest daily limit each cap had on the present day

vars == <<cap, day, received, released, today, top>>

CapRec == [ phase : {"absent", "open", "closed"}, owner : Users, balance : Nat,
            daily_limit : Nat, per_tap_limit : Nat, spent_today : Nat,
            day_index : 0 .. MaxDay, revoked : BOOLEAN ]

Fits(n) == n <= MaxU64

Live(c) == cap[c].phase = "open"

Max2(m, n) == IF m < n THEN n ELSE m

\* The clock left 1970-01-01 long ago, so day 0 marks a cap never debited.
Init ==
    /\ cap \in [Cards -> [ phase : {"absent"}, owner : Users, balance : {0},
                            daily_limit : {0}, per_tap_limit : {0}, spent_today : {0},
                            day_index : {0}, revoked : {FALSE} ]]
    /\ day = 1
    /\ received = [c \in Cards |-> 0]
    /\ released = [c \in Cards |-> 0]
    /\ today = [c \in Cards |-> 0]
    /\ top = [c \in Cards |-> 0]

CreateCap(c, sender, funding, daily, per_tap) ==
    /\ cap[c].phase = "absent"
    /\ per_tap > 0
    /\ daily >= per_tap
    /\ cap' = [cap EXCEPT ![c] =
           [ phase |-> "open", owner |-> sender, balance |-> funding,
             daily_limit |-> daily, per_tap_limit |-> per_tap, spent_today |-> 0,
             day_index |-> 0, revoked |-> FALSE ]]
    /\ received' = [received EXCEPT ![c] = funding]
    /\ top' = [top EXCEPT ![c] = daily]
    /\ UNCHANGED <<day, released, today>>

TopUp(c, sender, more) ==
    /\ Live(c) /\ cap[c].owner = sender
    /\ Fits(cap[c].balance + more)
    /\ received[c] + more <= MaxFunded
    /\ cap' = [cap EXCEPT ![c].balance = @ + more]
    /\ received' = [received EXCEPT ![c] = @ + more]
    /\ UNCHANGED <<day, released, today, top>>

UpdateLimits(c, sender, daily, per_tap) ==
    /\ Live(c) /\ cap[c].owner = sender
    /\ per_tap > 0
    /\ daily >= per_tap
    /\ cap' = [cap EXCEPT ![c].daily_limit = daily, ![c].per_tap_limit = per_tap]
    /\ top' = [top EXCEPT ![c] = Max2(@, daily)]
    /\ UNCHANGED <<day, received, released, today>>

SetRevoked(c, sender, revoked) ==
    /\ Live(c) /\ cap[c].owner = sender
    /\ cap' = [cap EXCEPT ![c].revoked = revoked]
    /\ UNCHANGED <<day, received, released, today, top>>

\* Mutant: the balance is not paid back.
DestroyKeepsBalance(c, sender) ==
    /\ Live(c) /\ cap[c].owner = sender
    /\ cap' = [cap EXCEPT ![c].phase = "closed"]
    /\ UNCHANGED <<day, received, released, today, top>>

DestroyAndReclaim(c, sender) ==
    /\ Live(c) /\ cap[c].owner = sender
    /\ cap' = [cap EXCEPT ![c].phase = "closed", ![c].balance = 0]
    /\ released' = [released EXCEPT ![c] = @ + cap[c].balance]
    /\ UNCHANGED <<day, received, today, top>>

\* Mutant: the new day's index is stored but the counter is not reset.
SpentSoFarNoReset(c) == cap[c].spent_today

\* Today's spending as debit sees it: a debit on another day starts from zero.
SpentSoFar(c) == IF cap[c].day_index = day THEN cap[c].spent_today ELSE 0

\* What every debit does once its checks have passed, given what it counts as spent
\* and the day it stores.
Pay(c, amount, spent, index) ==
    /\ cap' = [cap EXCEPT ![c].balance = @ - amount,
                          ![c].spent_today = spent + amount,
                          ![c].day_index = index]
    /\ released' = [released EXCEPT ![c] = @ + amount]
    /\ today' = [today EXCEPT ![c] = @ + amount]
    /\ UNCHANGED <<day, received, top>>

\* Mutant: the balance is not looked at.
AllowedBeyondBalance(c, amount) ==
    /\ Live(c) /\ ~cap[c].revoked
    /\ amount > 0
    /\ amount <= cap[c].per_tap_limit
    /\ SpentSoFar(c) + amount <= cap[c].daily_limit

Allowed(c, amount) ==
    /\ Live(c) /\ ~cap[c].revoked
    /\ amount > 0
    /\ amount <= cap[c].per_tap_limit
    /\ amount <= cap[c].balance
    /\ Fits(SpentSoFar(c) + amount)
    /\ SpentSoFar(c) + amount <= cap[c].daily_limit

\* Mutant: the counter is reset but the day's index is not stored.
DebitForgetsDay(c, amount) ==
    /\ Allowed(c, amount)
    /\ Pay(c, amount, SpentSoFar(c), cap[c].day_index)

\* The holder of the AggregatorCap signs; the owner is not asked.
Debit(c, amount) ==
    /\ Allowed(c, amount)
    /\ Pay(c, amount, SpentSoFar(c), day)

DayPasses ==
    /\ day < MaxDay
    /\ day' = day + 1
    /\ today' = [c \in Cards |-> 0]
    /\ top' = [c \in Cards |-> cap[c].daily_limit]
    /\ UNCHANGED <<cap, received, released>>

Owner(c, sender) ==
    \/ \E funding \in Amounts, daily, per_tap \in Limits :
          CreateCap(c, sender, funding, daily, per_tap)
    \/ \E more \in Amounts : TopUp(c, sender, more)
    \/ \E daily, per_tap \in Limits : UpdateLimits(c, sender, daily, per_tap)
    \/ \E revoked \in BOOLEAN : SetRevoked(c, sender, revoked)
    \/ DestroyAndReclaim(c, sender)

Next ==
    \/ \E c \in Cards : \/ \E sender \in Users : Owner(c, sender)
                        \/ \E amount \in Amounts : Debit(c, amount)
    \/ DayPasses

Spec == Init /\ [][Next]_vars

-----------------------------------------------------------------------------
(* Properties *)

\* Every variable keeps its type; no debit takes a balance below zero (CardSpendingCap).
TypeOK ==
    /\ cap \in [Cards -> CapRec]
    /\ day \in 1 .. MaxDay
    /\ received \in [Cards -> Nat]
    /\ released \in [Cards -> Nat]
    /\ today \in [Cards -> Nat]
    /\ top \in [Cards -> Nat]

\* The lazily rolled-over counter is exact: what debit takes for today's spending is
\* what the cap was debited on the clock's present day, whichever days were skipped
\* and whatever limits changed in between (the rollover inside debit).
CounterIsExact == \A c \in Cards : Live(c) => SpentSoFar(c) = today[c]

\* A day's debits never add up to more than the highest daily limit the owner had set
\* that day: not even lowering and raising the limit, revoking and un-revoking or
\* topping up in between lets Rails take more (debit's EOverDailyLimit).
DayWithinItsLimit == \A c \in Cards : today[c] <= top[c]

\* A cap is a vault: it opens with create_cap, top_up deposits, debit releases and
\* destroy_and_reclaim closes it and returns all that is left, to nobody else's loss.
CapVault == INSTANCE Vault WITH
    Ids      <- Cards,
    phase    <- [c \in Cards |-> cap[c].phase],
    held     <- [c \in Cards |-> cap[c].balance]

ImplementsVault == CapVault!Spec

=============================================================================
