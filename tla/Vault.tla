------------------------------- MODULE Vault -------------------------------
(***************************************************************************)
(* What every on-chain object that holds other people's coins promises:    *)
(* coins come in through a deposit, leave only through a release, and a    *)
(* vault that is closed holds nothing and stays closed.  The gateway's     *)
(* Order (contracts/gateway/sources/order.move) and the Tapp card's        *)
(* CardSpendingCap (tapp_card.move) are both shown to implement it.        *)
(***************************************************************************)
EXTENDS Naturals

CONSTANTS Ids,     \* the objects that may come to exist
          Amounts  \* values of the coins deposited

VARIABLES phase,    \* [Ids -> {"absent", "open", "closed"}]
          held,     \* coins inside the object
          received, \* coins ever deposited
          released  \* coins ever paid out

vaultVars == <<phase, held, received, released>>

TypeOK ==
    /\ phase \in [Ids -> {"absent", "open", "closed"}]
    /\ held \in [Ids -> Nat]
    /\ received \in [Ids -> Nat]
    /\ released \in [Ids -> Nat]

Init ==
    /\ phase = [i \in Ids |-> "absent"]
    /\ held = [i \in Ids |-> 0]
    /\ received = [i \in Ids |-> 0]
    /\ released = [i \in Ids |-> 0]

Open(i, amount) ==
    /\ phase[i] = "absent"
    /\ phase' = [phase EXCEPT ![i] = "open"]
    /\ held' = [held EXCEPT ![i] = amount]
    /\ received' = [received EXCEPT ![i] = amount]
    /\ UNCHANGED released

Deposit(i, amount) ==
    /\ phase[i] = "open"
    /\ held' = [held EXCEPT ![i] = held[i] + amount]
    /\ received' = [received EXCEPT ![i] = received[i] + amount]
    /\ UNCHANGED <<phase, released>>

Release(i, amount) ==
    /\ phase[i] = "open"
    /\ amount <= held[i]
    /\ held' = [held EXCEPT ![i] = held[i] - amount]
    /\ released' = [released EXCEPT ![i] = released[i] + amount]
    /\ UNCHANGED <<phase, received>>

Close(i) ==
    /\ phase[i] = "open"
    /\ phase' = [phase EXCEPT ![i] = "closed"]
    /\ held' = [held EXCEPT ![i] = 0]
    /\ released' = [released EXCEPT ![i] = released[i] + held[i]]
    /\ UNCHANGED received

Next ==
    \E i \in Ids :
        \/ \E amount \in Amounts : Open(i, amount) \/ Deposit(i, amount)
        \/ \E amount \in 0 .. held[i] : Release(i, amount)
        \/ Close(i)

Spec == Init /\ [][Next]_vaultVars

=============================================================================
