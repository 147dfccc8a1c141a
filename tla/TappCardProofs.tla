---------------------------- MODULE TappCardProofs ----------------------------
(***************************************************************************)
(* Proofs about TappCard, for every set of caps and users, every amount    *)
(* and limit, any number of days and every width of the integers.          *)
(***************************************************************************)
EXTENDS TappCard, TLAPS

(***************************************************************************)
(* The inductive invariant of one cap.  The rollover is lazy, so that the  *)
(* counter is exact is inductive only together with the stored day never   *)
(* being ahead of the clock: else a new day could meet its own index with  *)
(* an old counter.                                                         *)
(***************************************************************************)
CardInv(c) ==
    /\ cap[c].day_index <= day
    /\ today[c] <= top[c]
    /\ Live(c) => SpentSoFar(c) = today[c] /\ cap[c].daily_limit <= top[c]
    /\ cap[c].phase = "absent" => /\ today[c] = 0 /\ cap[c].balance = 0
                                  /\ received[c] = 0 /\ released[c] = 0

IInv == TypeOK /\ \A c \in Cards : CardInv(c)

LEMMA InitIInv == Init => IInv
<1> SUFFICES ASSUME Init PROVE IInv
  OBVIOUS
<1> USE CardAssumption
<1>1. ASSUME NEW c \in Cards
      PROVE  /\ cap[c] \in CapRec /\ cap[c].phase = "absent"
             /\ cap[c].day_index = 0 /\ cap[c].balance = 0
  <2> DEFINE Absent == [ phase : {"absent"}, owner : Users, balance : {0},
                         daily_limit : {0}, per_tap_limit : {0}, spent_today : {0},
                         day_index : {0}, revoked : {FALSE} ]
  <2>1. cap[c] \in Absent
    BY DEF Init
  <2>2. PICK u \in Users : cap[c] = [ phase |-> "absent", owner |-> u, balance |-> 0,
            daily_limit |-> 0, per_tap_limit |-> 0, spent_today |-> 0,
            day_index |-> 0, revoked |-> FALSE ]
    BY <2>1
  <2>3. QED
    BY <2>2 DEF CapRec
<1>2. cap \in [Cards -> CapRec]
  BY <1>1 DEF Init
<1>3. TypeOK
  BY <1>2 DEF Init, TypeOK
<1>4. ASSUME NEW c \in Cards PROVE CardInv(c)
  BY <1>1 DEF Init, CardInv, Live
<1>5. QED
  BY <1>3, <1>4 DEF IInv

\* A cap nobody touches keeps its invariant as long as the day lasts.
LEMMA OtherCards ==
    ASSUME NEW c \in Cards, CardInv(c), day' = day,
           cap'[c] = cap[c], today'[c] = today[c], top'[c] = top[c],
           received'[c] = received[c], released'[c] = released[c]
    PROVE  CardInv(c)'
  BY DEF CardInv, SpentSoFar, Live

LEMMA CreateIInv ==
    ASSUME IInv, NEW c \in Cards, NEW sender \in Users, NEW funding \in Amounts,
           NEW daily \in Limits, NEW per_tap \in Limits,
           CreateCap(c, sender, funding, daily, per_tap)
    PROVE  IInv'
<1> USE CardAssumption
<1>1. TypeOK /\ CardInv(c) /\ funding \in Nat /\ daily \in Nat /\ per_tap \in Nat
  BY DEF IInv
<1>2. TypeOK'
  BY <1>1 DEF TypeOK, CreateCap, CapRec
<1>3. CardInv(c)'
  BY <1>1 DEF TypeOK, CreateCap, CapRec, CardInv, Live, SpentSoFar
<1>4. ASSUME NEW q \in Cards, q # c PROVE CardInv(q)'
  <2>1. CardInv(q)
    BY DEF IInv
  <2>2. QED
    BY <1>1, <1>4, <2>1, OtherCards DEF TypeOK, CreateCap
<1>5. QED
  BY <1>2, <1>3, <1>4 DEF IInv

LEMMA TopUpIInv ==
    ASSUME IInv, NEW c \in Cards, NEW sender \in Users, NEW more \in Amounts,
           TopUp(c, sender, more)
    PROVE  IInv'
<1> USE CardAssumption
<1>1. TypeOK /\ CardInv(c) /\ more \in Nat
  BY DEF IInv
<1>2. TypeOK'
  BY <1>1 DEF TypeOK, TopUp, CapRec
<1>3. CardInv(c)'
  BY <1>1 DEF TypeOK, TopUp, CapRec, CardInv, Live, SpentSoFar
<1>4. ASSUME NEW q \in Cards, q # c PROVE CardInv(q)'
  <2>1. CardInv(q)
    BY DEF IInv
  <2>2. QED
    BY <1>1, <1>4, <2>1, OtherCards DEF TypeOK, TopUp
<1>5. QED
  BY <1>2, <1>3, <1>4 DEF IInv

LEMMA UpdateLimitsIInv ==
    ASSUME IInv, NEW c \in Cards, NEW sender \in Users,
           NEW daily \in Limits, NEW per_tap \in Limits,
           UpdateLimits(c, sender, daily, per_tap)
    PROVE  IInv'
<1> USE CardAssumption
<1>1. TypeOK /\ CardInv(c) /\ daily \in Nat /\ per_tap \in Nat
  BY DEF IInv
<1>2. TypeOK'
  <2>1. top[c] \in Nat /\ Max2(top[c], daily) \in Nat
    BY <1>1 DEF TypeOK, Max2
  <2> DEFINE new == [cap[c] EXCEPT !.daily_limit = daily, !.per_tap_limit = per_tap]
  <2>2. cap[c] \in CapRec /\ new \in CapRec
    BY <1>1 DEF TypeOK, CapRec
  <2>3. cap' = [cap EXCEPT ![c] = new]
    BY <1>1 DEF TypeOK, UpdateLimits
  <2>4. cap' \in [Cards -> CapRec]
    BY <1>1, <2>2, <2>3 DEF TypeOK
  <2>5. top' \in [Cards -> Nat]
    BY <1>1, <2>1 DEF TypeOK, UpdateLimits
  <2>6. QED
    BY <1>1, <2>4, <2>5 DEF TypeOK, UpdateLimits
<1>3. CardInv(c)'
  BY <1>1 DEF TypeOK, UpdateLimits, CapRec, CardInv, Live, SpentSoFar, Max2
<1>4. ASSUME NEW q \in Cards, q # c PROVE CardInv(q)'
  <2>1. CardInv(q)
    BY DEF IInv
  <2>2. QED
    BY <1>1, <1>4, <2>1, OtherCards DEF TypeOK, UpdateLimits
<1>5. QED
  BY <1>2, <1>3, <1>4 DEF IInv

LEMMA SetRevokedIInv ==
    ASSUME IInv, NEW c \in Cards, NEW sender \in Users, NEW revoked \in BOOLEAN,
           SetRevoked(c, sender, revoked)
    PROVE  IInv'
<1>1. TypeOK /\ CardInv(c)
  BY DEF IInv
<1>2. TypeOK'
  BY <1>1 DEF TypeOK, SetRevoked, CapRec
<1>3. CardInv(c)'
  BY <1>1 DEF TypeOK, SetRevoked, CapRec, CardInv, Live, SpentSoFar
<1>4. ASSUME NEW q \in Cards, q # c PROVE CardInv(q)'
  <2>1. CardInv(q)
    BY DEF IInv
  <2>2. QED
    BY <1>1, <1>4, <2>1, OtherCards DEF TypeOK, SetRevoked
<1>5. QED
  BY <1>2, <1>3, <1>4 DEF IInv

LEMMA DestroyIInv ==
    ASSUME IInv, NEW c \in Cards, NEW sender \in Users, DestroyAndReclaim(c, sender)
    PROVE  IInv'
<1>1. TypeOK /\ CardInv(c)
  BY DEF IInv
<1>2. TypeOK'
  <2>1. cap[c].balance \in Nat /\ released[c] + cap[c].balance \in Nat
    BY <1>1 DEF TypeOK, CapRec
  <2>2. cap[c] \in CapRec /\ [cap[c] EXCEPT !.phase = "closed", !.balance = 0] \in CapRec
    BY <1>1 DEF TypeOK, CapRec
  <2>3. cap' = [cap EXCEPT ![c] = [cap[c] EXCEPT !.phase = "closed", !.balance = 0]]
    BY <1>1 DEF TypeOK, DestroyAndReclaim
  <2>4. cap' \in [Cards -> CapRec]
    BY <1>1, <2>2, <2>3 DEF TypeOK
  <2>5. QED
    BY <1>1, <2>1, <2>4 DEF TypeOK, DestroyAndReclaim
<1>3. CardInv(c)'
  BY <1>1 DEF TypeOK, DestroyAndReclaim, CapRec, CardInv, Live, SpentSoFar
<1>4. ASSUME NEW q \in Cards, q # c PROVE CardInv(q)'
  <2>1. CardInv(q)
    BY DEF IInv
  <2>2. QED
    BY <1>1, <1>4, <2>1, OtherCards DEF TypeOK, DestroyAndReclaim
<1>5. QED
  BY <1>2, <1>3, <1>4 DEF IInv

LEMMA DebitIInv ==
    ASSUME IInv, NEW c \in Cards, NEW amount \in Amounts, Debit(c, amount)
    PROVE  IInv'
<1> USE CardAssumption
<1>1. TypeOK /\ CardInv(c) /\ amount \in Nat /\ cap[c] \in CapRec
  BY DEF IInv, TypeOK
<1>2. SpentSoFar(c) \in Nat /\ SpentSoFar(c) = today[c]
  BY <1>1 DEF TypeOK, SpentSoFar, CapRec, CardInv, Debit, Allowed
<1>3. amount <= cap[c].balance /\ today[c] + amount <= cap[c].daily_limit
  BY <1>2 DEF Debit, Allowed
<1>4. cap'[c] = [cap[c] EXCEPT !.balance = @ - amount, !.spent_today = today[c] + amount,
                               !.day_index = day]
      /\ today'[c] = today[c] + amount /\ top'[c] = top[c] /\ day' = day
  BY <1>1, <1>2 DEF TypeOK, Debit, Pay, CapRec
<1>5. TypeOK'
  <2>1. /\ cap[c].balance - amount \in Nat /\ SpentSoFar(c) + amount \in Nat
        /\ released[c] + amount \in Nat /\ today[c] + amount \in Nat
        /\ day \in 0 .. MaxDay
    BY <1>1, <1>2, <1>3 DEF TypeOK, CapRec
  <2>2. cap' \in [Cards -> CapRec]
    <3>1. cap'[c] \in CapRec
      BY <1>1, <1>2, <1>4, <2>1 DEF CapRec
    <3>2. cap' = [cap EXCEPT ![c] = cap'[c]]
      BY <1>1 DEF TypeOK, Debit, Pay
    <3>3. QED
      BY <1>1, <3>1, <3>2 DEF TypeOK
  <2>3. QED
    BY <1>1, <2>1, <2>2 DEF TypeOK, Debit, Pay
<1>6. CardInv(c)'
  BY <1>1, <1>3, <1>4, <1>5 DEF TypeOK, CapRec, CardInv, Live, SpentSoFar, Debit, Allowed
<1>7. ASSUME NEW q \in Cards, q # c PROVE CardInv(q)'
  <2>1. CardInv(q)
    BY DEF IInv
  <2>2. QED
    BY <1>1, <1>7, <2>1, OtherCards DEF TypeOK, Debit, Pay
<1>8. QED
  BY <1>5, <1>6, <1>7 DEF IInv

\* Midnight: the stored day is behind the clock, so every counter reads zero.
LEMMA DayPassesIInv == ASSUME IInv, DayPasses PROVE IInv'
<1> USE CardAssumption
<1>1. TypeOK
  BY DEF IInv
<1>2. TypeOK'
  BY <1>1 DEF TypeOK, DayPasses, CapRec
<1>3. ASSUME NEW c \in Cards PROVE CardInv(c)'
  <2>1. CardInv(c) /\ cap[c] \in CapRec /\ day \in Nat
    BY <1>1 DEF IInv, TypeOK
  <2>2. cap' = cap /\ day' = day + 1 /\ today'[c] = 0 /\ top'[c] = cap[c].daily_limit
        /\ received' = received /\ released' = released
    BY DEF DayPasses
  <2>3. cap[c].day_index # day'
    BY <2>1, <2>2 DEF CapRec, CardInv
  <2>4. QED
    BY <2>1, <2>2, <2>3 DEF CardInv, CapRec, Live, SpentSoFar
<1>4. QED
  BY <1>2, <1>3 DEF IInv

LEMMA StepIInv == IInv /\ [Next]_vars => IInv'
<1> SUFFICES ASSUME IInv, [Next]_vars PROVE IInv'
  OBVIOUS
<1>1. CASE \E c \in Cards, sender \in Users : Owner(c, sender)
  BY <1>1, CreateIInv, TopUpIInv, UpdateLimitsIInv, SetRevokedIInv, DestroyIInv DEF Owner
<1>2. CASE \E c \in Cards, amount \in Amounts : Debit(c, amount)
  BY <1>2, DebitIInv
<1>3. CASE DayPasses
  BY <1>3, DayPassesIInv
<1>4. CASE UNCHANGED vars
  BY <1>4 DEF vars, IInv, TypeOK, CardInv, Live, SpentSoFar
<1>5. QED
  BY <1>1, <1>2, <1>3, <1>4 DEF Next

LEMMA Invariance == Spec => []IInv
  BY InitIInv, StepIInv, PTL DEF Spec

-----------------------------------------------------------------------------

\* The types hold in every reachable state; no debit takes a balance below zero.
THEOREM TypeCorrect == Spec => []TypeOK
<1>1. IInv => TypeOK
  BY DEF IInv
<1>2. QED
  BY <1>1, Invariance, PTL

\* What debit takes for today's spending is what it has debited today.
THEOREM CounterIsExactHolds == Spec => []CounterIsExact
<1>1. IInv => CounterIsExact
  BY DEF IInv, CardInv, CounterIsExact
<1>2. QED
  BY <1>1, Invariance, PTL

\* No day's debits exceed the highest daily limit its owner had set that day.
THEOREM DayWithinItsLimitHolds == Spec => []DayWithinItsLimit
<1>1. IInv => DayWithinItsLimit
  BY DEF IInv, CardInv, DayWithinItsLimit
<1>2. QED
  BY <1>1, Invariance, PTL

-----------------------------------------------------------------------------
(* The refinement: every step of a cap is a step of the vault or a stutter. *)

LEMMA OwnerVault ==
    ASSUME IInv, NEW c \in Cards, NEW sender \in Users, Owner(c, sender)
    PROVE  CapVault!Next \/ UNCHANGED (CapVault!vaultVars)
<1> USE CardAssumption
<1>1. cap \in [Cards -> CapRec] /\ received \in [Cards -> Nat] /\ released \in [Cards -> Nat]
      /\ cap[c] \in CapRec /\ CardInv(c)
  BY DEF IInv, TypeOK
<1>2. ASSUME NEW funding \in Amounts, NEW daily \in Limits, NEW per_tap \in Limits,
             CreateCap(c, sender, funding, daily, per_tap)
      PROVE  CapVault!Open(c, funding)
  BY <1>1, <1>2 DEF CreateCap, CapVault!Open
<1>3. ASSUME NEW more \in Amounts, TopUp(c, sender, more)
      PROVE  CapVault!Deposit(c, more)
  BY <1>1, <1>3 DEF TopUp, Live, CapRec, CapVault!Deposit
<1>4. ASSUME NEW daily \in Limits, NEW per_tap \in Limits,
             UpdateLimits(c, sender, daily, per_tap)
      PROVE  UNCHANGED (CapVault!vaultVars)
  BY <1>1, <1>4 DEF UpdateLimits, CapRec, CapVault!vaultVars
<1>5. ASSUME NEW revoked \in BOOLEAN, SetRevoked(c, sender, revoked)
      PROVE  UNCHANGED (CapVault!vaultVars)
  BY <1>1, <1>5 DEF SetRevoked, CapRec, CapVault!vaultVars
<1>6. ASSUME DestroyAndReclaim(c, sender) PROVE CapVault!Close(c)
  BY <1>1, <1>6 DEF DestroyAndReclaim, Live, CapRec, CapVault!Close
<1>7. QED
  BY <1>2, <1>3, <1>4, <1>5, <1>6 DEF Owner, CapVault!Next

LEMMA DebitVault ==
    ASSUME IInv, NEW c \in Cards, NEW amount \in Amounts, Debit(c, amount)
    PROVE  CapVault!Next
<1>1. cap \in [Cards -> CapRec] /\ released \in [Cards -> Nat] /\ cap[c] \in CapRec
      /\ amount \in Nat
  BY CardAssumption DEF IInv, TypeOK
<1>2. amount \in 0 .. cap[c].balance
  BY <1>1 DEF Debit, Allowed, CapRec
<1>3. CapVault!Release(c, amount)
  BY <1>1, <1>2 DEF Debit, Allowed, Pay, Live, CapRec, CapVault!Release
<1>4. QED
  BY <1>2, <1>3 DEF CapVault!Next

\* A cap is a vault: what its owner put in is inside, debited, or back with the owner.
THEOREM CapImplementsVault == Spec => ImplementsVault
<1>1. Init => CapVault!Init
  BY DEF Init, CapVault!Init
<1>2. ASSUME IInv, [Next]_vars
      PROVE  [CapVault!Next]_(CapVault!vaultVars)
  <2>1. CASE \E c \in Cards, sender \in Users : Owner(c, sender)
    BY <1>2, <2>1, OwnerVault
  <2>2. CASE \E c \in Cards, amount \in Amounts : Debit(c, amount)
    BY <1>2, <2>2, DebitVault
  <2>3. CASE DayPasses
    BY <2>3 DEF DayPasses, CapVault!vaultVars
  <2>4. CASE UNCHANGED vars
    BY <2>4 DEF vars, CapVault!vaultVars
  <2>5. QED
    BY <1>2, <2>1, <2>2, <2>3, <2>4 DEF Next
<1>3. QED
  BY <1>1, <1>2, Invariance, PTL DEF Spec, ImplementsVault, CapVault!Spec
=============================================================================
