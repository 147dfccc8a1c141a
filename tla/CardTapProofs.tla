---------------------------- MODULE CardTapProofs ----------------------------
(***************************************************************************)
(* Proofs about CardTap, for any number of purchases and of requests at    *)
(* once, every number of PIN attempts and every number of faults.          *)
(***************************************************************************)
EXTENDS CardTap, TLAPS

LEMMA Members ==
    /\ "live" \in Statuses /\ "locked" \in Statuses /\ "revoked" \in Statuses
    /\ "none" \in Tiers /\ "pin" \in Tiers /\ "step_up" \in Tiers /\ "granted" \in Tiers
    /\ "absent" \in NonceStates /\ "gone" \in NonceStates /\ Tiers \subseteq NonceStates
    /\ "none" \in PoStatuses /\ "open" \in PoStatuses /\ "settled" \in PoStatuses
    /\ "idle" \in Steps /\ "lookup" \in Steps /\ "pin" \in Steps /\ "persist" \in Steps
    /\ "debit" \in Steps /\ "rotate" \in Steps /\ "write" \in Steps
    /\ 0 \in 0 .. MaxAttempts /\ MaxAttempts \in 0 .. MaxAttempts
    /\ \A k \in 0 .. MaxAttempts : k # 0 => k - 1 \in 0 .. MaxAttempts
    /\ 1 \in Tokens /\ \A k \in Tokens : k + 1 \in Tokens /\ 1 .. k \subseteq Tokens
  BY CardTapAssumption DEF Statuses, Tiers, NonceStates, PoStatuses, Steps, Tokens

LEMMA NoJobType == NoJob \in JobRec
  BY Members DEF NoJob, JobRec

\* Every request in progress is about a purchase.
Tapped == \A h \in Handlers : ~At(h, "idle") => job[h].tap \in Taps

TInv == TypeOK /\ Tapped

LEMMA TypeStep ==
    ASSUME TInv, [Next]_vars
    PROVE  TypeOK'
<1> USE CardTapAssumption, Members, NoJobType
<1>1. ASSUME NEW h \in Handlers, NEW t \in Taps, ConsumeNonce(h, t) PROVE TypeOK'
  <2>1. card' \in CardRec
    BY <1>1 DEF ConsumeNonce, Begin, TInv, TypeOK, CardRec, JobRec
  <2>2. job' \in [Handlers -> JobRec]
    <3>1. nonce[t] \in Tiers /\ nonce \in [Taps -> NonceStates] /\ made \in Tokens
      BY <1>1 DEF ConsumeNonce, Issued, TInv, TypeOK
    <3>2. \A k \in 1 .. made, copy \in BOOLEAN :
             [ step |-> "lookup", tap |-> t, tier |-> nonce[t], shown |-> k, copy |-> copy,
               attempts |-> 0 ] \in JobRec
      BY <3>1, Members DEF JobRec
    <3>3. QED
      BY <1>1, <3>2 DEF ConsumeNonce, Begin, TInv, TypeOK
  <2>3. nonce' \in [Taps -> NonceStates] /\ po' \in [Taps -> PoStatuses]
            /\ funds' \in 0 .. Funds /\ debits' \in [Taps -> Nat]
    BY <1>1 DEF ConsumeNonce, Begin, chain, TInv, TypeOK, JobRec
  <2>4. chip' \in Tokens /\ made' \in Tokens /\ app' \in AppRec /\ paid' \subseteq Tokens \X Taps
    BY <1>1 DEF ConsumeNonce, Begin, TInv, TypeOK, CardRec, JobRec
  <2>5. wrong' \in Nat /\ resets' \in 0 .. MaxResets /\ faults' \in 0 .. MaxFaults
            /\ overlapped' \in BOOLEAN /\ copied' \in BOOLEAN /\ unlinked' \subseteq Tokens
    BY <1>1 DEF ConsumeNonce, Begin, TInv, TypeOK
  <2>6. QED
    BY <2>1, <2>2, <2>3, <2>4, <2>5 DEF TypeOK
<1>2. ASSUME NEW h \in Handlers, Lookup(h) PROVE TypeOK'
  BY <1>2 DEF Lookup, Answer, rows, chain, ghosts, TInv, TypeOK, CardRec, JobRec
<1>3. ASSUME NEW h \in Handlers, PinFailure(h) PROVE TypeOK'
  <2>1. card' \in CardRec
    <3> DEFINE left == IF job[h].attempts = 0 THEN 0 ELSE job[h].attempts - 1
    <3>1. left \in 0 .. MaxAttempts
      BY Members DEF TInv, TypeOK, JobRec
    <3>2. \/ card' = [card EXCEPT !.attempts = left,
                                  !.status = IF left = 0 THEN "locked" ELSE @]
          \/ card' = card
      BY <1>3 DEF PinFailure
    <3>3. (IF left = 0 THEN "locked" ELSE card.status) \in Statuses /\ card \in CardRec
      BY Members DEF TInv, TypeOK, CardRec
    <3>4. QED
      BY <3>1, <3>2, <3>3 DEF CardRec
  <2>2. job' \in [Handlers -> JobRec]
    BY <1>3 DEF PinFailure, Answer, Fault, TInv, TypeOK, CardRec, JobRec
  <2>3. nonce' \in [Taps -> NonceStates] /\ po' \in [Taps -> PoStatuses]
            /\ funds' \in 0 .. Funds /\ debits' \in [Taps -> Nat]
    BY <1>3 DEF PinFailure, Answer, Fault, chain, TInv, TypeOK, JobRec
  <2>4. chip' \in Tokens /\ made' \in Tokens /\ app' \in AppRec /\ paid' \subseteq Tokens \X Taps
    BY <1>3 DEF PinFailure, Answer, Fault, TInv, TypeOK, CardRec, JobRec
  <2>5. wrong' \in Nat /\ resets' \in 0 .. MaxResets /\ faults' \in 0 .. MaxFaults
            /\ overlapped' \in BOOLEAN /\ copied' \in BOOLEAN /\ unlinked' \subseteq Tokens
    BY <1>3 DEF PinFailure, Answer, Fault, TInv, TypeOK
  <2>6. QED
    BY <2>1, <2>2, <2>3, <2>4, <2>5 DEF TypeOK
<1>4. ASSUME NEW h \in Handlers, PersistOrder(h) PROVE TypeOK'
  BY <1>4 DEF PersistOrder, Go, chain, ghosts, TInv, TypeOK, CardRec, JobRec
<1>5. ASSUME NEW h \in Handlers, DebitReturns(h) PROVE TypeOK'
  <2>1. card' \in CardRec
    BY <1>5 DEF DebitReturns, Moves, Go, rows, TInv, TypeOK, CardRec, JobRec
  <2>2. job' \in [Handlers -> JobRec]
    BY <1>5 DEF DebitReturns, Moves, Go, TInv, TypeOK, CardRec, JobRec
  <2>3. nonce' \in [Taps -> NonceStates] /\ po' \in [Taps -> PoStatuses]
            /\ funds' \in 0 .. Funds /\ debits' \in [Taps -> Nat]
    <3>1. job[h].tap \in Taps /\ debits \in [Taps -> Nat] /\ funds \in 0 .. Funds
      BY <1>5 DEF DebitReturns, TInv, TypeOK, Tapped, At
    <3>2. debits' \in [Taps -> Nat]
      BY <1>5, <3>1 DEF DebitReturns, Moves
    <3>3. funds' \in 0 .. Funds
      BY <1>5, <3>1 DEF DebitReturns, Moves
    <3>4. UNCHANGED <<nonce, po>>
      BY <1>5 DEF DebitReturns, rows
    <3>5. QED
      BY <3>2, <3>3, <3>4 DEF TInv, TypeOK
  <2>4. chip' \in Tokens /\ made' \in Tokens /\ app' \in AppRec /\ paid' \subseteq Tokens \X Taps
    <3>1. job[h] \in JobRec /\ job[h].tap \in Taps
      BY <1>5 DEF DebitReturns, TInv, TypeOK, Tapped, At
    <3>2. <<job[h].shown, job[h].tap>> \in Tokens \X Taps
      BY <3>1 DEF JobRec
    <3>3. QED
      BY <1>5, <3>2 DEF DebitReturns, Moves, TInv, TypeOK
  <2>5. wrong' \in Nat /\ resets' \in 0 .. MaxResets /\ faults' \in 0 .. MaxFaults
            /\ overlapped' \in BOOLEAN /\ copied' \in BOOLEAN /\ unlinked' \subseteq Tokens
    BY <1>5 DEF DebitReturns, Moves, Go, TInv, TypeOK
  <2>6. QED
    BY <2>1, <2>2, <2>3, <2>4, <2>5 DEF TypeOK
<1>6. ASSUME NEW h \in Handlers, DebitFails(h) PROVE TypeOK'
  BY <1>6 DEF DebitFails, Answer, rows, chain, ghosts, TInv, TypeOK, CardRec, JobRec
<1>7. ASSUME NEW h \in Handlers, DebitUnanswered(h) PROVE TypeOK'
  <2>1. card' \in CardRec
    BY <1>7 DEF DebitUnanswered, Moves, Answer, Fault, rows, TInv, TypeOK, CardRec, JobRec
  <2>2. job' \in [Handlers -> JobRec]
    BY <1>7 DEF DebitUnanswered, Moves, Answer, Fault, TInv, TypeOK, CardRec, JobRec
  <2>3. nonce' \in [Taps -> NonceStates] /\ po' \in [Taps -> PoStatuses]
            /\ funds' \in 0 .. Funds /\ debits' \in [Taps -> Nat]
    <3>1. job[h].tap \in Taps /\ debits \in [Taps -> Nat] /\ funds \in 0 .. Funds
      BY <1>7 DEF DebitUnanswered, TInv, TypeOK, Tapped, At
    <3>2. debits' \in [Taps -> Nat]
      BY <1>7, <3>1 DEF DebitUnanswered, Moves
    <3>3. funds' \in 0 .. Funds
      BY <1>7, <3>1 DEF DebitUnanswered, Moves
    <3>4. UNCHANGED <<nonce, po>>
      BY <1>7 DEF DebitUnanswered, rows
    <3>5. QED
      BY <3>2, <3>3, <3>4 DEF TInv, TypeOK
  <2>4. chip' \in Tokens /\ made' \in Tokens /\ app' \in AppRec /\ paid' \subseteq Tokens \X Taps
    <3>1. job[h] \in JobRec /\ job[h].tap \in Taps
      BY <1>7 DEF DebitUnanswered, TInv, TypeOK, Tapped, At
    <3>2. <<job[h].shown, job[h].tap>> \in Tokens \X Taps
      BY <3>1 DEF JobRec
    <3>3. QED
      BY <1>7, <3>2 DEF DebitUnanswered, Moves, TInv, TypeOK
  <2>5. wrong' \in Nat /\ resets' \in 0 .. MaxResets /\ faults' \in 0 .. MaxFaults
            /\ overlapped' \in BOOLEAN /\ copied' \in BOOLEAN /\ unlinked' \subseteq Tokens
    BY <1>7 DEF DebitUnanswered, Moves, Answer, Fault, TInv, TypeOK
  <2>6. QED
    BY <2>1, <2>2, <2>3, <2>4, <2>5 DEF TypeOK
<1>8. ASSUME NEW h \in Handlers, RotateToken(h) PROVE TypeOK'
  <2>1. card' \in CardRec
    BY <1>8 DEF RotateToken, Answer, Fault, TInv, TypeOK, CardRec, JobRec
  <2>2. job' \in [Handlers -> JobRec]
    BY <1>8 DEF RotateToken, Answer, Fault, TInv, TypeOK, CardRec, JobRec
  <2>3. nonce' \in [Taps -> NonceStates] /\ po' \in [Taps -> PoStatuses]
            /\ funds' \in 0 .. Funds /\ debits' \in [Taps -> Nat]
    BY <1>8 DEF RotateToken, Answer, Fault, chain, TInv, TypeOK, JobRec
  <2>4. chip' \in Tokens /\ made' \in Tokens /\ app' \in AppRec /\ paid' \subseteq Tokens \X Taps
    BY <1>8 DEF RotateToken, Answer, Fault, TInv, TypeOK, CardRec, JobRec
  <2>5. wrong' \in Nat /\ resets' \in 0 .. MaxResets /\ faults' \in 0 .. MaxFaults
            /\ overlapped' \in BOOLEAN /\ copied' \in BOOLEAN /\ unlinked' \subseteq Tokens
    BY <1>8 DEF RotateToken, Answer, Fault, TInv, TypeOK
  <2>6. QED
    BY <2>1, <2>2, <2>3, <2>4, <2>5 DEF TypeOK
<1>9. ASSUME NEW h \in Handlers, WriteToken(h) PROVE TypeOK'
  <2> job[h] \in JobRec
    BY DEF TInv, TypeOK
  <2>1. card' \in CardRec
    BY <1>9 DEF WriteToken, Lands, Answer, Fault, TInv, TypeOK, CardRec, JobRec
  <2>2. job' \in [Handlers -> JobRec]
    BY <1>9 DEF WriteToken, Lands, Answer, Fault, TInv, TypeOK, CardRec, JobRec
  <2>3. nonce' \in [Taps -> NonceStates] /\ po' \in [Taps -> PoStatuses]
            /\ funds' \in 0 .. Funds /\ debits' \in [Taps -> Nat]
    BY <1>9 DEF WriteToken, chain, TInv, TypeOK
  <2>4. chip' \in Tokens /\ made' \in Tokens /\ app' \in AppRec /\ paid' \subseteq Tokens \X Taps
    <3>1. chip' \in {chip, job[h].shown}
      BY <1>9 DEF WriteToken, Lands
    <3>2. chip' \in Tokens
      BY <3>1 DEF TInv, TypeOK, JobRec
    <3>3. QED
      BY <1>9, <3>2 DEF WriteToken, TInv, TypeOK
  <2>5. faults' \in 0 .. MaxFaults
    BY <1>9 DEF WriteToken, Fault, TInv, TypeOK
  <2>6. copied' \in BOOLEAN
    <3>1. copied' \in {copied, copied \/ job[h].copy}
      BY <1>9, Zenon DEF WriteToken, Lands
    <3>2. QED
      BY <3>1, Zenon DEF TInv, TypeOK
  <2>7. wrong' \in Nat /\ resets' \in 0 .. MaxResets /\ overlapped' \in BOOLEAN
            /\ unlinked' \subseteq Tokens
    BY <1>9 DEF WriteToken, TInv, TypeOK
  <2>8. QED
    BY <2>1, <2>2, <2>3, <2>4, <2>5, <2>6, <2>7 DEF TypeOK
<1>10. ASSUME NEW h \in Handlers, Crash(h) PROVE TypeOK'
  <2>1. card' \in CardRec
    BY <1>10 DEF Crash, Answer, Fault, rows, TInv, TypeOK, CardRec, JobRec
  <2>2. job' \in [Handlers -> JobRec]
    BY <1>10 DEF Crash, Answer, Fault, TInv, TypeOK, CardRec, JobRec
  <2>3. nonce' \in [Taps -> NonceStates] /\ po' \in [Taps -> PoStatuses]
            /\ funds' \in 0 .. Funds /\ debits' \in [Taps -> Nat]
    BY <1>10 DEF Crash, Answer, Fault, rows, chain, TInv, TypeOK, JobRec
  <2>4. chip' \in Tokens /\ made' \in Tokens /\ app' \in AppRec /\ paid' \subseteq Tokens \X Taps
    BY <1>10 DEF Crash, Answer, Fault, TInv, TypeOK, CardRec, JobRec
  <2>5. wrong' \in Nat /\ resets' \in 0 .. MaxResets /\ faults' \in 0 .. MaxFaults
            /\ overlapped' \in BOOLEAN /\ copied' \in BOOLEAN /\ unlinked' \subseteq Tokens
    BY <1>10 DEF Crash, Answer, Fault, TInv, TypeOK
  <2>6. QED
    BY <2>1, <2>2, <2>3, <2>4, <2>5 DEF TypeOK
<1>11. ASSUME NEW t \in Taps, TapCardNonce(t) PROVE TypeOK'
  BY <1>11 DEF TapCardNonce, chain, ghosts, TInv, TypeOK, CardRec, JobRec
<1>12. ASSUME NEW t \in Taps, StepUpGrant(t) PROVE TypeOK'
  BY <1>12 DEF StepUpGrant, chain, ghosts, TInv, TypeOK, CardRec, JobRec
<1>13. ASSUME NEW t \in Taps, NonceExpires(t) PROVE TypeOK'
  BY <1>13 DEF NonceExpires, chain, ghosts, TInv, TypeOK, CardRec, JobRec
<1>14. ASSUME NEW t \in Taps, CardDebited(t) PROVE TypeOK'
  BY <1>14 DEF CardDebited, chain, ghosts, TInv, TypeOK, CardRec, JobRec
<1>15. ASSUME FetchResync \/ WriteResync \/ ResyncComplete PROVE TypeOK'
  <2>1. card' \in CardRec /\ chip' \in Tokens /\ made' \in Tokens
    BY <1>15 DEF FetchResync, WriteResync, ResyncComplete, TInv, TypeOK, CardRec, AppRec
  <2>2. app' \in AppRec
    BY <1>15 DEF FetchResync, WriteResync, ResyncComplete, NoApp, TInv, TypeOK, CardRec, AppRec
  <2>3. UNCHANGED <<nonce, po, chain, job, paid, copied, faults, wrong, unlinked, resets>>
    BY <1>15 DEF FetchResync, WriteResync, ResyncComplete, AppFrame
  <2>4. overlapped' \in BOOLEAN
    BY <1>15 DEF FetchResync, WriteResync, ResyncComplete, TInv, TypeOK
  <2>5. QED
    BY <2>1, <2>2, <2>3, <2>4 DEF chain, TInv, TypeOK
<1>16. ASSUME WriteRelink \/ RelinkFails PROVE TypeOK'
  <2>1. card' \in CardRec /\ job' \in [Handlers -> JobRec]
    BY <1>16 DEF WriteRelink, RelinkFails, AppFrame, rows, TInv, TypeOK
  <2>2. nonce' \in [Taps -> NonceStates] /\ po' \in [Taps -> PoStatuses]
            /\ funds' \in 0 .. Funds /\ debits' \in [Taps -> Nat]
    BY <1>16 DEF WriteRelink, RelinkFails, AppFrame, rows, chain, TInv, TypeOK
  <2>3. chip' \in Tokens /\ made' \in Tokens /\ app' \in AppRec /\ paid' \subseteq Tokens \X Taps
    BY <1>16 DEF WriteRelink, RelinkFails, AppFrame, NoApp, AppRec, TInv, TypeOK
  <2>4. resets' \in 0 .. MaxResets /\ faults' \in 0 .. MaxFaults /\ wrong' \in Nat
    BY <1>16 DEF WriteRelink, RelinkFails, AppFrame, Bounded, Fault, TInv, TypeOK
  <2>5. unlinked' \subseteq Tokens
    BY <1>16 DEF WriteRelink, RelinkFails, AppRec, TInv, TypeOK
  <2>6. overlapped' \in BOOLEAN
    BY <1>16 DEF WriteRelink, RelinkFails, TInv, TypeOK
  <2>7. copied' = copied
    BY <1>16 DEF WriteRelink, RelinkFails, AppFrame
  <2>8. QED
    BY <2>1, <2>2, <2>3, <2>4, <2>5, <2>6, <2>7 DEF TInv, TypeOK
<1>17. ASSUME Relink PROVE TypeOK'
  <2>1. card' \in CardRec
    BY <1>17 DEF Relink, AppFrame, NoApp, AppRec, TInv, TypeOK, CardRec, JobRec
  <2>2. job' \in [Handlers -> JobRec]
    BY <1>17 DEF Relink, AppFrame, NoApp, AppRec, TInv, TypeOK, CardRec, JobRec
  <2>3. nonce' \in [Taps -> NonceStates] /\ po' \in [Taps -> PoStatuses]
            /\ funds' \in 0 .. Funds /\ debits' \in [Taps -> Nat]
    BY <1>17 DEF Relink, AppFrame, chain, TInv, TypeOK, JobRec
  <2>4. chip' \in Tokens /\ made' \in Tokens /\ app' \in AppRec /\ paid' \subseteq Tokens \X Taps
    BY <1>17 DEF Relink, AppFrame, NoApp, AppRec, TInv, TypeOK, CardRec, JobRec
  <2>5. wrong' \in Nat /\ resets' \in 0 .. MaxResets /\ faults' \in 0 .. MaxFaults
            /\ overlapped' \in BOOLEAN /\ copied' \in BOOLEAN /\ unlinked' \subseteq Tokens
    BY <1>17 DEF Relink, AppFrame, TInv, TypeOK
  <2>6. QED
    BY <2>1, <2>2, <2>3, <2>4, <2>5 DEF TypeOK
<1>18. ASSUME Revoke PROVE TypeOK'
  BY <1>18 DEF Revoke, chain, ghosts, TInv, TypeOK, CardRec, JobRec
<1>19. ASSUME LockCard PROVE TypeOK'
  BY <1>19 DEF LockCard, chain, ghosts, TInv, TypeOK, CardRec, JobRec
<1>20. ASSUME Unlock PROVE TypeOK'
  <2>1. card' \in CardRec
    BY <1>20 DEF Unlock, Bounded, TInv, TypeOK, CardRec, JobRec
  <2>2. job' \in [Handlers -> JobRec]
    BY <1>20 DEF Unlock, Bounded, TInv, TypeOK, CardRec, JobRec
  <2>3. nonce' \in [Taps -> NonceStates] /\ po' \in [Taps -> PoStatuses]
            /\ funds' \in 0 .. Funds /\ debits' \in [Taps -> Nat]
    BY <1>20 DEF Unlock, Bounded, chain, TInv, TypeOK, JobRec
  <2>4. chip' \in Tokens /\ made' \in Tokens /\ app' \in AppRec /\ paid' \subseteq Tokens \X Taps
    BY <1>20 DEF Unlock, Bounded, TInv, TypeOK, CardRec, JobRec
  <2>5. wrong' \in Nat /\ resets' \in 0 .. MaxResets /\ faults' \in 0 .. MaxFaults
            /\ overlapped' \in BOOLEAN /\ copied' \in BOOLEAN /\ unlinked' \subseteq Tokens
    BY <1>20 DEF Unlock, Bounded, TInv, TypeOK
  <2>6. QED
    BY <2>1, <2>2, <2>3, <2>4, <2>5 DEF TypeOK
<1>21. ASSUME RequestResync PROVE TypeOK'
  BY <1>21 DEF RequestResync, chain, ghosts, TInv, TypeOK, CardRec, JobRec
<1>22. ASSUME UNCHANGED vars PROVE TypeOK'
  BY <1>22 DEF vars, rows, chain, ghosts, TInv, TypeOK, CardRec, JobRec
<1>23. QED
  BY <1>1, <1>2, <1>3, <1>4, <1>5, <1>6, <1>7, <1>8, <1>9, <1>10, <1>11, <1>12, <1>13,
      <1>14, <1>15, <1>16, <1>17, <1>18, <1>19, <1>20, <1>21, <1>22 DEF Next, Handle, Owner,
      Operator

-----------------------------------------------------------------------------
(***************************************************************************)
(* What a step makes of the requests in progress.                          *)
(***************************************************************************)
Others(h) == \A g \in Handlers : g # h => job'[g] = job[g]

LEMMA GoJob ==
    ASSUME job \in [Handlers -> JobRec], NEW h \in Handlers, NEW s, Go(h, s)
    PROVE  /\ Others(h)
           /\ job'[h].step = s /\ job'[h].tap = job[h].tap
           /\ job'[h].shown = job[h].shown /\ job'[h].attempts = job[h].attempts
  BY DEF Go, Others, JobRec

LEMMA AnswerJob ==
    ASSUME job \in [Handlers -> JobRec], NEW h \in Handlers, Answer(h)
    PROVE  Others(h) /\ job'[h].step = "idle"
  BY DEF Answer, Others, NoJob

LEMMA ConsumeJob ==
    ASSUME TInv, NEW h \in Handlers, NEW t \in Taps, ConsumeNonce(h, t)
    PROVE  Others(h) /\ job'[h].step = "lookup" /\ job'[h].tap = t
  BY DEF ConsumeNonce, Begin, Others, TInv, TypeOK

LEMMA LookupJob ==
    ASSUME TInv, NEW h \in Handlers, Lookup(h)
    PROVE  /\ Others(h)
           /\ \/ job'[h].step = "idle"
              \/ /\ job'[h].step = "persist" \/ job'[h].step = "pin"
                 /\ card.status = "live"
                 /\ job'[h].tap = job[h].tap
                 /\ job'[h].shown = card.token
                 /\ job'[h].step = "pin" => job'[h].attempts = card.attempts
<1> job \in [Handlers -> JobRec] /\ job[h] \in JobRec
  BY DEF TInv, TypeOK
<1>1. CASE Answer(h)
  BY <1>1, AnswerJob
<1>2. CASE ~Refused(h) /\ job' = [job EXCEPT ![h].step = "persist", ![h].tier = "none"]
  BY <1>2 DEF Refused, Others, JobRec
<1>3. CASE ~Refused(h) /\ job' = [job EXCEPT ![h].step = "pin", ![h].tier = "none",
                                             ![h].attempts = card.attempts]
  BY <1>3 DEF Refused, Others, JobRec
<1>4. QED
  BY <1>1, <1>2, <1>3 DEF Lookup

LEMMA RotateJob ==
    ASSUME TInv, NEW h \in Handlers, RotateToken(h)
    PROVE  /\ Others(h)
           /\ \/ job'[h].step = "idle" /\ faults' = faults + 1 /\ UNCHANGED <<card, made>>
              \/ /\ job'[h].step = "write" /\ job'[h].tap = job[h].tap
                 /\ job'[h].shown = made + 1 /\ made' = made + 1
                 /\ card' = [card EXCEPT !.token = made + 1]
<1> job \in [Handlers -> JobRec] /\ job[h] \in JobRec
  BY DEF TInv, TypeOK
<1>1. CASE Fault /\ Answer(h) /\ UNCHANGED <<card, made>>
  BY <1>1, AnswerJob DEF Fault
<1>2. CASE /\ card' = [card EXCEPT !.token = made + 1] /\ made' = made + 1
           /\ job' = [job EXCEPT ![h].step = "write", ![h].shown = made + 1]
  BY <1>2 DEF Others, JobRec
<1>3. QED
  BY <1>1, <1>2 DEF RotateToken

\* A request that is neither begun nor ended goes on with its purchase, and in order.
After(s) ==
    CASE s = "lookup" -> {"lookup", "pin", "persist"}
      [] s = "rotate" -> {"rotate", "write"}
      [] OTHER -> {s}

Keeps(h) ==
    \/ job'[h].step = "idle"
    \/ ~At(h, "idle") /\ job'[h].tap = job[h].tap /\ job'[h].step \in After(job[h].step)

LEMMA KeepsOn ==
    ASSUME TInv, NEW h \in Handlers, Others(h), Keeps(h), NEW g \in Handlers
    PROVE  Keeps(g)
  BY DEF Others, Keeps, After, At

-----------------------------------------------------------------------------
(***************************************************************************)
(* Every step but these begins no request, moves no money and leaves the   *)
(* nonces and the orders alone.                                            *)
(***************************************************************************)
LEMMA HandlerKeeps ==
    ASSUME TInv, NEW h \in Handlers,
           \/ Lookup(h) \/ PinFailure(h) \/ DebitFails(h) \/ RotateToken(h)
           \/ WriteToken(h) \/ Crash(h)
    PROVE  Others(h) /\ Keeps(h) /\ UNCHANGED <<nonce, po, debits, paid>>
<1> job \in [Handlers -> JobRec]
  BY DEF TInv, TypeOK
<1>1. CASE Lookup(h)
  <2>1. At(h, "lookup") /\ UNCHANGED <<nonce, po, debits, paid>>
    BY <1>1 DEF Lookup, rows, chain, ghosts
  <2>2. QED
    BY <1>1, <2>1, LookupJob DEF Keeps, After, At
<1>2. CASE Answer(h) /\ UNCHANGED <<nonce, po, debits, paid>>
  BY <1>2, AnswerJob DEF Keeps
<1>3. CASE RotateToken(h)
  <2>1. At(h, "rotate") /\ UNCHANGED <<nonce, po, debits, paid>>
    BY <1>3 DEF RotateToken, chain
  <2>2. QED
    BY <1>3, <2>1, RotateJob DEF Keeps, After, At
<1>4. QED
  BY <1>1, <1>2, <1>3 DEF PinFailure, DebitFails, WriteToken, Crash, rows, chain, ghosts

LEMMA PersistJob ==
    ASSUME TInv, NEW h \in Handlers, PersistOrder(h)
    PROVE  Others(h) /\ job'[h].step = "debit" /\ job'[h].tap = job[h].tap
           /\ job'[h].shown = job[h].shown
  BY GoJob DEF PersistOrder, TInv, TypeOK

LEMMA DebitJob ==
    ASSUME TInv, NEW h \in Handlers, DebitReturns(h) \/ DebitUnanswered(h)
    PROVE  /\ Others(h)
           /\ \/ DebitReturns(h) /\ job'[h].step = "rotate" /\ job'[h].tap = job[h].tap
                 /\ job'[h].shown = job[h].shown
              \/ DebitUnanswered(h) /\ job'[h].step = "idle" /\ faults' = faults + 1
           /\ At(h, "debit") /\ job[h].tap \in Taps
           /\ debits' = [debits EXCEPT ![job[h].tap] = @ + 1]
           /\ paid' = paid \cup {<<job[h].shown, job[h].tap>>}
           /\ UNCHANGED <<card, nonce, po, chip, wrong, overlapped>>
<1> job \in [Handlers -> JobRec]
  BY DEF TInv, TypeOK
<1>1. CASE DebitReturns(h)
  BY <1>1, GoJob DEF DebitReturns, Moves, rows, TInv, Tapped, At
<1>2. CASE DebitUnanswered(h)
  BY <1>2, AnswerJob DEF DebitUnanswered, Moves, Fault, rows, TInv, Tapped, At
<1>3. QED
  BY <1>1, <1>2

LEMMA TappedStep ==
    ASSUME TInv, [Next]_vars
    PROVE  Tapped'
<1>1. ASSUME NEW h \in Handlers, Others(h), job'[h].step # "idle" => job'[h].tap \in Taps
      PROVE  Tapped'
  BY <1>1 DEF TInv, Tapped, Others, At
<1>2. ASSUME NEW h \in Handlers, NEW t \in Taps, ConsumeNonce(h, t) PROVE Tapped'
  BY <1>1, <1>2, ConsumeJob
<1>3. ASSUME NEW h \in Handlers, Others(h), Keeps(h) PROVE Tapped'
  BY <1>1, <1>3 DEF Keeps, TInv, Tapped
<1>4. ASSUME NEW h \in Handlers, PersistOrder(h) PROVE Tapped'
  BY <1>1, <1>4, PersistJob DEF PersistOrder, TInv, Tapped, At
<1>5. ASSUME NEW h \in Handlers, DebitReturns(h) \/ DebitUnanswered(h) PROVE Tapped'
  BY <1>1, <1>5, DebitJob
<1>6. ASSUME UNCHANGED job PROVE Tapped'
  BY <1>6 DEF TInv, Tapped, At
<1>7. ASSUME NEW h \in Handlers, Handle(h) PROVE Tapped'
  BY <1>2, <1>3, <1>4, <1>5, <1>7, HandlerKeeps DEF Handle
<1>8. CASE ~ \E h \in Handlers : Handle(h)
  BY <1>6, <1>8 DEF Next, Owner, Operator, TapCardNonce, StepUpGrant, NonceExpires,
      CardDebited, FetchResync, WriteResync, ResyncComplete, WriteRelink, Relink, RelinkFails, AppFrame, Revoke, LockCard, Unlock,
      RequestResync, vars
<1>9. QED
  BY <1>7, <1>8

-----------------------------------------------------------------------------
(***************************************************************************)
(* One debit for each purchase.  A nonce is gone while a request works on  *)
(* its purchase and ever after, and no other request works on the same one. *)
(***************************************************************************)
HandlerOK(h) ==
    ~At(h, "idle") =>
        /\ nonce[job[h].tap] = "gone"
        /\ job[h].step \in {"lookup", "pin", "persist", "debit"} => debits[job[h].tap] = 0
        /\ job[h].step = "debit" => po[job[h].tap] # "none"

Apart ==
    \A g, h \in Handlers :
        g # h /\ ~At(g, "idle") /\ ~At(h, "idle") => job[g].tap # job[h].tap

TapOK(t) ==
    /\ nonce[t] # "gone" => debits[t] = 0
    /\ debits[t] <= 1 /\ (debits[t] = 1 => po[t] # "none")

ChargeInv == (\A h \in Handlers : HandlerOK(h)) /\ Apart /\ (\A t \in Taps : TapOK(t))

\* Steps that begin no request, pay nothing, and neither bring back a nonce nor lose an order.
LEMMA ChargeKept ==
    ASSUME TInv, ChargeInv, UNCHANGED debits, \A h \in Handlers : Keeps(h),
           \A t \in Taps : /\ nonce[t] = "gone" => nonce'[t] = "gone"
                           /\ po[t] # "none" => po'[t] # "none"
    PROVE  ChargeInv'
<1>1. ASSUME NEW h \in Handlers PROVE HandlerOK(h)'
  BY <1>1 DEF ChargeInv, HandlerOK, Keeps, After, At, TInv, Tapped
<1>2. Apart'
  BY DEF ChargeInv, Apart, Keeps, At
<1>3. ASSUME NEW t \in Taps PROVE TapOK(t)'
  BY <1>3 DEF ChargeInv, TapOK
<1>4. QED
  BY <1>1, <1>2, <1>3 DEF ChargeInv

LEMMA ChargeConsume ==
    ASSUME TInv, ChargeInv, NEW h \in Handlers, NEW t \in Taps, ConsumeNonce(h, t)
    PROVE  ChargeInv'
<1>1. /\ nonce' = [nonce EXCEPT ![t] = "gone"] /\ nonce[t] # "gone"
      /\ UNCHANGED <<po, debits>> /\ nonce \in [Taps -> NonceStates]
  BY DEF ConsumeNonce, Begin, Issued, Tiers, chain, TInv, TypeOK
<1>2. Others(h) /\ job'[h].step = "lookup" /\ job'[h].tap = t
  BY ConsumeJob
<1>3. ASSUME NEW g \in Handlers, g # h, ~At(g, "idle") PROVE job[g].tap \in Taps \ {t}
  BY <1>1, <1>3 DEF ChargeInv, HandlerOK, TInv, Tapped
<1>4. ASSUME NEW g \in Handlers PROVE HandlerOK(g)'
  <2>1. CASE g = h
    BY <1>1, <1>2, <2>1 DEF ChargeInv, TapOK, HandlerOK
  <2>2. CASE g # h
    BY <1>1, <1>2, <1>3, <2>2 DEF ChargeInv, HandlerOK, Others, At
  <2>3. QED
    BY <2>1, <2>2
<1>5. Apart'
  BY <1>2, <1>3 DEF ChargeInv, Apart, Others, At
<1>6. ASSUME NEW u \in Taps PROVE TapOK(u)'
  BY <1>1, <1>6 DEF ChargeInv, TapOK
<1>7. QED
  BY <1>4, <1>5, <1>6 DEF ChargeInv

LEMMA ChargePersist ==
    ASSUME TInv, ChargeInv, NEW h \in Handlers, PersistOrder(h)
    PROVE  ChargeInv'
<1>1. Others(h) /\ job'[h].step = "debit" /\ job'[h].tap = job[h].tap
  BY PersistJob
<1>2. /\ At(h, "persist") /\ po' = [po EXCEPT ![job[h].tap] = "open"]
      /\ UNCHANGED <<nonce, debits>> /\ po \in [Taps -> PoStatuses]
  BY DEF PersistOrder, chain, TInv, TypeOK
<1>3. job[h].tap \in Taps /\ nonce[job[h].tap] = "gone" /\ debits[job[h].tap] = 0
  BY <1>2 DEF ChargeInv, HandlerOK, TInv, Tapped, At
<1>4. \A t \in Taps : po[t] # "none" => po'[t] # "none"
  BY <1>2
<1>5. ASSUME NEW g \in Handlers PROVE HandlerOK(g)'
  <2>1. CASE g = h
    BY <1>1, <1>2, <1>3, <2>1 DEF HandlerOK
  <2>2. CASE g # h
    BY <1>1, <1>2, <1>4, <2>2 DEF ChargeInv, HandlerOK, Others, At, TInv, Tapped
  <2>3. QED
    BY <2>1, <2>2
<1>6. Apart'
  BY <1>1, <1>2 DEF ChargeInv, Apart, Others, At
<1>7. ASSUME NEW t \in Taps PROVE TapOK(t)'
  BY <1>2, <1>4, <1>7 DEF ChargeInv, TapOK
<1>8. QED
  BY <1>5, <1>6, <1>7 DEF ChargeInv

LEMMA ChargeDebit ==
    ASSUME TInv, ChargeInv, NEW h \in Handlers, DebitReturns(h) \/ DebitUnanswered(h)
    PROVE  ChargeInv'
<1> DEFINE t == job[h].tap
<1>1. /\ Others(h) /\ At(h, "debit") /\ t \in Taps
      /\ job'[h].step = "idle" \/ (job'[h].step = "rotate" /\ job'[h].tap = t)
      /\ debits' = [debits EXCEPT ![t] = @ + 1] /\ UNCHANGED <<nonce, po>>
  BY DebitJob
<1>2. nonce[t] = "gone" /\ debits[t] = 0 /\ po[t] # "none"
  BY <1>1 DEF ChargeInv, HandlerOK, At
<1>3. debits'[t] = 1 /\ \A u \in Taps : u # t => debits'[u] = debits[u]
  BY <1>1, <1>2 DEF TInv, TypeOK
<1>4. ASSUME NEW g \in Handlers PROVE HandlerOK(g)'
  <2>1. CASE g = h
    BY <1>1, <1>2, <2>1 DEF HandlerOK, At
  <2>2. CASE g # h
    BY <1>1, <1>3, <2>2 DEF ChargeInv, Apart, HandlerOK, Others, At, TInv, Tapped
  <2>3. QED
    BY <2>1, <2>2
<1>5. Apart'
  BY <1>1 DEF ChargeInv, Apart, Others, At
<1>6. ASSUME NEW u \in Taps PROVE TapOK(u)'
  BY <1>1, <1>2, <1>3, <1>6 DEF ChargeInv, TapOK
<1>7. QED
  BY <1>4, <1>5, <1>6 DEF ChargeInv

LEMMA ChargeStep ==
    ASSUME TInv, ChargeInv, [Next]_vars
    PROVE  ChargeInv'
<1>1. ASSUME NEW h \in Handlers, Handle(h) PROVE ChargeInv'
  <2>1. ASSUME Others(h), Keeps(h), UNCHANGED <<nonce, po, debits>> PROVE ChargeInv'
    BY <2>1, KeepsOn, ChargeKept
  <2>2. QED
    BY <1>1, <2>1, HandlerKeeps, ChargeConsume, ChargePersist, ChargeDebit DEF Handle
<1>2. ASSUME UNCHANGED job PROVE \A h \in Handlers : Keeps(h)
  BY <1>2 DEF Keeps, After, At
<1>3. ASSUME NEW t \in Taps, TapCardNonce(t) \/ StepUpGrant(t) \/ NonceExpires(t)
      PROVE  ChargeInv'
  <2>1. /\ UNCHANGED <<po, debits, job>> /\ nonce[t] # "gone"
        /\ \E s : nonce' = [nonce EXCEPT ![t] = s]
    BY <1>3 DEF TapCardNonce, StepUpGrant, NonceExpires, Issued, Tiers, chain
  <2>2. debits[t] = 0 /\ nonce \in [Taps -> NonceStates]
    BY <2>1 DEF ChargeInv, TapOK, TInv, TypeOK
  <2>3. QED
    BY <1>2, <2>1, <2>2, ChargeKept
<1>4. ASSUME NEW t \in Taps, CardDebited(t) PROVE ChargeInv'
  <2>1. /\ UNCHANGED <<nonce, debits, job>> /\ po' = [po EXCEPT ![t] = "settled"]
        /\ po \in [Taps -> PoStatuses]
    BY <1>4 DEF CardDebited, chain, TInv, TypeOK
  <2>2. QED
    BY <1>2, <2>1, ChargeKept
<1>5. ASSUME Owner \/ Operator \/ UNCHANGED vars PROVE ChargeInv'
  <2>1. UNCHANGED <<nonce, po, debits, job>>
    BY <1>5 DEF Owner, Operator, FetchResync, WriteResync, ResyncComplete, WriteRelink, Relink,
        RelinkFails, AppFrame, Revoke, LockCard, Unlock, RequestResync, rows, chain, vars
  <2>2. QED
    BY <1>2, <2>1, ChargeKept
<1>6. QED
  BY <1>1, <1>3, <1>4, <1>5 DEF Next

-----------------------------------------------------------------------------
(***************************************************************************)
(* As long as "overlapped" is false, one request at a time is in progress. *)
(***************************************************************************)
Alone ==
    ~overlapped => \A g, h \in Handlers : g # h => At(g, "idle") \/ At(h, "idle")

\* What overlapped keeps, and what it takes for a request to begin.
LEMMA OverlapStep ==
    ASSUME TInv, [Next]_vars
    PROVE  /\ overlapped => overlapped'
           /\ faults \in Nat /\ faults' \in Nat /\ faults <= faults'
           /\ \/ \A g \in Handlers : job'[g].step # "idle" => ~At(g, "idle")
              \/ \E h \in Handlers :
                    /\ Others(h) /\ job'[h].step = "lookup"
                    /\ ~overlapped' => ~Busy(Handlers \ {h})
<1> faults \in Nat /\ overlapped \in BOOLEAN /\ job \in [Handlers -> JobRec]
  BY CardTapAssumption DEF TInv, TypeOK
<1>1. ASSUME NEW h \in Handlers, NEW t \in Taps, ConsumeNonce(h, t)
      PROVE  /\ Others(h) /\ job'[h].step = "lookup" /\ UNCHANGED faults
             /\ overlapped => overlapped'
             /\ ~overlapped' => ~Busy(Handlers \ {h})
  BY <1>1, ConsumeJob DEF ConsumeNonce, Begin
<1>2. ASSUME NEW h \in Handlers, Handle(h), ~ \E t \in Taps : ConsumeNonce(h, t)
      PROVE  Others(h) /\ (job'[h].step # "idle" => ~At(h, "idle"))
  <2>1. CASE PersistOrder(h)
    BY <2>1, PersistJob DEF PersistOrder, At
  <2>2. CASE DebitReturns(h) \/ DebitUnanswered(h)
    BY <2>2, DebitJob DEF At
  <2>3. QED
    BY <1>2, <2>1, <2>2, HandlerKeeps DEF Handle, Keeps
<1>3. ASSUME NEW h \in Handlers, Handle(h), ~ \E t \in Taps : ConsumeNonce(h, t)
      PROVE  UNCHANGED overlapped /\ faults <= faults' /\ faults' \in Nat
  BY <1>3 DEF Handle, Lookup, PinFailure, PersistOrder, DebitReturns, DebitFails,
      DebitUnanswered, RotateToken, WriteToken, Crash, Fault, ghosts
<1>4. ASSUME ~ \E h \in Handlers : Handle(h)
      PROVE  /\ UNCHANGED job /\ (overlapped => overlapped')
             /\ faults <= faults' /\ faults' \in Nat
  BY <1>4 DEF Fault, Next, Owner, Operator, TapCardNonce, StepUpGrant, NonceExpires, CardDebited,
      FetchResync, WriteResync, ResyncComplete, WriteRelink, Relink, RelinkFails, AppFrame, Revoke,
      LockCard, Unlock, RequestResync, ghosts, vars
<1>5. CASE \E h \in Handlers : \E t \in Taps : ConsumeNonce(h, t)
  <2>1. PICK h \in Handlers : \E t \in Taps : ConsumeNonce(h, t)
    BY <1>5
  <2>2. /\ Others(h) /\ job'[h].step = "lookup" /\ UNCHANGED faults
        /\ overlapped => overlapped'
        /\ ~overlapped' => ~Busy(Handlers \ {h})
    BY <1>1, <2>1
  <2>3. faults' \in Nat /\ faults <= faults'
    BY <2>2
  <2>4. QED
    BY <2>2, <2>3
<1>6. CASE \E h \in Handlers : Handle(h) /\ ~ \E t \in Taps : ConsumeNonce(h, t)
  BY <1>2, <1>3, <1>6 DEF Others, At
<1>7. CASE ~ \E h \in Handlers : Handle(h)
  BY <1>4, <1>7 DEF At
<1>8. QED
  BY <1>5, <1>6, <1>7 DEF Handle

LEMMA AloneStep ==
    ASSUME TInv, Alone, [Next]_vars
    PROVE  Alone'
<1> SUFFICES ASSUME ~overlapped'
             PROVE  \A g, h \in Handlers : g # h => At(g, "idle")' \/ At(h, "idle")'
  BY DEF Alone
<1>1. ~overlapped
  BY OverlapStep
<1>2. CASE \A g \in Handlers : job'[g].step # "idle" => ~At(g, "idle")
  BY <1>1, <1>2 DEF Alone, At
<1>3. CASE \E h \in Handlers : Others(h) /\ ~Busy(Handlers \ {h})
  BY <1>3 DEF Others, Busy, At
<1>4. QED
  BY <1>2, <1>3, OverlapStep

-----------------------------------------------------------------------------
(***************************************************************************)
(* The PIN budget.  Every wrong PIN costs an attempt, of the row and of    *)
(* the copy that a handler compares the PIN under.                         *)
(***************************************************************************)
PinInv ==
    /\ card.status = "live" => card.attempts > 0
    /\ \A h \in Handlers : At(h, "pin") => job[h].attempts > 0
    /\ ~overlapped =>
          /\ wrong + card.attempts <= MaxAttempts + faults
          /\ \A h \in Handlers : At(h, "pin") => wrong + job[h].attempts <= MaxAttempts + faults

Numbers ==
    /\ card.attempts \in 0 .. MaxAttempts /\ wrong \in Nat /\ faults \in Nat
    /\ MaxAttempts \in Nat \ {0} /\ overlapped \in BOOLEAN
    /\ \A h \in Handlers : job[h].attempts \in 0 .. MaxAttempts

LEMMA NumbersOK == TypeOK => Numbers
  BY CardTapAssumption DEF TypeOK, CardRec, JobRec, Numbers

LEMMA PinKept ==
    ASSUME TInv, PinInv, overlapped => overlapped', faults' \in Nat, faults <= faults',
           UNCHANGED <<wrong>>, card'.attempts = card.attempts,
           card'.status = "live" => card.status = "live",
           \A h \in Handlers : job'[h].step = "pin" => job'[h] = job[h]
    PROVE  PinInv'
<1> Numbers
  BY NumbersOK DEF TInv
<1> QED
  BY DEF PinInv, Numbers, At

LEMMA PinStep ==
    ASSUME TInv, TypeOK', Alone, PinInv, [Next]_vars
    PROVE  PinInv'
<1> Numbers /\ card \in CardRec /\ job \in [Handlers -> JobRec]
  BY NumbersOK DEF TInv, TypeOK
<1> /\ overlapped => overlapped'
    /\ faults' \in Nat /\ faults <= faults'
  BY OverlapStep
<1>1. ASSUME NEW h \in Handlers, Lookup(h) PROVE PinInv'
  <2>1. UNCHANGED <<card, wrong, faults, overlapped>>
    BY <1>1 DEF Lookup, rows, ghosts
  <2>2. Others(h) /\ (job'[h].step = "pin" =>
                         job'[h].attempts = card.attempts /\ card.status = "live")
    BY <1>1, LookupJob
  <2>3. QED
    BY <2>1, <2>2 DEF PinInv, Numbers, Others, At
<1>2. ASSUME NEW h \in Handlers, PinFailure(h) PROVE PinInv'
  <2> DEFINE left == IF job[h].attempts = 0 THEN 0 ELSE job[h].attempts - 1
  <2>1. Others(h) /\ job'[h].step = "idle" /\ At(h, "pin")
    BY <1>2, AnswerJob DEF PinFailure
  <2>2. /\ wrong' = wrong + 1 /\ UNCHANGED overlapped
        /\ \/ /\ card'.attempts = left /\ UNCHANGED faults
              /\ card'.status = IF left = 0 THEN "locked" ELSE card.status
           \/ UNCHANGED card /\ faults' = faults + 1
    BY <1>2 DEF PinFailure, Fault, CardRec
  <2>3. job[h].attempts \in 0 .. MaxAttempts /\ job[h].attempts > 0
    BY <2>1 DEF PinInv, Numbers
  <2>4. ASSUME ~overlapped, NEW g \in Handlers PROVE ~At(g, "pin")'
    BY <2>1, <2>4 DEF Alone, Others, At
  <2>5. card'.status = "live" => card'.attempts > 0
    BY <2>2, <2>3 DEF PinInv
  <2>6. \A g \in Handlers : At(g, "pin")' => job'[g].attempts > 0
    BY <2>1 DEF PinInv, Others, At
  <2>7. ~overlapped => wrong' + card'.attempts <= MaxAttempts + faults'
    BY <2>1, <2>2, <2>3 DEF PinInv, Numbers
  <2>8. QED
    BY <2>2, <2>4, <2>5, <2>6, <2>7 DEF PinInv
<1>3. ASSUME NEW h \in Handlers, Others(h), job'[h].step # "pin",
             UNCHANGED wrong, card'.attempts = card.attempts, card'.status = card.status
      PROVE  PinInv'
  BY <1>3, PinKept DEF Others
<1>4. ASSUME NEW h \in Handlers, Handle(h), ~Lookup(h), ~PinFailure(h) PROVE PinInv'
  <2>1. Others(h) /\ job'[h].step # "pin"
    BY <1>4, AnswerJob, ConsumeJob, PersistJob, DebitJob, RotateJob
      DEF Handle, DebitFails, WriteToken, Crash
  <2>2. UNCHANGED wrong /\ card'.attempts = card.attempts /\ card'.status = card.status
    BY <1>4 DEF Handle, ConsumeNonce, Begin, PersistOrder, DebitReturns, DebitFails,
        DebitUnanswered, RotateToken, WriteToken, Lands, Crash, rows, ghosts, CardRec
  <2>3. QED
    BY <1>3, <2>1, <2>2
<1>5. ASSUME Relink \/ Unlock PROVE PinInv'
  <2>1. wrong' = 0 /\ card'.attempts = MaxAttempts /\ UNCHANGED <<job, faults>>
    BY <1>5 DEF Relink, Unlock, Bounded, AppFrame, CardRec
  <2>2. QED
    BY <2>1 DEF PinInv, Numbers, At
<1>6. ASSUME LockCard PROVE PinInv'
  <2>1. card'.attempts = 0 /\ card'.status = "locked" /\ UNCHANGED <<job, ghosts>>
    BY <1>6 DEF LockCard, CardRec
  <2>2. QED
    BY <2>1 DEF PinInv, Numbers, At, ghosts
<1>7. ASSUME UNCHANGED <<job, wrong>>, card'.attempts = card.attempts,
             card'.status = "live" => card.status = "live"
      PROVE  PinInv'
  BY <1>7, PinKept
<1>8. ASSUME ~ \E h \in Handlers : Handle(h), ~Relink, ~Unlock, ~LockCard PROVE PinInv'
  <2>1. UNCHANGED <<job, wrong>>
    BY <1>8 DEF Next, Owner, Operator, TapCardNonce, StepUpGrant, NonceExpires, CardDebited,
        FetchResync, WriteResync, ResyncComplete, WriteRelink, RelinkFails, AppFrame, Revoke,
        RequestResync, ghosts, vars
  <2>2. card'.attempts = card.attempts /\ (card'.status = "live" => card.status = "live")
    BY <1>8 DEF Next, Owner, Operator, TapCardNonce, StepUpGrant, NonceExpires, CardDebited,
        FetchResync, WriteResync, ResyncComplete, WriteRelink, RelinkFails, AppFrame, Revoke,
        RequestResync, rows, vars, CardRec
  <2>3. QED
    BY <1>7, <2>1, <2>2
<1>9. QED
  BY <1>1, <1>2, <1>4, <1>5, <1>6, <1>8

-----------------------------------------------------------------------------
(***************************************************************************)
(* A token pays once.  The request that has paid with the card's token is  *)
(* about to replace it, and no other one is in progress.                   *)
(***************************************************************************)
Orderly == faults = 0 /\ ~overlapped

Shown(h) == job[h].step \in {"pin", "persist", "debit", "write"} => job[h].shown = card.token

\* No token is beyond those that were made, and one that the app has put on the card is not yet
\* the row's.
Fresh ==
    /\ card.token <= made /\ app.token <= made
    /\ app.step = "relinked" => app.token # card.token

TokenInv ==
    Orderly =>
        /\ \A h \in Handlers : Shown(h)
        /\ \A p \in paid : /\ p[1] <= made
                           /\ p[1] = card.token => \E h \in Handlers : At(h, "rotate")
                           /\ app.step = "relinked" => p[1] # app.token
        /\ \A p, q \in paid : p[1] = q[1] => p = q

\* What a step does to the app's token: it stays, a new one is made or there is none.
AppGoes ==
    app'.step = "relinked" =>
        (app.step = "relinked" /\ app'.token = app.token) \/ app'.token = made + 1

LEMMA Numbered ==
    ASSUME TInv
    PROVE  /\ card.token \in Nat /\ made \in Nat /\ app.token \in Nat /\ made >= 1
           /\ card \in CardRec /\ job \in [Handlers -> JobRec]
           /\ \A p \in paid : p[1] \in Nat
  BY DEF TInv, TypeOK, CardRec, AppRec, Tokens

\* The handlers leave the app alone, and only RotateToken makes a token.
LEMMA HandlerApp ==
    ASSUME NEW h \in Handlers, Handle(h)
    PROVE  UNCHANGED <<app, unlinked>> /\ (~RotateToken(h) => UNCHANGED made)
  BY DEF Handle, ConsumeNonce, Begin, Lookup, PinFailure, PersistOrder, DebitReturns, DebitFails,
         DebitUnanswered, RotateToken, WriteToken, Crash, ghosts

\* The rest is left alone by all but the steps of the app and of RotateToken.
LEMMA Elsewhere ==
    ASSUME [Next]_vars, ~ \E h \in Handlers : Handle(h), ~Owner
    PROVE  UNCHANGED <<app, made, unlinked, chip, job, paid, copied>>
           /\ (card \in CardRec => card'.token = card.token)
           /\ (card \in CardRec /\ card.resync => card'.resync)
  BY DEF Next, Operator, TapCardNonce, StepUpGrant, NonceExpires, CardDebited, LockCard, Unlock,
         RequestResync, rows, ghosts, vars, CardRec

\* The steps of the app, as far as tokens go.
LEMMA OwnerTokens ==
    ASSUME TInv, Owner
    PROVE  /\ UNCHANGED <<job, paid, copied>>
           /\ unlinked \subseteq unlinked'
           /\ \/ Relink /\ card'.token = app.token /\ UNCHANGED <<made, chip>> /\ app' = NoApp
              \/ card'.token = card.token /\ made <= made' /\ AppGoes
           /\ Relink \/ ResyncComplete \/ card'.resync = card.resync
<1> card \in CardRec /\ made \in Nat
  BY Numbered
<1>1. CASE Relink
  BY <1>1 DEF Relink, AppFrame, CardRec
<1>2. CASE FetchResync \/ WriteResync \/ ResyncComplete
  BY <1>2 DEF FetchResync, WriteResync, ResyncComplete, AppFrame, AppGoes, NoApp, CardRec, TInv,
              TypeOK, AppRec
<1>3. CASE WriteRelink \/ RelinkFails
  BY <1>3 DEF WriteRelink, RelinkFails, AppFrame, AppGoes, NoApp, rows, CardRec
<1>4. CASE Revoke
  BY <1>4 DEF Revoke, AppGoes, ghosts, CardRec
<1>5. QED
  BY <1>1, <1>2, <1>3, <1>4 DEF Owner

LEMMA FreshStep ==
    ASSUME TInv, Fresh, [Next]_vars
    PROVE  Fresh'
<1> USE Numbered
<1>1. ASSUME NEW h \in Handlers, RotateToken(h) PROVE Fresh'
  <2>1. UNCHANGED app
    BY <1>1 DEF RotateToken
  <2>2. QED
    BY <1>1, <2>1, RotateJob DEF Fresh, CardRec
<1>2. ASSUME NEW h \in Handlers, Handle(h), ~RotateToken(h) PROVE Fresh'
  <2>1. UNCHANGED <<app, made>> /\ card'.token = card.token
    BY <1>2, HandlerApp DEF Handle, ConsumeNonce, Begin, Lookup, PinFailure, PersistOrder,
        DebitReturns, DebitFails, DebitUnanswered, WriteToken, Lands, Crash, rows, CardRec
  <2>2. QED
    BY <2>1 DEF Fresh
<1>3. CASE FetchResync \/ WriteResync \/ ResyncComplete
  BY <1>3 DEF FetchResync, WriteResync, ResyncComplete, AppFrame, Fresh, NoApp, CardRec, TInv,
              TypeOK, AppRec
<1>4. CASE WriteRelink
  BY <1>4 DEF WriteRelink, Fresh
<1>5. CASE Relink
  BY <1>5 DEF Relink, Fresh, NoApp, CardRec
<1>6. CASE RelinkFails
  BY <1>6 DEF RelinkFails, rows, Fresh, NoApp
<1>7. CASE Revoke
  BY <1>7 DEF Revoke, Fresh, CardRec
<1>8. CASE (~ \E h \in Handlers : Handle(h)) /\ ~Owner
  BY <1>8, Elsewhere DEF Fresh
<1>9. QED
  BY <1>1, <1>2, <1>3, <1>4, <1>5, <1>6, <1>7, <1>8 DEF Owner

\* The request that has the token of the row keeps it as long as the row does.
LEMMA TokenKept ==
    ASSUME TInv, TokenInv, [Next]_vars, UNCHANGED <<paid, app, made>>, card'.token = card.token,
           NEW h \in Handlers, Others(h), ~At(h, "rotate") \/ job'[h].step = "rotate",
           Shown(h) => Shown(h)'
    PROVE  TokenInv'
<1> SUFFICES ASSUME Orderly' PROVE TokenInv'
  BY DEF TokenInv
<1>1. Orderly
  BY OverlapStep DEF Orderly
<1>2. \A g \in Handlers : Shown(g)'
  BY <1>1 DEF TokenInv, Shown, Others
<1>3. \A g \in Handlers : At(g, "rotate") => At(g, "rotate")'
  BY DEF Others, At
<1>4. QED
  BY <1>1, <1>2, <1>3 DEF TokenInv

LEMMA TokenQuiet ==
    ASSUME TInv, TokenInv, [Next]_vars, UNCHANGED <<paid, job>>, card'.token = card.token,
           made <= made', made' \in Nat, AppGoes
    PROVE  TokenInv'
<1> SUFFICES ASSUME Orderly' PROVE TokenInv'
  BY DEF TokenInv
<1>1. Orderly
  BY OverlapStep DEF Orderly
<1>2. \A g \in Handlers : Shown(g)' /\ (At(g, "rotate") => At(g, "rotate")')
  BY <1>1 DEF TokenInv, Shown, At
<1>3. \A p \in paid : /\ p[1] <= made'
                      /\ app'.step = "relinked" => p[1] # app'.token
  BY <1>1, Numbered DEF TokenInv, AppGoes
<1>4. QED
  BY <1>1, <1>2, <1>3 DEF TokenInv

\* The token changes while no other request is in progress, to one that never paid.
LEMMA TokenNew ==
    ASSUME TInv, TokenInv, [Next]_vars, UNCHANGED paid,
           \/ card'.token = made + 1
           \/ app.step = "relinked" /\ card'.token = app.token,
           made <= made', made' \in Nat, AppGoes,
           ~overlapped' =>
               \A g \in Handlers : \/ job'[g].step = "idle"
                                   \/ job'[g].step = "write" /\ job'[g].shown = card'.token
    PROVE  TokenInv'
<1> SUFFICES ASSUME Orderly' PROVE TokenInv'
  BY DEF TokenInv
<1>1. Orderly /\ ~overlapped'
  BY OverlapStep DEF Orderly
<1>2. \A g \in Handlers : Shown(g)'
  BY <1>1 DEF Shown
<1>3. \A p \in paid : /\ p[1] <= made' /\ p[1] # card'.token
                      /\ app'.step = "relinked" => p[1] # app'.token
  BY <1>1, Numbered DEF TokenInv, AppGoes
<1>4. QED
  BY <1>1, <1>2, <1>3 DEF TokenInv

LEMMA TokenDebit ==
    ASSUME TInv, Alone, Fresh, TokenInv, [Next]_vars, NEW h \in Handlers,
           DebitReturns(h) \/ DebitUnanswered(h)
    PROVE  TokenInv'
<1> SUFFICES ASSUME Orderly' PROVE TokenInv'
  BY DEF TokenInv
<1>1. Orderly
  BY OverlapStep DEF Orderly
<1>2. /\ Others(h) /\ At(h, "debit") /\ UNCHANGED <<card, app, made>>
      /\ paid' = paid \cup {<<job[h].shown, job[h].tap>>}
  BY DebitJob DEF DebitReturns, DebitUnanswered
<1>3. job'[h].step = "rotate"
  BY DebitJob, OverlapStep DEF Orderly, TInv, TypeOK
<1>4. job[h].shown = card.token /\ card.token \in Nat
  BY <1>1, <1>2, Numbered DEF TokenInv, Shown, At
<1>5. ~ \E g \in Handlers : At(g, "rotate")
  BY <1>1, <1>2 DEF Alone, Orderly, At
<1>6. \A p \in paid : p[1] <= made /\ p[1] # card.token
  BY <1>1, <1>5 DEF TokenInv
<1>7. \A p, q \in paid' : p[1] = q[1] => p = q
  <2>1. \A p, q \in paid : p[1] = q[1] => p = q
    BY <1>1 DEF TokenInv
  <2>2. QED
    BY <1>2, <1>4, <1>6, <2>1
<1>8. \A p \in paid' : p[1] <= made' /\ (app'.step = "relinked" => p[1] # app'.token)
  BY <1>1, <1>2, <1>4, <1>6 DEF Fresh, TokenInv
<1>9. \A g \in Handlers : Shown(g)'
  BY <1>1, <1>2, <1>3 DEF TokenInv, Shown, Others
<1>10. QED
  BY <1>3, <1>7, <1>8, <1>9 DEF TokenInv, At

LEMMA TokenStep ==
    ASSUME TInv, Alone, Fresh, TokenInv, [Next]_vars
    PROVE  TokenInv'
<1> card \in CardRec /\ job \in [Handlers -> JobRec] /\ made \in Nat
  BY Numbered
<1>0. ASSUME NEW h \in Handlers, Handle(h), ~RotateToken(h) PROVE UNCHANGED <<app, made>>
  BY <1>0, HandlerApp
<1>1. ASSUME NEW h \in Handlers, Lookup(h) PROVE TokenInv'
  <2>1. UNCHANGED <<paid, card, app, made>> /\ At(h, "lookup")
    BY <1>1 DEF Lookup, rows, ghosts
  <2>2. QED
    BY <1>1, <2>1, LookupJob, TokenKept DEF Shown, At
<1>2. ASSUME NEW h \in Handlers, RotateToken(h) PROVE TokenInv'
  <2>1. UNCHANGED <<paid, overlapped, app>> /\ At(h, "rotate")
    BY <1>2 DEF RotateToken
  <2>2. CASE faults' = faults + 1
    BY <2>2 DEF TokenInv, Orderly, TInv, TypeOK
  <2>3. CASE /\ job'[h].step = "write" /\ job'[h].shown = made + 1 /\ made' = made + 1
             /\ card'.token = made + 1
    <3>1. Others(h)
      BY <1>2, RotateJob
    <3>2. ~overlapped' => \A g \in Handlers : g # h => job'[g].step = "idle"
      BY <2>1, <3>1 DEF Alone, Others, At
    <3>3. AppGoes /\ made <= made' /\ made' \in Nat
      BY <2>1, <2>3 DEF AppGoes
    <3>4. QED
      BY <2>1, <2>3, <3>2, <3>3, TokenNew
  <2>4. QED
    BY <1>2, <2>2, <2>3, RotateJob DEF CardRec
<1>3. ASSUME NEW h \in Handlers, WriteToken(h) PROVE TokenInv'
  <2>1. UNCHANGED <<paid, app, made>> /\ card'.token = card.token /\ At(h, "write")
    BY <1>3 DEF WriteToken, Lands, CardRec
  <2>2. QED
    BY <1>3, <2>1, AnswerJob, TokenKept DEF WriteToken, Shown, At
<1>4. ASSUME NEW h \in Handlers, Crash(h) PROVE TokenInv'
  BY <1>4 DEF Crash, Fault, TokenInv, Orderly, TInv, TypeOK
<1>5. ASSUME NEW h \in Handlers, PinFailure(h) \/ DebitFails(h) PROVE TokenInv'
  <2>1. /\ UNCHANGED <<paid, app, made>> /\ card'.token = card.token /\ Answer(h)
        /\ At(h, "pin") \/ At(h, "debit")
    BY <1>5 DEF PinFailure, DebitFails, rows, ghosts, CardRec
  <2>2. QED
    BY <2>1, AnswerJob, TokenKept DEF Shown, At
<1>6. ASSUME NEW h \in Handlers, PersistOrder(h) PROVE TokenInv'
  <2>1. UNCHANGED <<paid, card, app, made>> /\ At(h, "persist")
    BY <1>6 DEF PersistOrder, ghosts
  <2>2. QED
    BY <1>6, <2>1, PersistJob, TokenKept DEF Shown, At
<1>7. ASSUME NEW h \in Handlers, NEW t \in Taps, ConsumeNonce(h, t) PROVE TokenInv'
  <2>1. UNCHANGED <<paid, card, app, made>> /\ At(h, "idle")
    BY <1>7 DEF ConsumeNonce, Begin
  <2>2. QED
    BY <1>7, <2>1, ConsumeJob, TokenKept DEF Shown, At
<1>8. CASE Owner
  <2>1. CASE Relink
    <3>1. /\ app.step = "relinked" /\ card'.token = app.token /\ UNCHANGED <<paid, job, made>>
          /\ AppGoes /\ (~overlapped' => ~Busy(Handlers))
      BY <2>1 DEF Relink, AppFrame, AppGoes, NoApp, CardRec
    <3>2. QED
      BY <3>1, TokenNew DEF Busy, At
  <2>2. CASE ~Relink
    <3>1. made' \in Nat
      BY TypeStep DEF TypeOK, Tokens
    <3>2. QED
      BY <1>8, <2>2, <3>1, OwnerTokens, TokenQuiet
  <2>3. QED
    BY <2>1, <2>2
<1>9. CASE (~ \E h \in Handlers : Handle(h)) /\ ~Owner
  BY <1>9, Elsewhere, TokenQuiet DEF AppGoes
<1>10. QED
  BY <1>1, <1>2, <1>3, <1>4, <1>5, <1>6, <1>7, <1>8, <1>9, TokenDebit DEF Handle

-----------------------------------------------------------------------------
(***************************************************************************)
(* A card with an outdated token is flagged, or about to be written.  The  *)
(* app's own token stays on the card until the server takes it in: only a  *)
(* copy is debited meanwhile.  And what a resync wrote stays the row's.    *)
(***************************************************************************)
Pending ==
    Orderly /\ app.step = "relinked" =>
        /\ chip = app.token
        /\ \A h \in Handlers : \/ At(h, "idle") \/ job[h].copy
                               \/ At(h, "lookup") /\ job[h].shown = app.token

Resynced == Orderly /\ app.step = "resynced" /\ app.token = card.token => chip = card.token

\* A request is of the card or of a copy to its end.
LEMMA CopyKept ==
    ASSUME TInv, NEW h \in Handlers, Handle(h), ~ \E t \in Taps : ConsumeNonce(h, t)
    PROVE  /\ Others(h) /\ ~At(h, "idle")
           /\ job'[h].step = "idle" \/ job'[h].copy = job[h].copy
           /\ At(h, "lookup") /\ job'[h].step # "idle" => Lookup(h) /\ job[h].shown = card.token
<1> job \in [Handlers -> JobRec] /\ job[h] \in JobRec
  BY Numbered
<1>1. CASE Lookup(h)
  <2>1. Others(h) /\ At(h, "lookup") /\ (job'[h].step = "idle" \/ ~Refused(h))
    BY <1>1, LookupJob, AnswerJob DEF Lookup
  <2>2. job'[h].step = "idle" \/ job'[h].copy = job[h].copy
    BY <1>1, AnswerJob DEF Lookup, JobRec
  <2>3. QED
    BY <1>1, <2>1, <2>2 DEF Refused, At
<1>2. CASE Answer(h) /\ ~At(h, "idle")
  BY <1>2, AnswerJob
<1>3. CASE PersistOrder(h) \/ DebitReturns(h)
  BY <1>3, GoJob DEF PersistOrder, DebitReturns, Go, At, JobRec
<1>4. CASE RotateToken(h)
  BY <1>4, RotateJob DEF RotateToken, Answer, Others, At, JobRec, NoJob
<1>5. QED
  BY <1>1, <1>2, <1>3, <1>4 DEF Handle, PinFailure, DebitFails, DebitUnanswered, WriteToken, Crash, At

\* What the handlers write to the card: the row's token, if they write it at all.
LEMMA ChipWritten ==
    ASSUME TInv, TokenInv, Orderly', [Next]_vars, NEW h \in Handlers, Handle(h)
    PROVE  \/ chip' = chip
           \/ At(h, "write") /\ ~job[h].copy /\ chip' = card.token /\ card'.token = card.token
<1>1. Orderly /\ faults' = faults /\ faults \in Nat
  BY OverlapStep DEF Orderly
<1>2. CASE WriteToken(h)
  <2>1. At(h, "write") /\ job[h].shown = card.token /\ card \in CardRec
    BY <1>1, <1>2, Numbered DEF WriteToken, TokenInv, Shown, At
  <2>2. QED
    BY <1>1, <1>2, <2>1 DEF WriteToken, Lands, Fault, CardRec
<1>3. CASE ~WriteToken(h)
  BY <1>3 DEF Handle, ConsumeNonce, Begin, Lookup, PinFailure, PersistOrder, DebitReturns,
      DebitFails, DebitUnanswered, RotateToken, Crash
<1>4. QED
  BY <1>2, <1>3

LEMMA PendingStep ==
    ASSUME TInv, Fresh, TokenInv, Pending, [Next]_vars
    PROVE  Pending'
<1> SUFFICES ASSUME Orderly', app'.step = "relinked" PROVE Pending'
  BY DEF Pending
<1>0. Orderly
  BY OverlapStep DEF Orderly
<1>1. ASSUME NEW h \in Handlers, Handle(h) PROVE Pending'
  <2>1. UNCHANGED app /\ chip = app.token
    BY <1>0, <1>1, HandlerApp DEF Pending
  <2>2. \/ At(h, "idle") \/ job[h].copy
        \/ At(h, "lookup") /\ job[h].shown = app.token /\ app.token # card.token
    BY <1>0, <2>1 DEF Pending, Fresh
  <2>3. chip' = chip
    BY <1>1, <2>2, ChipWritten DEF At
  <2>4. CASE \E t \in Taps : ConsumeNonce(h, t)
    <3>1. PICK t \in Taps : ConsumeNonce(h, t)
      BY <2>4
    <3>2. Others(h) /\ At(h, "lookup")' /\ (job'[h].copy \/ job'[h].shown = chip)
      <4>1. PICK k \in 1 .. made, copy \in BOOLEAN :
               /\ copy \/ k = chip
               /\ job' = [job EXCEPT ![h] = [ step |-> "lookup", tap |-> t, tier |-> nonce[t],
                                              shown |-> k, copy |-> copy, attempts |-> 0 ]]
        BY <3>1 DEF ConsumeNonce, Begin
      <4>2. job'[h] = [ step |-> "lookup", tap |-> t, tier |-> nonce[t], shown |-> k,
                        copy |-> copy, attempts |-> 0 ]
        BY <4>1 DEF TInv, TypeOK
      <4>3. QED
        BY <3>1, <4>1, <4>2, ConsumeJob DEF At
    <3>3. QED
      BY <1>0, <2>1, <2>3, <3>2 DEF Pending, Others, At
  <2>5. CASE ~ \E t \in Taps : ConsumeNonce(h, t)
    <3>1. Others(h) /\ (At(h, "idle")' \/ job'[h].copy)
      BY <1>1, <2>2, <2>5, CopyKept, Numbered DEF At, TInv, TypeOK, JobRec
    <3>2. QED
      BY <1>0, <2>1, <2>3, <3>1 DEF Pending, Others, At
  <2>6. QED
    BY <2>4, <2>5
<1>2. CASE Owner
  <2>1. CASE WriteRelink
    <3>1. UNCHANGED job /\ ~Busy(Handlers) /\ chip' = app'.token
      BY <2>1 DEF WriteRelink, AppFrame, Orderly
    <3>2. QED
      BY <3>1 DEF Pending, Busy, At
  <2>2. CASE Revoke
    <3>1. UNCHANGED <<chip, app, job>>
      BY <2>2 DEF Revoke
    <3>2. QED
      BY <1>0, <3>1 DEF Pending, At
  <2>3. QED
    BY <1>2, <2>1, <2>2 DEF Owner, FetchResync, WriteResync, ResyncComplete, Relink, RelinkFails,
                            NoApp, TInv, TypeOK, AppRec
<1>3. CASE (~ \E h \in Handlers : Handle(h)) /\ ~Owner
  BY <1>0, <1>3, Elsewhere DEF Pending, At
<1>4. QED
  BY <1>1, <1>2, <1>3

LEMMA ResyncedStep ==
    ASSUME TInv, Fresh, TokenInv, Resynced, [Next]_vars
    PROVE  Resynced'
<1> SUFFICES ASSUME Orderly', app'.step = "resynced", app'.token = card'.token
             PROVE  chip' = card'.token
  BY DEF Resynced
<1>0. Orderly
  BY OverlapStep DEF Orderly
<1>1. ASSUME NEW h \in Handlers, RotateToken(h) PROVE chip' = card'.token
  <2>1. UNCHANGED <<app, chip>> /\ faults' = faults /\ faults \in Nat
    BY <1>0, <1>1, OverlapStep DEF RotateToken, Orderly
  <2>2. card'.token = made + 1
    BY <1>1, <2>1, RotateJob, Numbered DEF CardRec
  <2>3. QED
    BY <2>1, <2>2, Numbered DEF Fresh
<1>2. ASSUME NEW h \in Handlers, Handle(h), ~RotateToken(h) PROVE chip' = card'.token
  <2>1. UNCHANGED app /\ card'.token = card.token
    BY <1>2, HandlerApp, Numbered DEF Handle, ConsumeNonce, Begin, Lookup, PinFailure,
        PersistOrder, DebitReturns, DebitFails, DebitUnanswered, WriteToken, Lands, Crash, rows,
        CardRec
  <2>2. QED
    BY <1>0, <1>2, <2>1, ChipWritten DEF Resynced
<1>3. CASE Owner
  <2>1. CASE WriteResync
    BY <2>1 DEF WriteResync, Orderly
  <2>2. CASE Revoke
    <3>1. UNCHANGED <<chip, app>> /\ card'.token = card.token
      BY <2>2, Numbered DEF Revoke, CardRec
    <3>2. QED
      BY <1>0, <3>1 DEF Resynced
  <2>3. QED
    BY <1>3, <2>1, <2>2 DEF Owner, FetchResync, ResyncComplete, WriteRelink, Relink, RelinkFails, NoApp
<1>4. CASE (~ \E h \in Handlers : Handle(h)) /\ ~Owner
  BY <1>0, <1>4, Elsewhere, Numbered DEF Resynced
<1>5. QED
  BY <1>1, <1>2, <1>3, <1>4

LEMMA ChipKept ==
    ASSUME TInv, ChipIsTracked, [Next]_vars, chip' = chip, card'.token = card.token,
           card.resync => card'.resync, copied => copied',
           app.step = "relinked" => app'.step = "relinked", unlinked \subseteq unlinked',
           \A h \in Handlers : At(h, "write") => job'[h].step = "write"
    PROVE  ChipIsTracked'
<1> SUFFICES ASSUME Orderly' PROVE ChipIsTracked'
  BY DEF ChipIsTracked, Orderly
<1>1. Orderly
  BY OverlapStep DEF Orderly
<1>2. QED
  BY <1>1 DEF ChipIsTracked, Orderly, At

LEMMA ChipStep ==
    ASSUME TInv, TokenInv, Pending, Resynced, ChipIsTracked, [Next]_vars
    PROVE  ChipIsTracked'
<1> card \in CardRec /\ job \in [Handlers -> JobRec]
  BY Numbered
<1> SUFFICES ASSUME Orderly' PROVE ChipIsTracked'
  BY DEF ChipIsTracked, Orderly
<1>0. Orderly /\ faults' = faults /\ faults \in Nat
  BY OverlapStep DEF Orderly
<1>1. ASSUME NEW h \in Handlers, Handle(h), ~RotateToken(h), ~WriteToken(h)
      PROVE  ChipIsTracked'
  <2>1. /\ chip' = chip /\ card'.token = card.token /\ card'.resync = card.resync
        /\ copied' = copied /\ UNCHANGED <<app, unlinked>>
    BY <1>1, HandlerApp DEF Handle, ConsumeNonce, Begin, Lookup, PinFailure, PersistOrder,
        DebitReturns, DebitFails, DebitUnanswered, Crash, rows, ghosts, CardRec
  <2>2. ~Crash(h)
    BY <1>0 DEF Crash, Fault
  <2>3. ~At(h, "write")
    BY <1>1, <2>2 DEF Handle, ConsumeNonce, Begin, Lookup, PinFailure, PersistOrder,
        DebitReturns, DebitFails, DebitUnanswered, At
  <2>4. Others(h)
    BY <1>1, HandlerKeeps, ConsumeJob, PersistJob, DebitJob DEF Handle
  <2>5. QED
    BY <2>1, <2>3, <2>4, ChipKept DEF Others, At
<1>2. ASSUME NEW h \in Handlers, RotateToken(h) PROVE ChipIsTracked'
  BY <1>0, <1>2, RotateJob DEF ChipIsTracked, At
<1>3. ASSUME NEW h \in Handlers, WriteToken(h) PROVE ChipIsTracked'
  <2>1. At(h, "write") /\ job[h].shown = card.token
    BY <1>0, <1>3 DEF WriteToken, TokenInv, Shown, At
  <2>2. CASE Lands(h) /\ job[h].copy
    BY <2>2 DEF Lands, ChipIsTracked
  <2>3. CASE Lands(h) /\ ~job[h].copy
    BY <2>1, <2>3 DEF Lands, ChipIsTracked, CardRec
  <2>4. CASE card' = [card EXCEPT !.resync = TRUE]
    BY <2>4 DEF ChipIsTracked, CardRec
  <2>5. QED
    BY <1>0, <1>3, <2>2, <2>3, <2>4 DEF WriteToken, Fault
<1>4. CASE WriteResync
  <2>1. card' = card /\ chip' = app.token /\ app.token = card.token
    BY <1>4 DEF WriteResync, Orderly
  <2>2. QED
    BY <2>1 DEF ChipIsTracked
<1>5. CASE ResyncComplete
  <2>1. card'.token = card.token /\ chip' = chip /\ app.token = card.token
    BY <1>5 DEF ResyncComplete, Orderly, CardRec
  <2>2. QED
    BY <1>0, <1>5, <2>1 DEF ResyncComplete, Resynced, ChipIsTracked
<1>6. CASE WriteRelink
  BY <1>6 DEF WriteRelink, ChipIsTracked
<1>7. CASE Relink
  <2>1. card'.token = app.token /\ chip' = app.token
    BY <1>0, <1>7 DEF Relink, Pending, CardRec
  <2>2. QED
    BY <2>1 DEF ChipIsTracked
<1>8. CASE RelinkFails
  <2>1. chip' \in unlinked'
    BY <1>0, <1>8 DEF RelinkFails, Pending
  <2>2. QED
    BY <2>1 DEF ChipIsTracked
<1>9. CASE FetchResync
  BY <1>9, ChipKept DEF FetchResync, AppFrame, At
<1>10. CASE Revoke
  BY <1>10, ChipKept DEF Revoke, ghosts, CardRec, At
<1>11. CASE (~ \E h \in Handlers : Handle(h)) /\ ~Owner
  BY <1>11, Elsewhere, ChipKept DEF At
<1>12. QED
  BY <1>1, <1>2, <1>3, <1>4, <1>5, <1>6, <1>7, <1>8, <1>9, <1>10, <1>11 DEF Owner

-----------------------------------------------------------------------------
(* Theorems *)

IInv ==
    /\ TInv /\ ChargeInv /\ Alone /\ PinInv
    /\ Fresh /\ TokenInv /\ Pending /\ Resynced /\ ChipIsTracked

LEMMA InitIInv == Init => IInv
<1> SUFFICES ASSUME Init PROVE IInv
  OBVIOUS
<1> USE CardTapAssumption, Members, NoJobType
<1>1. TypeOK
  <2>1. card \in CardRec
    BY DEF Init, CardRec
  <2>2. nonce \in [Taps -> NonceStates] /\ po \in [Taps -> PoStatuses]
    BY DEF Init
  <2>3. job \in [Handlers -> JobRec] /\ debits \in [Taps -> Nat]
    BY DEF Init
  <2>4. /\ funds \in 0 .. Funds /\ resets \in 0 .. MaxResets /\ faults \in 0 .. MaxFaults
        /\ wrong \in Nat
    BY DEF Init
  <2>5. /\ chip \in Tokens /\ made \in Tokens /\ app \in AppRec /\ paid = {}
        /\ overlapped \in BOOLEAN /\ copied \in BOOLEAN /\ unlinked \subseteq Tokens
    BY DEF Init, AppRec, NoApp
  <2>6. QED
    BY <2>1, <2>2, <2>3, <2>4, <2>5 DEF TypeOK
<1>2. \A h \in Handlers : job[h].step = "idle"
  BY DEF Init, NoJob
<1>3. TInv /\ Alone
  BY <1>1, <1>2 DEF TInv, Tapped, Alone, At
<1>4. ChargeInv
  BY <1>2 DEF Init, ChargeInv, HandlerOK, Apart, TapOK, At
<1>5. PinInv
  BY <1>2 DEF Init, PinInv, At
<1>6. Fresh /\ TokenInv /\ Pending /\ Resynced /\ ChipIsTracked
  BY <1>2 DEF Init, NoApp, Fresh, TokenInv, Shown, Pending, Resynced, ChipIsTracked, At
<1>7. QED
  BY <1>3, <1>4, <1>5, <1>6 DEF IInv

LEMMA NextIInv == IInv /\ [Next]_vars => IInv'
<1> SUFFICES ASSUME IInv, [Next]_vars PROVE IInv'
  OBVIOUS
<1>1. TInv'
  BY TypeStep, TappedStep DEF IInv, TInv
<1>2. ChargeInv' /\ Alone' /\ Fresh' /\ TokenInv'
  BY ChargeStep, AloneStep, FreshStep, TokenStep DEF IInv
<1>4. Pending' /\ Resynced' /\ ChipIsTracked'
  BY PendingStep, ResyncedStep, ChipStep DEF IInv
<1>3. PinInv'
  BY <1>1, PinStep DEF IInv, TInv
<1>5. QED
  BY <1>1, <1>2, <1>3, <1>4 DEF IInv

LEMMA InvariantHolds == Spec => []IInv
  BY InitIInv, NextIInv, PTL DEF Spec

\* Every variable keeps its type (tapp_cards, card_server_nonces).
THEOREM TypeCorrect == Spec => []TypeOK
<1>1. IInv => TypeOK
  BY DEF IInv, TInv
<1>2. QED
  BY <1>1, InvariantHolds, PTL

\* A purchase is debited once at most and never without its order, however many requests
\* the terminals send at once and whatever fails (consumeServerNonce, TapCardDebit).
THEOREM ChargedOnceHolds == Spec => []ChargedOnce
<1>1. IInv => ChargedOnce
  BY DEF IInv, ChargeInv, TapOK, ChargedOnce
<1>2. QED
  BY <1>1, InvariantHolds, PTL

\* Without faults and overlapping requests a token pays for one purchase (the rotation of
\* TapCardDebit).
THEOREM TokenPaysOnceHolds == Spec => []TokenPaysOnce
<1>1. IInv => TokenPaysOnce
  BY DEF IInv, TokenInv, Orderly, TokenPaysOnce
<1>2. QED
  BY <1>1, InvariantHolds, PTL

\* Without overlapping requests a thief has MaxAttempts wrong PINs between two resets, and
\* one more for each fault (handlePinFailure).
THEOREM PinBudgetHolds == Spec => []PinBudget
<1>1. IInv => PinBudget
  <2>1. IInv => Numbers
    BY NumbersOK DEF IInv, TInv
  <2>2. QED
    BY <2>1 DEF IInv, PinInv, Numbers, PinBudget
<1>2. QED
  BY <1>1, InvariantHolds, PTL

\* Without faults, overlapping requests and debited copies, a card with an outdated token is
\* flagged, is about to be reported, or carries a token that Relink refused
\* (TapCardTokenAck, ResyncComplete, Relink).
THEOREM ChipIsTrackedHolds == Spec => []ChipIsTracked
<1>1. IInv => ChipIsTracked
  BY DEF IInv
<1>2. QED
  BY <1>1, InvariantHolds, PTL

=============================================================================
