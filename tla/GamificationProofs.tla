------------------------- MODULE GamificationProofs -------------------------
(* Proofs about Wheel.tla, Rewards.tla, Store.tla and Backfill.tla, for any  *)
(* number of clicks and retries, claims and updates, purchases and uses, and *)
(* calls of a backfill.                                                      *)
EXTENDS Wheel, MCRewards, MCStore, FiniteSetTheorems, WellFoundedInduction, TLAPS

-----------------------------------------------------------------------------
(* The prize wheel (Wheel).                                                  *)

\* Two transactions never hold one key, nor one allowance row.
KeysHeldOnce ==
  \A r, s \in Requests : stage[r] \in Running /\ stage[s] \in Running /\ Key(r) = Key(s) => r = s

RowsHeldOnce ==
  \A r, s \in Requests :
    stage[r] = "claimed" /\ stage[s] = "claimed" /\ plan[r].day = plan[s].day => r = s

\* A click has a price once it was made, and a settled attempt has a result.
Attempts ==
  /\ \A c \in Clicks : attempt[c] = "committed" <=> result[c] # NoPrize
  /\ \A r \in Requests : stage[r] \in Running => attempt[Key(r)] = "none"

Prices ==
  /\ \A c \in Clicks : page[c] = "new" <=> price[c] = Unset
  /\ \A r \in Requests : stage[r] # "none" => price[Key(r)] # Unset

\* An allowance row counts at least the spins its day was charged with.
Allowances ==
  \A d \in Days :
    /\ allowance[d].at = "none" => used[d].free = 0 /\ used[d].paid = 0
    /\ allowance[d].at = "made" =>
         used[d].free <= allowance[d].free /\ used[d].paid <= allowance[d].paid

\* What a transaction claimed is still left when it commits.
ClaimsLeft ==
  \A r \in Requests : stage[r] = "claimed" =>
    /\ plan[r].free = 1 /\ used[plan[r].day].free <= 1
    /\ \/ price[Key(r)] = 0 /\ used[plan[r].day].free = 0 /\ used[plan[r].day].paid <= plan[r].paid
       \/ price[Key(r)] = Cost /\ used[plan[r].day].paid < MaxPaid
          /\ used[plan[r].day].paid < plan[r].paid

Answers ==
  /\ \A r \in Requests : stage[r] = "won" => reply[r] = result[Key(r)] /\ reply[r] # NoPrize
  /\ AnswersAreTrue

IInv == TypeOK /\ KeysHeldOnce /\ RowsHeldOnce /\ Attempts /\ Prices /\ Allowances /\ ClaimsLeft /\ Answers

LEMMA Requested == ASSUME NEW r \in Requests PROVE Key(r) \in Clicks
BY DEF Requests, Key

LEMMA Copies == ASSUME NEW c \in Clicks, NEW n \in 0..MaxRetries
                PROVE  <<c, n>> \in Requests /\ Key(<<c, n>>) = c
BY DEF Requests, Key

LEMMA InitInv == Init => IInv
<1> SUFFICES ASSUME Init PROVE IInv
  OBVIOUS
<1> USE WheelAssumption, Requested
<1>1. TypeOK
  BY DEF Init, TypeOK, NoPlan, Days, Counts, Running, Ended, Shown, Unset, PrizeOrNone
<1>2. KeysHeldOnce /\ RowsHeldOnce /\ ClaimsLeft /\ Answers
  BY DEF Init, KeysHeldOnce, RowsHeldOnce, ClaimsLeft, Answers, AnswersAreTrue, Running
<1>3. Attempts /\ Prices
  BY DEF Init, Attempts, Prices, Running, Unset
<1>4. Allowances
  BY DEF Init, Allowances, Days
<1> QED BY <1>1, <1>2, <1>3, <1>4 DEF IInv

LEMMA PageStep ==
  ASSUME IInv, NEW c \in Clicks,
         (\E cost \in {0, Cost} : Click(c, cost)) \/ Resend(c) \/ GiveUp(c) \/ Answer(c)
  PROVE  IInv'
<1> USE WheelAssumption, Requested, Copies DEF rows, pages, Running, Ended, Shown, Unset
<1>1. ASSUME NEW cost \in {0, Cost}, Click(c, cost) PROVE IInv'
  <2> USE <1>1 DEF IInv, Click
  <2>1. TypeOK'
    BY DEF TypeOK
  <2>2. KeysHeldOnce' /\ RowsHeldOnce'
    BY DEF TypeOK, KeysHeldOnce, RowsHeldOnce
  <2>3. Attempts' /\ Prices'
    BY DEF TypeOK, Attempts, Prices
  <2>4. Allowances' /\ ClaimsLeft'
    BY DEF TypeOK, Allowances, ClaimsLeft, Prices
  <2>5. Answers'
    BY DEF TypeOK, Answers, AnswersAreTrue
  <2> QED BY <2>1, <2>2, <2>3, <2>4, <2>5
<1>2. ASSUME Resend(c) PROVE IInv'
  <2> USE <1>2 DEF IInv, Resend
  <2>1. TypeOK'
    BY DEF TypeOK
  <2>2. KeysHeldOnce' /\ RowsHeldOnce'
    BY DEF TypeOK, KeysHeldOnce, RowsHeldOnce
  <2>3. Attempts' /\ Prices'
    BY DEF TypeOK, Attempts, Prices
  <2>4. Allowances' /\ ClaimsLeft'
    BY DEF TypeOK, Allowances, ClaimsLeft, Prices
  <2>5. Answers'
    BY DEF TypeOK, Answers, AnswersAreTrue
  <2> QED BY <2>1, <2>2, <2>3, <2>4, <2>5
<1>3. ASSUME GiveUp(c) PROVE IInv'
  <2> USE <1>3 DEF IInv, GiveUp
  <2>1. TypeOK'
    BY DEF TypeOK
  <2>2. KeysHeldOnce' /\ RowsHeldOnce'
    BY DEF TypeOK, KeysHeldOnce, RowsHeldOnce
  <2>3. Attempts' /\ Prices'
    BY DEF TypeOK, Attempts, Prices
  <2>4. Allowances' /\ ClaimsLeft'
    BY DEF TypeOK, Allowances, ClaimsLeft, Prices
  <2>5. Answers'
    BY DEF TypeOK, Answers, AnswersAreTrue
  <2> QED BY <2>1, <2>2, <2>3, <2>4, <2>5
<1>4. ASSUME Answer(c) PROVE IInv'
  <2> USE <1>4 DEF IInv, Answer, Last
  <2>1. TypeOK'
    BY DEF TypeOK
  <2>2. KeysHeldOnce' /\ RowsHeldOnce'
    BY DEF TypeOK, KeysHeldOnce, RowsHeldOnce
  <2>3. Attempts' /\ Prices'
    BY DEF TypeOK, Attempts, Prices
  <2>4. Allowances' /\ ClaimsLeft'
    BY DEF TypeOK, Allowances, ClaimsLeft, Prices
  <2>5. Answers'
    BY DEF TypeOK, Answers, AnswersAreTrue
  <2> QED BY <2>1, <2>2, <2>3, <2>4, <2>5
<1> QED BY <1>1, <1>2, <1>3, <1>4

\* A transaction that is over without a commit leaves nothing behind.
LEMMA EndStep ==
  ASSUME IInv, NEW r \in Requests, stage[r] \in Running,
         NEW how \in {"repriced", "refused", "failed"}, Ends(r, how),
         UNCHANGED <<today, pages, reply, rows>>
  PROVE  IInv'
<1> USE WheelAssumption, Requested DEF IInv, pages, rows, Ends
<1>1. NoPlan \in [day: Days, free: 0..1, paid: Nat]
  BY DEF NoPlan, Days
<1>2. TypeOK'
  BY <1>1 DEF TypeOK, Running, Ended
<1>3. \A s \in Requests : stage'[s] \in Running => s # r /\ stage[s] \in Running /\ plan'[s] = plan[s]
  BY DEF TypeOK, Running
<1>4. \A s \in Requests : stage'[s] = "claimed" => s # r /\ stage[s] = "claimed" /\ plan'[s] = plan[s]
  BY DEF TypeOK, Running
<1>5. KeysHeldOnce' /\ RowsHeldOnce'
  BY <1>3, <1>4 DEF KeysHeldOnce, RowsHeldOnce, Key
<1>6. Attempts'
  BY <1>3 DEF Attempts, Key
<1>7. Prices'
  BY DEF TypeOK, Prices, Running, Key
<1>8. Allowances' /\ ClaimsLeft'
  BY <1>4 DEF Allowances, ClaimsLeft, Key
<1>9. Answers'
  BY DEF TypeOK, Answers, AnswersAreTrue, Key
<1> QED BY <1>2, <1>5, <1>6, <1>7, <1>8, <1>9

LEMMA RequestStep ==
  ASSUME IInv, NEW r \in Requests, Begin(r) \/ Replay(r) \/ Seed(r)
  PROVE  IInv'
<1> USE WheelAssumption, Requested DEF rows, pages, Running, Ended, Shown, Unset
<1>1. ASSUME Begin(r) PROVE IInv'
  <2> USE <1>1 DEF IInv, Begin, KeyTaken, KeyHeld
  <2>1. TypeOK'
    BY DEF TypeOK
  <2>2. KeysHeldOnce' /\ RowsHeldOnce'
    BY DEF TypeOK, KeysHeldOnce, RowsHeldOnce
  <2>3. Attempts' /\ Prices'
    BY DEF TypeOK, Attempts, Prices
  <2>4. Allowances' /\ ClaimsLeft'
    BY DEF TypeOK, Allowances, ClaimsLeft
  <2>5. Answers'
    BY DEF TypeOK, Answers, AnswersAreTrue
  <2> QED BY <2>1, <2>2, <2>3, <2>4, <2>5
<1>2. ASSUME Replay(r) PROVE IInv'
  <2> USE <1>2 DEF IInv, Replay, KeyTaken
  <2>1. TypeOK'
    BY DEF TypeOK, PrizeOrNone
  <2>2. KeysHeldOnce' /\ RowsHeldOnce'
    BY DEF TypeOK, KeysHeldOnce, RowsHeldOnce
  <2>3. Attempts' /\ Prices'
    BY DEF TypeOK, Attempts, Prices
  <2>4. Allowances' /\ ClaimsLeft'
    BY DEF TypeOK, Allowances, ClaimsLeft
  <2>5. Answers'
    BY DEF TypeOK, Answers, AnswersAreTrue, Attempts
  <2> QED BY <2>1, <2>2, <2>3, <2>4, <2>5
<1>3. ASSUME Seed(r) PROVE IInv'
  <2> DEFINE seed == [day |-> today, free |-> IF spins[today].free > 0 THEN 1 ELSE 0,
                      paid |-> spins[today].paid]
  <2>1. seed \in [day: Days, free: 0..1, paid: Nat]
    BY DEF IInv, TypeOK, Counts
  <2>2. plan' = [plan EXCEPT ![r] = seed]
    BY <1>3 DEF Seed
  <2> HIDE DEF seed
  <2> USE <1>3 DEF IInv, Seed
  <2>3. TypeOK'
    BY <2>1, <2>2 DEF TypeOK
  <2>4. KeysHeldOnce' /\ RowsHeldOnce'
    BY <2>2 DEF TypeOK, KeysHeldOnce, RowsHeldOnce
  <2>5. Attempts' /\ Prices'
    BY DEF TypeOK, Attempts, Prices
  <2>6. Allowances' /\ ClaimsLeft'
    BY <2>2 DEF TypeOK, Allowances, ClaimsLeft
  <2>7. Answers'
    BY DEF TypeOK, Answers, AnswersAreTrue
  <2> QED BY <2>3, <2>4, <2>5, <2>6, <2>7
<1> QED BY <1>1, <1>2, <1>3

\* What a row counts covers what was charged to its day.
LEMMA RowCovers ==
  ASSUME IInv, NEW r \in Requests
  PROVE  /\ plan[r].day \in Days /\ Row(r).free \in 0..1 /\ Row(r).paid \in Nat
         /\ used[plan[r].day].free \in Nat /\ used[plan[r].day].paid \in Nat
         /\ used[plan[r].day].free <= Row(r).free /\ used[plan[r].day].paid <= Row(r).paid
<1> DEFINE d == plan[r].day
<1>1. d \in Days /\ plan[r].free \in 0..1 /\ plan[r].paid \in Nat
  BY DEF IInv, TypeOK
<1>2. used[d].free \in Nat /\ used[d].paid \in Nat
  BY <1>1 DEF IInv, TypeOK, Counts
<1>3. allowance[d].at \in {"none", "made"} /\ allowance[d].free \in 0..1 /\ allowance[d].paid \in Nat
  BY <1>1 DEF IInv, TypeOK
<1> HIDE DEF d
<1>4. CASE allowance[d].at = "none"
  <2>1. Row(r) = plan[r]
    BY <1>4 DEF Row, d
  <2> QED BY <1>1, <1>2, <1>4, <2>1 DEF IInv, Allowances, d
<1>5. CASE allowance[d].at = "made"
  <2>1. Row(r) = allowance[d]
    BY <1>5 DEF Row, d
  <2> QED BY <1>1, <1>2, <1>3, <1>5, <2>1 DEF IInv, Allowances, d
<1> QED BY <1>3, <1>4, <1>5

\* A claim that finds the allowance it takes keeps the invariant.
LEMMA Claimed ==
  ASSUME IInv, NEW r \in Requests, stage[r] = "seeded", ~RowHeld(plan[r].day),
         NEW cost \in {0, Cost}, NEW most \in Nat, Claim(r, cost, most),
         UNCHANGED <<today, pages, reply, rows>>,
         used[plan[r].day].free <= 1,
         \/ cost = 0 /\ used[plan[r].day].free = 0 /\ used[plan[r].day].paid <= most
         \/ cost = Cost /\ used[plan[r].day].paid < MaxPaid /\ used[plan[r].day].paid < most
  PROVE  IInv'
<1>1. CASE ~AtConfirmedPrice(r, cost)
  BY <1>1, EndStep DEF Claim, Running
<1>2. CASE AtConfirmedPrice(r, cost)
  <2> DEFINE taken == [day |-> plan[r].day, free |-> 1, paid |-> most]
  <2>1. /\ stage' = [stage EXCEPT ![r] = "claimed"]
        /\ plan' = [plan EXCEPT ![r] = taken]
        /\ price[Key(r)] = cost
    BY <1>2 DEF Claim, AtConfirmedPrice
  <2>2. /\ taken \in [day: Days, free: 0..1, paid: Nat]
        /\ taken.day = plan[r].day /\ taken.free = 1 /\ taken.paid = most
    BY RowCovers
  <2> HIDE DEF taken
  <2> USE <2>1, WheelAssumption, Requested DEF IInv, pages, rows
  <2>3. TypeOK'
    BY <2>2 DEF TypeOK, Running
  <2>4. \A s \in Requests : s # r => stage'[s] = stage[s] /\ plan'[s] = plan[s]
    BY DEF TypeOK
  <2>5. stage'[r] = "claimed" /\ plan'[r] = taken
    BY DEF TypeOK
  <2>6. KeysHeldOnce'
    BY <2>4, <2>5 DEF KeysHeldOnce, Running, Key
  <2>7. RowsHeldOnce'
    BY <2>2, <2>4, <2>5 DEF RowsHeldOnce, RowHeld
  <2>8. Attempts' /\ Prices'
    BY <2>4, <2>5 DEF Attempts, Prices, Running, Key
  <2>9. Allowances'
    BY DEF Allowances
  <2>10. ClaimsLeft'
    <3> SUFFICES ASSUME NEW s \in Requests, stage'[s] = "claimed"
                 PROVE  (/\ plan[s].free = 1 /\ used[plan[s].day].free <= 1
                         /\ \/ price[Key(s)] = 0 /\ used[plan[s].day].free = 0
                               /\ used[plan[s].day].paid <= plan[s].paid
                            \/ price[Key(s)] = Cost /\ used[plan[s].day].paid < MaxPaid
                               /\ used[plan[s].day].paid < plan[s].paid)'
      BY DEF ClaimsLeft
    <3>1. CASE s = r
      BY <3>1, <2>2, <2>5 DEF Key
    <3>2. CASE s # r
      BY <3>2, <2>4 DEF ClaimsLeft, Key
    <3> QED BY <3>1, <3>2
  <2>11. Answers'
    BY <2>4, <2>5 DEF Answers, AnswersAreTrue, Key
  <2> QED BY <2>3, <2>6, <2>7, <2>8, <2>9, <2>10, <2>11
<1> QED BY <1>1, <1>2

LEMMA ClaimStep ==
  ASSUME IInv, NEW r \in Requests, ClaimFree(r) \/ ClaimPaid(r)
  PROVE  IInv'
<1> USE RowCovers, WheelAssumption
<1>1. ASSUME ClaimFree(r) PROVE IInv'
  BY <1>1, Claimed DEF ClaimFree
<1>2. ASSUME ClaimPaid(r) PROVE IInv'
  BY <1>2, Claimed DEF ClaimPaid
<1> QED BY <1>1, <1>2

LEMMA SettleStep ==
  ASSUME IInv, NEW r \in Requests, NEW p \in Prizes, Settle(r, p)
  PROVE  IInv'
<1> DEFINE d == plan[r].day
           c == Key(r)
           row == [at |-> "made", free |-> plan[r].free, paid |-> plan[r].paid]
           here == Count(spins[today], price[c])
           charged == Count(used[d], price[c])
<1>1. c \in Clicks /\ d \in Days /\ today \in Days
  BY Requested DEF IInv, TypeOK
<1>2. /\ plan[r].free = 1 /\ plan[r].paid \in Nat
      /\ used[d].free \in Nat /\ used[d].paid \in Nat /\ used[d].free <= 1
      /\ \/ price[c] = 0 /\ used[d].free = 0 /\ used[d].paid <= plan[r].paid
         \/ price[c] = Cost /\ used[d].paid < MaxPaid /\ used[d].paid < plan[r].paid
  BY <1>1 DEF IInv, TypeOK, Counts, ClaimsLeft, Settle
<1>3. row \in [at: {"none", "made"}, free: 0..1, paid: Nat]
  BY <1>2
<1>4. here \in Counts
  BY <1>1 DEF IInv, TypeOK, Counts, Count
<1>5. charged \in Counts /\ charged.free <= 1 /\ charged.paid <= plan[r].paid
  BY <1>2, WheelAssumption DEF Counts, Count
<1>6. NoPlan \in [day: Days, free: 0..1, paid: Nat]
  BY WheelAssumption DEF NoPlan, Days
<1>7. row.at = "made" /\ row.free = 1 /\ row.paid = plan[r].paid
  BY <1>2
<1>8. /\ stage[r] = "claimed"
      /\ stage' = [stage EXCEPT ![r] = "won"]
      /\ plan' = [plan EXCEPT ![r] = NoPlan]
      /\ reply' = [reply EXCEPT ![r] = p]
      /\ attempt' = [attempt EXCEPT ![c] = "committed"]
      /\ result' = [result EXCEPT ![c] = p]
      /\ allowance' = [allowance EXCEPT ![d] = row]
      /\ spins' = [spins EXCEPT ![today] = here]
      /\ used' = [used EXCEPT ![d] = charged]
      /\ UNCHANGED <<today, page, retry, shown, price>>
  BY DEF Settle, Ends, Stored, pages
<1> HIDE DEF d, c, row, here, charged
<1> USE <1>1, <1>8 DEF IInv
<1>9. TypeOK'
  BY <1>3, <1>4, <1>5, <1>6 DEF TypeOK, Running, Ended, PrizeOrNone
<1>10. \A s \in Requests : s # r => stage'[s] = stage[s] /\ plan'[s] = plan[s] /\ reply'[s] = reply[s]
  BY DEF TypeOK
<1>11. stage'[r] = "won" /\ reply'[r] = p
  BY DEF TypeOK
<1>12. result'[c] = p /\ attempt'[c] = "committed" /\ p # NoPrize
  BY WheelAssumption DEF TypeOK
<1>13. \A k \in Clicks : k # c => result'[k] = result[k] /\ attempt'[k] = attempt[k]
  BY DEF TypeOK
<1>14. result[c] = NoPrize /\ \A s \in Requests : stage[s] \in Running /\ s # r => Key(s) # c
  BY DEF Attempts, KeysHeldOnce, Running, TypeOK, c
<1>15. KeysHeldOnce' /\ RowsHeldOnce'
  BY <1>10, <1>11 DEF KeysHeldOnce, RowsHeldOnce, Running, Key
<1>16. Attempts'
  <2>1. (\A k \in Clicks : attempt[k] = "committed" <=> result[k] # NoPrize)'
    BY <1>12, <1>13 DEF Attempts
  <2>2. ASSUME NEW s \in Requests, stage'[s] \in Running PROVE attempt'[Key(s)] = "none"
    <3>1. s # r /\ stage[s] \in Running
      BY <2>2, <1>10, <1>11 DEF Running
    <3> QED BY <3>1, <1>13, <1>14, Requested DEF Attempts
  <2> QED BY <2>1, <2>2 DEF Attempts, Key
<1>17. Prices'
  BY <1>10, <1>11 DEF Prices, Key
<1>18. \A e \in Days : e # d => used'[e] = used[e] /\ allowance'[e] = allowance[e]
  BY DEF TypeOK
<1>19. used'[d] = charged /\ allowance'[d] = row
  BY DEF TypeOK
<1>20. Allowances'
  BY <1>5, <1>7, <1>18, <1>19 DEF Allowances
<1>21. ClaimsLeft'
  <2> SUFFICES ASSUME NEW s \in Requests, stage'[s] = "claimed"
               PROVE  s # r /\ stage[s] = "claimed" /\ plan[s].day \in Days /\ plan[s].day # d
    BY <1>10, <1>18 DEF ClaimsLeft, Key
  <2>1. s # r /\ stage[s] = "claimed"
    BY <1>10, <1>11
  <2> QED BY <2>1 DEF RowsHeldOnce, TypeOK, d
<1>22. \A s \in Requests : stage[s] = "won" => Key(s) # c
  BY <1>14 DEF Answers, Key
<1>23. \A s \in Requests : stage'[s] = "won" => reply'[s] = result'[Key(s)] /\ reply'[s] # NoPrize
  <2> SUFFICES ASSUME NEW s \in Requests, stage'[s] = "won"
               PROVE  reply'[s] = result'[Key(s)] /\ reply'[s] # NoPrize
    OBVIOUS
  <2>1. CASE s = r
    BY <2>1, <1>11, <1>12 DEF c
  <2>2. CASE s # r
    BY <2>2, <1>10, <1>13, <1>22, Requested DEF Answers
  <2> QED BY <2>1, <2>2
<1>24. \A k \in Clicks : page'[k] = "won" => shown'[k] = result'[k] /\ shown'[k] # NoPrize
  BY <1>13, <1>14 DEF Answers, AnswersAreTrue
<1>25. \A s \in Requests : stage'[s] # "conflict"
  BY <1>10, <1>11 DEF Answers, AnswersAreTrue
<1>26. Answers'
  BY <1>23, <1>24, <1>25 DEF Answers, AnswersAreTrue, Key
<1> QED BY <1>9, <1>15, <1>16, <1>17, <1>20, <1>21, <1>26

LEMMA EndSteps ==
  ASSUME IInv, NEW r \in Requests, Deny(r) \/ RollBack(r)
  PROVE  IInv'
BY EndStep DEF Deny, RollBack, Running

LEMMA NextInv == IInv /\ [Next]_vars => IInv'
<1> SUFFICES ASSUME IInv, [Next]_vars PROVE IInv'
  OBVIOUS
<1>1. CASE Midnight
  BY <1>1, WheelAssumption
  DEF Midnight, IInv, TypeOK, KeysHeldOnce, RowsHeldOnce, Attempts, Prices, Allowances, ClaimsLeft,
      Answers, AnswersAreTrue, Days, rows, pages
<1>2. CASE UNCHANGED vars
  BY <1>2 DEF vars, IInv, TypeOK, KeysHeldOnce, RowsHeldOnce, Attempts, Prices, Allowances,
      ClaimsLeft, Answers, AnswersAreTrue, rows, pages
<1> QED
  BY <1>1, <1>2, PageStep, RequestStep, ClaimStep, EndSteps, SettleStep DEF Next, Page, Server

THEOREM Invariant == Spec => []IInv
BY InitInv, NextInv, PTL DEF Spec

\* Every row keeps its columns' types.
THEOREM TypeCorrect == Spec => []TypeOK
<1>1. IInv => TypeOK
  BY DEF IInv
<1> QED BY Invariant, <1>1, PTL

\* The page shows only what the click's attempt stored.
THEOREM AnswersCorrect == Spec => []AnswersAreTrue
<1>1. IInv => AnswersAreTrue
  BY DEF IInv, Answers, AnswersAreTrue
<1> QED BY Invariant, <1>1, PTL

\* The wheel implements its promise: one settlement per click at the confirmed
\* price, within the day's allowance.
THEOREM SpinsCorrect == Spec => ImplementsSpins
<1> USE WheelAssumption, Requested
<1>1. Init => Promise!Init
  BY DEF Init, Promise!Init, Unset, Promise!Unset, Days
<1>2. IInv /\ [Next]_vars => [Promise!Next]_(Promise!svars)
  <2> SUFFICES ASSUME IInv, [Next]_vars PROVE [Promise!Next]_(Promise!svars)
    OBVIOUS
  <2>1. ASSUME UNCHANGED <<price, result, used>> PROVE UNCHANGED Promise!svars
    BY <2>1 DEF Promise!svars
  <2>2. ASSUME NEW c \in Clicks, NEW cost \in {0, Cost}, Click(c, cost) PROVE Promise!Next
    <3>1. Promise!Confirm(c, cost)
      BY <2>2 DEF Click, rows, IInv, Prices, Promise!Confirm, Unset, Promise!Unset
    <3> QED BY <3>1 DEF Promise!Next
  <2>3. ASSUME NEW r \in Requests, NEW p \in Prizes, Settle(r, p) PROVE Promise!Next
    <3>1. Key(r) \in Clicks /\ plan[r].day \in Days
      BY DEF IInv, TypeOK
    <3>2. result[Key(r)] = NoPrize
      BY <2>3, <3>1 DEF Settle, IInv, Attempts, TypeOK, Running
    <3>3. Promise!Charge(Key(r), plan[r].day)
      <4> DEFINE d == plan[r].day
      <4>1. used[d] \in Counts /\ used[d].free \in Nat /\ used[d].paid \in Nat
        BY <3>1 DEF IInv, TypeOK, Counts
      <4>2. /\ used' = [used EXCEPT ![d] = Count(used[d], price[Key(r)])]
            /\ \/ price[Key(r)] = 0 /\ used[d].free = 0
               \/ price[Key(r)] = Cost /\ used[d].paid < MaxPaid
        BY <2>3 DEF Settle, IInv, ClaimsLeft
      <4>3. CASE price[Key(r)] = 0 /\ used[d].free = 0
        <5>1. Count(used[d], 0) = [used[d] EXCEPT !.free = 1]
          BY <4>1, <4>3 DEF Count, Counts
        <5> QED BY <4>2, <4>3, <5>1 DEF Promise!Charge
      <4>4. CASE price[Key(r)] = Cost /\ used[d].paid < MaxPaid
        <5>1. Count(used[d], Cost) = [used[d] EXCEPT !.paid = @ + 1]
          BY <4>1 DEF Count, Counts
        <5> QED BY <4>2, <4>4, <5>1 DEF Promise!Charge
      <4> QED BY <4>2, <4>3, <4>4
    <3>4. Promise!Settle(Key(r), plan[r].day, p)
      BY <2>3, <3>1, <3>2, <3>3 DEF Promise!Settle, Settle, Stored, pages
    <3> QED BY <3>1, <3>4 DEF Promise!Next
  <2>4. ASSUME NEW c \in Clicks, Page(c) PROVE UNCHANGED <<price, result, used>>
    BY <2>4 DEF Page, Resend, GiveUp, Answer, rows, pages
  <2>5. ASSUME NEW r \in Requests,
               Begin(r) \/ Replay(r) \/ Seed(r) \/ ClaimFree(r) \/ ClaimPaid(r) \/ Deny(r)
                 \/ RollBack(r)
        PROVE  UNCHANGED <<price, result, used>>
    BY <2>5 DEF Begin, Replay, Seed, ClaimFree, ClaimPaid, Deny, RollBack, rows, pages
  <2>6. CASE Midnight \/ UNCHANGED vars
    BY <2>1, <2>6 DEF Midnight, vars, rows, pages
  <2> QED
    BY <2>1, <2>2, <2>3, <2>4, <2>5, <2>6 DEF Next, Server
<1> QED
  BY <1>1, <1>2, Invariant, PTL DEF Spec, ImplementsSpins

-----------------------------------------------------------------------------
(* Daily rewards, achievements and missions (Rewards).                       *)

LEMMA RewardsHold == R!RewardsAssumption
BY RewardsAssumed

LEMMA DaysOrdered ==
  ASSUME NEW a \in Nat, NEW b \in Nat, NEW n \in Nat \ {0}, a * n < b * n + n
  PROVE  a <= b
<1> SUFFICES ASSUME b < a PROVE FALSE
  OBVIOUS
<1>1. PICK k \in Nat : a = b + 1 + k
  <2>1. a - b - 1 \in Nat /\ a = b + 1 + (a - b - 1)
    OBVIOUS
  <2> QED BY <2>1
<1>2. a * n = b * n + n + k * n /\ b * n \in Nat /\ k * n \in Nat
  BY <1>1
<1> QED BY <1>2

LEMMA DayBounds ==
  ASSUME NEW t \in Nat, NEW n \in Nat \ {0}
  PROVE  /\ t \div n \in Nat /\ (t \div n) * n \in Nat
         /\ (t \div n) * n <= t /\ t < (t \div n) * n + n
<1>1. t \div n \in Nat /\ t = n * (t \div n) + (t % n) /\ t % n \in 0..n - 1
  OBVIOUS
<1>2. PICK q \in Nat, r \in 0..n - 1 : q = t \div n /\ r = t % n
  BY <1>1
<1>3. q * n \in Nat /\ t = q * n + r
  BY <1>1, <1>2
<1> QED BY <1>2, <1>3

LEMMA DayOrder ==
  ASSUME NEW s \in Nat, NEW t \in Nat, s <= t
  PROVE  R!Day(s) \in 0..R!Day(t)
<1>1. PICK p \in Nat, q \in Nat, n \in Nat \ {0} :
        n = Cooldown /\ p = s \div n /\ q = t \div n
  BY DayBounds, RewardsHold DEF R!RewardsAssumption
<1>2. p * n \in Nat /\ q * n \in Nat /\ p * n <= s /\ t < q * n + n
  BY <1>1, DayBounds
<1>3. p * n < q * n + n
  BY <1>2
<1>4. p <= q
  BY <1>1, <1>3, DaysOrdered
<1> QED BY <1>1, <1>4 DEF R!Day

\* The types of the rows of users, of claims, of achievements and of missions.
RowTypes ==
  /\ now \in 0..MaxTime
  /\ last \in [Users -> 0..MaxTime \cup {R!Never}] /\ streak \in [Users -> Nat]
  /\ network \in [Users -> Networks \cup {NoNetwork}]
  /\ log \in SUBSET R!ClaimRecords

ClaimTypes ==
  /\ claimAt \in [Claims -> R!Holding \cup {"none", "read", "refused", "failed", "done"}]
  /\ DOMAIN claim = Claims
  /\ \A k \in Claims :
       claimAt[k] # "none" =>
         /\ claim[k] \in R!ClaimRecords
         /\ claim[k].user \in Users /\ claim[k].at \in 0..MaxTime /\ claim[k].streak \in Nat
         /\ claim[k].network \in Networks

AwardTypes ==
  /\ goal \in Goals \cup {StreakGoal} /\ unlocked \in SUBSET Users /\ paid \in [Users -> Nat]
  /\ checkAt \in [Checks -> {"none", "read", "inserted", "failed", "done"}]
  /\ DOMAIN checked = Checks
  /\ \A h \in Checks : checkAt[h] # "none" => checked[h] \in Users

MissionTypes ==
  /\ progress \in [R!Missions -> Nat] /\ completed \in SUBSET R!Missions
  /\ earned \in [R!Missions -> Nat] /\ torn \in SUBSET R!Missions
  /\ bumpAt \in [Bumps -> {"none", "read", "paying", "done"}]
  /\ DOMAIN bump = Bumps
  /\ \A b \in Bumps :
       bumpAt[b] # "none" =>
         /\ bump[b] \in [mission: R!Missions, progress: Nat]
         /\ bump[b].mission \in R!Missions /\ bump[b].progress \in Nat

Types == RowTypes /\ ClaimTypes /\ AwardTypes /\ MissionTypes

LEMMA TypesAreType == Types => R!TypeOK
BY DEF Types, RowTypes, ClaimTypes, AwardTypes, MissionTypes, R!TypeOK

LEMMA ClaimRecord ==
  ASSUME NEW u \in Users, NEW n \in Networks, NEW s \in Nat, NEW t \in Nat
  PROVE  [user |-> u, at |-> t, network |-> n, streak |-> s] \in R!ClaimRecords
BY DEF R!ClaimRecords

LEMMA TypesInit == R!Init => Types
<1> SUFFICES ASSUME R!Init PROVE Types
  OBVIOUS
<1> USE RewardsHold DEF R!RewardsAssumption, R!Init
<1>1. RowTypes
  BY DEF RowTypes
<1>2. ClaimTypes
  BY DEF ClaimTypes
<1>3. AwardTypes
  BY DEF AwardTypes
<1>4. MissionTypes
  BY DEF MissionTypes
<1> QED BY <1>1, <1>2, <1>3, <1>4 DEF Types

LEMMA TypesStep == Types /\ [R!Next]_(R!vars) => Types'
<1> SUFFICES ASSUME Types, [R!Next]_(R!vars) PROVE Types'
  OBVIOUS
<1> USE DEF R!users, R!claims, R!awards, R!checks, R!missions, R!bumps
<1>1. MaxTime \in Nat
  BY RewardsHold DEF R!RewardsAssumption
<1>2. CASE R!Tick
  BY <1>1, <1>2 DEF R!Tick, Types, RowTypes, ClaimTypes, AwardTypes, MissionTypes
<1>3. ASSUME NEW n \in Goals, R!EditGoal(n) PROVE Types'
  BY <1>3 DEF R!EditGoal, Types, RowTypes, ClaimTypes, AwardTypes, MissionTypes
<1>4. ASSUME NEW k \in Claims, NEW u \in Users, NEW n \in Networks, R!ClaimRead(k, u, n)
      PROVE  Types'
  <2>1. PICK s \in Nat : s = IF R!Broken(u) THEN 1 ELSE streak[u] + 1
    BY DEF Types, RowTypes
  <2>2. now \in 0..MaxTime /\ now \in Nat
    BY <1>1 DEF Types, RowTypes
  <2>3. PICK c \in R!ClaimRecords : c = [user |-> u, at |-> now, network |-> n, streak |-> s]
    BY <2>2, ClaimRecord
  <2>4. /\ claim' = [claim EXCEPT ![k] = c] /\ claimAt' = [claimAt EXCEPT ![k] = "read"]
        /\ UNCHANGED <<now, R!users, R!awards, R!checks, R!missions, R!bumps>>
    BY <1>4, <2>1, <2>3 DEF R!ClaimRead
  <2>5. c.user \in Users /\ c.at \in 0..MaxTime /\ c.streak \in Nat /\ c.network \in Networks
    BY <2>2, <2>3
  <2>6. ClaimTypes'
    <3> SUFFICES ASSUME NEW j \in Claims, claimAt'[j] # "none"
                 PROVE  /\ claim'[j] \in R!ClaimRecords
                        /\ claim'[j].user \in Users /\ claim'[j].at \in 0..MaxTime
                        /\ claim'[j].streak \in Nat /\ claim'[j].network \in Networks
      BY <2>4 DEF Types, ClaimTypes
    <3>1. CASE j = k
      <4>1. claim'[j] = c
        BY <2>4, <3>1 DEF Types, ClaimTypes
      <4> QED BY <2>5, <4>1
    <3>2. CASE j # k
      BY <2>4, <3>2 DEF Types, ClaimTypes
    <3> QED BY <3>1, <3>2
  <2> QED BY <2>4, <2>6 DEF Types, RowTypes, AwardTypes, MissionTypes
<1>5. ASSUME NEW k \in Claims, R!ClaimRow(k) \/ R!ClaimLook(k) \/ R!ClaimInsert(k) \/ R!ClaimFails(k)
      PROVE  Types'
  <2>1. ClaimTypes'
    BY <1>5 DEF R!ClaimRow, R!ClaimLook, R!ClaimInsert, R!ClaimFails, R!Holding, Types, ClaimTypes
  <2>2. UNCHANGED <<now, R!users, R!awards, R!checks, R!missions, R!bumps>>
    BY <1>5 DEF R!ClaimRow, R!ClaimLook, R!ClaimInsert, R!ClaimFails
  <2> QED BY <2>1, <2>2 DEF Types, RowTypes, AwardTypes, MissionTypes
<1>6. ASSUME NEW k \in Claims, R!ClaimCommit(k) PROVE Types'
  <2>1. claim[k] \in R!ClaimRecords /\ claim[k].user \in Users /\ claim[k].at \in 0..MaxTime
        /\ claim[k].streak \in Nat /\ claim[k].network \in Networks
    BY <1>6 DEF Types, ClaimTypes, R!ClaimCommit
  <2>2. RowTypes'
    BY <1>6, <2>1 DEF Types, RowTypes, R!ClaimCommit
  <2>3. ClaimTypes'
    BY <1>6 DEF Types, ClaimTypes, R!ClaimCommit
  <2>4. AwardTypes'
    BY <1>6, <2>1 DEF Types, AwardTypes, R!ClaimCommit
  <2>5. MissionTypes'
    BY <1>6 DEF Types, MissionTypes, R!ClaimCommit
  <2> QED BY <2>2, <2>3, <2>4, <2>5 DEF Types
<1>7. ASSUME NEW h \in Checks, NEW u \in Users, R!CheckRead(h, u) PROVE Types'
  BY <1>7 DEF R!CheckRead, Types, RowTypes, ClaimTypes, AwardTypes, MissionTypes
<1>8. ASSUME NEW h \in Checks, R!CheckInsert(h) \/ R!CheckPay(h) PROVE Types'
  <2>1. checked[h] \in Users
    BY <1>8 DEF R!CheckInsert, R!CheckPay, Types, AwardTypes
  <2>2. AwardTypes'
    BY <1>8, <2>1 DEF R!CheckInsert, R!CheckPay, Types, AwardTypes
  <2>3. RowTypes' /\ ClaimTypes' /\ MissionTypes'
    BY <1>8 DEF R!CheckInsert, R!CheckPay, Types, RowTypes, ClaimTypes, MissionTypes
  <2> QED BY <2>2, <2>3 DEF Types
<1>9. ASSUME NEW b \in Bumps, NEW u \in Users, R!BumpRead(b, u) PROVE Types'
  <2>1. PICK m \in R!Missions : m = <<u, R!Day(now)>>
    <3>1. now \in Nat /\ now <= MaxTime
      BY <1>1 DEF Types, RowTypes
    <3>2. R!Day(now) \in 0..R!Day(MaxTime)
      BY <1>1, <3>1, DayOrder
    <3> QED BY <3>2 DEF R!Missions
  <2>2. PICK n \in Nat : n = progress[m]
    BY DEF Types, MissionTypes
  <2>3. /\ bump' = [bump EXCEPT ![b] = [mission |-> m, progress |-> n]]
        /\ bumpAt' = [bumpAt EXCEPT ![b] = "read"]
        /\ UNCHANGED <<now, R!users, R!claims, R!awards, R!checks, R!missions>>
    BY <1>9, <2>1, <2>2 DEF R!BumpRead
  <2>4. MissionTypes'
    BY <2>1, <2>2, <2>3 DEF Types, MissionTypes
  <2> QED BY <2>3, <2>4 DEF Types, RowTypes, ClaimTypes, AwardTypes
<1>10. ASSUME NEW b \in Bumps, R!BumpWrite(b) \/ R!BumpPay(b) PROVE Types'
  <2>1. bump[b].mission \in R!Missions /\ bump[b].progress \in Nat
    BY <1>10 DEF R!BumpWrite, R!BumpPay, Types, MissionTypes
  <2>2. MissionTypes'
    BY <1>10, <2>1 DEF R!BumpWrite, R!BumpPay, Types, MissionTypes
  <2> QED BY <1>10, <2>2 DEF R!BumpWrite, R!BumpPay, Types, RowTypes, ClaimTypes, AwardTypes
<1>11. CASE UNCHANGED R!vars
  BY <1>11 DEF R!vars, Types, RowTypes, ClaimTypes, AwardTypes, MissionTypes
<1> QED BY <1>2, <1>3, <1>4, <1>5, <1>6, <1>7, <1>8, <1>9, <1>10, <1>11 DEF R!Next

\* Entries of a log of daily rewards before one of them, and the latest of these.
Earlier(L, e) == {d \in L : d.user = e.user /\ d.at < e.at}
Prior(L, e) == CHOOSE d \in Earlier(L, e) : \A c \in Earlier(L, e) : c.at <= d.at

Apart(L) ==
  \A d, e \in L : d.user = e.user /\ d # e => d.at + Cooldown <= e.at \/ e.at + Cooldown <= d.at

Continues(L) ==
  \A e \in L :
    e.streak = IF Earlier(L, e) = {} \/ e.at - Prior(L, e).at > Grace THEN 1 ELSE Prior(L, e).streak + 1

\* The user's row is that of the latest entry.
RowIsLatest ==
  \A u \in Users :
    \/ last[u] = R!Never /\ streak[u] = 0 /\ \A e \in log : e.user # u
    \/ \E d \in log : /\ d.user = u /\ d.at = last[u] /\ d.streak = streak[u]
                      /\ \A e \in log : e.user = u => e.at <= d.at

Claiming(k) == claimAt[k] \in R!Holding \cup {"read"}

\* No call lasts as long as the cooldown; a claim that finds its user eligible has
\* computed the streak from the row as it still is.
ClaimsCurrent ==
  \A k \in Claims : Claiming(k) =>
    /\ claim[k].at <= now /\ now < claim[k].at + Cooldown
    /\ R!Eligible(claim[k].user, claim[k].at) =>
         claim[k].streak = IF last[claim[k].user] # R!Never /\ last[claim[k].user] < claim[k].at - Grace
                           THEN 1 ELSE streak[claim[k].user] + 1

\* One claim at a time holds a user's row, and that user is eligible.
Holders ==
  /\ \A k \in Claims : claimAt[k] \in R!Holding => R!Eligible(claim[k].user, claim[k].at)
  /\ \A j, k \in Claims :
       claimAt[j] \in R!Holding /\ claimAt[k] \in R!Holding /\ claim[j].user = claim[k].user => j = k

StreakInv == Types /\ Apart(log) /\ Continues(log) /\ RowIsLatest /\ ClaimsCurrent /\ Holders

\* The row of an achievement comes with one call that pays for it.
Unlocks ==
  /\ \A u \in Users : paid[u] <= 1
  /\ \A u \in Users : paid[u] = 1 => u \in unlocked
  /\ \A k \in Claims : claimAt[k] = "unlocking" => claim[k].user \notin unlocked
  /\ \A h \in Checks : checkAt[h] = "inserted" => checked[h] \in unlocked /\ paid[checked[h]] = 0
  /\ \A g, h \in Checks :
       checkAt[g] = "inserted" /\ checkAt[h] = "inserted" /\ checked[g] = checked[h] => g = h

\* Until an update overwrites what it has not read, a mission is complete when its
\* requirement is met, nobody updates it after that, and one update pays for it.
Pays ==
  \A m \in R!Missions \ torn :
    /\ m \in completed <=> progress[m] >= Requirement
    /\ earned[m] <= 1 /\ (earned[m] = 1 => progress[m] >= Requirement)
    /\ \A b \in Bumps : bumpAt[b] = "read" /\ bump[b].mission = m => bump[b].progress < Requirement
    /\ \A b \in Bumps :
         bumpAt[b] = "paying" /\ bump[b].mission = m => progress[m] >= Requirement /\ earned[m] = 0
    /\ \A b, c \in Bumps :
         /\ bumpAt[b] = "paying" /\ bump[b].mission = m
         /\ bumpAt[c] = "paying" /\ bump[c].mission = m
         => b = c



LEMMA LogKept ==
  ASSUME StreakInv, UNCHANGED <<last, streak, log>>
  PROVE  Apart(log') /\ Continues(log') /\ RowIsLatest'
BY DEF StreakInv, RowIsLatest

\* A claim of another user's, or one that does not claim, is not affected.
LEMMA OthersClaim ==
  ASSUME StreakInv, NEW k \in Claims, UNCHANGED <<now, last, streak, log, claim>>,
         NEW to, claimAt' = [claimAt EXCEPT ![k] = to],
         to \in R!Holding => /\ Claiming(k) /\ R!Eligible(claim[k].user, claim[k].at)
                             /\ \A j \in Claims : claimAt[j] \in R!Holding /\ claim[j].user = claim[k].user => j = k,
         to # "read"
  PROVE  ClaimsCurrent' /\ Holders'
<1>1. \A j \in Claims : j # k => claimAt'[j] = claimAt[j]
  BY DEF StreakInv, Types, ClaimTypes
<1>2. claimAt'[k] = to
  BY DEF StreakInv, Types, ClaimTypes
<1>3. \A j \in Claims : Claiming(j)' => Claiming(j)
  BY <1>1, <1>2 DEF Claiming
<1>4. ClaimsCurrent'
  BY <1>3 DEF StreakInv, ClaimsCurrent, R!Eligible
<1>5. Holders'
  BY <1>1, <1>2 DEF StreakInv, Holders, R!Eligible
<1> QED BY <1>4, <1>5

LEMMA SameStreak ==
  ASSUME StreakInv, Types', UNCHANGED <<now, last, streak, log, claimAt, claim>>
  PROVE  StreakInv'
BY DEF StreakInv, RowIsLatest, ClaimsCurrent, Claiming, Holders, R!Eligible

LEMMA CommitStreak ==
  ASSUME StreakInv, Types', NEW k \in Claims, R!ClaimCommit(k)
  PROVE  StreakInv'
<1> DEFINE e == claim[k]
           u == e.user
<1>1. /\ u \in Users /\ e.at \in Nat /\ e.streak \in Nat /\ e \in R!ClaimRecords
      /\ claimAt[k] \in R!Holding /\ Cooldown \in Nat \ {0} /\ Grace \in Nat
  BY RewardsHold DEF R!ClaimCommit, R!Holding, StreakInv, Types, ClaimTypes, R!RewardsAssumption
<1>2. /\ last' = [last EXCEPT ![u] = e.at] /\ streak' = [streak EXCEPT ![u] = e.streak]
      /\ log' = log \cup {e} /\ claimAt' = [claimAt EXCEPT ![k] = "done"]
      /\ UNCHANGED <<claim, now>>
  BY DEF R!ClaimCommit
<1>3. last[u] = R!Never \/ last[u] <= e.at - Cooldown
  BY <1>1 DEF StreakInv, Holders, R!Eligible
<1>4. \A d \in log : d.at \in Nat /\ d.user \in Users /\ d.streak \in Nat
  BY DEF StreakInv, Types, RowTypes, R!ClaimRecords
<1>5. \A d \in log : d.user = u => d.at + Cooldown <= e.at
  <2> SUFFICES ASSUME NEW d \in log, d.user = u PROVE d.at + Cooldown <= e.at
    OBVIOUS
  <2>1. PICK c \in log : c.at = last[u] /\ d.at <= c.at
    BY <1>1 DEF StreakInv, RowIsLatest
  <2>2. c.at \in Nat /\ d.at \in Nat /\ last[u] # R!Never
    BY <1>4, <2>1 DEF R!Never
  <2> QED BY <1>1, <1>3, <2>1, <2>2
<1>6. e \notin log
  BY <1>1, <1>4, <1>5
<1>7. Apart(log')
  BY <1>2, <1>5 DEF StreakInv, Apart
<1>8. Continues(log')
  <2>1. ASSUME NEW d \in log PROVE Earlier(log', d) = Earlier(log, d) /\ Prior(log', d) = Prior(log, d)
    <3>1. ~(e.user = d.user /\ e.at < d.at)
      BY <1>1, <1>4, <1>5
    <3>2. Earlier(log', d) = Earlier(log, d)
      BY <1>2, <3>1 DEF Earlier
    <3> QED BY <3>2 DEF Prior
  <2>2. \A d \in log :
          d.streak = IF Earlier(log', d) = {} \/ d.at - Prior(log', d).at > Grace THEN 1
                     ELSE Prior(log', d).streak + 1
    BY <2>1 DEF StreakInv, Continues
  <2>3. Earlier(log', e) = {d \in log : d.user = u}
    BY <1>1, <1>2, <1>4, <1>5 DEF Earlier
  <2>4. e.streak = IF last[u] # R!Never /\ last[u] < e.at - Grace THEN 1 ELSE streak[u] + 1
    BY <1>1 DEF StreakInv, Holders, ClaimsCurrent, Claiming
  <2>5. e.streak = IF Earlier(log', e) = {} \/ e.at - Prior(log', e).at > Grace THEN 1
                   ELSE Prior(log', e).streak + 1
    <3>1. CASE last[u] = R!Never /\ streak[u] = 0 /\ \A d \in log : d.user # u
      BY <2>3, <2>4, <3>1
    <3>2. CASE \E d \in log : /\ d.user = u /\ d.at = last[u] /\ d.streak = streak[u]
                              /\ \A c \in log : c.user = u => c.at <= d.at
      <4>1. PICK d \in log : /\ d.user = u /\ d.at = last[u] /\ d.streak = streak[u]
                             /\ \A c \in log : c.user = u => c.at <= d.at
        BY <3>2
      <4>2. \A c \in Earlier(log', e) : (\A b \in Earlier(log', e) : b.at <= c.at) => c = d
        BY <1>1, <1>4, <2>3, <4>1 DEF StreakInv, Apart
      <4>3. Prior(log', e) = d
        BY <2>3, <4>1, <4>2 DEF Prior
      <4>4. d.at \in Nat /\ d.at # R!Never
        BY <1>4, <4>1 DEF R!Never
      <4> QED BY <1>1, <2>3, <2>4, <4>1, <4>3, <4>4
    <3> QED BY <1>1, <3>1, <3>2 DEF StreakInv, RowIsLatest
  <2> QED BY <1>2, <2>2, <2>5 DEF Continues
<1>9. RowIsLatest'
  <2> SUFFICES ASSUME NEW v \in Users
               PROVE  \/ last'[v] = R!Never /\ streak'[v] = 0 /\ \A d \in log' : d.user # v
                      \/ \E d \in log' : /\ d.user = v /\ d.at = last'[v] /\ d.streak = streak'[v]
                                         /\ \A c \in log' : c.user = v => c.at <= d.at
    BY DEF RowIsLatest
  <2>1. CASE v = u
    <3>1. last'[v] = e.at /\ streak'[v] = e.streak
      BY <1>2, <2>1 DEF StreakInv, Types, RowTypes
    <3>2. \A c \in log' : c.user = v => c.at <= e.at
      BY <1>1, <1>2, <1>4, <1>5, <2>1
    <3> QED BY <1>2, <2>1, <3>1, <3>2
  <2>2. CASE v # u
    <3>1. last'[v] = last[v] /\ streak'[v] = streak[v]
      BY <1>2, <2>2
    <3>2. \A d \in log' : d.user = v => d \in log
      BY <1>2, <2>2
    <3> QED BY <1>2, <2>2, <3>1, <3>2 DEF StreakInv, RowIsLatest
  <2> QED BY <2>1, <2>2
<1>10. \A j \in Claims : j # k => claimAt'[j] = claimAt[j]
  BY <1>2 DEF StreakInv, Types, ClaimTypes
<1>11. ~Claiming(k)' /\ claimAt'[k] \notin R!Holding
  BY <1>2 DEF StreakInv, Types, ClaimTypes, Claiming, R!Holding
<1>12. ASSUME NEW j \in Claims, j # k, Claiming(j), claim[j].user = u
       PROVE  claimAt[j] \notin R!Holding /\ ~R!Eligible(u, claim[j].at)'
  <2>1. claimAt[j] \notin R!Holding
    BY <1>1, <1>12 DEF StreakInv, Holders
  <2>2. claim[j].at <= now /\ now < e.at + Cooldown /\ claim[j].at \in Nat
    BY <1>1, <1>12 DEF StreakInv, ClaimsCurrent, Claiming, Types, ClaimTypes, R!Holding
  <2>3. last'[u] = e.at /\ e.at # R!Never /\ now \in Int
    BY <1>1, <1>2 DEF StreakInv, Types, RowTypes, R!Never
  <2> QED BY <1>1, <1>2, <2>1, <2>2, <2>3 DEF R!Eligible
<1>13. ASSUME NEW v \in Users, v # u PROVE last'[v] = last[v] /\ streak'[v] = streak[v]
  BY <1>2, <1>13
<1>14. \A j \in Claims : Claiming(j) => claim[j].user \in Users
  BY DEF StreakInv, Types, ClaimTypes, Claiming, R!Holding
<1>15. \A j \in Claims : Claiming(j)' => j # k /\ Claiming(j)
  BY <1>10, <1>11 DEF Claiming
<1>16. ClaimsCurrent'
  <2> SUFFICES ASSUME NEW j \in Claims, Claiming(j)'
               PROVE  /\ claim[j].at <= now /\ now < claim[j].at + Cooldown
                      /\ R!Eligible(claim[j].user, claim[j].at)' =>
                           claim[j].streak =
                             IF last'[claim[j].user] # R!Never /\ last'[claim[j].user] < claim[j].at - Grace
                             THEN 1 ELSE streak'[claim[j].user] + 1
    BY <1>2 DEF ClaimsCurrent, R!Eligible
  <2>1. CASE claim[j].user = u
    BY <1>2, <1>12, <1>15, <2>1 DEF StreakInv, ClaimsCurrent, R!Eligible
  <2>2. CASE claim[j].user # u
    BY <1>2, <1>13, <1>14, <1>15, <2>2 DEF StreakInv, ClaimsCurrent, R!Eligible
  <2> QED BY <2>1, <2>2
<1>17. Holders'
  <2>1. \A j \in Claims : claimAt'[j] \in R!Holding => claimAt[j] \in R!Holding /\ j # k /\ Claiming(j)
    BY <1>10, <1>11 DEF Claiming
  <2>2. \A j \in Claims : claimAt'[j] \in R!Holding => claim[j].user # u /\ claim[j].user \in Users
    BY <1>12, <1>14, <2>1
  <2> QED BY <1>2, <1>13, <2>1, <2>2 DEF StreakInv, Holders, R!Eligible
<1> QED BY <1>7, <1>8, <1>9, <1>16, <1>17 DEF StreakInv

LEMMA StreakInit == R!Init => StreakInv
<1> SUFFICES ASSUME R!Init PROVE StreakInv
  OBVIOUS
<1> QED BY TypesInit DEF R!Init, StreakInv, Apart, Continues, RowIsLatest, ClaimsCurrent, Claiming, Holders, R!Holding

LEMMA StreakStep == StreakInv /\ [R!Next]_(R!vars) => StreakInv'
<1> SUFFICES ASSUME StreakInv, [R!Next]_(R!vars) PROVE StreakInv'
  OBVIOUS
<1> USE DEF R!users, R!claims
<1>1. Types'
  BY TypesStep DEF StreakInv
<1>2. CASE R!Tick
  <2>1. UNCHANGED <<last, streak, log, claimAt, claim>> /\ now' = now + 1
        /\ \A k \in Claims : Claiming(k) => now + 1 < claim[k].at + Cooldown
    BY <1>2 DEF R!Tick, Claiming
  <2>2. ClaimsCurrent'
    <3>1. \A k \in Claims : Claiming(k) => claim[k].at \in Int /\ now \in Int
      BY DEF StreakInv, Types, RowTypes, ClaimTypes, Claiming, R!Holding
    <3> QED BY <2>1, <3>1 DEF StreakInv, ClaimsCurrent, Claiming, R!Eligible
  <2>3. Holders'
    BY <2>1 DEF StreakInv, Holders, R!Eligible
  <2> QED BY <1>1, <2>1, <2>2, <2>3, LogKept DEF StreakInv
<1>3. ASSUME NEW k \in Claims, NEW u \in Users, NEW n \in Networks, R!ClaimRead(k, u, n)
      PROVE  StreakInv'
  <2>1. /\ UNCHANGED <<now, last, streak, log>> /\ claimAt[k] = "none"
        /\ claimAt' = [claimAt EXCEPT ![k] = "read"]
        /\ claim' = [claim EXCEPT ![k] = [user |-> u, at |-> now, network |-> n,
                                          streak |-> IF R!Broken(u) THEN 1 ELSE streak[u] + 1]]
    BY <1>3 DEF R!ClaimRead
  <2>2. /\ claimAt'[k] = "read" /\ claim'[k].user = u /\ claim'[k].at = now
        /\ claim'[k].streak = IF R!Broken(u) THEN 1 ELSE streak[u] + 1
    BY <2>1 DEF StreakInv, Types, ClaimTypes
  <2>3. \A j \in Claims : j # k => claimAt'[j] = claimAt[j] /\ claim'[j] = claim[j]
    BY <2>1 DEF StreakInv, Types, ClaimTypes
  <2>4. "read" \notin R!Holding
    BY DEF R!Holding
  <2>5. now \in Int /\ Cooldown \in Nat \ {0}
    BY RewardsHold DEF R!RewardsAssumption, StreakInv, Types, RowTypes
  <2>6. ClaimsCurrent'
    <3> SUFFICES ASSUME NEW j \in Claims, Claiming(j)'
                 PROVE  /\ claim'[j].at <= now /\ now < claim'[j].at + Cooldown
                        /\ R!Eligible(claim[j].user, claim[j].at)' =>
                             claim'[j].streak =
                               IF last[claim'[j].user] # R!Never /\ last[claim'[j].user] < claim'[j].at - Grace
                               THEN 1 ELSE streak[claim'[j].user] + 1
      BY <2>1 DEF ClaimsCurrent
    <3>1. CASE j = k
      BY <2>2, <2>5, <3>1 DEF R!Broken
    <3>2. CASE j # k
      BY <2>1, <2>3, <3>2 DEF StreakInv, ClaimsCurrent, Claiming, R!Eligible
    <3> QED BY <3>1, <3>2
  <2>7. Holders'
    BY <2>1, <2>2, <2>3, <2>4 DEF StreakInv, Holders, R!Eligible
  <2> QED BY <1>1, <2>1, <2>6, <2>7, LogKept DEF StreakInv
<1>4. ASSUME NEW k \in Claims, R!ClaimRow(k) PROVE StreakInv'
  <2> DEFINE to == IF R!Eligible(claim[k].user, claim[k].at) THEN "holding" ELSE "refused"
  <2>1. /\ UNCHANGED <<now, last, streak, log, claim>> /\ claimAt' = [claimAt EXCEPT ![k] = to]
        /\ Claiming(k)
        /\ \A j \in Claims : ~(claimAt[j] \in R!Holding /\ claim[j].user = claim[k].user)
    BY <1>4 DEF R!ClaimRow, R!RowHeld, Claiming
  <2>2. to # "read" /\ (to \in R!Holding => R!Eligible(claim[k].user, claim[k].at))
    BY DEF R!Holding
  <2>3. ClaimsCurrent' /\ Holders'
    <3> HIDE DEF to
    <3> QED BY <2>1, <2>2, OthersClaim
  <2> QED BY <1>1, <2>1, <2>3, LogKept DEF StreakInv
<1>5. ASSUME NEW k \in Claims, R!ClaimLook(k) \/ R!ClaimInsert(k) \/ R!ClaimFails(k)
      PROVE  StreakInv'
  <2>1. PICK to : /\ UNCHANGED <<now, last, streak, log, claim>> /\ claimAt' = [claimAt EXCEPT ![k] = to]
                  /\ claimAt[k] \in R!Holding /\ to # "read"
    BY <1>5 DEF R!ClaimLook, R!ClaimInsert, R!ClaimFails, R!Holding
  <2>2. Claiming(k) /\ R!Eligible(claim[k].user, claim[k].at)
        /\ \A j \in Claims : claimAt[j] \in R!Holding /\ claim[j].user = claim[k].user => j = k
    BY <2>1 DEF Claiming, StreakInv, Holders
  <2>3. ClaimsCurrent' /\ Holders'
    BY <2>1, <2>2, OthersClaim
  <2> QED BY <1>1, <2>1, <2>3, LogKept DEF StreakInv
<1>6. ASSUME NEW k \in Claims, R!ClaimCommit(k) PROVE StreakInv'
  BY <1>1, <1>6, CommitStreak
<1>7. ASSUME UNCHANGED <<now, last, streak, log, claimAt, claim>> PROVE StreakInv'
  BY <1>1, <1>7, SameStreak
<1>8. ASSUME NEW n \in Goals, R!EditGoal(n) PROVE StreakInv'
  BY <1>7, <1>8 DEF R!EditGoal
<1>9. ASSUME NEW h \in Checks, NEW u \in Users, R!CheckRead(h, u) PROVE StreakInv'
  BY <1>7, <1>9 DEF R!CheckRead
<1>10. ASSUME NEW h \in Checks, R!CheckInsert(h) \/ R!CheckPay(h) PROVE StreakInv'
  BY <1>7, <1>10 DEF R!CheckInsert, R!CheckPay
<1>11. ASSUME NEW b \in Bumps, NEW u \in Users, R!BumpRead(b, u) PROVE StreakInv'
  BY <1>7, <1>11 DEF R!BumpRead
<1>12. ASSUME NEW b \in Bumps, R!BumpWrite(b) \/ R!BumpPay(b) PROVE StreakInv'
  BY <1>7, <1>12 DEF R!BumpWrite, R!BumpPay
<1>13. CASE UNCHANGED R!vars
  BY <1>7, <1>13 DEF R!vars
<1> QED
  BY <1>2, <1>3, <1>4, <1>5, <1>6, <1>8, <1>9, <1>10, <1>11, <1>12, <1>13 DEF R!Next

RewardsInv == StreakInv /\ Unlocks /\ Pays

LEMMA UnlocksSame ==
  ASSUME Unlocks, UNCHANGED <<unlocked, paid, checkAt, checked, claimAt, claim>>
  PROVE  Unlocks'
BY DEF Unlocks

\* A claim that does not insert, and does not pay, leaves the achievements as they are.
LEMMA UnlocksClaim ==
  ASSUME Types, Unlocks, NEW k \in Claims, NEW to, claimAt' = [claimAt EXCEPT ![k] = to],
         UNCHANGED <<unlocked, paid, checkAt, checked, claim>>,
         to = "unlocking" => claim[k].user \notin unlocked
  PROVE  Unlocks'
<1>1. \A j \in Claims : claimAt'[j] = IF j = k THEN to ELSE claimAt[j]
  BY DEF Types, ClaimTypes
<1> QED BY <1>1 DEF Unlocks

LEMMA UnlocksStep == StreakInv /\ Unlocks /\ [R!Next]_(R!vars) => Unlocks'
<1> SUFFICES ASSUME StreakInv, Unlocks, [R!Next]_(R!vars) PROVE Unlocks'
  OBVIOUS
<1> USE DEF R!users, R!claims, R!awards, R!checks, R!missions, R!bumps
<1>1. Types /\ Types'
  BY TypesStep DEF StreakInv
<1>2. CASE R!Tick
  BY <1>2, UnlocksSame DEF R!Tick
<1>3. ASSUME NEW n \in Goals, R!EditGoal(n) PROVE Unlocks'
  BY <1>3, UnlocksSame DEF R!EditGoal
<1>4. ASSUME NEW k \in Claims, NEW u \in Users, NEW n \in Networks, R!ClaimRead(k, u, n)
      PROVE  Unlocks'
  <2>1. /\ \A j \in Claims : j # k => claimAt'[j] = claimAt[j] /\ claim'[j] = claim[j]
        /\ claimAt'[k] = "read"
    BY <1>1, <1>4 DEF R!ClaimRead, Types, ClaimTypes
  <2>2. UNCHANGED <<unlocked, paid, checkAt, checked>>
    BY <1>4 DEF R!ClaimRead
  <2> QED BY <2>1, <2>2 DEF Unlocks
<1>5. ASSUME NEW k \in Claims, R!ClaimRow(k) \/ R!ClaimLook(k) \/ R!ClaimInsert(k) \/ R!ClaimFails(k)
      PROVE  Unlocks'
  <2>1. UNCHANGED <<unlocked, paid, checkAt, checked, claim>>
    BY <1>5 DEF R!ClaimRow, R!ClaimLook, R!ClaimInsert, R!ClaimFails
  <2>2. PICK to : /\ claimAt' = [claimAt EXCEPT ![k] = to]
                  /\ to = "unlocking" => claim[k].user \notin unlocked
    BY <1>5 DEF R!ClaimRow, R!ClaimLook, R!ClaimInsert, R!ClaimFails
  <2> QED BY <1>1, <2>1, <2>2, UnlocksClaim
<1>6. ASSUME NEW k \in Claims, R!ClaimCommit(k) PROVE Unlocks'
  <2>1. CASE claimAt[k] = "skipping"
    <3>1. UNCHANGED <<unlocked, paid, checkAt, checked, claim>> /\ claimAt' = [claimAt EXCEPT ![k] = "done"]
      BY <1>6, <2>1 DEF R!ClaimCommit
    <3> QED BY <1>1, <3>1, UnlocksClaim
  <2>2. CASE claimAt[k] = "unlocking"
    <3> DEFINE u == claim[k].user
    <3>1. /\ unlocked' = unlocked \cup {u} /\ paid' = [paid EXCEPT ![u] = @ + 1]
          /\ UNCHANGED <<checkAt, checked, claim>> /\ claimAt' = [claimAt EXCEPT ![k] = "done"]
      BY <1>6, <2>2 DEF R!ClaimCommit
    <3>2. u \in Users /\ u \notin unlocked /\ paid[u] \in Nat
      BY <1>1, <2>2 DEF Unlocks, Types, ClaimTypes, AwardTypes
    <3>3. paid[u] = 0
      BY <3>2 DEF Unlocks
    <3>4. \A v \in Users : paid'[v] = IF v = u THEN 1 ELSE paid[v]
      BY <1>1, <3>1, <3>2, <3>3 DEF Types, AwardTypes
    <3>5. \A j \in Claims : claimAt'[j] = "unlocking" => claimAt[j] = "unlocking" /\ j # k
      BY <1>1, <3>1 DEF Types, ClaimTypes
    <3>6. \A j \in Claims : claimAt'[j] = "unlocking" => claim[j].user # u
      BY <2>2, <3>5 DEF StreakInv, Holders, R!Holding
    <3>7. \A h \in Checks : checkAt[h] = "inserted" => checked[h] \in Users /\ checked[h] # u
      BY <1>1, <3>2 DEF Unlocks, Types, AwardTypes
    <3> QED BY <3>1, <3>4, <3>5, <3>6, <3>7 DEF Unlocks
  <2> QED BY <1>6, <2>1, <2>2 DEF R!ClaimCommit
<1>7. ASSUME NEW h \in Checks, NEW u \in Users, R!CheckRead(h, u) PROVE Unlocks'
  <2>1. /\ \A g \in Checks : g # h => checkAt'[g] = checkAt[g] /\ checked'[g] = checked[g]
        /\ checkAt'[h] = "read"
    BY <1>1, <1>7 DEF R!CheckRead, Types, AwardTypes
  <2>2. UNCHANGED <<unlocked, paid, claimAt, claim>>
    BY <1>7 DEF R!CheckRead
  <2> QED BY <2>1, <2>2 DEF Unlocks
<1>8. ASSUME NEW h \in Checks, R!CheckInsert(h) PROVE Unlocks'
  <2> DEFINE u == checked[h]
  <2>1. /\ unlocked' = unlocked \cup {u} /\ UNCHANGED <<paid, checked, claimAt, claim>>
        /\ \A k \in Claims : claimAt[k] = "unlocking" => claim[k].user # u
        /\ u \in Users
    BY <1>1, <1>8 DEF R!CheckInsert, Types, AwardTypes
  <2>2. /\ \A g \in Checks : g # h => checkAt'[g] = checkAt[g]
        /\ checkAt'[h] = IF u \in unlocked THEN "failed" ELSE "inserted"
    BY <1>1, <1>8 DEF R!CheckInsert, R!Duplicate, Types, AwardTypes
  <2>3. u \notin unlocked => paid[u] = 0
    BY <1>1, <2>1 DEF Unlocks, Types, AwardTypes
  <2>4. \A g \in Checks : checkAt'[g] = "inserted" => checked[g] \in unlocked' /\ paid[checked[g]] = 0
    BY <2>1, <2>2, <2>3 DEF Unlocks
  <2>5. \A f, g \in Checks : checkAt'[f] = "inserted" /\ checkAt'[g] = "inserted" /\ checked[f] = checked[g] => f = g
    BY <2>1, <2>2 DEF Unlocks
  <2> QED BY <2>1, <2>4, <2>5 DEF Unlocks
<1>9. ASSUME NEW h \in Checks, R!CheckPay(h) PROVE Unlocks'
  <2> DEFINE u == checked[h]
  <2>1. /\ UNCHANGED <<unlocked, checked, claimAt, claim>>
        /\ paid' = [paid EXCEPT ![u] = @ + 1] \/ paid' = paid
        /\ u \in unlocked /\ paid[u] = 0 /\ u \in Users
    BY <1>1, <1>9 DEF R!CheckPay, Unlocks, Types, AwardTypes
  <2>2. \A g \in Checks : checkAt'[g] = "inserted" => checkAt[g] = "inserted" /\ g # h
    BY <1>1, <1>9 DEF R!CheckPay, Types, AwardTypes
  <2>3. \A v \in Users : paid'[v] = paid[v] \/ (v = u /\ paid'[v] = 1)
    BY <1>1, <2>1 DEF Types, AwardTypes
  <2>4. \A g \in Checks : checkAt'[g] = "inserted" => checked[g] # u /\ checked[g] \in Users
    BY <1>1, <1>9, <2>2 DEF R!CheckPay, Unlocks, Types, AwardTypes
  <2> QED BY <2>1, <2>2, <2>3, <2>4 DEF Unlocks
<1>10. ASSUME NEW b \in Bumps, NEW u \in Users, R!BumpRead(b, u) PROVE Unlocks'
  BY <1>10, UnlocksSame DEF R!BumpRead
<1>11. ASSUME NEW b \in Bumps, R!BumpWrite(b) \/ R!BumpPay(b) PROVE Unlocks'
  BY <1>11, UnlocksSame DEF R!BumpWrite, R!BumpPay
<1>12. CASE UNCHANGED R!vars
  BY <1>12, UnlocksSame DEF R!vars
<1> QED
  BY <1>2, <1>3, <1>4, <1>5, <1>6, <1>7, <1>8, <1>9, <1>10, <1>11, <1>12 DEF R!Next

LEMMA PaysSame ==
  ASSUME Pays, UNCHANGED <<progress, completed, earned, torn, bumpAt, bump>>
  PROVE  Pays'
BY DEF Pays, R!Missions, R!Day

LEMMA PaysStep == Types /\ Pays /\ [R!Next]_(R!vars) => Pays'
<1> SUFFICES ASSUME Types, Pays, [R!Next]_(R!vars) PROVE Pays'
  OBVIOUS
<1> USE DEF R!missions, R!bumps
<1>1. Requirement \in Nat \ {0} /\ R!Missions' = R!Missions
  BY RewardsHold DEF R!RewardsAssumption, R!Missions, R!Day
<1>2. ASSUME NEW b \in Bumps, NEW u \in Users, R!BumpRead(b, u) PROVE Pays'
  <2>1. PICK m : m = <<u, R!Day(now)>>
    OBVIOUS
  <2>2. /\ bumpAt' = [bumpAt EXCEPT ![b] = "read"] /\ m \notin completed
        /\ bump' = [bump EXCEPT ![b] = [mission |-> m, progress |-> progress[m]]]
        /\ UNCHANGED <<progress, completed, earned, torn>>
    BY <1>2, <2>1 DEF R!BumpRead
  <2>3. /\ bumpAt'[b] = "read" /\ bump'[b].mission = m /\ bump'[b].progress = progress[m]
        /\ \A c \in Bumps : c # b => bumpAt'[c] = bumpAt[c] /\ bump'[c] = bump[c]
    BY <2>2 DEF Types, MissionTypes
  <2>4. \A o \in R!Missions \ torn : o \notin completed => progress[o] < Requirement
    BY <1>1 DEF Pays, Types, MissionTypes
  <2> QED BY <1>1, <2>2, <2>3, <2>4 DEF Pays
<1>3. ASSUME NEW b \in Bumps, R!BumpWrite(b) PROVE Pays'
  <2>1. PICK m, n : m = bump[b].mission /\ n = bump[b].progress + 1
    OBVIOUS
  <2>2. m \in R!Missions /\ n \in Nat /\ bump[b].progress \in Nat /\ bumpAt[b] = "read"
    BY <1>3, <2>1 DEF R!BumpWrite, Types, MissionTypes
  <2>3. /\ bumpAt' = [bumpAt EXCEPT ![b] = IF n >= Requirement THEN "paying" ELSE "done"]
        /\ progress' = [progress EXCEPT ![m] = n]
        /\ completed' = IF n >= Requirement THEN completed \cup {m} ELSE completed \ {m}
        /\ torn' = IF progress[m] = bump[b].progress THEN torn ELSE torn \cup {m}
        /\ UNCHANGED <<earned, bump>>
    BY <1>3, <2>1 DEF R!BumpWrite, R!Required
  <2>4. /\ bumpAt'[b] = IF n >= Requirement THEN "paying" ELSE "done"
        /\ \A c \in Bumps : c # b => bumpAt'[c] = bumpAt[c]
        /\ progress'[m] = n /\ \A o \in R!Missions : o # m => progress'[o] = progress[o]
    BY <2>2, <2>3 DEF Types, MissionTypes
  <2>5. ASSUME NEW o \in R!Missions \ torn', o # m
        PROVE  /\ o \in completed' <=> progress'[o] >= Requirement
               /\ earned'[o] <= 1 /\ (earned'[o] = 1 => progress'[o] >= Requirement)
               /\ \A c \in Bumps : bumpAt'[c] = "read" /\ bump'[c].mission = o => bump'[c].progress < Requirement
               /\ \A c \in Bumps : bumpAt'[c] = "paying" /\ bump'[c].mission = o => progress'[o] >= Requirement /\ earned'[o] = 0
               /\ \A c, d \in Bumps :
                    /\ bumpAt'[c] = "paying" /\ bump'[c].mission = o
                    /\ bumpAt'[d] = "paying" /\ bump'[d].mission = o
                    => c = d
    <3>1. o \in R!Missions \ torn /\ progress'[o] = progress[o] /\ (o \in completed' <=> o \in completed)
      BY <2>3, <2>4, <2>5
    <3>2. \A c \in Bumps : bump[c].mission = o => c # b /\ bumpAt'[c] = bumpAt[c]
      BY <2>1, <2>4, <2>5
    <3> QED BY <2>3, <3>1, <3>2 DEF Pays
  <2>6. ASSUME m \notin torn'
        PROVE  /\ m \in completed' <=> progress'[m] >= Requirement
               /\ earned'[m] <= 1 /\ (earned'[m] = 1 => progress'[m] >= Requirement)
               /\ \A c \in Bumps : bumpAt'[c] = "read" /\ bump'[c].mission = m => bump'[c].progress < Requirement
               /\ \A c \in Bumps : bumpAt'[c] = "paying" /\ bump'[c].mission = m => progress'[m] >= Requirement /\ earned'[m] = 0
               /\ \A c, d \in Bumps :
                    /\ bumpAt'[c] = "paying" /\ bump'[c].mission = m
                    /\ bumpAt'[d] = "paying" /\ bump'[d].mission = m
                    => c = d
    <3>1. progress[m] = bump[b].progress /\ m \notin torn
      BY <2>3, <2>6
    <3>2. bump[b].progress < Requirement /\ progress[m] < Requirement
      BY <2>1, <2>2, <3>1 DEF Pays
    <3>3. earned[m] \in Nat /\ earned[m] = 0
      BY <1>1, <2>2, <3>1, <3>2 DEF Pays, Types, MissionTypes
    <3>4. \A c \in Bumps : bump[c].mission = m => bumpAt[c] # "paying"
      BY <1>1, <2>2, <3>1, <3>2 DEF Pays
    <3>5. \A c \in Bumps : bumpAt'[c] = "read" => bumpAt[c] = "read"
      BY <2>4
    <3>6. \A c \in Bumps : bumpAt'[c] = "paying" /\ bump[c].mission = m => c = b /\ n >= Requirement
      BY <2>4, <3>4
    <3>7. \A c \in Bumps : bumpAt[c] = "read" /\ bump[c].mission = m => bump[c].progress < Requirement
      BY <2>2, <3>1 DEF Pays
    <3> QED BY <2>3, <2>4, <3>3, <3>5, <3>6, <3>7
  <2> QED
    BY <1>1, <2>5, <2>6 DEF Pays
<1>4. ASSUME NEW b \in Bumps, R!BumpPay(b) PROVE Pays'
  <2>1. PICK m : m = bump[b].mission
    OBVIOUS
  <2>2. /\ bumpAt[b] = "paying" /\ m \in R!Missions
        /\ bumpAt' = [bumpAt EXCEPT ![b] = "done"] /\ earned' = [earned EXCEPT ![m] = @ + 1]
        /\ UNCHANGED <<progress, completed, torn, bump>>
    BY <1>4, <2>1 DEF R!BumpPay, Types, MissionTypes
  <2>3. /\ \A c \in Bumps : bumpAt'[c] = "paying" => bumpAt[c] = "paying" /\ c # b
        /\ \A c \in Bumps : bumpAt'[c] = "read" => bumpAt[c] = "read"
    BY <2>2 DEF Types, MissionTypes
  <2>4. \A o \in R!Missions : earned'[o] = IF o = m THEN earned[m] + 1 ELSE earned[o]
    BY <2>2 DEF Types, MissionTypes
  <2>5. m \notin torn => earned[m] = 0 /\ progress[m] >= Requirement
                         /\ \A c \in Bumps : bumpAt[c] = "paying" /\ bump[c].mission = m => c = b
    BY <2>1, <2>2 DEF Pays
  <2> QED BY <1>1, <2>2, <2>3, <2>4, <2>5 DEF Pays
<1>5. ASSUME UNCHANGED <<progress, completed, earned, torn, bumpAt, bump>> PROVE Pays'
  BY <1>5, PaysSame
<1>6. CASE R!Tick \/ UNCHANGED R!vars
  BY <1>5, <1>6 DEF R!Tick, R!vars
<1>7. ASSUME NEW n \in Goals, R!EditGoal(n) PROVE Pays'
  BY <1>5, <1>7 DEF R!EditGoal
<1>8. ASSUME NEW k \in Claims,
             \/ \E u \in Users, n \in Networks : R!ClaimRead(k, u, n)
             \/ R!ClaimRow(k) \/ R!ClaimLook(k) \/ R!ClaimInsert(k) \/ R!ClaimCommit(k) \/ R!ClaimFails(k)
      PROVE  Pays'
  BY <1>5, <1>8 DEF R!ClaimRead, R!ClaimRow, R!ClaimLook, R!ClaimInsert, R!ClaimCommit, R!ClaimFails
<1>9. ASSUME NEW h \in Checks, (\E u \in Users : R!CheckRead(h, u)) \/ R!CheckInsert(h) \/ R!CheckPay(h)
      PROVE  Pays'
  BY <1>5, <1>9 DEF R!CheckRead, R!CheckInsert, R!CheckPay
<1> QED BY <1>2, <1>3, <1>4, <1>6, <1>7, <1>8, <1>9 DEF R!Next

LEMMA AwardsInit == R!Init => Unlocks /\ Pays
<1> SUFFICES ASSUME R!Init PROVE Unlocks /\ Pays
  OBVIOUS
<1>1. Requirement \in Nat \ {0}
  BY RewardsHold DEF R!RewardsAssumption
<1>2. Unlocks
  BY DEF R!Init, Unlocks
<1>3. Pays
  BY <1>1 DEF R!Init, Pays
<1> QED BY <1>2, <1>3

LEMMA RewardsInvariant == R!Spec => []RewardsInv
<1>1. R!Init => RewardsInv
  BY StreakInit, AwardsInit DEF RewardsInv
<1>2. RewardsInv /\ [R!Next]_(R!vars) => RewardsInv'
  <2> SUFFICES ASSUME RewardsInv, [R!Next]_(R!vars) PROVE RewardsInv'
    OBVIOUS
  <2>1. StreakInv'
    BY StreakStep DEF RewardsInv
  <2>2. Unlocks'
    BY UnlocksStep DEF RewardsInv
  <2>3. Pays'
    BY PaysStep DEF RewardsInv, StreakInv
  <2> QED BY <2>1, <2>2, <2>3 DEF RewardsInv
<1> QED BY <1>1, <1>2, PTL DEF R!Spec

\* Two rewards of a user are a cooldown apart and each pays for the run of rewards
\* that it ends, whatever claims overlap and fail (claimDailyReward).
THEOREM StreakCorrect == R!Spec => []StreakIsRun
<1>1. RewardsInv => StreakIsRun
  <2> SUFFICES ASSUME RewardsInv PROVE StreakIsRun
    OBVIOUS
  <2>1. \A e : R!Before(e) = Earlier(log, e) /\ R!Previous(e) = Prior(log, e)
    BY DEF R!Before, R!Previous, Earlier, Prior
  <2> QED BY <2>1 DEF RewardsInv, StreakInv, Apart, Continues, StreakIsRun, R!StreakIsRun
<1> QED BY <1>1, RewardsInvariant, PTL

\* An achievement is paid at most once, with its row, and a mission at most once and
\* when it is complete (unlockAchievement, updateMissionProgress).
THEOREM PaidOnceCorrect == R!Spec => []PaidOnce
<1>1. RewardsInv => PaidOnce
  BY DEF RewardsInv, Unlocks, Pays, PaidOnce, R!PaidOnce
<1> QED BY <1>1, RewardsInvariant, PTL

-----------------------------------------------------------------------------
(* The inventory (Store).                                                    *)

StoreTypes ==
  /\ limit \in [G!Items -> Nat] /\ sold \in [G!Items -> Nat]
  /\ buyAt \in [Buys -> {"none", "locked", "done", "failed"}]
  /\ DOMAIN order = Buys
  /\ \A b \in Buys : buyAt[b] \in {"locked", "done"} =>
       order[b].user \in Customers /\ order[b].item \in G!Items /\ order[b].n \in Nat \ {0}
  /\ DOMAIN holder = G!Rows /\ DOMAIN kind = G!Rows
  /\ qty \in [G!Rows -> Nat] /\ got \in [G!Rows -> Nat]
  /\ useAt \in [Uses -> {"none", "read", "revealed", "applied", "consumed", "failed"}]
  /\ target \in [Uses -> G!Rows] /\ seen \in [Uses -> Nat]
  /\ \A c \in Uses : useAt[c] # "none" => seen[c] > 0
  /\ giftAt \in [Gifts -> {"none", "read", "done"}]
  /\ DOMAIN gift = Gifts
  /\ \A g \in Gifts : giftAt[g] = "read" => gift[g].row \in G!Rows
  /\ granted \in SUBSET Uses /\ overwritten \in SUBSET G!Rows

\* Uses whose effect was applied and that are through with their row.
Through(id) == {c \in granted : target[c] = id /\ useAt[c] # "applied"}

\* A unit that left its row took a use with it that had applied the effect before.
Kept ==
  /\ \A c \in granted : useAt[c] \in {"applied", "consumed", "failed"}
  /\ \A c \in Uses : useAt[c] = "applied" => c \in granted
  /\ \A id \in G!Rows \ overwritten : got[id] <= qty[id] + Cardinality(Through(id))

\* The row named for a call is empty until the call creates it, and stays what it is.
Created ==
  /\ \A id \in G!Rows : got[id] = 0 => qty[id] = 0
  /\ \A b \in Buys : buyAt[b] # "done" => got[b] = 0
  /\ \A c \in Uses : useAt[c] \in {"none", "read", "revealed"} => got[c] = 0
  /\ \A g \in Gifts : giftAt[g] # "done" => got[g] = 0
  /\ \A c \in Uses : useAt[c] # "none" => got[target[c]] > 0 /\ kind[target[c]] \in Consumables

\* Under the lock of an item: no other purchase of it, and room for this one.
Locks ==
  /\ \A a, b \in Buys :
       buyAt[a] = "locked" /\ buyAt[b] = "locked" /\ order[a].item = order[b].item => a = b
  /\ \A b \in Buys :
       buyAt[b] = "locked" => sold[order[b].item] + order[b].n <= limit[order[b].item]

\* A cosmetic that was bought stays in the inventory, and bars the next purchase.
Bought ==
  /\ \A b \in Buys :
       buyAt[b] = "done" /\ order[b].item \in Cosmetics =>
         holder[b] = order[b].user /\ kind[b] = order[b].item /\ qty[b] > 0 /\ got[b] > 0
  /\ \A a, b \in Buys :
       /\ buyAt[a] = "done" /\ buyAt[b] \in {"done", "locked"} /\ order[a].item \in Cosmetics
       /\ order[a].user = order[b].user /\ order[a].item = order[b].item
       => a = b

StoreInv == StoreTypes /\ Kept /\ Created /\ Locks /\ Bought

LEMMA StoreHold == G!StoreAssumption
BY StoreAssumed

LEMMA SameCount == \A T : G!Cardinality(T) = Cardinality(T)
BY DEF G!Cardinality, Cardinality

LEMMA StoreConstants ==
  /\ Consumables \cap Cosmetics = {} /\ MaxQuantity \in Nat \ {0} /\ IsFiniteSet(Uses)
  /\ Limits \subseteq Nat /\ G!Items = Consumables \cup Cosmetics
  /\ G!Rows = Buys \cup Uses \cup Gifts
  /\ Buys \cap Uses = {} /\ Buys \cap Gifts = {} /\ Uses \cap Gifts = {}
BY StoreHold DEF G!StoreAssumption, G!Items, G!Rows, G!IsFiniteSet, IsFiniteSet

LEMMA ThroughFinite ==
  ASSUME StoreTypes, NEW id
  PROVE  IsFiniteSet(Through(id)) /\ Cardinality(Through(id)) \in Nat
<1>1. Through(id) \subseteq Uses
  BY DEF Through, StoreTypes
<1>2. IsFiniteSet(Through(id))
  BY <1>1, StoreConstants, FS_Subset
<1> QED BY <1>2, FS_CardinalityType

\* What a new row means for the rows there are.
LEMMA RowCreated ==
  ASSUME StoreInv, NEW id \in G!Rows, NEW u, NEW i, NEW n \in Nat \ {0}, got[id] = 0,
         G!Create(id, u, i, n)
  PROVE  /\ DOMAIN holder' = G!Rows /\ DOMAIN kind' = G!Rows
         /\ qty' \in [G!Rows -> Nat] /\ got' \in [G!Rows -> Nat]
         /\ holder'[id] = u /\ kind'[id] = i /\ qty'[id] = n /\ got'[id] = n
         /\ \A r \in G!Rows : r # id => /\ holder'[r] = holder[r] /\ kind'[r] = kind[r]
                                        /\ qty'[r] = qty[r] /\ got'[r] = got[r]
         /\ \A c \in Uses : useAt[c] # "none" => target[c] # id
BY DEF StoreInv, StoreTypes, Created, G!Create

LEMMA RowStacked ==
  ASSUME StoreInv, NEW id \in G!Rows, NEW n \in Nat, qty[id] > 0, G!Stack(id, n)
  PROVE  /\ UNCHANGED <<holder, kind>>
         /\ qty' \in [G!Rows -> Nat] /\ got' \in [G!Rows -> Nat]
         /\ got[id] > 0
         /\ qty'[id] = qty[id] + n /\ got'[id] = got[id] + n
         /\ \A r \in G!Rows : r # id => qty'[r] = qty[r] /\ got'[r] = got[r]
         /\ \A r \in G!Rows : (got'[r] = 0 <=> got[r] = 0) /\ (got'[r] > 0 <=> got[r] > 0)
                              /\ (qty[r] > 0 => qty'[r] > 0)
<1>1. qty[id] \in Nat /\ got[id] \in Nat /\ got[id] > 0
  BY DEF StoreInv, StoreTypes, Created
<1> QED BY <1>1 DEF StoreInv, StoreTypes, G!Stack

\* The inventory part of the invariant after a row was created or stacked by a call
\* that is over by then.
LEMMA CreatedKeeps ==
  ASSUME StoreInv, NEW id \in G!Rows, NEW u, NEW i, NEW n \in Nat \ {0}, got[id] = 0,
         G!Create(id, u, i, n), UNCHANGED <<useAt, target, granted, overwritten>>,
         \A b \in Buys : (buyAt'[b] # "done" => buyAt[b] # "done" /\ b # id),
         \A g \in Gifts : (giftAt'[g] # "done" => giftAt[g] # "done" /\ g # id),
         id \notin Uses
  PROVE  Kept' /\ Created'
<1>1. Kept'
  <2>1. \A r : Through(r)' = Through(r)
    BY DEF Through
  <2>2. \A r \in G!Rows : Cardinality(Through(r)) \in Nat
    BY ThroughFinite DEF StoreInv
  <2> HIDE DEF Through
  <2>3. \A r \in G!Rows \ overwritten : got'[r] <= qty'[r] + Cardinality(Through(r))
    BY <2>2, RowCreated DEF StoreInv, Kept
  <2> QED BY <2>1, <2>3 DEF StoreInv, Kept
<1>2. Created'
  <2>1. \A c \in Uses : target[c] \in G!Rows /\ c \in G!Rows
    BY StoreConstants DEF StoreInv, StoreTypes
  <2>2. \A b \in Buys : b \in G!Rows
    BY StoreConstants
  <2>3. \A g \in Gifts : g \in G!Rows
    BY StoreConstants
  <2>4. G!Rows' = G!Rows
    BY DEF G!Rows
  <2> QED BY <2>1, <2>2, <2>3, <2>4, RowCreated DEF StoreInv, Created
<1> QED BY <1>1, <1>2

LEMMA StackedKeeps ==
  ASSUME StoreInv, NEW id \in G!Rows, NEW n \in Nat, qty[id] > 0,
         G!Stack(id, n), UNCHANGED <<useAt, target, granted, overwritten>>,
         \A b \in Buys : (buyAt'[b] # "done" => buyAt[b] # "done"),
         \A g \in Gifts : (giftAt'[g] # "done" => giftAt[g] # "done")
  PROVE  Kept' /\ Created'
<1>1. Kept'
  <2>1. \A r : Through(r)' = Through(r)
    BY DEF Through
  <2>2. \A r \in G!Rows : Cardinality(Through(r)) \in Nat /\ got[r] \in Nat /\ qty[r] \in Nat
    BY ThroughFinite DEF StoreInv, StoreTypes
  <2> HIDE DEF Through
  <2>3. \A r \in G!Rows \ overwritten : got'[r] <= qty'[r] + Cardinality(Through(r))
    BY <2>2, RowStacked DEF StoreInv, Kept
  <2> QED BY <2>1, <2>3 DEF StoreInv, Kept
<1>2. Created'
  <2>1. \A c \in Uses : target[c] \in G!Rows /\ c \in G!Rows
    BY StoreConstants DEF StoreInv, StoreTypes
  <2>2. \A b \in Buys : b \in G!Rows
    BY StoreConstants
  <2>3. \A g \in Gifts : g \in G!Rows
    BY StoreConstants
  <2>4. G!Rows' = G!Rows
    BY DEF G!Rows
  <2> QED BY <2>1, <2>2, <2>3, <2>4, RowStacked DEF StoreInv, Created
<1> QED BY <1>1, <1>2

\* What was bought is still there after a row was created or stacked.
LEMMA BoughtStays ==
  ASSUME StoreInv, NEW id \in G!Rows,
         \/ \E u, i, n : n \in Nat \ {0} /\ got[id] = 0 /\ G!Create(id, u, i, n)
         \/ \E n \in Nat : qty[id] > 0 /\ G!Stack(id, n)
  PROVE  \A b \in Buys :
           buyAt[b] = "done" /\ order[b].item \in Cosmetics =>
             holder'[b] = order[b].user /\ kind'[b] = order[b].item /\ qty'[b] > 0 /\ got'[b] > 0
<1> SUFFICES ASSUME NEW b \in Buys, buyAt[b] = "done", order[b].item \in Cosmetics
             PROVE  holder'[b] = order[b].user /\ kind'[b] = order[b].item /\ qty'[b] > 0 /\ got'[b] > 0
  OBVIOUS
<1>1. b \in G!Rows /\ holder[b] = order[b].user /\ kind[b] = order[b].item /\ qty[b] > 0 /\ got[b] > 0
      /\ qty[b] \in Nat /\ got[b] \in Nat
  BY StoreConstants DEF StoreInv, StoreTypes, Bought
<1>2. ASSUME NEW u, NEW i, NEW n \in Nat \ {0}, got[id] = 0, G!Create(id, u, i, n)
      PROVE  holder'[b] = order[b].user /\ kind'[b] = order[b].item /\ qty'[b] > 0 /\ got'[b] > 0
  BY <1>1, <1>2, RowCreated
<1>3. ASSUME NEW n \in Nat, qty[id] > 0, G!Stack(id, n)
      PROVE  holder'[b] = order[b].user /\ kind'[b] = order[b].item /\ qty'[b] > 0 /\ got'[b] > 0
  BY <1>1, <1>3, RowStacked
<1> QED BY <1>2, <1>3

\* Calls that leave the inventory alone.
LEMMA InventorySame ==
  ASSUME StoreInv, UNCHANGED <<holder, kind, qty, got, useAt, target, granted, overwritten>>,
         \A b \in Buys : (buyAt'[b] # "done" => buyAt[b] # "done"),
         \A g \in Gifts : (giftAt'[g] # "done" => giftAt[g] # "done")
  PROVE  Kept' /\ Created'
<1>1. Kept'
  <2>1. \A r : Through(r)' = Through(r)
    BY DEF Through
  <2> HIDE DEF Through
  <2> QED BY <2>1 DEF StoreInv, Kept, G!Rows
<1>2. Created'
  BY DEF StoreInv, Created, G!Rows
<1> QED BY <1>1, <1>2

LEMMA PurchaseReadStep ==
  ASSUME StoreInv, NEW b \in Buys, NEW u \in Customers, NEW i \in G!Items, NEW n \in 1..MaxQuantity,
         G!PurchaseRead(b, u, i, n)
  PROVE  StoreInv'
<1>1. /\ buyAt[b] = "none" /\ ~G!Locked(i) /\ G!Sellable(u, i, n)
      /\ buyAt' = [buyAt EXCEPT ![b] = "locked"]
      /\ order' = [order EXCEPT ![b] = [user |-> u, item |-> i, n |-> n]]
      /\ UNCHANGED <<limit, sold, holder, kind, qty, got, useAt, target, seen, found, granted, overwritten, giftAt, gift>>
  BY DEF G!PurchaseRead, G!rows, G!using, G!giving
<1>2. /\ buyAt'[b] = "locked" /\ order'[b].user = u /\ order'[b].item = i /\ order'[b].n = n
      /\ \A a \in Buys : a # b => buyAt'[a] = buyAt[a] /\ order'[a] = order[a]
  BY <1>1 DEF StoreInv, StoreTypes
<1>3. StoreTypes'
  <2>1. n \in Nat \ {0}
    BY StoreConstants
  <2>2. \A a \in Buys : buyAt'[a] \in {"locked", "done"} =>
          order'[a].user \in Customers /\ order'[a].item \in G!Items /\ order'[a].n \in Nat \ {0}
    BY <1>2, <2>1 DEF StoreInv, StoreTypes
  <2>3. G!Items' = G!Items /\ G!Rows' = G!Rows
    BY DEF G!Items, G!Rows
  <2> QED BY <1>1, <2>2, <2>3 DEF StoreInv, StoreTypes
<1>4. Kept' /\ Created'
  BY <1>1, <1>2, InventorySame
<1>5. Locks'
  <2>1. \A a \in Buys : buyAt[a] = "locked" => order[a].item # i
    BY <1>1 DEF G!Locked
  <2>2. sold[i] + n <= limit[i]
    BY <1>1 DEF G!Sellable
  <2> QED BY <1>1, <1>2, <2>1, <2>2 DEF StoreInv, Locks
<1>6. Bought'
  <2>1. \A a \in Buys : ~(buyAt[a] = "done" /\ i \in Cosmetics /\ order[a].user = u /\ order[a].item = i)
    <3> SUFFICES ASSUME NEW a \in Buys, buyAt[a] = "done", i \in Cosmetics, order[a].user = u, order[a].item = i
                 PROVE  FALSE
      OBVIOUS
    <3>1. a \in G!Rows /\ holder[a] = u /\ kind[a] = i /\ qty[a] > 0
      BY StoreConstants DEF StoreInv, Bought
    <3>2. G!Held(u, i) = {}
      BY <1>1 DEF G!Sellable
    <3> QED BY <3>1, <3>2 DEF G!Held
  <2> QED BY <1>1, <1>2, <2>1 DEF StoreInv, Bought
<1> QED BY <1>3, <1>4, <1>5, <1>6 DEF StoreInv

LEMMA PurchaseCommitStep ==
  ASSUME StoreInv, NEW b \in Buys, G!PurchaseCommit(b)
  PROVE  StoreInv' /\ \A i \in G!Items : sold'[i] # sold[i] => sold'[i] <= limit[i]
<1>1. PICK u, i, n : u = order[b].user /\ i = order[b].item /\ n = order[b].n
  OBVIOUS
<1>2. /\ buyAt[b] = "locked" /\ buyAt' = [buyAt EXCEPT ![b] = "done"]
      /\ sold' = [sold EXCEPT ![i] = @ + n]
      /\ \/ i \in Cosmetics /\ G!Create(b, u, i, 1)
         \/ i \in Consumables /\ G!Create(b, u, i, n)
         \/ i \in Consumables /\ \E id \in G!Held(u, i) : G!Stack(id, n)
      /\ UNCHANGED <<limit, order, useAt, target, seen, found, granted, overwritten, giftAt, gift>>
  BY <1>1 DEF G!PurchaseCommit, G!using, G!giving
<1>3. /\ u \in Customers /\ i \in G!Items /\ n \in Nat \ {0} /\ b \in G!Rows /\ b \notin Uses /\ b \notin Gifts
      /\ got[b] = 0 /\ 1 \in Nat \ {0}
  BY <1>1, <1>2, StoreConstants DEF StoreInv, StoreTypes, Created
<1>4. /\ buyAt'[b] = "done" /\ \A a \in Buys : a # b => buyAt'[a] = buyAt[a]
      /\ sold'[i] = sold[i] + n /\ sold[i] \in Nat /\ \A j \in G!Items : j # i => sold'[j] = sold[j]
  BY <1>2, <1>3 DEF StoreInv, StoreTypes
<1>5. \A id \in G!Held(u, i) : id \in G!Rows /\ qty[id] > 0
  BY DEF G!Held
<1>6. /\ DOMAIN holder' = G!Rows /\ DOMAIN kind' = G!Rows
      /\ qty' \in [G!Rows -> Nat] /\ got' \in [G!Rows -> Nat]
  <2>1. CASE G!Create(b, u, i, 1) \/ G!Create(b, u, i, n)
    BY <1>3, <2>1, RowCreated
  <2>2. CASE \E id \in G!Held(u, i) : G!Stack(id, n)
    BY <1>3, <1>5, <2>2, RowStacked DEF StoreInv, StoreTypes
  <2> QED BY <1>2, <2>1, <2>2
<1>7. StoreTypes'
  <2>1. G!Items' = G!Items /\ G!Rows' = G!Rows
    BY DEF G!Items, G!Rows
  <2>2. buyAt' \in [Buys -> {"none", "locked", "done", "failed"}] /\ sold' \in [G!Items -> Nat]
    BY <1>2, <1>3 DEF StoreInv, StoreTypes
  <2>3. \A a \in Buys : buyAt'[a] \in {"locked", "done"} => buyAt[a] \in {"locked", "done"}
    BY <1>2, <1>4
  <2> QED BY <1>2, <1>6, <2>1, <2>2, <2>3 DEF StoreInv, StoreTypes
<1>8. Kept' /\ Created'
  <2>1. \A a \in Buys : buyAt'[a] # "done" => buyAt[a] # "done" /\ a # b
    BY <1>4
  <2>2. \A g \in Gifts : giftAt'[g] # "done" => giftAt[g] # "done" /\ g # b
    BY <1>2, <1>3
  <2>3. UNCHANGED <<useAt, target, granted, overwritten>>
    BY <1>2
  <2>4. CASE G!Create(b, u, i, 1)
    BY <1>3, <2>1, <2>2, <2>3, <2>4, CreatedKeeps
  <2>5. CASE G!Create(b, u, i, n)
    BY <1>3, <2>1, <2>2, <2>3, <2>5, CreatedKeeps
  <2>6. ASSUME NEW id \in G!Held(u, i), G!Stack(id, n) PROVE Kept' /\ Created'
    BY <1>3, <1>5, <2>1, <2>2, <2>3, <2>6, StackedKeeps
  <2> QED BY <1>2, <2>4, <2>5, <2>6
<1>9. \A a \in Buys : buyAt[a] = "locked" /\ a # b => order[a].item # i
  BY <1>1, <1>2 DEF StoreInv, Locks
<1>10. Locks'
  <2>1. \A a \in Buys : buyAt'[a] = "locked" => buyAt[a] = "locked" /\ a # b
    BY <1>4
  <2>2. \A a \in Buys : buyAt'[a] = "locked" => sold'[order[a].item] = sold[order[a].item]
    BY <1>4, <1>9, <2>1 DEF StoreInv, StoreTypes
  <2> QED BY <1>2, <2>1, <2>2 DEF StoreInv, Locks
<1>11. Bought'
  <2>1. \A a \in Buys : buyAt[a] = "done" /\ order[a].item \in Cosmetics =>
          holder'[a] = order[a].user /\ kind'[a] = order[a].item /\ qty'[a] > 0 /\ got'[a] > 0
    <3>1. CASE G!Create(b, u, i, 1) \/ G!Create(b, u, i, n)
      BY <1>3, <3>1, BoughtStays
    <3>2. ASSUME NEW id \in G!Held(u, i), G!Stack(id, n) PROVE <2>1!:
      BY <1>3, <1>5, <3>2, BoughtStays
    <3> QED BY <1>2, <3>1, <3>2
  <2>2. i \in Cosmetics => holder'[b] = u /\ kind'[b] = i /\ qty'[b] > 0 /\ got'[b] > 0
    <3> SUFFICES ASSUME i \in Cosmetics PROVE holder'[b] = u /\ kind'[b] = i /\ qty'[b] > 0 /\ got'[b] > 0
      OBVIOUS
    <3>1. G!Create(b, u, i, 1)
      BY <1>2, StoreConstants
    <3> QED BY <1>3, <3>1, RowCreated
  <2>3. \A a \in Buys : buyAt'[a] = "done" => a = b \/ buyAt[a] = "done"
    BY <1>4
  <2>4. \A a \in Buys : buyAt'[a] \in {"done", "locked"} => buyAt[a] \in {"done", "locked"}
    BY <1>2, <1>4
  <2>5. \A a \in Buys : buyAt[a] \in {"done", "locked"} /\ order[a].item = i /\ order[a].user = u /\ i \in Cosmetics => a = b
    BY <1>1, <1>2, <1>9 DEF StoreInv, Bought
  <2>6. \A a \in Buys : buyAt'[a] = "done" /\ order'[a].item \in Cosmetics =>
          holder'[a] = order'[a].user /\ kind'[a] = order'[a].item /\ qty'[a] > 0 /\ got'[a] > 0
    BY <1>1, <1>2, <2>1, <2>2, <2>3
  <2>7. \A a, c \in Buys :
          /\ buyAt'[a] = "done" /\ buyAt'[c] \in {"done", "locked"} /\ order'[a].item \in Cosmetics
          /\ order'[a].user = order'[c].user /\ order'[a].item = order'[c].item
          => a = c
    BY <1>1, <1>2, <2>3, <2>4, <2>5 DEF StoreInv, Bought
  <2> QED BY <2>6, <2>7 DEF Bought
<1>12. \A j \in G!Items : sold'[j] # sold[j] => sold'[j] <= limit[j]
  <2>1. sold[i] + n <= limit[i]
    BY <1>1, <1>2 DEF StoreInv, Locks
  <2> QED BY <1>2, <1>4, <2>1
<1> QED BY <1>7, <1>8, <1>10, <1>11, <1>12 DEF StoreInv

LEMMA PurchaseRollBackStep ==
  ASSUME StoreInv, NEW b \in Buys, G!PurchaseRollBack(b)
  PROVE  StoreInv'
<1>1. /\ buyAt[b] = "locked" /\ buyAt' = [buyAt EXCEPT ![b] = "failed"]
      /\ UNCHANGED <<limit, sold, order, holder, kind, qty, got, useAt, target, seen, found, granted, overwritten, giftAt, gift>>
  BY DEF G!PurchaseRollBack, G!rows, G!using, G!giving
<1>2. buyAt'[b] = "failed" /\ \A a \in Buys : a # b => buyAt'[a] = buyAt[a]
  BY <1>1 DEF StoreInv, StoreTypes
<1>3. StoreTypes'
  BY <1>1, <1>2 DEF StoreInv, StoreTypes, G!Rows, G!Items
<1>4. Kept' /\ Created'
  BY <1>1, <1>2, InventorySame
<1>5. Locks' /\ Bought'
  BY <1>1, <1>2 DEF StoreInv, Locks, Bought
<1> QED BY <1>3, <1>4, <1>5 DEF StoreInv

LEMMA EditItemStep ==
  ASSUME StoreInv, NEW i \in G!Items, NEW n \in Limits, G!EditItem(i, n)
  PROVE  StoreInv'
<1>1. /\ ~G!Locked(i) /\ limit' = [limit EXCEPT ![i] = n]
      /\ UNCHANGED <<sold, buyAt, order, holder, kind, qty, got, useAt, target, seen, found, granted, overwritten, giftAt, gift>>
  BY DEF G!EditItem, G!rows, G!using, G!giving
<1>2. n \in Nat
  BY StoreConstants
<1>3. StoreTypes'
  BY <1>1, <1>2 DEF StoreInv, StoreTypes, G!Rows, G!Items
<1>4. Kept' /\ Created'
  BY <1>1, InventorySame
<1>5. Locks'
  <2>1. \A b \in Buys : buyAt[b] = "locked" => limit'[order[b].item] = limit[order[b].item]
    BY <1>1 DEF G!Locked, StoreInv, StoreTypes
  <2> QED BY <1>1, <2>1 DEF StoreInv, Locks
<1>6. Bought'
  BY <1>1 DEF StoreInv, Bought
<1> QED BY <1>3, <1>4, <1>5, <1>6 DEF StoreInv

\* A step of a use that leaves the rows alone: target and granted as they were for
\* every use that has read its row.
LEMMA UseMoves ==
  ASSUME StoreInv, NEW c \in Uses, NEW to \in {"read", "revealed", "applied", "failed"},
         useAt[c] \in {"none", "read", "revealed"},
         useAt' = [useAt EXCEPT ![c] = to],
         NEW id \in G!Rows, target' = [target EXCEPT ![c] = id],
         NEW s \in Nat \ {0}, seen' = [seen EXCEPT ![c] = s],
         got[id] > 0, kind[id] \in Consumables,
         granted' = IF to = "applied" THEN granted \cup {c} ELSE granted,
         UNCHANGED <<limit, sold, buyAt, order, holder, kind, qty, got, overwritten, giftAt, gift>>,
         to \in {"applied", "failed"} => useAt[c] # "none"
  PROVE  StoreInv'
<1>1. /\ useAt'[c] = to /\ target'[c] = id /\ seen'[c] = s
      /\ \A d \in Uses : d # c => useAt'[d] = useAt[d] /\ target'[d] = target[d] /\ seen'[d] = seen[d]
  BY DEF StoreInv, StoreTypes
<1>2. StoreTypes'
  <2>1. G!Items' = G!Items /\ G!Rows' = G!Rows
    BY DEF G!Items, G!Rows
  <2>2. target' \in [Uses -> G!Rows] /\ seen' \in [Uses -> Nat] /\ granted' \in SUBSET Uses
        /\ useAt' \in [Uses -> {"none", "read", "revealed", "applied", "consumed", "failed"}]
    BY DEF StoreInv, StoreTypes
  <2>3. \A d \in Uses : useAt'[d] # "none" => seen'[d] > 0
    BY <1>1 DEF StoreInv, StoreTypes
  <2> QED BY <2>1, <2>2, <2>3 DEF StoreInv, StoreTypes
<1>3. c \notin granted
  BY DEF StoreInv, Kept
<1>4. Kept'
  <2>1. \A r : Through(r)' = Through(r)
    <3> SUFFICES ASSUME NEW r PROVE Through(r)' = Through(r)
      OBVIOUS
    <3>1. \A d \in granted : d \in Uses /\ d # c
      BY <1>3 DEF StoreInv, StoreTypes
    <3>2. \A d : d \in Through(r)' <=> d \in Through(r)
      BY <1>1, <3>1 DEF Through
    <3> QED BY <3>2
  <2> HIDE DEF Through
  <2>2. \A d \in granted' : useAt'[d] \in {"applied", "consumed", "failed"}
    BY <1>1, <1>3 DEF StoreInv, Kept, StoreTypes
  <2>3. \A d \in Uses : useAt'[d] = "applied" => d \in granted'
    BY <1>1 DEF StoreInv, Kept
  <2> QED BY <2>1, <2>2, <2>3 DEF StoreInv, Kept, G!Rows
<1>5. Created'
  <2>1. c \in G!Rows /\ got[c] = 0
    BY StoreConstants DEF StoreInv, Created
  <2> QED BY <1>1, <2>1 DEF StoreInv, Created, G!Rows
<1>6. Locks' /\ Bought'
  BY DEF StoreInv, Locks, Bought
<1> QED BY <1>2, <1>4, <1>5, <1>6 DEF StoreInv

LEMMA UseReadStep ==
  ASSUME StoreInv, NEW c \in Uses, NEW id \in G!Rows, G!UseRead(c, id)
  PROVE  StoreInv'
<1>1. /\ useAt[c] = "none" /\ qty[id] > 0 /\ kind[id] \in Consumables
      /\ useAt' = [useAt EXCEPT ![c] = "read"] /\ target' = [target EXCEPT ![c] = id]
      /\ seen' = [seen EXCEPT ![c] = qty[id]]
      /\ UNCHANGED <<granted, limit, sold, buyAt, order, holder, kind, qty, got, overwritten, giftAt, gift>>
  BY DEF G!UseRead, G!buying, G!rows, G!giving
<1>2. qty[id] \in Nat \ {0} /\ got[id] > 0
  BY <1>1 DEF StoreInv, StoreTypes, Created
<1>3. PICK s \in Nat \ {0} : s = qty[id]
  BY <1>2
<1> QED BY <1>1, <1>2, <1>3, UseMoves

LEMMA UseGoesOn ==
  ASSUME StoreInv, NEW c \in Uses,
         G!UseApply(c) \/ G!UseFails(c) \/ \E f \in Cosmetics : G!UseReveal(c, f)
  PROVE  StoreInv'
<1>1. PICK to \in {"read", "revealed", "applied", "failed"} :
        /\ useAt[c] \in {"read", "revealed"} /\ useAt' = [useAt EXCEPT ![c] = to]
        /\ granted' = IF to = "applied" THEN granted \cup {c} ELSE granted
        /\ UNCHANGED <<target, seen, limit, sold, buyAt, order, holder, kind, qty, got, overwritten, giftAt, gift>>
  BY DEF G!UseApply, G!UseFails, G!UseReveal, G!buying, G!rows, G!giving
<1>2. PICK id \in G!Rows, s \in Nat \ {0} : id = target[c] /\ s = seen[c]
  BY <1>1 DEF StoreInv, StoreTypes
<1>3. target' = [target EXCEPT ![c] = id] /\ seen' = [seen EXCEPT ![c] = s]
  BY <1>1, <1>2 DEF StoreInv, StoreTypes
<1>4. got[id] > 0 /\ kind[id] \in Consumables
  BY <1>1, <1>2 DEF StoreInv, Created
<1> QED BY <1>1, <1>3, <1>4, UseMoves

LEMMA UseGrantStep ==
  ASSUME StoreInv, NEW c \in Uses, G!UseGrant(c)
  PROVE  StoreInv'
<1>1. PICK u, i : /\ useAt[c] = "revealed" /\ useAt' = [useAt EXCEPT ![c] = "applied"]
                  /\ granted' = granted \cup {c} /\ G!Create(c, u, i, 1)
                  /\ UNCHANGED <<limit, sold, buyAt, order, target, seen, found, overwritten, giftAt, gift>>
  BY DEF G!UseGrant, G!buying, G!giving
<1>2. c \in G!Rows /\ got[c] = 0 /\ 1 \in Nat \ {0} /\ c \notin granted /\ c \notin Buys /\ c \notin Gifts
  BY <1>1, StoreConstants DEF StoreInv, Created, Kept
<1>3. /\ DOMAIN holder' = G!Rows /\ DOMAIN kind' = G!Rows
      /\ qty' \in [G!Rows -> Nat] /\ got' \in [G!Rows -> Nat]
      /\ qty'[c] = 1 /\ got'[c] = 1
      /\ \A r \in G!Rows : r # c => /\ holder'[r] = holder[r] /\ kind'[r] = kind[r]
                                    /\ qty'[r] = qty[r] /\ got'[r] = got[r]
      /\ \A d \in Uses : useAt[d] # "none" => target[d] # c
  BY <1>1, <1>2, RowCreated
<1>4. useAt'[c] = "applied" /\ \A d \in Uses : d # c => useAt'[d] = useAt[d]
  BY <1>1 DEF StoreInv, StoreTypes
<1>5. StoreTypes'
  <2>1. G!Items' = G!Items /\ G!Rows' = G!Rows
    BY DEF G!Items, G!Rows
  <2>2. useAt' \in [Uses -> {"none", "read", "revealed", "applied", "consumed", "failed"}]
        /\ granted' \in SUBSET Uses
    BY <1>1 DEF StoreInv, StoreTypes
  <2>3. \A d \in Uses : useAt'[d] # "none" => seen'[d] > 0
    BY <1>1, <1>4 DEF StoreInv, StoreTypes
  <2> QED BY <1>1, <1>3, <2>1, <2>2, <2>3 DEF StoreInv, StoreTypes
<1>6. Kept'
  <2>1. \A r : Through(r)' = Through(r)
    <3> SUFFICES ASSUME NEW r PROVE Through(r)' = Through(r)
      OBVIOUS
    <3>1. \A d \in granted : d \in Uses /\ d # c
      BY <1>2 DEF StoreInv, StoreTypes
    <3>2. \A d : d \in Through(r)' <=> d \in Through(r)
      BY <1>1, <1>4, <3>1 DEF Through
    <3> QED BY <3>2
  <2>2. \A r \in G!Rows : Cardinality(Through(r)) \in Nat
    BY ThroughFinite DEF StoreInv
  <2> HIDE DEF Through
  <2>3. \A d \in granted' : useAt'[d] \in {"applied", "consumed", "failed"}
    BY <1>1, <1>4 DEF StoreInv, Kept, StoreTypes
  <2>4. \A d \in Uses : useAt'[d] = "applied" => d \in granted'
    BY <1>1, <1>4 DEF StoreInv, Kept
  <2>5. \A r \in G!Rows \ overwritten : got'[r] <= qty'[r] + Cardinality(Through(r))
    BY <1>3, <2>2 DEF StoreInv, Kept
  <2>6. G!Rows' = G!Rows
    BY DEF G!Rows
  <2> QED BY <1>1, <2>1, <2>3, <2>4, <2>5, <2>6 DEF Kept
<1>7. Created'
  <2>1. \A d \in Uses : target[d] \in G!Rows /\ d \in G!Rows
    BY StoreConstants DEF StoreInv, StoreTypes
  <2>2. \A b \in Buys : b \in G!Rows /\ b # c
    BY <1>2, StoreConstants
  <2>3. \A g \in Gifts : g \in G!Rows /\ g # c
    BY <1>2, StoreConstants
  <2>4. \A d \in Uses : useAt'[d] # "none" => useAt[d] # "none"
    BY <1>1, <1>4
  <2>5. \A d \in Uses : useAt'[d] \in {"none", "read", "revealed"} => d # c /\ useAt[d] \in {"none", "read", "revealed"}
    BY <1>4
  <2>6. G!Rows' = G!Rows
    BY DEF G!Rows
  <2> QED BY <1>1, <1>3, <2>1, <2>2, <2>3, <2>4, <2>5, <2>6 DEF StoreInv, Created
<1>8. Locks' /\ Bought'
  <2>1. \A b \in Buys : buyAt[b] = "done" /\ order[b].item \in Cosmetics =>
          holder'[b] = order[b].user /\ kind'[b] = order[b].item /\ qty'[b] > 0 /\ got'[b] > 0
    BY <1>1, <1>2, BoughtStays
  <2> QED BY <1>1, <2>1 DEF StoreInv, Locks, Bought
<1> QED BY <1>5, <1>6, <1>7, <1>8 DEF StoreInv

LEMMA UseConsumeStep ==
  ASSUME StoreInv, NEW c \in Uses, G!UseConsume(c)
  PROVE  StoreInv'
<1>1. PICK id \in G!Rows, s \in Nat \ {0}, q \in Nat : id = target[c] /\ s = seen[c] /\ q = qty[id]
  BY DEF StoreInv, StoreTypes, G!UseConsume, G!Consumable
<1>2. /\ useAt[c] = "applied"
      /\ useAt' = [useAt EXCEPT ![c] = IF q = 0 THEN "failed" ELSE "consumed"]
      /\ qty' = [qty EXCEPT ![id] = IF @ = 0 THEN 0 ELSE s - 1]
      /\ overwritten' = IF q \in {0, s} THEN overwritten ELSE overwritten \cup {id}
      /\ UNCHANGED <<limit, sold, buyAt, order, holder, kind, got, target, seen, found, granted, giftAt, gift>>
  BY <1>1 DEF G!UseConsume, G!Consumable, G!buying, G!giving
<1>3. /\ useAt'[c] \in {"failed", "consumed"} /\ \A d \in Uses : d # c => useAt'[d] = useAt[d]
      /\ qty'[id] = IF q = 0 THEN 0 ELSE s - 1
      /\ \A r \in G!Rows : r # id => qty'[r] = qty[r]
  BY <1>1, <1>2 DEF StoreInv, StoreTypes
<1>4. s - 1 \in Nat
  OBVIOUS
<1>5. qty' \in [G!Rows -> Nat]
  BY <1>2, <1>4 DEF StoreInv, StoreTypes
<1>6. StoreTypes'
  <2>1. G!Items' = G!Items /\ G!Rows' = G!Rows
    BY DEF G!Items, G!Rows
  <2>2. useAt' \in [Uses -> {"none", "read", "revealed", "applied", "consumed", "failed"}]
        /\ overwritten' \in SUBSET G!Rows
    BY <1>2 DEF StoreInv, StoreTypes
  <2>3. \A d \in Uses : useAt'[d] # "none" => seen'[d] > 0
    BY <1>2, <1>3 DEF StoreInv, StoreTypes
  <2> QED BY <1>2, <1>5, <2>1, <2>2, <2>3 DEF StoreInv, StoreTypes
<1>7. c \in granted /\ c \notin Through(id)
  BY <1>2 DEF StoreInv, Kept, Through
<1>8. Kept'
  <2>1. \A r : r # id => Through(r)' = Through(r)
    BY <1>1, <1>2, <1>3 DEF Through, StoreInv, StoreTypes
  <2>2. Through(id)' = Through(id) \cup {c}
    BY <1>1, <1>2, <1>3, <1>7 DEF Through, StoreInv, StoreTypes
  <2>3. \A r \in G!Rows : Cardinality(Through(r)) \in Nat
    BY ThroughFinite DEF StoreInv
  <2>4. Cardinality(Through(id)') = Cardinality(Through(id)) + 1
    <3>1. IsFiniteSet(Through(id))
      BY ThroughFinite DEF StoreInv
    <3> HIDE DEF Through
    <3> QED BY <1>7, <2>2, <3>1, FS_AddElement
  <2> HIDE DEF Through
  <2>5. \A d \in granted' : useAt'[d] \in {"applied", "consumed", "failed"}
    BY <1>2, <1>3 DEF StoreInv, Kept, StoreTypes
  <2>6. \A d \in Uses : useAt'[d] = "applied" => d \in granted'
    BY <1>2, <1>3 DEF StoreInv, Kept
  <2>7. \A r \in G!Rows \ overwritten' : got'[r] <= qty'[r] + Cardinality(Through(r)')
    <3> SUFFICES ASSUME NEW r \in G!Rows \ overwritten'
                 PROVE  got[r] <= qty'[r] + Cardinality(Through(r)')
      BY <1>2
    <3>1. r \notin overwritten
      BY <1>2
    <3>2. got[r] <= qty[r] + Cardinality(Through(r)) /\ got[r] \in Nat /\ qty[r] \in Nat
      BY <3>1 DEF StoreInv, Kept, StoreTypes
    <3>3. CASE r = id
      <4>1. q \in {0, s}
        BY <1>2, <3>3
      <4> QED BY <1>1, <1>3, <2>3, <2>4, <3>2, <3>3, <4>1
    <3>4. CASE r # id
      BY <1>3, <2>1, <3>2, <3>4
    <3> QED BY <3>3, <3>4
  <2>8. G!Rows' = G!Rows
    BY DEF G!Rows
  <2> QED BY <2>5, <2>6, <2>7, <2>8 DEF Kept
<1>9. got[id] > 0 /\ kind[id] \in Consumables
  BY <1>1, <1>2 DEF StoreInv, Created
<1>10. Created'
  BY <1>2, <1>3, <1>9 DEF StoreInv, Created, G!Rows
<1>11. Locks' /\ Bought'
  <2>1. \A b \in Buys : b \in G!Rows
    BY StoreConstants
  <2>2. \A b \in Buys : buyAt[b] = "done" /\ order[b].item \in Cosmetics => b # id
    BY <1>9, StoreConstants DEF StoreInv, Bought
  <2> QED BY <1>2, <1>3, <2>1, <2>2 DEF StoreInv, Locks, Bought
<1> QED BY <1>6, <1>8, <1>10, <1>11 DEF StoreInv

\* A gift that is made is a row of its own, or one more unit in a row there is.
LEMMA GiftMade ==
  ASSUME StoreInv, NEW g \in Gifts, giftAt[g] # "done", giftAt' = [giftAt EXCEPT ![g] = "done"],
         \/ \E u, i : G!Create(g, u, i, 1)
         \/ \E id \in G!Rows : qty[id] > 0 /\ G!Stack(id, 1),
         UNCHANGED <<limit, sold, buyAt, order, useAt, target, seen, found, granted, overwritten, gift>>
  PROVE  StoreInv'
<1>1. g \in G!Rows /\ got[g] = 0 /\ 1 \in Nat \ {0} /\ g \notin Uses /\ g \notin Buys
  BY StoreConstants DEF StoreInv, Created
<1>2. giftAt'[g] = "done" /\ \A f \in Gifts : f # g => giftAt'[f] = giftAt[f]
  BY DEF StoreInv, StoreTypes
<1>3. /\ DOMAIN holder' = G!Rows /\ DOMAIN kind' = G!Rows
      /\ qty' \in [G!Rows -> Nat] /\ got' \in [G!Rows -> Nat]
      /\ Kept' /\ Created'
      /\ \A b \in Buys :
           buyAt[b] = "done" /\ order[b].item \in Cosmetics =>
             holder'[b] = order[b].user /\ kind'[b] = order[b].item /\ qty'[b] > 0 /\ got'[b] > 0
  <2>1. \A f \in Gifts : giftAt'[f] # "done" => giftAt[f] # "done" /\ f # g
    BY <1>2
  <2>2. \A b \in Buys : buyAt'[b] # "done" => buyAt[b] # "done" /\ b # g
    BY <1>1
  <2>3. UNCHANGED <<useAt, target, granted, overwritten>>
    OBVIOUS
  <2>4. ASSUME NEW u, NEW i, G!Create(g, u, i, 1) PROVE <1>3!:
    <3>1. Kept' /\ Created'
      BY <1>1, <2>1, <2>2, <2>3, <2>4, CreatedKeeps
    <3>2. \A b \in Buys :
           buyAt[b] = "done" /\ order[b].item \in Cosmetics =>
             holder'[b] = order[b].user /\ kind'[b] = order[b].item /\ qty'[b] > 0 /\ got'[b] > 0
      BY <1>1, <2>4, BoughtStays
    <3> QED BY <1>1, <2>4, <3>1, <3>2, RowCreated
  <2>5. ASSUME NEW id \in G!Rows, qty[id] > 0, G!Stack(id, 1) PROVE <1>3!:
    <3>1. Kept' /\ Created'
      BY <1>1, <2>1, <2>2, <2>3, <2>5, StackedKeeps
    <3>2. \A b \in Buys :
           buyAt[b] = "done" /\ order[b].item \in Cosmetics =>
             holder'[b] = order[b].user /\ kind'[b] = order[b].item /\ qty'[b] > 0 /\ got'[b] > 0
      BY <1>1, <2>5, BoughtStays
    <3>3. UNCHANGED <<holder, kind>> /\ qty' \in [G!Rows -> Nat] /\ got' \in [G!Rows -> Nat]
      BY <1>1, <2>5, RowStacked
    <3> QED BY <3>1, <3>2, <3>3 DEF StoreInv, StoreTypes
  <2> QED BY <2>4, <2>5
<1>4. StoreTypes'
  <2>1. G!Items' = G!Items /\ G!Rows' = G!Rows
    BY DEF G!Items, G!Rows
  <2> QED BY <1>2, <1>3, <2>1 DEF StoreInv, StoreTypes
<1>5. Locks' /\ Bought'
  BY <1>3 DEF StoreInv, Locks, Bought
<1> QED BY <1>3, <1>4, <1>5 DEF StoreInv

LEMMA GrantReadStep ==
  ASSUME StoreInv, NEW g \in Gifts, NEW u \in Customers, NEW i \in G!Items, G!GrantRead(g, u, i)
  PROVE  StoreInv'
<1>1. PICK id \in G!Rows :
        /\ giftAt[g] = "none" /\ giftAt' = [giftAt EXCEPT ![g] = "read"]
        /\ gift' = [gift EXCEPT ![g] = [user |-> u, item |-> i, row |-> id]]
        /\ UNCHANGED <<limit, sold, buyAt, order, holder, kind, qty, got, useAt, target, seen, found, granted, overwritten>>
  BY StoreConstants DEF G!GrantRead, G!Held, G!buying, G!rows, G!using
<1>2. giftAt'[g] = "read" /\ gift'[g].row = id
      /\ \A f \in Gifts : f # g => giftAt'[f] = giftAt[f] /\ gift'[f] = gift[f]
  BY <1>1 DEF StoreInv, StoreTypes
<1>3. StoreTypes'
  BY <1>1, <1>2 DEF StoreInv, StoreTypes, G!Rows, G!Items
<1>4. Kept' /\ Created'
  BY <1>1, <1>2, InventorySame
<1>5. Locks' /\ Bought'
  BY <1>1 DEF StoreInv, Locks, Bought
<1> QED BY <1>3, <1>4, <1>5 DEF StoreInv

LEMMA StoreInit == G!Init => StoreInv
<1> SUFFICES ASSUME G!Init PROVE StoreInv
  OBVIOUS
<1>1. StoreTypes
  <2>1. \A c \in Uses : c \in G!Rows
    BY StoreConstants
  <2>2. limit \in [G!Items -> Nat]
    BY StoreConstants DEF G!Init
  <2> QED BY <2>1, <2>2 DEF G!Init, StoreTypes
<1>2. Kept
  <2>1. \A id \in G!Rows : Through(id) = {}
    BY DEF G!Init, Through
  <2>2. \A id \in G!Rows : Cardinality(Through(id)) = 0
    BY <2>1, FS_EmptySet
  <2>3. \A id \in G!Rows : got[id] <= qty[id] + Cardinality(Through(id))
    BY <2>2 DEF G!Init
  <2> QED BY <2>3 DEF G!Init, Kept
<1>3. Created /\ Locks /\ Bought
  BY StoreConstants DEF G!Init, Created, Locks, Bought
<1> QED BY <1>1, <1>2, <1>3 DEF StoreInv

LEMMA StoreStep ==
  StoreInv /\ [G!Next]_(G!vars) => StoreInv' /\ [G!WithinLimit]_(G!vars)
<1> SUFFICES ASSUME StoreInv, [G!Next]_(G!vars) PROVE StoreInv' /\ [G!WithinLimit]_(G!vars)
  OBVIOUS
<1>1. ASSUME NEW b \in Buys, NEW u \in Customers, NEW i \in G!Items, NEW n \in 1..MaxQuantity,
             G!PurchaseRead(b, u, i, n)
      PROVE  StoreInv' /\ sold' = sold
  BY <1>1, PurchaseReadStep DEF G!PurchaseRead
<1>2. ASSUME NEW b \in Buys, G!PurchaseCommit(b) PROVE StoreInv' /\ G!WithinLimit
  <2>1. StoreInv' /\ \A i \in G!Items : sold'[i] # sold[i] => sold'[i] <= limit[i]
    BY <1>2, PurchaseCommitStep
  <2> QED BY <2>1 DEF G!WithinLimit
<1>3. ASSUME NEW b \in Buys, G!PurchaseRollBack(b) PROVE StoreInv' /\ sold' = sold
  BY <1>3, PurchaseRollBackStep DEF G!PurchaseRollBack
<1>4. ASSUME NEW c \in Uses, NEW id \in G!Rows, G!UseRead(c, id) PROVE StoreInv' /\ sold' = sold
  BY <1>4, UseReadStep DEF G!UseRead, G!buying
<1>5. ASSUME NEW c \in Uses, G!UseApply(c) \/ G!UseFails(c) \/ \E f \in Cosmetics : G!UseReveal(c, f)
      PROVE  StoreInv' /\ sold' = sold
  BY <1>5, UseGoesOn DEF G!UseApply, G!UseFails, G!UseReveal, G!buying
<1>6. ASSUME NEW c \in Uses, G!UseGrant(c) PROVE StoreInv' /\ sold' = sold
  BY <1>6, UseGrantStep DEF G!UseGrant, G!buying
<1>7. ASSUME NEW c \in Uses, G!UseConsume(c) PROVE StoreInv' /\ sold' = sold
  BY <1>7, UseConsumeStep DEF G!UseConsume, G!buying
<1>8. ASSUME NEW g \in Gifts, NEW u \in Customers, NEW i \in Consumables, G!Prize(g, u, i)
      PROVE  StoreInv' /\ sold' = sold
  BY <1>8, GiftMade DEF G!Prize, G!buying, G!using
<1>9. ASSUME NEW g \in Gifts, NEW u \in Customers, NEW i \in G!Items, G!GrantRead(g, u, i)
      PROVE  StoreInv' /\ sold' = sold
  BY <1>9, GrantReadStep DEF G!GrantRead, G!buying
<1>10. ASSUME NEW g \in Gifts, G!GrantWrite(g) PROVE StoreInv' /\ sold' = sold
  <2>1. PICK id \in G!Rows : id = gift[g].row
    BY <1>10 DEF G!GrantWrite, StoreInv, StoreTypes
  <2>2. /\ giftAt[g] # "done" /\ giftAt' = [giftAt EXCEPT ![g] = "done"]
        /\ \/ \E u, i : G!Create(g, u, i, 1)
           \/ qty[id] > 0 /\ G!Stack(id, 1)
        /\ UNCHANGED <<limit, sold, buyAt, order, useAt, target, seen, found, granted, overwritten, gift>>
    BY <1>10, <2>1 DEF G!GrantWrite, G!buying, G!using
  <2> QED BY <2>2, GiftMade
<1>11. ASSUME NEW i \in G!Items, NEW n \in Limits, G!EditItem(i, n) PROVE StoreInv' /\ sold' = sold
  BY <1>11, EditItemStep DEF G!EditItem
<1>12. CASE UNCHANGED G!vars
  <2>1. UNCHANGED <<limit, sold, buyAt, order, holder, kind, qty, got, useAt, target, seen, found, granted, overwritten, giftAt, gift>>
    BY <1>12 DEF G!vars, G!buying, G!rows, G!using, G!giving
  <2>2. StoreTypes' /\ Locks' /\ Bought'
    BY <2>1 DEF StoreInv, StoreTypes, Locks, Bought, G!Rows, G!Items
  <2>3. Kept' /\ Created'
    BY <2>1, InventorySame
  <2> QED BY <1>12, <2>2, <2>3 DEF StoreInv
<1>13. sold' = sold => G!WithinLimit
  BY DEF G!WithinLimit
<1> QED
  BY <1>1, <1>2, <1>3, <1>4, <1>5, <1>6, <1>7, <1>8, <1>9, <1>10, <1>11, <1>12, <1>13 DEF G!Next

LEMMA StoreInvariant == G!Spec => []StoreInv
<1> QED BY StoreInit, StoreStep, PTL DEF G!Spec

\* Nobody is charged twice for a cosmetic and no sale passes the limit, for any
\* purchases, uses, gifts and edits at once (purchaseItem).
THEOREM GuardsCorrect == G!Spec => GuardsNotRaced
<1>1. StoreInv => G!ChargedOnce
  BY DEF StoreInv, Bought, G!ChargedOnce
<1>2. G!Spec => [][G!WithinLimit]_(G!vars)
  BY StoreInvariant, StoreStep, PTL DEF G!Spec
<1> QED BY <1>1, <1>2, StoreInvariant, PTL DEF GuardsNotRaced, G!GuardsNotRaced

\* What left a row had its effect first (useItem).
THEOREM KeptCorrect == G!Spec => []KeptUntilApplied
<1>1. StoreInv => KeptUntilApplied
  <2> SUFFICES ASSUME StoreInv, NEW id \in G!Rows \ overwritten
               PROVE  got[id] <= qty[id] + Cardinality({c \in granted : target[c] = id})
    BY SameCount DEF KeptUntilApplied, G!KeptUntilApplied
  <2> DEFINE T == {c \in granted : target[c] = id}
  <2>1. T \subseteq Uses /\ Through(id) \subseteq T
    BY DEF StoreInv, StoreTypes, Through
  <2>2. IsFiniteSet(T)
    BY <2>1, StoreConstants, FS_Subset
  <2>3. Cardinality(T) \in Nat /\ Cardinality(Through(id)) <= Cardinality(T)
        /\ Cardinality(Through(id)) \in Nat
    BY <2>1, <2>2, FS_CardinalityType, FS_Subset
  <2>4. got[id] <= qty[id] + Cardinality(Through(id)) /\ got[id] \in Nat /\ qty[id] \in Nat
    BY DEF StoreInv, StoreTypes, Kept
  <2> HIDE DEF T
  <2>5. got[id] <= qty[id] + Cardinality(T)
    BY <2>3, <2>4
  <2> QED BY <2>5 DEF T
<1> QED BY <1>1, StoreInvariant, PTL

-----------------------------------------------------------------------------
(* The backfill of settlement figures (Backfill).                            *)

PageRow == [id: Deposits, lacks: SUBSET Figures]

CallState ==
  [at: {"new", "fetch", "row", "write", "answered", "done"}, below: Deposits \cup {NoOne},
   from: Deposits \cup {NoOne}, page: SUBSET PageRow, short: BOOLEAN, told: SUBSET Figures,
   landed: BOOLEAN, scanned: Nat, updated: Nat]

BackfillTypes ==
  /\ newest \in Deposits /\ rejected \subseteq 1..newest
  /\ missing \in [Deposits -> SUBSET Figures]
  /\ call \in [Buys -> CallState]
  /\ oldest \in [Buys -> Nat] /\ \A c \in Buys : oldest[c] <= newest
  /\ DOMAIN examined = Buys

\* What a chain has still to ask for.
Left(c) == {d \in 1..oldest[c] : B!Completed(d) /\ missing[d] # {} /\ d \notin examined[c]}

\* A call k still reaches every deposit of L: by its cursor, or by the rest of its page
\* and what comes below it.
Reaches(k, L) ==
  /\ k.at \in {"fetch", "answered"} => \A d \in L : k.below = NoOne \/ d < k.below
  /\ k.at \in {"row", "write"} =>
       \A d \in L : (\E r \in k.page : r.id = d) \/ (~k.short /\ \A r \in k.page : d < r.id)
  /\ k.at = "write" => k.below \notin L
  /\ k.at = "done" => L = {}

\* Its cursor goes down.
Descends(k) ==
  /\ k.at = "new" => k.below = NoOne
  /\ k.at \in {"row", "write"} => k.page # {} /\ \A r, s \in k.page : r.id = s.id => r = s
  /\ k.at = "row" /\ k.below # NoOne => \A r \in k.page : r.id < k.below
  /\ k.at = "write" => k.below = B!Newest(k.page).id
  /\ k.at \in {"fetch", "row"} /\ k.from # NoOne => k.below # NoOne /\ k.below <= k.from
  /\ k.at = "answered" => k.below # NoOne
  /\ k.at \in {"write", "answered"} /\ k.from # NoOne => k.below < k.from

BackfillInv ==
  BackfillTypes /\ \A c \in Buys : Reaches(call[c], Left(c)) /\ Descends(call[c])

LEMMA Least ==
  ASSUME NEW N \in SUBSET Nat, N # {}
  PROVE  \E n \in N : \A m \in N : n <= m
<1> DEFINE Below == {p \in Nat \X Nat : p[1] < p[2]}
<1>1. IsWellFoundedOn(Below, Nat)
  BY NatLessThanWellFounded, Zenon DEF OpToRel
<1> HIDE DEF Below
<1>2. PICK n \in N : \A m \in N : ~(<<m, n>> \in Below)
  BY <1>1, WFMin, Zenon
<1>3. ASSUME NEW m \in N PROVE n <= m
  <2>1. m < n => <<m, n>> \in Below
    BY DEF Below
  <2> QED BY <1>2, <2>1
<1> QED BY <1>3

LEMMA BackfillHold == B!BackfillAssumption
BY BackfillAssumed

LEMMA SameSize == \A T : B!Cardinality(T) = Cardinality(T)
BY DEF B!Cardinality, Cardinality

LEMMA BackfillConstants ==
  /\ PageSize \in Nat \ {0} /\ NoOne \notin Deposits
  /\ Cardinality(Deposits) \in Nat /\ Deposits = 1..Cardinality(Deposits) /\ IsFiniteSet(Deposits)
<1>1. IsFiniteSet(Deposits) /\ Deposits = 1..Cardinality(Deposits)
  BY BackfillHold, SameSize DEF B!BackfillAssumption, B!IsFiniteSet, IsFiniteSet
<1>2. Cardinality(Deposits) \in Nat
  BY <1>1, FS_CardinalityType
<1> QED BY <1>1, <1>2, BackfillHold DEF B!BackfillAssumption

LEMMA DepositsNat == Deposits \subseteq Nat \ {0}
BY BackfillConstants

LEMMA Greatest ==
  ASSUME NEW D \in SUBSET Deposits, D # {}
  PROVE  \E m \in D : \A d \in D : d <= m
<1>1. PICK n \in Nat : Deposits = 1..n
  BY BackfillConstants
<1> DEFINE N == {i \in Nat : n - i \in D}
<1>2. N # {}
  <2>1. PICK d \in D : TRUE
    OBVIOUS
  <2>2. d \in 1..n
    BY <1>1
  <2>3. n - d \in Nat /\ n - (n - d) = d
    BY <2>2
  <2> QED BY <2>3
<1>3. PICK i \in N : \A j \in N : i <= j
  <2> N \in SUBSET Nat
    OBVIOUS
  <2> HIDE DEF N
  <2> QED BY <1>2, Least
<1>4. ASSUME NEW d \in D PROVE d <= n - i
  <2>1. d \in 1..n
    BY <1>1
  <2>2. n - d \in Nat /\ n - (n - d) = d
    BY <2>1
  <2>3. i <= n - d
    BY <1>3, <2>2
  <2> QED BY <1>3, <2>1, <2>3
<1> QED BY <1>3, <1>4

\* The newest row of a page is one of it.
LEMMA NewestRow ==
  ASSUME NEW P \in SUBSET PageRow, P # {}
  PROVE  B!Newest(P) \in P /\ \A s \in P : s.id <= B!Newest(P).id
<1> DEFINE D == {r.id : r \in P}
<1>1. D \in SUBSET Deposits /\ D # {}
  BY DEF PageRow
<1>2. PICK m \in D : \A d \in D : d <= m
  <2> HIDE DEF D
  <2> QED BY <1>1, Greatest
<1>3. PICK r \in P : \A s \in P : s.id <= r.id
  BY <1>2
<1> QED BY <1>3 DEF B!Newest

-----------------------------------------------------------------------------
(* A page: the newest candidates below the cursor.                           *)

Above(C, d) == {e \in C : e > d}
Top(C) == {d \in C : Cardinality(Above(C, d)) < PageSize}

LEMMA AboveFinite ==
  ASSUME NEW C \in SUBSET Deposits, NEW d
  PROVE  IsFiniteSet(Above(C, d)) /\ Cardinality(Above(C, d)) \in Nat
<1>1. Above(C, d) \subseteq Deposits
  BY DEF Above
<1>2. IsFiniteSet(Above(C, d))
  BY <1>1, BackfillConstants, FS_Subset
<1> QED BY <1>2, FS_CardinalityType

\* Whatever is not among the newest is older than each of them, and they fill a page.
LEMMA TopIsNewest ==
  ASSUME NEW C \in SUBSET Deposits
  PROVE  /\ \A d \in C \ Top(C) : \A e \in Top(C) : d < e
         /\ C # Top(C) => Cardinality(Top(C)) >= PageSize
         /\ C # {} => Top(C) # {}
         /\ IsFiniteSet(Top(C)) /\ Cardinality(Top(C)) \in Nat
<1>1. Top(C) \subseteq C /\ C \subseteq Deposits
  BY DEF Top
<1>2. IsFiniteSet(Top(C)) /\ Cardinality(Top(C)) \in Nat
  <2>1. IsFiniteSet(Top(C))
    BY <1>1, BackfillConstants, FS_Subset
  <2> QED BY <2>1, FS_CardinalityType
<1>3. ASSUME NEW d \in C \ Top(C), NEW e \in Top(C) PROVE d < e
  <2>1. d \in Nat /\ e \in Nat /\ d # e /\ C \subseteq Nat
    BY <1>1, <1>3, DepositsNat
  <2> SUFFICES ASSUME e < d PROVE FALSE
    BY <2>1
  <2>2. Above(C, d) \subseteq Above(C, e)
    <3> SUFFICES ASSUME NEW x \in C, x > d PROVE x > e
      BY DEF Above
    <3>1. x \in Nat
      BY <2>1
    <3> QED BY <2>1, <3>1
  <2>3. /\ IsFiniteSet(Above(C, e)) /\ Cardinality(Above(C, e)) \in Nat
        /\ Cardinality(Above(C, d)) \in Nat
    BY AboveFinite
  <2>4. Cardinality(Above(C, d)) <= Cardinality(Above(C, e))
    BY <2>2, <2>3, FS_Subset
  <2>5. Cardinality(Above(C, e)) < PageSize /\ ~(Cardinality(Above(C, d)) < PageSize)
    BY <1>3 DEF Top
  <2> QED BY <2>3, <2>4, <2>5, BackfillConstants
<1>4. ASSUME C # Top(C) PROVE Cardinality(Top(C)) >= PageSize
  <2>1. C \ Top(C) \in SUBSET Deposits /\ C \ Top(C) # {}
    BY <1>1, <1>4
  <2>2. PICK m \in C \ Top(C) : \A d \in C \ Top(C) : d <= m
    BY <2>1, Greatest
  <2>3. Above(C, m) \subseteq Top(C)
    <3> SUFFICES ASSUME NEW e \in C, e > m, e \notin Top(C) PROVE FALSE
      BY DEF Above
    <3>1. e <= m /\ e \in Nat /\ m \in Nat
      BY <1>1, <2>2, DepositsNat
    <3> QED BY <3>1
  <2>4. Cardinality(Above(C, m)) <= Cardinality(Top(C))
    BY <1>2, <2>3, FS_Subset
  <2>5. ~(Cardinality(Above(C, m)) < PageSize) /\ Cardinality(Above(C, m)) \in Nat
    BY <2>2, AboveFinite DEF Top
  <2> QED BY <1>2, <2>4, <2>5, BackfillConstants
<1>5. ASSUME C # {} PROVE Top(C) # {}
  <2>1. PICK m \in C : \A d \in C : d <= m
    BY <1>5, Greatest
  <2>2. Above(C, m) = {}
    <3> SUFFICES ASSUME NEW e \in C, e > m PROVE FALSE
      BY DEF Above
    <3>1. e <= m /\ e \in Nat /\ m \in Nat
      BY <1>1, <2>1, DepositsNat
    <3> QED BY <3>1
  <2>3. Cardinality(Above(C, m)) = 0
    BY <2>2, FS_EmptySet
  <2> QED BY <2>3, BackfillConstants DEF Top
<1> QED BY <1>2, <1>3, <1>4, <1>5

\* What a fetch returns.
LEMMA FetchedPage ==
  ASSUME BackfillTypes, NEW cursor \in Deposits \cup {NoOne}
  PROVE  LET fetched == B!Fetched(cursor)  all == B!Candidates(cursor)
         IN  /\ fetched \in SUBSET PageRow /\ all \in SUBSET Deposits
             /\ \A r, s \in fetched : r.id = s.id => r = s
             /\ \A r \in fetched : r.id \in all
             /\ \A d \in all : \/ \E r \in fetched : r.id = d
                               \/ ~(Cardinality(fetched) < PageSize) /\ \A r \in fetched : d < r.id
             /\ fetched = {} => all = {}
<1> DEFINE all == B!Candidates(cursor)
           T == Top(all)
           FetchedRow(d) == [id |-> d, lacks |-> missing[d]]
           fetched == {FetchedRow(d) : d \in T}
<1>1. all \in SUBSET Deposits
  BY DEF B!Candidates
<1>2. B!Fetched(cursor) = fetched
  BY SameSize DEF B!Fetched, Top, Above
<1>3. T \subseteq all
  BY DEF Top
<1>4. \A d \in T : FetchedRow(d) \in PageRow /\ FetchedRow(d).id = d
  BY <1>1, <1>3 DEF BackfillTypes, PageRow
<1>5. Cardinality(fetched) = Cardinality(T)
  <2> DEFINE f == [d \in T |-> FetchedRow(d)]
  <2>1. f \in Bijection(T, fetched)
    <3>1. f \in [T -> fetched]
      OBVIOUS
    <3>2. \A d, e \in T : f[d] = f[e] => d = e
      BY <1>4
    <3>3. \A r \in fetched : \E d \in T : f[d] = r
      OBVIOUS
    <3> HIDE DEF f, fetched, T
    <3> QED BY <3>1, <3>2, <3>3 DEF Bijection, Injection, Surjection, IsInjective
  <2>2. IsFiniteSet(T)
    BY <1>1, TopIsNewest
  <2> HIDE DEF f, fetched, T
  <2> QED BY <2>1, <2>2, FS_Bijection DEF ExistsBijection
<1>6. \A d \in all : d \notin T => ~(Cardinality(fetched) < PageSize) /\ \A e \in T : d < e
  <2> HIDE DEF fetched, all
  <2>1. /\ \A d \in all \ T : \A e \in T : d < e
        /\ all # T => Cardinality(T) >= PageSize
        /\ Cardinality(T) \in Nat
    BY <1>1, TopIsNewest
  <2> QED BY <1>5, <2>1, BackfillConstants
<1>7. fetched = {} => all = {}
  <2>1. all # {} => T # {}
    BY <1>1, TopIsNewest
  <2> HIDE DEF T
  <2> QED BY <2>1
<1> HIDE DEF T, all
<1>8. /\ fetched \in SUBSET PageRow
      /\ \A r, s \in fetched : r.id = s.id => r = s
      /\ \A r \in fetched : r.id \in all
  BY <1>3, <1>4
<1>9. \A d \in all : (\E r \in fetched : r.id = d) \/ (~(Cardinality(fetched) < PageSize) /\ \A r \in fetched : d < r.id)
  <2> SUFFICES ASSUME NEW d \in all
               PROVE  (\E r \in fetched : r.id = d) \/ (~(Cardinality(fetched) < PageSize) /\ \A r \in fetched : d < r.id)
    OBVIOUS
  <2>1. CASE d \in T
    BY <1>4, <2>1
  <2>2. CASE d \notin T
    BY <1>4, <1>6, <2>2
  <2> QED BY <2>1, <2>2
<1> HIDE DEF fetched
<1> QED BY <1>1, <1>2, <1>7, <1>8, <1>9 DEF all

-----------------------------------------------------------------------------
(* The steps.                                                                *)

LEMMA FewerLeft ==
  ASSUME NEW k, NEW L, Reaches(k, L), NEW M \in SUBSET L
  PROVE  Reaches(k, M)
BY DEF Reaches

LEMMA BeginsState ==
  ASSUME NEW cursor \in Deposits \cup {NoOne}
  PROVE  /\ B!Begins(cursor) \in CallState
         /\ B!Begins(cursor).at = "fetch" /\ B!Begins(cursor).below = cursor
         /\ B!Begins(cursor).from = cursor
BY DEF B!Begins, CallState

LEMMA AnswerState ==
  ASSUME NEW k \in CallState, NEW how \in {"new", "answered", "done"}
  PROVE  /\ B!Answer(k, how) \in CallState
         /\ B!Answer(k, how).at = how /\ B!Answer(k, how).below = k.below
         /\ B!Answer(k, how).from = k.from
<1>1. k.below \in Deposits \cup {NoOne} /\ k.from \in Deposits \cup {NoOne}
  BY DEF CallState
<1>2. PICK b \in CallState : b = B!Begins(k.below) /\ b.below = k.below
  BY <1>1, BeginsState
<1>3. PICK a \in CallState : a = [b EXCEPT !.at = how] /\ a.at = how /\ a.below = k.below
  <2>1. [b EXCEPT !.at = how] \in CallState
    BY DEF CallState
  <2> QED BY <1>2, <2>1 DEF CallState
<1>4. PICK r \in CallState : r = [a EXCEPT !.from = k.from] /\ r.at = how /\ r.below = k.below
                             /\ r.from = k.from
  <2>1. [a EXCEPT !.from = k.from] \in CallState
    BY <1>1 DEF CallState
  <2> QED BY <1>1, <1>3, <2>1 DEF CallState
<1>5. B!Answer(k, how) = r
  BY <1>2, <1>3, <1>4 DEF B!Answer
<1> QED BY <1>4, <1>5

\* Where a call goes on that has worked off a row.
LEMMA ContinuesState ==
  ASSUME NEW k \in CallState
  PROVE  /\ B!Continues(k) \in CallState
         /\ B!Continues(k).below = k.below /\ B!Continues(k).from = k.from
         /\ \/ B!Continues(k).at = "done" /\ k.page = {} /\ k.short
            \/ B!Continues(k).at = "answered" /\ ~(k.page = {} /\ k.short)
            \/ B!Continues(k).at = "fetch" /\ k.page = {} /\ ~k.short
            \/ /\ B!Continues(k).at = "row" /\ k.page # {}
               /\ B!Continues(k).page = k.page /\ B!Continues(k).short = k.short
<1>1. CASE k.page = {} /\ k.short
  BY <1>1, AnswerState DEF B!Continues
<1>2. CASE ~(k.page = {} /\ k.short) /\ B!Spent(k)
  BY <1>2, AnswerState DEF B!Continues
<1>3. CASE ~(k.page = {} /\ k.short) /\ ~B!Spent(k)
  <2>1. PICK a \in CallState : /\ a = [k EXCEPT !.told = {}] /\ a.below = k.below /\ a.from = k.from
                               /\ a.page = k.page /\ a.short = k.short
    <3>1. [k EXCEPT !.told = {}] \in CallState
      BY DEF CallState
    <3> QED BY <3>1 DEF CallState
  <2>2. PICK b \in CallState : /\ b = [a EXCEPT !.landed = FALSE] /\ b.below = k.below /\ b.from = k.from
                               /\ b.page = k.page /\ b.short = k.short
    <3>1. [a EXCEPT !.landed = FALSE] \in CallState
      BY DEF CallState
    <3> QED BY <2>1, <3>1 DEF CallState
  <2>3. PICK to \in {"fetch", "row"} : to = IF k.page = {} THEN "fetch" ELSE "row"
    OBVIOUS
  <2>4. PICK d \in CallState : /\ d = [b EXCEPT !.at = to] /\ d.below = k.below /\ d.from = k.from
                               /\ d.page = k.page /\ d.short = k.short /\ d.at = to
    <3>1. [b EXCEPT !.at = to] \in CallState
      BY <2>3 DEF CallState
    <3> QED BY <2>2, <2>3, <3>1, ZenonT(30) DEF CallState
  <2>5. [k EXCEPT !.told = {}, !.landed = FALSE] = b
    BY <2>1, <2>2
  <2>6. B!Continues(k) = d
    <3>1. [[k EXCEPT !.told = {}, !.landed = FALSE] EXCEPT !.at = IF k.page = {} THEN "fetch" ELSE "row"] = d
      BY <2>3, <2>4, <2>5, Zenon
    <3> QED BY <1>3, <3>1, Zenon DEF B!Continues
  <2> QED BY <1>3, <2>3, <2>4, <2>6
<1> QED BY <1>1, <1>2, <1>3

\* A row is done with: the rest of the page, and what is below its cursor, is what is left.
LEMMA RowDone ==
  ASSUME NEW P \in SUBSET PageRow, P # {}, \A r, s \in P : r.id = s.id => r = s,
         NEW row, row = B!Newest(P),
         NEW k \in CallState, k.page = P \ {row}, k.below = row.id,
         k.from # NoOne => row.id < k.from,
         NEW L, \A d \in L : (\E r \in P : r.id = d) \/ (~k.short /\ \A r \in P : d < r.id), row.id \notin L
  PROVE  Reaches(B!Continues(k), L) /\ Descends(B!Continues(k))
<1>1. row \in P /\ \A s \in P : s.id <= row.id
  BY NewestRow
<1>2. \A r \in P : r.id \in Nat
  BY DepositsNat DEF PageRow
<1>3. row.id # NoOne
  BY <1>1, BackfillConstants DEF PageRow
<1>4. \A d \in L : \/ \E r \in P \ {row} : r.id = d /\ d < row.id
                   \/ ~k.short /\ d < row.id /\ \A r \in P : d < r.id
  <2> SUFFICES ASSUME NEW d \in L
               PROVE  \/ \E r \in P \ {row} : r.id = d /\ d < row.id
                      \/ ~k.short /\ d < row.id /\ \A r \in P : d < r.id
    OBVIOUS
  <2>1. CASE \E r \in P : r.id = d
    <3>1. PICK r \in P : r.id = d
      BY <2>1
    <3>2. d # row.id /\ d <= row.id /\ d \in Nat /\ row.id \in Nat
      BY <1>1, <1>2, <3>1
    <3> QED BY <3>1, <3>2
  <2>2. CASE ~k.short /\ \A r \in P : d < r.id
    BY <1>1, <2>2
  <2> QED BY <2>1, <2>2
<1>5. \A r \in P \ {row} : r.id < row.id
  <2> SUFFICES ASSUME NEW r \in P, r # row PROVE r.id < row.id
    OBVIOUS
  <2>1. r.id # row.id /\ r.id <= row.id /\ r.id \in Nat /\ row.id \in Nat
    BY <1>1, <1>2
  <2> QED BY <2>1
<1>6. k.from # NoOne => k.below <= k.from
  <2>1. k.from # NoOne => k.from \in Nat /\ row.id \in Nat
    BY <1>1, <1>2, DepositsNat DEF CallState
  <2> QED BY <2>1
<1> DEFINE n == B!Continues(k)
<1>7. /\ n \in CallState /\ n.below = row.id /\ n.from = k.from
      /\ \/ n.at = "done" /\ k.page = {} /\ k.short
         \/ n.at = "answered" /\ ~(k.page = {} /\ k.short)
         \/ n.at = "fetch" /\ k.page = {} /\ ~k.short
         \/ n.at = "row" /\ k.page # {} /\ n.page = k.page /\ n.short = k.short
  BY ContinuesState
<1> HIDE DEF n
<1>8. Reaches(n, L)
  <2>1. CASE n.at = "done" /\ k.page = {} /\ k.short
    BY <1>4, <2>1 DEF Reaches
  <2>2. CASE n.at \in {"answered", "fetch"}
    BY <1>4, <1>7, <2>2 DEF Reaches
  <2>3. CASE n.at = "row" /\ n.page = k.page /\ n.short = k.short
    BY <1>4, <1>7, <2>3 DEF Reaches
  <2> QED BY <1>7, <2>1, <2>2, <2>3
<1>9. Descends(n)
  BY <1>3, <1>5, <1>6, <1>7 DEF Descends
<1> QED BY <1>8, <1>9 DEF n

\* One chain's call moves; nobody has more left to ask for.
LEMMA ChainMoves ==
  ASSUME BackfillInv, NEW c \in Buys, NEW n \in CallState, call' = [call EXCEPT ![c] = n],
         UNCHANGED <<newest, rejected>>, missing' \in [Deposits -> SUBSET Figures],
         UNCHANGED oldest \/ oldest' = [oldest EXCEPT ![c] = newest],
         DOMAIN examined' = Buys,
         \A d \in Deposits : missing'[d] \subseteq missing[d],
         \A x \in Buys : x # c => examined'[x] = examined[x],
         Reaches(n, Left(c)'), Descends(n)
  PROVE  BackfillInv'
<1>1. call'[c] = n /\ \A x \in Buys : x # c => call'[x] = call[x] /\ oldest'[x] = oldest[x]
  BY DEF BackfillInv, BackfillTypes
<1>2. newest \in Deposits /\ newest \in Nat /\ Deposits = 1..Cardinality(Deposits) /\ Cardinality(Deposits) \in Nat
  BY BackfillConstants, DepositsNat DEF BackfillInv, BackfillTypes
<1>3. BackfillTypes'
  BY <1>2, SMTT(30) DEF BackfillInv, BackfillTypes
<1>4. ASSUME NEW x \in Buys, x # c PROVE Left(x)' \subseteq Left(x)
  <2>1. oldest'[x] = oldest[x] /\ oldest[x] \in Nat /\ oldest[x] <= newest /\ examined'[x] = examined[x]
    BY <1>1, <1>4 DEF BackfillInv, BackfillTypes
  <2>2. \A d \in 1..oldest[x] : d \in Deposits
    BY <1>2, <2>1
  <2> QED BY <2>1, <2>2 DEF Left, B!Completed
<1>5. ASSUME NEW x \in Buys PROVE (Reaches(call[x], Left(x)) /\ Descends(call[x]))'
  <2>1. CASE x = c
    BY <1>1, <2>1
  <2>2. CASE x # c
    <3>1. PICK k, L, M : k = call[x] /\ k = call'[x] /\ L = Left(x) /\ M = Left(x)'
      BY <1>1, <2>2
    <3>2. Reaches(k, L) /\ Descends(k) /\ M \subseteq L
      BY <1>4, <2>2, <3>1 DEF BackfillInv
    <3>3. Reaches(k, M)
      BY <3>2, FewerLeft
    <3> QED BY <3>1, <3>2, <3>3
  <2> QED BY <2>1, <2>2
<1> QED BY <1>3, <1>5 DEF BackfillInv

LEMMA BackfillInit == B!Init => BackfillInv
<1> SUFFICES ASSUME B!Init PROVE BackfillInv
  OBVIOUS
<1>1. PICK k : k = [B!Begins(NoOne) EXCEPT !.at = "new"]
  OBVIOUS
<1>2. k \in CallState /\ k.at = "new" /\ k.below = NoOne
  <2>1. PICK b \in CallState : b = B!Begins(NoOne) /\ b.below = NoOne
    BY BeginsState
  <2>2. k \in CallState
    BY <1>1, <2>1 DEF CallState
  <2> QED BY <1>1, <2>1, <2>2 DEF CallState
<1>3. \A c \in Buys : call[c] = k
  BY <1>1 DEF B!Init
<1>4. newest \in Nat
  BY DepositsNat DEF B!Init
<1>5. BackfillTypes
  <2>1. call \in [Buys -> CallState]
    BY <1>1, <1>2 DEF B!Init
  <2>2. rejected \subseteq 1..newest
    BY DEF B!Init
  <2>3. oldest \in [Buys -> Nat] /\ (\A c \in Buys : oldest[c] <= newest) /\ DOMAIN examined = Buys
    BY <1>4 DEF B!Init
  <2> QED BY <2>1, <2>2, <2>3 DEF B!Init, BackfillTypes
<1>6. \A L : Reaches(k, L) /\ Descends(k)
  BY <1>2 DEF Reaches, Descends
<1> QED BY <1>3, <1>5, <1>6 DEF BackfillInv

\* What happens to deposits beside a chain leaves its way through the older ones.
LEMMA DepositsMove ==
  ASSUME BackfillInv, UNCHANGED <<call, oldest, examined>>,
         newest' \in Deposits, newest <= newest', rejected' \subseteq 1..newest', rejected \subseteq rejected',
         missing' \in [Deposits -> SUBSET Figures],
         \A d \in Deposits : d <= newest => missing'[d] = missing[d]
  PROVE  BackfillInv'
<1>1. newest \in Deposits /\ newest \in Nat /\ newest' \in Nat /\ Deposits = 1..Cardinality(Deposits)
      /\ Cardinality(Deposits) \in Nat /\ Cardinality(Deposits) >= newest
  BY BackfillConstants, DepositsNat DEF BackfillInv, BackfillTypes
<1>2. oldest \in [Buys -> Nat] /\ \A c \in Buys : oldest[c] <= newest
  BY DEF BackfillInv, BackfillTypes
<1>3. BackfillTypes'
  <2>1. \A c \in Buys : oldest[c] <= newest'
    BY <1>1, <1>2
  <2> QED BY <2>1 DEF BackfillInv, BackfillTypes
<1>4. ASSUME NEW c \in Buys PROVE Left(c)' \subseteq Left(c)
  <2>1. oldest[c] \in Nat /\ oldest[c] <= newest
    BY <1>2
  <2>2. ASSUME NEW d \in 1..oldest[c] PROVE d \in Deposits /\ d <= newest
    <3>1. PICK n \in Nat : n = Cardinality(Deposits) /\ newest <= n
      BY <1>1
    <3>2. d \in 1..n /\ d <= newest
      BY <1>1, <2>1, <3>1
    <3> QED BY <1>1, <3>1, <3>2
  <2> QED BY <2>2 DEF Left, B!Completed
<1>5. ASSUME NEW c \in Buys PROVE (Reaches(call[c], Left(c)) /\ Descends(call[c]))'
  <2>1. PICK k, L, M : k = call[c] /\ L = Left(c) /\ M = Left(c)'
    OBVIOUS
  <2>2. Reaches(k, L) /\ Descends(k) /\ M \subseteq L
    BY <1>4, <2>1 DEF BackfillInv
  <2>3. Reaches(k, M)
    BY <2>2, FewerLeft
  <2> QED BY <2>1, <2>2, <2>3
<1> QED BY <1>3, <1>5 DEF BackfillInv

LEMMA CompleteStep == BackfillInv /\ B!Complete => BackfillInv'
<1> SUFFICES ASSUME BackfillInv, B!Complete PROVE BackfillInv'
  OBVIOUS
<1>1. newest' \in Deposits /\ newest' = newest + 1 /\ newest \in Nat /\ rejected \subseteq 1..newest
  BY DepositsNat DEF BackfillInv, BackfillTypes, B!Complete
<1>2. PICK F \in SUBSET Figures : missing' = [missing EXCEPT ![newest'] = F]
  BY <1>1 DEF B!Complete
<1>3. missing' \in [Deposits -> SUBSET Figures]
      /\ \A d \in Deposits : d <= newest => missing'[d] = missing[d]
  BY <1>1, <1>2 DEF BackfillInv, BackfillTypes
<1>4. rejected' \subseteq 1..newest' /\ rejected' = rejected /\ newest <= newest'
  BY <1>1 DEF B!Complete
<1>5. UNCHANGED <<call, oldest, examined>>
  BY DEF B!Complete
<1> QED BY <1>1, <1>3, <1>4, <1>5, DepositsMove

LEMMA RejectStep ==
  ASSUME BackfillInv, NEW d \in Deposits, B!Reject(d)
  PROVE  BackfillInv'
<1>1. newest' \in Deposits /\ newest' = newest /\ newest \in Nat /\ d \in 1..newest
  BY DepositsNat DEF BackfillInv, BackfillTypes, B!Reject
<1>2. rejected' \subseteq 1..newest' /\ rejected \subseteq rejected' /\ newest <= newest'
  BY <1>1 DEF BackfillInv, BackfillTypes, B!Reject
<1>3. missing' = missing /\ missing \in [Deposits -> SUBSET Figures] /\ UNCHANGED <<call, oldest, examined>>
  BY DEF BackfillInv, BackfillTypes, B!Reject
<1> QED BY <1>1, <1>2, <1>3, DepositsMove

LEMMA BeginStep ==
  ASSUME BackfillInv, NEW c \in Buys, B!Begin(c)
  PROVE  BackfillInv'
<1> DEFINE k == call[c]
<1>1. k \in CallState /\ k.below \in Deposits \cup {NoOne}
  BY DEF BackfillInv, BackfillTypes, CallState
<1>2. PICK n \in CallState : /\ n = B!Begins(k.below) /\ n.at = "fetch" /\ n.below = k.below
                             /\ n.from = k.below
  BY <1>1, BeginsState
<1>3. /\ k.at \in {"new", "answered"} /\ call' = [call EXCEPT ![c] = n]
      /\ oldest' = IF k.at = "new" THEN [oldest EXCEPT ![c] = newest] ELSE oldest
      /\ UNCHANGED <<newest, rejected, missing, examined>>
  BY <1>2 DEF B!Begin, BackfillInv, BackfillTypes
<1>4. Descends(k) /\ Reaches(k, Left(c))
  BY DEF BackfillInv
<1>5. \A d \in Deposits : d <= d
  BY DepositsNat
<1>6. Descends(n)
  BY <1>1, <1>2, <1>5 DEF Descends
<1>7. Reaches(n, Left(c)')
  <2>1. CASE k.at = "new"
    BY <1>2, <1>4, <2>1 DEF Reaches, Descends
  <2>2. CASE k.at = "answered"
    <3>1. Left(c)' = Left(c)
      BY <1>3, <2>2 DEF Left, B!Completed
    <3>2. \A d \in Left(c) : k.below = NoOne \/ d < k.below
      BY <1>4, <2>2 DEF Reaches
    <3> QED BY <1>2, <3>1, <3>2 DEF Reaches
  <2> QED BY <1>3, <2>1, <2>2
<1>8. missing' \in [Deposits -> SUBSET Figures] /\ DOMAIN examined' = Buys
      /\ (\A d \in Deposits : missing'[d] \subseteq missing[d])
      /\ (\A x \in Buys : x # c => examined'[x] = examined[x])
      /\ UNCHANGED <<newest, rejected>> /\ (UNCHANGED oldest \/ oldest' = [oldest EXCEPT ![c] = newest])
  BY <1>3 DEF BackfillInv, BackfillTypes
<1> QED BY <1>2, <1>3, <1>6, <1>7, <1>8, ChainMoves

LEMMA LeftIsCandidate ==
  ASSUME BackfillInv, NEW c \in Buys, NEW cursor, \A d \in Left(c) : cursor = NoOne \/ d < cursor
  PROVE  Left(c) \subseteq B!Candidates(cursor)
<1>1. PICK n \in Nat : n = Cardinality(Deposits) /\ Deposits = 1..n
  BY BackfillConstants
<1>2. newest \in 1..n /\ oldest[c] \in Nat /\ oldest[c] <= newest
  BY <1>1 DEF BackfillInv, BackfillTypes
<1>3. PICK o, m \in Nat : o = oldest[c] /\ m = newest /\ o <= m /\ m <= n
  BY <1>2
<1>4. \A d \in 1..oldest[c] : d \in Deposits
  <2>1. \A d \in 1..o : d \in 1..n
    BY <1>3
  <2> QED BY <1>1, <1>3, <2>1
<1> QED BY <1>4 DEF Left, B!Candidates

LEMMA FetchStep ==
  ASSUME BackfillInv, NEW c \in Buys, B!Fetch(c)
  PROVE  BackfillInv'
<1> DEFINE k == call[c]
           fetched == B!Fetched(k.below)
           all == B!Candidates(k.below)
           L == Left(c)
<1>1. k \in CallState /\ k.below \in Deposits \cup {NoOne} /\ k.from \in Deposits \cup {NoOne} /\ k.at = "fetch"
  BY DEF BackfillInv, BackfillTypes, CallState, B!Fetch
<1>2. /\ UNCHANGED <<newest, rejected, missing, oldest, examined>>
      /\ fetched = {} => call' = [call EXCEPT ![c] = B!Answer(k, "done")]
      /\ fetched # {} => call' = [call EXCEPT ![c] =
           [k EXCEPT !.at = "row", !.page = fetched, !.short = Cardinality(fetched) < PageSize]]
  BY SameSize DEF B!Fetch, BackfillInv, BackfillTypes
<1>3. Descends(k) /\ Reaches(k, L)
  BY DEF BackfillInv
<1>4. L \subseteq all
  <2>1. \A d \in Left(c) : k.below = NoOne \/ d < k.below
    BY <1>1, <1>3 DEF Reaches
  <2> QED BY <2>1, LeftIsCandidate
<1>5. /\ fetched \in SUBSET PageRow /\ all \in SUBSET Deposits
      /\ \A r, s \in fetched : r.id = s.id => r = s
      /\ \A r \in fetched : r.id \in all
      /\ \A d \in all : \/ \E r \in fetched : r.id = d
                        \/ ~(Cardinality(fetched) < PageSize) /\ \A r \in fetched : d < r.id
      /\ fetched = {} => all = {}
  BY <1>1, FetchedPage DEF BackfillInv
<1>6. Left(c)' = L
  BY <1>2 DEF Left, B!Completed
<1>7. missing' \in [Deposits -> SUBSET Figures] /\ DOMAIN examined' = Buys
      /\ (\A d \in Deposits : missing'[d] \subseteq missing[d])
      /\ (\A x \in Buys : x # c => examined'[x] = examined[x])
      /\ UNCHANGED <<newest, rejected>> /\ UNCHANGED oldest
  BY <1>2 DEF BackfillInv, BackfillTypes
<1>8. \E n \in CallState : call' = [call EXCEPT ![c] = n] /\ Reaches(n, L) /\ Descends(n)
  <2>1. CASE fetched = {}
    <3>1. PICK n \in CallState : n = B!Answer(k, "done") /\ n.at = "done"
      BY <1>1, AnswerState
    <3>2. L = {}
      BY <1>4, <1>5, <2>1
    <3>3. Reaches(n, L) /\ Descends(n)
      BY <3>1, <3>2 DEF Reaches, Descends
    <3> QED BY <1>2, <2>1, <3>1, <3>3
  <2>2. CASE fetched # {}
    <3>1. PICK P \in SUBSET PageRow : P = fetched
      BY <1>5
    <3>2. PICK small \in BOOLEAN : small = (Cardinality(fetched) < PageSize)
      <4> PICK size : size = Cardinality(fetched)
        OBVIOUS
      <4>1. (size < PageSize) \in BOOLEAN
        OBVIOUS
      <4> QED BY <4>1
    <3>3. PICK a \in CallState : /\ a = [k EXCEPT !.at = "row"] /\ a.at = "row" /\ a.below = k.below
                                 /\ a.from = k.from
      <4>1. [k EXCEPT !.at = "row"] \in CallState
        BY <1>1 DEF CallState
      <4> QED BY <1>1, <4>1 DEF CallState
    <3>4. PICK b \in CallState : /\ b = [a EXCEPT !.page = P] /\ b.at = "row" /\ b.below = k.below
                                 /\ b.from = k.from /\ b.page = P
      <4>1. [a EXCEPT !.page = P] \in CallState
        BY DEF CallState
      <4> QED BY <3>3, <4>1 DEF CallState
    <3>5. PICK n \in CallState : /\ n = [b EXCEPT !.short = small] /\ n.at = "row" /\ n.below = k.below
                                 /\ n.from = k.from /\ n.page = P /\ n.short = small
      <4>1. [b EXCEPT !.short = small] \in CallState
        BY DEF CallState
      <4> QED BY <3>4, <4>1 DEF CallState
    <3>6. [k EXCEPT !.at = "row", !.page = P, !.short = small] = n
      BY <3>3, <3>4, <3>5
    <3>7. call' = [call EXCEPT ![c] = n]
      <4>1. call' = [call EXCEPT ![c] = [k EXCEPT !.at = "row", !.page = fetched, !.short = Cardinality(fetched) < PageSize]]
        BY <1>2, <2>2
      <4> QED BY <3>1, <3>2, <3>6, <4>1, Zenon
    <3>8. Reaches(n, L)
      <4>1. \A d \in L : (\E r \in P : r.id = d) \/ (~small /\ \A r \in P : d < r.id)
        BY <1>4, <1>5, <3>1, <3>2
      <4> QED BY <3>5, <4>1 DEF Reaches
    <3>9. Descends(n)
      <4>1. k.below # NoOne => \A r \in P : r.id < k.below
        BY <1>5, <3>1 DEF B!Candidates
      <4>2. k.from # NoOne => k.below # NoOne /\ k.below <= k.from
        BY <1>1, <1>3 DEF Descends
      <4>3. P # {} /\ \A r, s \in P : r.id = s.id => r = s
        BY <1>5, <2>2, <3>1
      <4> QED BY <3>5, <4>1, <4>2, <4>3 DEF Descends
    <3> QED BY <3>7, <3>8, <3>9
  <2> QED BY <2>1, <2>2
<1> HIDE DEF L
<1>9. PICK n \in CallState : call' = [call EXCEPT ![c] = n] /\ Reaches(n, Left(c)') /\ Descends(n)
  BY <1>6, <1>8
<1> QED BY <1>7, <1>9, ChainMoves

\* What is known of a call that has a row at hand.
LEMMA RowAtHand ==
  ASSUME BackfillInv, NEW c \in Buys, call[c].at \in {"row", "write"}
  PROVE  LET k == call[c]  P == k.page  row == B!Newest(P)
         IN  /\ k \in CallState /\ P \in SUBSET PageRow /\ P # {}
             /\ \A r, s \in P : r.id = s.id => r = s
             /\ row \in PageRow /\ row \in P /\ row.id \in Deposits /\ row.id \in Nat /\ row.lacks \in SUBSET Figures
             /\ k.from # NoOne => row.id < k.from
             /\ \A d \in Left(c) : (\E r \in P : r.id = d) \/ (~k.short /\ \A r \in P : d < r.id)
             /\ k.at = "write" => k.below = row.id /\ row.id \notin Left(c)
<1> DEFINE k == call[c]
           row == B!Newest(k.page)
<1>1. k \in CallState /\ k.page \in SUBSET PageRow /\ k.below \in Deposits \cup {NoOne}
      /\ k.from \in Deposits \cup {NoOne}
  BY DEF BackfillInv, BackfillTypes, CallState
<1>2. Reaches(k, Left(c)) /\ Descends(k)
  BY DEF BackfillInv
<1>3. k.page # {} /\ \A r, s \in k.page : r.id = s.id => r = s
  BY <1>2 DEF Descends
<1>4. row \in k.page /\ row \in PageRow
  BY <1>1, <1>3, NewestRow
<1>5. row.id \in Deposits /\ row.id \in Nat /\ row.lacks \in SUBSET Figures
  BY <1>4, DepositsNat DEF PageRow
<1>6. k.at = "write" => k.below = row.id /\ row.id \notin Left(c)
  BY <1>2 DEF Reaches, Descends
<1>7. ASSUME k.from # NoOne PROVE row.id < k.from
  <2>1. CASE k.at = "write"
    BY <1>2, <1>6, <1>7, <2>1 DEF Descends
  <2>2. CASE k.at = "row"
    <3>1. k.below # NoOne /\ k.below <= k.from /\ row.id < k.below
      BY <1>2, <1>4, <1>7, <2>2 DEF Descends
    <3>2. PICK a, b, d \in Nat : a = row.id /\ b = k.below /\ d = k.from
      BY <1>1, <1>5, <1>7, <3>1, DepositsNat
    <3> QED BY <3>1, <3>2
  <2> QED BY <2>1, <2>2
<1>8. \A d \in Left(c) : (\E r \in k.page : r.id = d) \/ (~k.short /\ \A r \in k.page : d < r.id)
  BY <1>2 DEF Reaches
<1> QED BY <1>1, <1>3, <1>4, <1>5, <1>6, <1>7, <1>8

\* The oldest deposit a chain is after is among those there are.
LEMMA LeftShrinks ==
  ASSUME BackfillInv, NEW c \in Buys, UNCHANGED <<newest, rejected, oldest>>,
         \A d \in Deposits : missing'[d] \subseteq missing[d],
         NEW X, examined'[c] = examined[c] \cup X
  PROVE  Left(c)' \subseteq Left(c) \ X
<1>1. PICK n \in Nat : n = Cardinality(Deposits) /\ Deposits = 1..n
  BY BackfillConstants
<1>2. newest \in 1..n /\ oldest[c] \in Nat /\ oldest[c] <= newest
  BY <1>1 DEF BackfillInv, BackfillTypes
<1>3. PICK o, m \in Nat : o = oldest[c] /\ m = newest /\ o <= m /\ m <= n
  BY <1>2
<1>4. \A d \in 1..oldest[c] : d \in Deposits
  <2>1. \A d \in 1..o : d \in 1..n
    BY <1>3
  <2> QED BY <1>1, <1>3, <2>1
<1> QED BY <1>4 DEF Left, B!Completed

LEMMA ExamineStep ==
  ASSUME BackfillInv, NEW c \in Buys, B!Examine(c)
  PROVE  BackfillInv'
<1> DEFINE k == call[c]
           P == k.page
           row == B!Newest(P)
<1>1. k.at = "row"
  BY DEF B!Examine
<1>2. /\ k \in CallState /\ P \in SUBSET PageRow /\ P # {}
      /\ \A r, s \in P : r.id = s.id => r = s
      /\ row \in PageRow /\ row \in P /\ row.id \in Deposits /\ row.id \in Nat
      /\ row.lacks \in SUBSET Figures
      /\ k.from # NoOne => row.id < k.from
      /\ \A d \in Left(c) : (\E r \in P : r.id = d) \/ (~k.short /\ \A r \in P : d < r.id)
  BY <1>1, RowAtHand
<1>3. PICK told \in SUBSET Figures :
        call' = [call EXCEPT ![c] =
          IF B!Unfilled(row, told) # {}
            THEN [[k EXCEPT !.below = row.id, !.scanned = @ + 1]
                    EXCEPT !.at = "write", !.told = B!Unfilled(row, told)]
            ELSE B!Continues([[k EXCEPT !.below = row.id, !.scanned = @ + 1] EXCEPT !.page = @ \ {row}])]
  BY DEF B!Examine, B!Cursor, BackfillInv, BackfillTypes
<1>4. /\ UNCHANGED <<newest, rejected, missing, oldest>>
      /\ examined' = [examined EXCEPT ![c] = @ \cup {row.id}]
  BY DEF B!Examine
<1>5. examined'[c] = examined[c] \cup {row.id}
  BY <1>4 DEF BackfillInv, BackfillTypes
<1>6. missing' \in [Deposits -> SUBSET Figures] /\ DOMAIN examined' = Buys
      /\ (\A d \in Deposits : missing'[d] \subseteq missing[d])
      /\ (\A x \in Buys : x # c => examined'[x] = examined[x])
      /\ UNCHANGED <<newest, rejected>> /\ UNCHANGED oldest
  BY <1>4 DEF BackfillInv, BackfillTypes
<1>7. PICK L : L = Left(c)' /\ L \subseteq Left(c) \ {row.id}
  BY <1>5, <1>6, LeftShrinks
<1>8. PICK a \in CallState : /\ a = [k EXCEPT !.below = row.id, !.scanned = @ + 1] /\ a.below = row.id
                             /\ a.from = k.from /\ a.page = P /\ a.short = k.short
  <2>1. PICK b \in CallState : /\ b = [k EXCEPT !.below = row.id] /\ b.below = row.id /\ b.from = k.from
                               /\ b.page = P /\ b.short = k.short /\ b.scanned = k.scanned
    <3>1. [k EXCEPT !.below = row.id] \in CallState
      BY <1>2 DEF CallState
    <3> QED BY <1>2, <3>1 DEF CallState
  <2>2. PICK a \in CallState : /\ a = [b EXCEPT !.scanned = k.scanned + 1] /\ a.below = row.id
                               /\ a.from = k.from /\ a.page = P /\ a.short = k.short
    <3>1. k.scanned + 1 \in Nat
      BY <1>2 DEF CallState
    <3>2. [b EXCEPT !.scanned = k.scanned + 1] \in CallState
      BY <3>1 DEF CallState
    <3> QED BY <2>1, <3>1, <3>2 DEF CallState
  <2>3. [k EXCEPT !.below = row.id, !.scanned = @ + 1] = a
    BY <2>1, <2>2
  <2> QED BY <2>2, <2>3
<1>9. \E n \in CallState : call' = [call EXCEPT ![c] = n] /\ Reaches(n, L) /\ Descends(n)
  <2>1. CASE B!Unfilled(row, told) # {}
    <3>1. PICK F \in SUBSET Figures : F = B!Unfilled(row, told)
      BY DEF B!Unfilled
    <3>2. PICK b \in CallState : /\ b = [a EXCEPT !.at = "write"] /\ b.at = "write" /\ b.below = row.id
                                 /\ b.from = k.from /\ b.page = P /\ b.short = k.short
      <4>1. [a EXCEPT !.at = "write"] \in CallState
        BY DEF CallState
      <4> QED BY <1>8, <4>1 DEF CallState
    <3>3. PICK n \in CallState : /\ n = [b EXCEPT !.told = F] /\ n.at = "write" /\ n.below = row.id
                                 /\ n.from = k.from /\ n.page = P /\ n.short = k.short
      <4>1. [b EXCEPT !.told = F] \in CallState
        BY DEF CallState
      <4> QED BY <3>2, <4>1 DEF CallState
    <3>4. [a EXCEPT !.at = "write", !.told = F] = n
      BY <3>2, <3>3
    <3>5. call' = [call EXCEPT ![c] = n]
      BY <1>3, <1>8, <2>1, <3>1, <3>4, Zenon
    <3>6. Reaches(n, L)
      BY <1>2, <1>7, <3>3 DEF Reaches
    <3>7. Descends(n)
      BY <1>2, <3>3 DEF Descends
    <3> QED BY <3>5, <3>6, <3>7
  <2>2. CASE B!Unfilled(row, told) = {}
    <3>1. PICK b \in CallState : /\ b = [a EXCEPT !.page = @ \ {row}] /\ b.below = row.id /\ b.from = k.from
                                 /\ b.page = P \ {row} /\ b.short = k.short
      <4>1. [a EXCEPT !.page = @ \ {row}] \in CallState
        BY <1>2, <1>8 DEF CallState
      <4> QED BY <1>2, <1>8, <4>1 DEF CallState
    <3>2. call' = [call EXCEPT ![c] = B!Continues(b)]
      BY <1>3, <1>8, <2>2, <3>1, Zenon
    <3>3. B!Continues(b) \in CallState
      BY ContinuesState
    <3>4. Reaches(B!Continues(b), L) /\ Descends(B!Continues(b))
      <4>1. \A d \in L : (\E r \in P : r.id = d) \/ (~b.short /\ \A r \in P : d < r.id)
        BY <1>2, <1>7, <3>1
      <4>2. PICK rr, Q : rr = row /\ Q = P
        OBVIOUS
      <4>3. /\ Q \in SUBSET PageRow /\ Q # {} /\ \A r, s \in Q : r.id = s.id => r = s
            /\ rr = B!Newest(Q) /\ b.page = Q \ {rr} /\ b.below = rr.id /\ (b.from # NoOne => rr.id < b.from)
            /\ \A d \in L : (\E r \in Q : r.id = d) \/ (~b.short /\ \A r \in Q : d < r.id)
            /\ rr.id \notin L
        BY <1>2, <1>7, <3>1, <4>1, <4>2
      <4> HIDE DEF row, P, k
      <4> QED BY <4>3, RowDone
    <3> QED BY <3>2, <3>3, <3>4
  <2> QED BY <2>1, <2>2
<1>10. PICK n \in CallState : call' = [call EXCEPT ![c] = n] /\ Reaches(n, Left(c)') /\ Descends(n)
  BY <1>7, <1>9
<1> QED BY <1>6, <1>10, ChainMoves

\* A row's writes are over, and the call goes on.
LEMMA RowLeft ==
  ASSUME BackfillInv, NEW c \in Buys, call[c].at = "write",
         NEW k \in CallState, k.page = call[c].page \ {B!Newest(call[c].page)},
         k.below = call[c].below, k.from = call[c].from, k.short = call[c].short,
         call' = [call EXCEPT ![c] = B!Continues(k)],
         UNCHANGED <<newest, rejected, oldest, examined>>,
         missing' \in [Deposits -> SUBSET Figures],
         \A d \in Deposits : missing'[d] \subseteq missing[d]
  PROVE  BackfillInv'
<1>1. PICK P, row : P = call[c].page /\ row = B!Newest(P)
  OBVIOUS
<1>2. /\ P \in SUBSET PageRow /\ P # {} /\ \A r, s \in P : r.id = s.id => r = s
      /\ k.from # NoOne => row.id < k.from
      /\ \A d \in Left(c) : (\E r \in P : r.id = d) \/ (~k.short /\ \A r \in P : d < r.id)
      /\ k.below = row.id /\ row.id \notin Left(c) /\ k.page = P \ {row}
  BY <1>1, RowAtHand
<1>3. PICK L : L = Left(c)' /\ L \subseteq Left(c)
  <2>1. examined'[c] = examined[c] \cup {}
    OBVIOUS
  <2>2. Left(c)' \subseteq Left(c) \ {}
    BY <2>1, LeftShrinks
  <2> QED BY <2>2
<1>4. /\ \A d \in L : (\E r \in P : r.id = d) \/ (~k.short /\ \A r \in P : d < r.id)
      /\ row.id \notin L
  BY <1>2, <1>3
<1>5. Reaches(B!Continues(k), L) /\ Descends(B!Continues(k))
  BY <1>1, <1>2, <1>4, RowDone
<1>6. PICK n \in CallState : call' = [call EXCEPT ![c] = n] /\ Reaches(n, Left(c)') /\ Descends(n)
  BY <1>3, <1>5, ContinuesState
<1>7. DOMAIN examined' = Buys
  BY DEF BackfillInv, BackfillTypes
<1> QED BY <1>6, <1>7, ChainMoves

LEMMA WriteFailsStep ==
  ASSUME BackfillInv, NEW c \in Buys, B!WriteFails(c)
  PROVE  BackfillInv'
<1>1. call[c].at = "write" /\ call[c] \in CallState
  BY DEF BackfillInv, BackfillTypes, B!WriteFails
<1>2. PICK k \in CallState : /\ k = [call[c] EXCEPT !.page = @ \ {B!Newest(call[c].page)}]
                             /\ k.page = call[c].page \ {B!Newest(call[c].page)}
                             /\ k.below = call[c].below /\ k.from = call[c].from /\ k.short = call[c].short
  <2>1. PICK o \in CallState : o = call[c]
    BY <1>1
  <2>2. PICK Q \in SUBSET PageRow : Q = o.page \ {B!Newest(o.page)}
    BY DEF CallState
  <2>3. [o EXCEPT !.page = Q] \in CallState
    BY DEF CallState
  <2>4. [o EXCEPT !.page = Q].page = Q /\ [o EXCEPT !.page = Q].below = o.below
        /\ [o EXCEPT !.page = Q].from = o.from /\ [o EXCEPT !.page = Q].short = o.short
    BY DEF CallState
  <2>5. [o EXCEPT !.page = @ \ {B!Newest(o.page)}] = [o EXCEPT !.page = Q]
    BY <2>2
  <2> QED BY <2>1, <2>2, <2>3, <2>4, <2>5
<1>3. call' = [call EXCEPT ![c] = B!Continues(k)]
  <2>1. call' = [call EXCEPT ![c] = B!Continues([call[c] EXCEPT !.page = @ \ {B!Newest(call[c].page)}])]
    BY DEF B!WriteFails
  <2> QED BY <1>2, <2>1, Zenon
<1>4. missing' \in [Deposits -> SUBSET Figures] /\ (\A d \in Deposits : missing'[d] \subseteq missing[d])
      /\ UNCHANGED <<newest, rejected, oldest, examined>>
  BY DEF B!WriteFails, BackfillInv, BackfillTypes
<1> QED BY <1>1, <1>2, <1>3, <1>4, RowLeft

LEMMA WriteStep ==
  ASSUME BackfillInv, NEW c \in Buys, B!Write(c)
  PROVE  BackfillInv'
<1>1. PICK k \in CallState : k = call[c] /\ k.at = "write"
  BY DEF BackfillInv, BackfillTypes, B!Write
<1>2. PICK row \in PageRow : row = B!Newest(k.page) /\ row.id \in Deposits
  BY <1>1, RowAtHand
<1>3. PICK f \in k.told :
        /\ call' = [call EXCEPT ![c] =
             IF k.told \ {f} # {}
             THEN [k EXCEPT !.told = @ \ {f}, !.landed = @ \/ B!Lands(row.id, f)]
             ELSE B!Continues([[k EXCEPT !.told = @ \ {f}, !.landed = @ \/ B!Lands(row.id, f)]
                    EXCEPT !.page = @ \ {row},
                           !.updated = @ + (IF [k EXCEPT !.told = @ \ {f},
                                                         !.landed = @ \/ B!Lands(row.id, f)].landed
                                            THEN 1 ELSE 0)])]
        /\ missing' = IF B!Lands(row.id, f) THEN [missing EXCEPT ![row.id] = @ \ {f}] ELSE missing
  BY <1>1, <1>2 DEF B!Write, BackfillInv, BackfillTypes, CallState
<1>4. UNCHANGED <<newest, rejected, oldest, examined>>
  BY DEF B!Write
<1>5. missing' \in [Deposits -> SUBSET Figures] /\ \A d \in Deposits : missing'[d] \subseteq missing[d]
  BY <1>2, <1>3 DEF BackfillInv, BackfillTypes
<1>6. PICK a \in CallState :
        /\ a = [k EXCEPT !.told = @ \ {f}, !.landed = @ \/ B!Lands(row.id, f)]
        /\ a.at = "write" /\ a.page = k.page /\ a.below = k.below /\ a.from = k.from /\ a.short = k.short
  <2>1. PICK F \in SUBSET Figures : F = k.told \ {f}
    BY DEF CallState
  <2>2. PICK b \in CallState : /\ b = [k EXCEPT !.told = F] /\ b.at = "write" /\ b.page = k.page
                               /\ b.below = k.below /\ b.from = k.from /\ b.short = k.short
                               /\ b.landed = k.landed
    <3>1. [k EXCEPT !.told = F] \in CallState
      BY DEF CallState
    <3> QED BY <1>1, <3>1 DEF CallState
  <2>3. PICK l \in BOOLEAN : l = (k.landed \/ B!Lands(row.id, f))
    <3>1. (k.landed \/ B!Lands(row.id, f)) \in BOOLEAN
      OBVIOUS
    <3> QED BY <3>1
  <2>4. PICK a \in CallState : /\ a = [b EXCEPT !.landed = l] /\ a.at = "write" /\ a.page = k.page
                               /\ a.below = k.below /\ a.from = k.from /\ a.short = k.short
    <3>1. [b EXCEPT !.landed = l] \in CallState
      BY DEF CallState
    <3> QED BY <2>2, <3>1 DEF CallState
  <2>5. [k EXCEPT !.told = F, !.landed = l] = a
    BY <2>2, <2>4
  <2>6. [k EXCEPT !.told = @ \ {f}, !.landed = @ \/ B!Lands(row.id, f)] = a
    BY <2>1, <2>3, <2>5, Zenon
  <2> QED BY <2>4, <2>6
<1>7. CASE k.told \ {f} # {}
  <2>1. call' = [call EXCEPT ![c] = a]
    BY <1>3, <1>6, <1>7, Zenon
  <2>2. PICK L : L = Left(c)' /\ L \subseteq Left(c)
    <3>1. examined'[c] = examined[c] \cup {}
      BY <1>4
    <3>2. Left(c)' \subseteq Left(c) \ {}
      BY <1>4, <1>5, <3>1, LeftShrinks
    <3> QED BY <3>2
  <2>3. Reaches(k, Left(c)) /\ Descends(k)
    BY <1>1 DEF BackfillInv
  <2>4. Reaches(a, L) /\ Descends(a)
    BY <1>1, <1>6, <2>2, <2>3 DEF Reaches, Descends
  <2>5. DOMAIN examined' = Buys
    BY <1>4 DEF BackfillInv, BackfillTypes
  <2> QED BY <1>4, <1>5, <2>1, <2>2, <2>4, <2>5, ChainMoves
<1>8. CASE k.told \ {f} = {}
  <2>1. PICK more \in {0, 1} : more = IF a.landed THEN 1 ELSE 0
    OBVIOUS
  <2>2. PICK b \in CallState : /\ b = [a EXCEPT !.page = @ \ {row}] /\ b.page = k.page \ {row}
                               /\ b.below = k.below /\ b.from = k.from /\ b.short = k.short
                               /\ b.updated = a.updated
    <3>1. PICK Q \in SUBSET PageRow : Q = k.page \ {row} /\ Q = a.page \ {row}
      BY <1>6 DEF CallState
    <3>2. [a EXCEPT !.page = Q] \in CallState
      BY DEF CallState
    <3>3. [a EXCEPT !.page = @ \ {row}] = [a EXCEPT !.page = Q]
      BY <3>1
    <3>4. PICK b \in CallState : b = [a EXCEPT !.page = Q]
      BY <3>2
    <3>5. b.page = Q /\ b.below = a.below /\ b.from = a.from /\ b.short = a.short /\ b.updated = a.updated
      BY <3>4 DEF CallState
    <3>6. b = [a EXCEPT !.page = @ \ {row}] /\ b.page = k.page \ {row}
      BY <3>1, <3>3, <3>4, <3>5
    <3>7. b.below = k.below /\ b.from = k.from /\ b.short = k.short
      BY <1>6, <3>5
    <3> QED BY <3>5, <3>6, <3>7
  <2>3. PICK d \in CallState : /\ d = [b EXCEPT !.updated = a.updated + more] /\ d.page = k.page \ {row}
                               /\ d.below = k.below /\ d.from = k.from /\ d.short = k.short
    <3>1. a.updated + more \in Nat
      BY <2>1 DEF CallState
    <3>2. [b EXCEPT !.updated = a.updated + more] \in CallState
      BY <3>1 DEF CallState
    <3> QED BY <2>2, <3>1, <3>2 DEF CallState
  <2>4. [a EXCEPT !.page = @ \ {row}, !.updated = @ + more] = d
    BY <2>2, <2>3
  <2>5. call' = [call EXCEPT ![c] = B!Continues(d)]
    BY <1>3, <1>6, <1>8, <2>1, <2>4, Zenon
  <2> QED BY <1>1, <1>2, <1>4, <1>5, <2>3, <2>5, RowLeft
<1> QED BY <1>7, <1>8

LEMMA BackfillStep == BackfillInv /\ [B!Next]_(B!vars) => BackfillInv'
<1> SUFFICES ASSUME BackfillInv, [B!Next]_(B!vars) PROVE BackfillInv'
  OBVIOUS
<1>1. CASE B!Complete
  BY <1>1, CompleteStep
<1>2. ASSUME NEW d \in Deposits, B!Reject(d) PROVE BackfillInv'
  BY <1>2, RejectStep
<1>3. ASSUME NEW c \in Buys, B!Begin(c) PROVE BackfillInv'
  BY <1>3, BeginStep
<1>4. ASSUME NEW c \in Buys, B!Fetch(c) PROVE BackfillInv'
  BY <1>4, FetchStep
<1>5. ASSUME NEW c \in Buys, B!Examine(c) PROVE BackfillInv'
  BY <1>5, ExamineStep
<1>6. ASSUME NEW c \in Buys, B!Write(c) PROVE BackfillInv'
  BY <1>6, WriteStep
<1>7. ASSUME NEW c \in Buys, B!WriteFails(c) PROVE BackfillInv'
  BY <1>7, WriteFailsStep
<1>8. CASE UNCHANGED B!vars
  BY <1>8 DEF B!vars, BackfillInv, BackfillTypes, Left, B!Completed
<1> QED BY <1>1, <1>2, <1>3, <1>4, <1>5, <1>6, <1>7, <1>8 DEF B!Next

LEMMA BackfillInvariant == B!Spec => []BackfillInv
<1> QED BY BackfillInit, BackfillStep, PTL DEF B!Spec

\* A chain of backfill calls that came to its end has examined every deposit
\* that was there when it began, still is completed and still lacks a figure,
\* and its cursors go down, whatever the page, the quota, the chains, settlements
\* and rejections beside it (backfillSettlement).
THEOREM BackfillCorrect == B!Spec => []BackfillComplete
<1>1. BackfillInv => BackfillComplete
  <2> SUFFICES ASSUME BackfillInv PROVE BackfillComplete
    OBVIOUS
  <2>1. B!TypeOK
    BY DEF BackfillInv, BackfillTypes, CallState, Descends, B!TypeOK
  <2>2. B!NoneStarved
    BY DEF BackfillInv, Reaches, Left, B!NoneStarved
  <2>3. B!CursorsDescend
    BY DEF BackfillInv, Descends, B!CursorsDescend
  <2> QED BY <2>1, <2>2, <2>3 DEF BackfillComplete, B!BackfillComplete
<1> QED BY <1>1, BackfillInvariant, PTL
=============================================================================
