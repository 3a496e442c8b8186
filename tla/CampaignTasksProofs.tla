------------------------ MODULE CampaignTasksProofs ------------------------
(* Proofs about CampaignTasks.tla, for every set of workers, proof calls and *)
(* edits, every number of slots and every price; and about PlatformTasks,    *)
(* where slots and price change under the calls.                             *)
EXTENDS MCCampaignTasks, FiniteSetTheorems, TLAPS

\* A call that waits on the platform's API has found a row of its worker's.
ProofsHaveRows ==
  \A p \in Proofs : proof[p].at \in {"api", "verify", "manual"} => completion[Worker(p)] # "none"

\* Money is returned to the creator only by closing the campaign.
RefundMeansClosed == ~reopened /\ refunded > 0 => campaign.status = "CANCELLED"

LEMMA Times == ASSUME NEW a \in Nat, NEW b \in Nat, NEW c \in Nat, a <= b
               PROVE  a * c <= b * c /\ a * c \in Nat /\ b * c \in Nat
<1>1. PICK d \in Nat : b = a + d
  <2>1. b - a \in Nat /\ b = a + (b - a)
    OBVIOUS
  <2> QED BY <2>1
<1>2. d * c \in Nat /\ a * c \in Nat /\ b * c \in Nat
  OBVIOUS
<1>3. b * c = a * c + d * c
  BY <1>1
<1> QED
  BY <1>2, <1>3

LEMMA PoolNat == Pool \in Nat
BY CampaignAssumption DEF Pool

\* The refund of a closing: what the promised and the used slots leave over.
LEMMA RefundIsRest ==
  ASSUME TypeOK, CountersFit
  PROVE  /\ Refund \in Nat
         /\ Refund = Pool - campaign.completed * CreditPerTask - campaign.pending * CreditPerTask
<1> DEFINE c == campaign.completed
           p == campaign.pending
           rest == TotalSlots - c - p
<1>1. c \in Nat /\ p \in Nat /\ TotalSlots \in Nat /\ CreditPerTask \in Nat
  BY CampaignAssumption DEF TypeOK, CampaignRow
<1>2. rest \in Nat
  BY <1>1 DEF CountersFit
<1>3. Refund = rest * CreditPerTask
  BY DEF Refund
<1> HIDE DEF c, p, rest
<1>4. rest * CreditPerTask \in Nat
  BY <1>1, <1>2
<1>5. (TotalSlots - c - p) * CreditPerTask
        = TotalSlots * CreditPerTask - c * CreditPerTask - p * CreditPerTask
  BY <1>1
<1> QED
  BY <1>3, <1>4, <1>5 DEF Pool, rest, c, p

LEMMA TypeInit == Init => TypeOK
<1> SUFFICES ASSUME Init PROVE TypeOK
  OBVIOUS
<1>1. proof \in [Proofs -> [at: {"new", "api", "verify", "manual", "ended"},
                            op: {"submit", "recheck"}, worker: Workers]]
  BY DEF Init
<1>2. edit \in [Edits -> [at: {"new", "write", "ended"}, to: Open]]
  BY DEF Init
<1>3. campaign \in CampaignRow
  BY DEF Init, CampaignRow, Open, Closed
<1> QED
  BY <1>1, <1>2, <1>3 DEF Init, TypeOK

LEMMA TypeVerify ==
  ASSUME TypeOK, NEW w \in Workers, NEW from, Verify(w, from)
  PROVE  /\ campaign' \in CampaignRow
         /\ completion' \in [Workers -> {"none", "assigned", "submitted", "verified", "rejected"}]
         /\ payouts' \in [Workers -> Nat]
         /\ paid' \in Nat
         /\ UNCHANGED <<autoVerify, overdue, edit, refunded, clobbered, reopened>>
<1>1. campaign.completed + 1 \in Nat /\ campaign.pending - 1 \in Nat
  BY DEF TypeOK, CampaignRow, Verify, SlotPending
<1>2. Verified \in CampaignRow
  BY <1>1 DEF TypeOK, Verified, CampaignRow, Open, Closed
<1>3. payouts' \in [Workers -> Nat] /\ paid' \in Nat
  BY CampaignAssumption DEF TypeOK, Verify
<1> QED
  BY <1>2, <1>3 DEF TypeOK, Verify

LEMMA TypeStep == TypeOK /\ [Next]_vars => TypeOK'
<1> SUFFICES ASSUME TypeOK, [Next]_vars PROVE TypeOK'
  OBVIOUS
<1> USE DEF TypeOK
<1>1. ASSUME NEW w \in Workers, Assign(w) PROVE TypeOK'
  BY <1>1 DEF Assign, CampaignRow
<1>2. ASSUME NEW w \in Workers, DeadlinePasses(w) PROVE TypeOK'
  BY <1>2 DEF DeadlinePasses
<1>3. ASSUME NEW w \in Workers, Approve(w) PROVE TypeOK'
  BY <1>3, TypeVerify DEF Approve
<1>4. ASSUME NEW w \in Workers, Reject(w) PROVE TypeOK'
  BY <1>4 DEF Reject, Released, SlotPending, CampaignRow
<1>5. ASSUME NEW p \in Proofs, Begin(p) PROVE TypeOK'
  BY <1>5 DEF Begin, Moves, Waits, task
<1>6. ASSUME NEW p \in Proofs, Confirmed(p) PROVE TypeOK'
  BY <1>6 DEF Confirmed, Moves, Waits, task
<1>7. ASSUME NEW p \in Proofs, Unconfirmed(p) PROVE TypeOK'
  BY <1>7 DEF Unconfirmed, Moves, Waits, task
<1>8. ASSUME NEW p \in Proofs, TurnedDown(p) PROVE TypeOK'
  BY <1>8 DEF TurnedDown, Moves, Waits, task
<1>9. ASSUME NEW p \in Proofs, AutoVerify(p) PROVE TypeOK'
  <2>1. Worker(p) \in Workers
    BY DEF Worker
  <2>2. Verify(Worker(p), "assigned")
    BY <1>9 DEF AutoVerify
  <2>3. proof' \in [Proofs -> [at: {"new", "api", "verify", "manual", "ended"},
                               op: {"submit", "recheck"}, worker: Workers]]
    BY <1>9 DEF AutoVerify, Moves
  <2> QED BY <2>1, <2>2, <2>3, TypeVerify
<1>10. ASSUME NEW p \in Proofs, VerifyFails(p) PROVE TypeOK'
  BY <1>10 DEF VerifyFails, Moves, Waits, task
<1>11. ASSUME NEW p \in Proofs, SubmitForReview(p) PROVE TypeOK'
  BY <1>11 DEF SubmitForReview, Moves, Worker
<1>12. ASSUME NEW e \in Edits, EditRead(e) PROVE TypeOK'
  BY <1>12 DEF EditRead, task
<1>13. ASSUME NEW e \in Edits, EditWrite(e) PROVE TypeOK'
  BY <1>13 DEF EditWrite, task, CampaignRow
<1>14. CASE PauseForPlatform
  BY <1>14 DEF PauseForPlatform, task, CampaignRow, Open
<1>15. CASE Close
  <2>1. Refund \in Nat
    BY <1>15, RefundIsRest DEF Close
  <2> QED BY <1>15, <2>1 DEF Close, task, CampaignRow, Closed
<1>16. CASE UNCHANGED vars
  BY <1>16 DEF vars, task
<1> QED
  BY <1>1, <1>2, <1>3, <1>4, <1>5, <1>6, <1>7, <1>8, <1>9, <1>10, <1>11, <1>12, <1>13,
     <1>14, <1>15, <1>16 DEF Next, Cancel, CancelUserCampaign

\* Every row keeps its type; in particular no slot counter and no sum of
\* credits is ever negative, whatever the interleaving.
THEOREM TypeCorrect == Spec => []TypeOK
<1>1. Init => TypeOK BY TypeInit
<1>2. TypeOK /\ [Next]_vars => TypeOK' BY TypeStep
<1> QED BY <1>1, <1>2, PTL DEF Spec

-----------------------------------------------------------------------------
(* The inductive invariant                                                   *)

IInv ==
  /\ TypeOK
  /\ NeverOversubscribed
  /\ ProofsHaveRows
  /\ SlotsAreCompletions
  /\ PaidOnceIfVerified
  /\ RefundMeansClosed
  /\ PoolCovers

\* What a completion's change of status does to the two counts.
LEMMA CountsFinite == ASSUME NEW S \in SUBSET Workers
                      PROVE  IsFiniteSet(S) /\ Cardinality(S) \in Nat
BY CampaignAssumption, FS_Subset, FS_CardinalityType

LEMMA Taken ==
  ASSUME TypeOK, NEW w \in Workers, completion[w] = "none",
         completion' = [completion EXCEPT ![w] = "assigned"]
  PROVE  Cardinality(Holding') = Cardinality(Holding) + 1 /\ Done' = Done
<1>1. Holding' = Holding \cup {w} /\ w \notin Holding /\ Done' = Done
  BY DEF TypeOK, Holding, Done
<1>2. IsFiniteSet(Holding)
  BY CountsFinite DEF Holding
<1> QED BY <1>1, <1>2, FS_AddElement

LEMMA LetGo ==
  ASSUME TypeOK, NEW w \in Workers, completion[w] \in {"assigned", "submitted"},
         NEW to \in {"verified", "rejected"}, completion' = [completion EXCEPT ![w] = to]
  PROVE  Cardinality(Holding') = Cardinality(Holding) - 1
<1>1. Holding' = Holding \ {w} /\ w \in Holding
  BY DEF TypeOK, Holding
<1>2. IsFiniteSet(Holding)
  BY CountsFinite DEF Holding
<1> QED BY <1>1, <1>2, FS_RemoveElement

LEMMA OneMoreDone ==
  ASSUME TypeOK, NEW w \in Workers, completion[w] \in {"assigned", "submitted"},
         completion' = [completion EXCEPT ![w] = "verified"]
  PROVE  Cardinality(Done') = Cardinality(Done) + 1
<1>1. Done' = Done \cup {w} /\ w \notin Done
  BY DEF TypeOK, Done
<1>2. IsFiniteSet(Done)
  BY CountsFinite DEF Done
<1> QED BY <1>1, <1>2, FS_AddElement

LEMMA IInvInit == Init => IInv
<1> SUFFICES ASSUME Init PROVE IInv
  OBVIOUS
<1>1. Holding = {} /\ Done = {}
  BY DEF Init, Holding, Done
<1>2. SlotsAreCompletions
  BY <1>1, FS_EmptySet DEF Init, SlotsAreCompletions
<1>3. PoolCovers
  BY PoolNat, CampaignAssumption DEF Init, PoolCovers
<1>4. NeverOversubscribed
  BY CampaignAssumption DEF Init, NeverOversubscribed, CountersFit
<1> QED
  BY <1>2, <1>3, <1>4, TypeInit
  DEF Init, IInv, ProofsHaveRows, PaidOnceIfVerified, RefundMeansClosed

\* Steps that leave the money, the counters and the completions alone.
LEMMA Idle ==
  ASSUME IInv, TypeOK',
         UNCHANGED <<campaign, completion, payouts, paid, refunded, clobbered, reopened>>
  PROVE  /\ NeverOversubscribed' /\ SlotsAreCompletions' /\ PaidOnceIfVerified'
         /\ RefundMeansClosed' /\ PoolCovers'
BY DEF IInv, NeverOversubscribed, CountersFit, SlotsAreCompletions, PaidOnceIfVerified,
       RefundMeansClosed, PoolCovers, Holding, Done

\* What verifying a completion preserves, whoever verifies it.
LEMMA VerifyStep ==
  ASSUME IInv, NEW w \in Workers, NEW from \in {"assigned", "submitted"}, Verify(w, from)
  PROVE  /\ NeverOversubscribed' /\ SlotsAreCompletions' /\ PaidOnceIfVerified'
         /\ RefundMeansClosed' /\ PoolCovers'
<1> USE DEF IInv
<1>1. /\ campaign.completed \in Nat /\ campaign.pending \in Nat /\ campaign.pending > 0
      /\ campaign'.completed = campaign.completed + 1
      /\ campaign'.pending = campaign.pending - 1
      /\ campaign.status \notin Open => campaign'.status = campaign.status
  BY DEF Verify, Verified, SlotPending, TypeOK, CampaignRow
<1>2. completion[w] = from /\ completion' = [completion EXCEPT ![w] = "verified"]
  BY DEF Verify, Claimable
<1>3. UNCHANGED <<refunded, clobbered, reopened>>
  BY DEF Verify
<1>4. NeverOversubscribed'
  BY <1>1, CampaignAssumption DEF NeverOversubscribed, CountersFit
<1>5. SlotsAreCompletions'
  BY <1>1, <1>2, <1>3, LetGo, OneMoreDone DEF SlotsAreCompletions
<1>6. PaidOnceIfVerified'
  BY <1>2, <1>3 DEF PaidOnceIfVerified, Verify, TypeOK
<1>7. RefundMeansClosed'
  BY <1>1, <1>3 DEF RefundMeansClosed, Open
<1>8. PoolCovers'
  <2>1. CreditPerTask \in Nat /\ paid \in Nat /\ refunded \in Nat /\ Pool \in Nat
    BY CampaignAssumption, PoolNat DEF TypeOK
  <2>2. /\ (campaign.completed + 1) * CreditPerTask = campaign.completed * CreditPerTask + CreditPerTask
        /\ (campaign.pending - 1) * CreditPerTask = campaign.pending * CreditPerTask - CreditPerTask
        /\ campaign.completed * CreditPerTask \in Nat /\ campaign.pending * CreditPerTask \in Nat
    BY <1>1, <2>1
  <2>3. paid' = paid + CreditPerTask
    BY DEF Verify
  <2> QED BY <1>1, <1>3, <2>1, <2>2, <2>3 DEF PoolCovers
<1> QED BY <1>4, <1>5, <1>6, <1>7, <1>8

LEMMA IInvStep == IInv /\ [Next]_vars => IInv'
<1> SUFFICES ASSUME IInv, [Next]_vars PROVE IInv'
  OBVIOUS
<1>0. TypeOK'
  BY TypeStep DEF IInv
<1> DEFINE Rest == /\ NeverOversubscribed /\ SlotsAreCompletions /\ PaidOnceIfVerified
                   /\ RefundMeansClosed /\ PoolCovers
<1>1. ASSUME NEW w \in Workers, Assign(w) PROVE Rest' /\ ProofsHaveRows'
  <2>1. /\ campaign.completed \in Nat /\ campaign.pending \in Nat
        /\ campaign'.completed = campaign.completed
        /\ campaign'.pending = campaign.pending + 1
        /\ campaign'.status = campaign.status /\ campaign.status = "ACTIVE"
        /\ campaign.pending + campaign.completed + 1 <= TotalSlots
    BY <1>1, CampaignAssumption DEF Assign, SlotFree, IInv, TypeOK, CampaignRow
  <2>2. UNCHANGED <<proof, payouts, paid, refunded, clobbered, reopened>>
    BY <1>1 DEF Assign
  <2>3. completion[w] = "none" /\ completion' = [completion EXCEPT ![w] = "assigned"]
    BY <1>1 DEF Assign
  <2>4. NeverOversubscribed'
    BY <2>1, CampaignAssumption DEF NeverOversubscribed, CountersFit
  <2>5. SlotsAreCompletions'
    BY <2>1, <2>2, <2>3, Taken DEF SlotsAreCompletions, IInv
  <2>6. PaidOnceIfVerified'
    BY <2>2, <2>3 DEF PaidOnceIfVerified, IInv, TypeOK
  <2>7. RefundMeansClosed'
    BY <2>1, <2>2 DEF RefundMeansClosed, IInv
  <2>8. PoolCovers'
    <3> DEFINE c == campaign.completed
               p == campaign.pending
    <3>1. c \in Nat /\ p \in Nat /\ CreditPerTask \in Nat /\ TotalSlots \in Nat
      BY <2>1, CampaignAssumption
    <3>2. paid \in Nat /\ refunded \in Nat /\ (~reopened => refunded = 0)
      BY <2>1 DEF IInv, TypeOK, RefundMeansClosed
    <3> HIDE DEF c, p
    <3>3. p + c + 1 <= TotalSlots
      BY <2>1 DEF c, p
    <3>4. p + c + 1 \in Nat
      BY <3>1
    <3>5. (p + c + 1) * CreditPerTask <= Pool
      BY <3>1, <3>3, <3>4, Times DEF Pool
    <3>6. (p + c + 1) * CreditPerTask = (p + 1) * CreditPerTask + c * CreditPerTask
      BY <3>1
    <3>7. (p + 1) * CreditPerTask \in Nat /\ c * CreditPerTask \in Nat /\ Pool \in Nat
      BY <3>1, PoolNat
    <3>8. paid = c * CreditPerTask
      BY DEF c, IInv, PoolCovers
    <3>9. ~reopened => paid + refunded + (p + 1) * CreditPerTask <= Pool
      BY <3>2, <3>5, <3>6, <3>7, <3>8
    <3> QED BY <2>1, <2>2, <3>8, <3>9 DEF PoolCovers, IInv, c, p
  <2>9. ProofsHaveRows'
    BY <2>2, <2>3 DEF ProofsHaveRows, IInv, TypeOK, Worker
  <2> QED BY <2>4, <2>5, <2>6, <2>7, <2>8, <2>9
<1>2. ASSUME NEW w \in Workers, DeadlinePasses(w) PROVE Rest' /\ ProofsHaveRows'
  BY <1>0, <1>2, Idle DEF DeadlinePasses, ProofsHaveRows, IInv, Worker
<1>3. ASSUME NEW w \in Workers, Approve(w) PROVE Rest' /\ ProofsHaveRows'
  <2>1. Rest'
    BY <1>3, VerifyStep DEF Approve
  <2>2. ProofsHaveRows'
    BY <1>3 DEF Approve, Verify, ProofsHaveRows, IInv, TypeOK, Worker
  <2> QED BY <2>1, <2>2
<1>4. ASSUME NEW w \in Workers, Reject(w) PROVE Rest' /\ ProofsHaveRows'
  <2>1. /\ campaign.completed \in Nat /\ campaign.pending \in Nat /\ campaign.pending > 0
        /\ campaign'.completed = campaign.completed
        /\ campaign'.pending = campaign.pending - 1
        /\ campaign'.status = campaign.status
    BY <1>4 DEF Reject, Released, SlotPending, IInv, TypeOK, CampaignRow
  <2>2. UNCHANGED <<proof, payouts, paid, refunded, clobbered, reopened>>
    BY <1>4 DEF Reject
  <2>3. completion[w] = "submitted" /\ completion' = [completion EXCEPT ![w] = "rejected"]
    BY <1>4 DEF Reject, Claimable
  <2>4. NeverOversubscribed'
    BY <2>1, CampaignAssumption DEF NeverOversubscribed, CountersFit, IInv
  <2>5. SlotsAreCompletions'
    <3>1. Done' = Done
      BY <2>3 DEF Done, IInv, TypeOK
    <3>2. Cardinality(Holding') = Cardinality(Holding) - 1
      BY <2>3, LetGo DEF IInv
    <3> QED BY <2>1, <2>2, <3>1, <3>2 DEF SlotsAreCompletions, IInv
  <2>6. PaidOnceIfVerified'
    BY <2>2, <2>3 DEF PaidOnceIfVerified, IInv, TypeOK
  <2>7. RefundMeansClosed'
    BY <2>1, <2>2 DEF RefundMeansClosed, IInv
  <2>8. PoolCovers'
    <3>1. CreditPerTask \in Nat /\ paid \in Nat /\ refunded \in Nat /\ Pool \in Nat
      BY CampaignAssumption, PoolNat DEF IInv, TypeOK
    <3>2. /\ (campaign.pending - 1) * CreditPerTask = campaign.pending * CreditPerTask - CreditPerTask
          /\ campaign.pending * CreditPerTask \in Nat
      BY <2>1, <3>1
    <3> QED BY <2>1, <2>2, <3>1, <3>2 DEF PoolCovers, IInv
  <2>9. ProofsHaveRows'
    BY <2>2, <2>3 DEF ProofsHaveRows, IInv, TypeOK, Worker
  <2> QED BY <2>4, <2>5, <2>6, <2>7, <2>8, <2>9
<1>5. ASSUME NEW p \in Proofs, Begin(p) PROVE Rest' /\ ProofsHaveRows'
  <2>1. completion[Worker(p)] # "none"
    BY <1>5 DEF Begin, Submittable
  <2> QED
    BY <1>0, <1>5, <2>1, Idle
    DEF Begin, Moves, Waits, task, ProofsHaveRows, IInv, TypeOK, Worker
<1>6. ASSUME NEW p \in Proofs, Confirmed(p) \/ Unconfirmed(p) \/ TurnedDown(p) \/ VerifyFails(p)
      PROVE  Rest' /\ ProofsHaveRows'
  <2>1. /\ UNCHANGED <<campaign, completion, payouts, paid, refunded, clobbered, reopened>>
        /\ proof[p].at \in {"api", "verify"}
        /\ \E to \in {"verify", "manual", "ended"} : Moves(p, to)
    BY <1>6 DEF Confirmed, Unconfirmed, TurnedDown, VerifyFails, Waits, task
  <2>2. ProofsHaveRows'
    BY <2>1 DEF ProofsHaveRows, Moves, IInv, TypeOK, Worker
  <2> QED BY <1>0, <2>1, <2>2, Idle
<1>7. ASSUME NEW p \in Proofs, AutoVerify(p) PROVE Rest' /\ ProofsHaveRows'
  <2>1. Worker(p) \in Workers
    BY DEF IInv, TypeOK, Worker
  <2>2. Verify(Worker(p), "assigned") /\ Moves(p, "ended")
    BY <1>7 DEF AutoVerify
  <2>3. Rest'
    BY <2>1, <2>2, VerifyStep
  <2>4. ProofsHaveRows'
    BY <2>1, <2>2 DEF Verify, Moves, ProofsHaveRows, IInv, TypeOK, Worker
  <2> QED BY <2>3, <2>4
<1>8. ASSUME NEW p \in Proofs, SubmitForReview(p) PROVE Rest' /\ ProofsHaveRows'
  <2> DEFINE w == Worker(p)
  <2>1. w \in Workers /\ completion[w] # "none"
    BY <1>8 DEF IInv, TypeOK, Worker, SubmitForReview, ProofsHaveRows
  <2>2. UNCHANGED <<campaign, payouts, paid, refunded, reopened>>
    BY <1>8 DEF SubmitForReview
  <2>3. /\ completion' = [completion EXCEPT ![w] = "submitted"]
        /\ clobbered \subseteq clobbered'
        /\ completion[w] \in {"verified", "rejected"} => w \in clobbered'
    BY <1>8 DEF SubmitForReview
  <2> HIDE DEF w
  <2>4. NeverOversubscribed' /\ RefundMeansClosed' /\ PoolCovers'
    BY <2>2 DEF NeverOversubscribed, CountersFit, RefundMeansClosed, PoolCovers, IInv
  <2>5. SlotsAreCompletions'
    <3> SUFFICES ASSUME clobbered' = {}
                 PROVE  Holding' = Holding /\ Done' = Done /\ clobbered = {}
      BY <2>2 DEF SlotsAreCompletions, IInv
    <3>1. completion[w] \in {"assigned", "submitted"}
      BY <2>1, <2>3 DEF IInv, TypeOK
    <3> QED BY <2>1, <2>3, <3>1 DEF Holding, Done, IInv, TypeOK
  <2>6. PaidOnceIfVerified'
    BY <2>1, <2>2, <2>3 DEF PaidOnceIfVerified, IInv, TypeOK
  <2>7. ProofsHaveRows'
    <3>1. Moves(p, "ended")
      BY <1>8 DEF SubmitForReview
    <3> QED BY <2>1, <2>3, <3>1 DEF ProofsHaveRows, Moves, IInv, TypeOK, Worker
  <2> QED BY <2>4, <2>5, <2>6, <2>7
<1>9. ASSUME NEW e \in Edits, EditRead(e) PROVE Rest' /\ ProofsHaveRows'
  BY <1>0, <1>9, Idle DEF EditRead, task, ProofsHaveRows, IInv, Worker
<1>10. ASSUME NEW e \in Edits, EditWrite(e) PROVE Rest' /\ ProofsHaveRows'
  <2>1. /\ UNCHANGED <<proof, completion, payouts, paid, refunded, clobbered>>
        /\ campaign'.completed = campaign.completed /\ campaign'.pending = campaign.pending
        /\ ~reopened' => ~reopened /\ campaign.status \notin Closed
    BY <1>10 DEF EditWrite, task, IInv, TypeOK, CampaignRow
  <2>2. ~reopened' => refunded' = 0
    BY <2>1 DEF IInv, RefundMeansClosed, TypeOK, Closed
  <2>3. RefundMeansClosed'
    BY <2>2 DEF RefundMeansClosed
  <2> QED BY <2>1, <2>3
          DEF NeverOversubscribed, CountersFit, SlotsAreCompletions, Holding, Done,
              PaidOnceIfVerified, PoolCovers, ProofsHaveRows, IInv, Worker
<1>11. ASSUME PauseForPlatform PROVE Rest' /\ ProofsHaveRows'
  <2>1. /\ UNCHANGED <<proof, completion, payouts, paid, refunded, clobbered, reopened>>
        /\ campaign'.completed = campaign.completed /\ campaign'.pending = campaign.pending
        /\ campaign.status # "CANCELLED"
    BY <1>11 DEF PauseForPlatform, task, IInv, TypeOK, CampaignRow
  <2> QED BY <2>1
          DEF NeverOversubscribed, CountersFit, SlotsAreCompletions, Holding, Done,
              PaidOnceIfVerified, PoolCovers, RefundMeansClosed, ProofsHaveRows, IInv, Worker
<1>12. ASSUME Close PROVE Rest' /\ ProofsHaveRows'
  <2>1. /\ UNCHANGED <<proof, completion, payouts, paid, clobbered, reopened>>
        /\ campaign'.completed = campaign.completed /\ campaign'.pending = campaign.pending
        /\ campaign'.status = "CANCELLED" /\ campaign.status # "CANCELLED"
        /\ Refund <= Pool - refunded /\ refunded' = refunded + Refund
    BY <1>12 DEF Close, Refundable, Open, task, IInv, TypeOK, CampaignRow
  <2>2. /\ Refund \in Nat
        /\ Refund = Pool - campaign.completed * CreditPerTask - campaign.pending * CreditPerTask
    BY <1>12, RefundIsRest DEF Close, IInv
  <2>3. PoolCovers'
    <3>1. /\ paid \in Nat /\ refunded \in Nat /\ Pool \in Nat
          /\ campaign.completed * CreditPerTask \in Nat /\ campaign.pending * CreditPerTask \in Nat
      BY PoolNat, CampaignAssumption DEF IInv, TypeOK, CampaignRow
    <3>2. ~reopened => refunded = 0
      BY <2>1, <3>1 DEF IInv, RefundMeansClosed
    <3> QED BY <2>1, <2>2, <3>1, <3>2 DEF PoolCovers, IInv
  <2> QED BY <2>1, <2>3
          DEF NeverOversubscribed, CountersFit, SlotsAreCompletions, Holding, Done,
              PaidOnceIfVerified, RefundMeansClosed, ProofsHaveRows, IInv, Worker
<1>13. ASSUME UNCHANGED vars PROVE Rest' /\ ProofsHaveRows'
  BY <1>0, <1>13, Idle DEF vars, task, ProofsHaveRows, IInv, Worker
<1>14. Rest' /\ ProofsHaveRows'
  BY <1>1, <1>2, <1>3, <1>4, <1>5, <1>6, <1>7, <1>8, <1>9, <1>10, <1>11, <1>12, <1>13
  DEF Next, Cancel, CancelUserCampaign
<1> QED
  BY <1>0, <1>14 DEF IInv

LEMMA Invariant == Spec => []IInv
<1>1. Init => IInv BY IInvInit
<1>2. IInv /\ [Next]_vars => IInv' BY IInvStep
<1> QED BY <1>1, <1>2, PTL DEF Spec

\* The campaign never promises and spends more slots than it funded.
THEOREM NeverOversubscribedCorrect == Spec => []NeverOversubscribed
<1>1. IInv => NeverOversubscribed BY DEF IInv
<1> QED BY <1>1, Invariant, PTL

\* As long as no late proof overwrites a row, the counters count the completions.
THEOREM SlotsCorrect == Spec => []SlotsAreCompletions
<1>1. IInv => SlotsAreCompletions BY DEF IInv
<1> QED BY <1>1, Invariant, PTL

\* A worker whose row no late proof overwrote is paid once if verified, else never.
THEOREM PaidOnceCorrect == Spec => []PaidOnceIfVerified
<1>1. IInv => PaidOnceIfVerified BY DEF IInv
<1> QED BY <1>1, Invariant, PTL

\* Payouts and refunds stay within the pool unless an edit reopens the campaign.
THEOREM PoolCoversCorrect == Spec => []PoolCovers
<1>1. IInv => PoolCovers BY DEF IInv
<1> QED BY <1>1, Invariant, PTL

\* Only an edit that raced the closing undoes it: no payout, review or refund does.
THEOREM ClosedStaysCorrect == Spec => ClosedStaysClosed
<1> DEFINE Stays == campaign.status \in Closed => campaign'.status = campaign.status \/ reopened'
<1>1. IInv /\ [Next]_vars => [Stays]_vars
  <2> SUFFICES ASSUME IInv, Next, campaign.status \in Closed
               PROVE  campaign'.status = campaign.status \/ reopened'
    OBVIOUS
  <2> USE DEF IInv, TypeOK, CampaignRow, Open, Closed
  <2>1. ASSUME NEW w \in Workers, Assign(w) \/ DeadlinePasses(w) \/ Reject(w)
        PROVE  campaign'.status = campaign.status
    BY <2>1 DEF Assign, DeadlinePasses, Reject, Released
  <2>2. ASSUME NEW w \in Workers, NEW from, Verify(w, from)
        PROVE  campaign'.status = campaign.status
    BY <2>2 DEF Verify, Verified
  <2>3. ASSUME NEW p \in Proofs, \/ Begin(p) \/ Confirmed(p) \/ Unconfirmed(p) \/ TurnedDown(p)
                                 \/ VerifyFails(p) \/ SubmitForReview(p)
        PROVE  campaign'.status = campaign.status
    BY <2>3 DEF Begin, Confirmed, Unconfirmed, TurnedDown, VerifyFails, SubmitForReview, Waits
  <2>4. ASSUME NEW p \in Proofs, AutoVerify(p) PROVE campaign'.status = campaign.status
    <3>1. Worker(p) \in Workers
      BY DEF Worker
    <3> QED BY <2>2, <2>4, <3>1 DEF AutoVerify
  <2>5. ASSUME NEW w \in Workers, Approve(w) PROVE campaign'.status = campaign.status
    BY <2>2, <2>5 DEF Approve
  <2>6. ASSUME NEW e \in Edits, EditRead(e) \/ EditWrite(e)
        PROVE  campaign'.status = campaign.status \/ reopened'
    BY <2>6 DEF EditRead, EditWrite
  <2>7. ~PauseForPlatform /\ ~Close
    BY DEF PauseForPlatform, Close
  <2> QED
    BY <2>1, <2>3, <2>4, <2>5, <2>6, <2>7 DEF Next, Cancel, CancelUserCampaign
<1> HIDE DEF Stays
<1>2. Spec => [][Stays]_vars
  BY <1>1, Invariant, PTL DEF Spec
<1> QED
  BY <1>2 DEF Stays, ClosedStaysClosed

-----------------------------------------------------------------------------
(* The campaign's money is an escrow                                         *)

\* A verification takes one slot's credits out of the pot, which holds them.
LEMMA VerifyPays ==
  ASSUME IInv, ~reopened, NEW w \in Workers, NEW from, Verify(w, from)
  PROVE  Pot!Next
<1>1. /\ paid \in Nat /\ refunded \in Nat /\ Pool \in Nat /\ CreditPerTask \in Nat \ {0}
      /\ campaign.pending \in Nat /\ campaign.pending > 0
  BY PoolNat, CampaignAssumption DEF IInv, TypeOK, CampaignRow, Verify, SlotPending
<1>2. CreditPerTask <= campaign.pending * CreditPerTask /\ campaign.pending * CreditPerTask \in Nat
  <2>1. 1 * CreditPerTask = CreditPerTask
    BY <1>1
  <2> QED BY <1>1, <2>1, Times
<1>3. CreditPerTask \in 1 .. (Pool - paid - refunded)
  BY <1>1, <1>2 DEF IInv, PoolCovers
<1>4. Pot!Pay(CreditPerTask)
  BY <1>1 DEF Verify, Pot!Pay, Pool
<1> QED
  BY <1>3, <1>4 DEF Pot!Next

\* A closing returns what the slots still promised leave over; if that is
\* nothing the pot does not change.
LEMMA CloseReturns ==
  ASSUME IInv, ~reopened, Close
  PROVE  Pot!Next \/ UNCHANGED <<Pool - paid - refunded, paid, refunded>>
<1>1. /\ paid \in Nat /\ refunded \in Nat /\ Pool \in Nat /\ CreditPerTask \in Nat
      /\ campaign.pending * CreditPerTask \in Nat
  BY PoolNat, CampaignAssumption DEF IInv, TypeOK, CampaignRow
<1>2. /\ Refund \in Nat
      /\ Refund = Pool - campaign.completed * CreditPerTask - campaign.pending * CreditPerTask
  BY RefundIsRest DEF IInv, Close
<1>3. refunded = 0
  BY <1>1 DEF IInv, RefundMeansClosed, Close, Open
<1>4. Refund <= Pool - paid - refunded
  BY <1>1, <1>2, <1>3 DEF IInv, PoolCovers
<1>5. refunded' = refunded + Refund /\ paid' = paid /\ Pool' = Pool
  BY DEF Close, task, Pool
<1>6. CASE Refund = 0
  BY <1>1, <1>5, <1>6
<1>7. CASE Refund # 0
  <2>1. Refund \in 1 .. (Pool - paid - refunded)
    BY <1>1, <1>2, <1>4, <1>7
  <2>2. Pot!Return(Refund)
    BY <1>1, <1>2, <1>5 DEF Pot!Return
  <2> QED BY <2>1, <2>2 DEF Pot!Next
<1> QED BY <1>6, <1>7

\* Until an edit reopens a closed campaign its money is an escrow, whatever the
\* late proofs do: whoever is paid, the pot never pays out more than it holds.
THEOREM EscrowCorrect == Spec => ImplementsEscrow
<1>1. Init => Pot!Init
  BY PoolNat DEF Init, Pot!Init
<1>2. reopened /\ [Next]_vars => reopened'
  BY DEF Next, vars, task, Assign, DeadlinePasses, Approve, Verify, Reject, Begin, Confirmed,
         Unconfirmed, TurnedDown, AutoVerify, VerifyFails, SubmitForReview, Waits, EditRead,
         EditWrite, PauseForPlatform, Cancel, CancelUserCampaign, Close
<1>3. IInv /\ [Next]_vars => (~reopened' => [Pot!Next]_(Pot!evars))
  <2> SUFFICES ASSUME IInv, ~reopened', [Next]_vars
               PROVE  Pot!Next \/ UNCHANGED <<Pool - paid - refunded, paid, refunded>>
    BY DEF Pot!evars
  <2>0. ~reopened
    BY <1>2
  <2>1. ASSUME UNCHANGED <<paid, refunded>>
        PROVE  UNCHANGED <<Pool - paid - refunded, paid, refunded>>
    BY <2>1 DEF Pool
  <2>2. ASSUME NEW w \in Workers, Assign(w) \/ DeadlinePasses(w) \/ Reject(w)
        PROVE  UNCHANGED <<paid, refunded>>
    BY <2>2 DEF Assign, DeadlinePasses, Reject
  <2>3. ASSUME NEW p \in Proofs, \/ Begin(p) \/ Confirmed(p) \/ Unconfirmed(p) \/ TurnedDown(p)
                                 \/ VerifyFails(p) \/ SubmitForReview(p)
        PROVE  UNCHANGED <<paid, refunded>>
    BY <2>3 DEF Begin, Confirmed, Unconfirmed, TurnedDown, VerifyFails, SubmitForReview, Waits, task
  <2>4. ASSUME NEW w \in Workers, Approve(w) PROVE Pot!Next
    BY <2>0, <2>4, VerifyPays DEF Approve
  <2>5. ASSUME NEW p \in Proofs, AutoVerify(p) PROVE Pot!Next
    <3>1. Worker(p) \in Workers
      BY DEF IInv, TypeOK, Worker
    <3> QED BY <2>0, <2>5, <3>1, VerifyPays DEF AutoVerify
  <2>6. ASSUME NEW e \in Edits, EditRead(e) \/ EditWrite(e) PROVE UNCHANGED <<paid, refunded>>
    BY <2>6 DEF EditRead, EditWrite, task
  <2>7. CASE PauseForPlatform \/ UNCHANGED vars
    BY <2>1, <2>7 DEF PauseForPlatform, vars, task
  <2>8. CASE Close
    BY <2>0, <2>8, CloseReturns
  <2> QED
    BY <2>1, <2>2, <2>3, <2>4, <2>5, <2>6, <2>7, <2>8 DEF Next, Cancel, CancelUserCampaign
<1> QED
  BY <1>1, <1>3, Invariant, PTL DEF Spec, ImplementsEscrow

-----------------------------------------------------------------------------
(* PlatformTasks, beside CampaignTasks in MCCampaignTasks.                   *)

LEMMA Product == ASSUME NEW a \in Nat, NEW b \in Nat PROVE a * b \in Nat
OBVIOUS

LEMMA PlatformHolds ==
  IsFiniteSet(Takers) /\ Slots \subseteq Nat \ {0} /\ Prices \subseteq Nat \ {0}
BY PlatformAssumed DEF P!PlatformAssumption, P!IsFiniteSet, IsFiniteSet

LEMMA SameCardinality == \A T : P!Cardinality(T) = Cardinality(T)
BY DEF P!Cardinality, Cardinality

OfferType == [status : P!Open \cup P!Closed, slots : Slots, price : Prices, cost : Nat,
              completed : Nat, pending : Nat]
HistoryType == [clobbered : SUBSET Takers, crossed : BOOLEAN, tight : BOOLEAN, reopened : BOOLEAN,
                updated : BOOLEAN]
Stages == {"none", "assigned", "submitted", "verified", "rejected"}

\* The types, and what a call carries where it stands.
OfferShape ==
  /\ offer \in OfferType /\ history \in HistoryType /\ taken \in [Takers -> Stages]
  /\ funded \in Nat /\ earned \in Nat /\ returned \in Nat
  /\ DOMAIN call = Calls /\ DOMAIN update = Updates /\ DOMAIN order = Orders
  /\ \A c \in Calls : call[c].at = "read" =>
       /\ call[c].worker \in Takers /\ call[c].from \in {"assigned", "submitted"}
       /\ call[c].price \in Prices /\ taken[call[c].worker] # "none"
  /\ \A u \in Updates : update[u].at = "read" =>
       /\ update[u].slots \in Slots \cup {Kept} /\ update[u].price \in Prices \cup {Kept}
       /\ update[u].seen \in Slots \X Prices
  /\ \A o \in Orders : order[o].at = "read" => order[o].to \in P!Open \cup P!Closed

\* The parts of TaskAddsUp.
OfferCounts ==
  history.clobbered = {} =>
    offer.pending = Cardinality(P!Holding) /\ offer.completed = Cardinality(P!Done)

OfferFits ==
  /\ history.tight \/ offer.completed + offer.pending <= offer.slots
  /\ offer.completed >= offer.slots => history.tight \/ history.reopened \/ offer.status \in P!Closed

OfferCost == history.crossed \/ offer.cost = offer.slots * offer.price

Returns ==
  /\ returned <= funded
  /\ returned > 0 => offer.status = "CANCELLED" \/ history.reopened

\* Until an update: the pool is of the slots and the price, everybody was and will be paid that
\* price, and until a reopening the pool covers what was promised.
OfferPool ==
  history.updated \/
    /\ funded # 0 => funded = offer.slots * offer.price
    /\ earned = offer.completed * offer.price
    /\ \A c \in Calls : call[c].at = "read" => call[c].price = offer.price
    /\ funded = 0 \/ history.reopened \/ earned + returned + offer.pending * offer.price <= funded

\* Its parts, and what the calls under way hold.
OfferInv == OfferShape /\ OfferCounts /\ OfferFits /\ OfferCost /\ Returns /\ OfferPool

\* The columns of the row, and their products.
LEMMA OfferNumbers ==
  ASSUME OfferShape
  PROVE  /\ offer.status \in P!Open \cup P!Closed /\ offer.slots \in Slots /\ offer.price \in Prices
         /\ offer.slots \in Nat \ {0} /\ offer.price \in Nat \ {0} /\ offer.completed \in Nat /\ offer.pending \in Nat
         /\ offer.cost \in Nat
         /\ offer.slots * offer.price \in Nat /\ offer.completed * offer.price \in Nat /\ offer.pending * offer.price \in Nat
<1>1. /\ offer.status \in P!Open \cup P!Closed /\ offer.slots \in Slots /\ offer.price \in Prices
      /\ offer.slots \in Nat \ {0} /\ offer.price \in Nat \ {0} /\ offer.completed \in Nat /\ offer.pending \in Nat
      /\ offer.cost \in Nat
  BY PlatformHolds DEF OfferShape, OfferType
<1> QED BY <1>1, Product

LEMMA OfferAddsUp == OfferInv => TaskAddsUp
BY OfferNumbers, SameCardinality
DEF OfferInv, OfferCounts, OfferFits, OfferCost, Returns, OfferPool, TaskAddsUp, P!TaskAddsUp, P!InUse

LEMMA OfferInit == P!Init => OfferInv
<1> SUFFICES ASSUME P!Init PROVE OfferInv
  OBVIOUS
<1>1. PICK s \in Slots, p \in Prices :
        /\ offer = [status |-> "ACTIVE", slots |-> s, price |-> p, cost |-> s * p, completed |-> 0, pending |-> 0]
        /\ funded \in {0, s * p}
  BY DEF P!Init
<1>2. s \in Nat \ {0} /\ p \in Nat \ {0} /\ s * p \in Nat /\ 0 * p = 0
  BY PlatformHolds
<1>3. P!Holding = {} /\ P!Done = {}
  BY DEF P!Init, P!Holding, P!Done
<1>4. OfferShape
  <2>1. offer \in OfferType
    BY <1>1, <1>2 DEF OfferType, P!Open
  <2> QED BY <1>1, <1>2, <2>1 DEF P!Init, OfferShape, HistoryType, Stages
<1>5. OfferCounts
  BY <1>1, <1>3, FS_EmptySet DEF OfferCounts
<1>6. OfferFits /\ OfferCost
  BY <1>1, <1>2 DEF OfferFits, OfferCost
<1>7. Returns /\ OfferPool
  BY <1>1, <1>2 DEF Returns, OfferPool, P!Init
<1> QED BY <1>4, <1>5, <1>6, <1>7 DEF OfferInv

\* What a completion's change of status does to the two counts.
LEMMA HoldingFinite == IsFiniteSet(P!Holding) /\ IsFiniteSet(P!Done)
                       /\ Cardinality(P!Holding) \in Nat /\ Cardinality(P!Done) \in Nat
<1>1. P!Holding \subseteq Takers /\ P!Done \subseteq Takers
  BY DEF P!Holding, P!Done
<1> QED BY <1>1, PlatformHolds, FS_Subset, FS_CardinalityType

LEMMA TakenUp ==
  ASSUME OfferShape, NEW w \in Takers, taken[w] = "none", taken' = [taken EXCEPT ![w] = "assigned"]
  PROVE  Cardinality(P!Holding') = Cardinality(P!Holding) + 1 /\ P!Done' = P!Done
<1>1. P!Holding' = P!Holding \cup {w} /\ w \notin P!Holding /\ P!Done' = P!Done
  BY DEF OfferShape, P!Holding, P!Done
<1> QED BY <1>1, HoldingFinite, FS_AddElement

LEMMA LetOff ==
  ASSUME OfferShape, NEW w \in Takers, taken[w] \in {"assigned", "submitted"},
         NEW to \in {"verified", "rejected"}, taken' = [taken EXCEPT ![w] = to]
  PROVE  /\ Cardinality(P!Holding') = Cardinality(P!Holding) - 1
         /\ Cardinality(P!Done') = IF to = "verified" THEN Cardinality(P!Done) + 1 ELSE Cardinality(P!Done)
<1>1. P!Holding' = P!Holding \ {w} /\ w \in P!Holding
  BY DEF OfferShape, P!Holding
<1>2. P!Done' = (IF to = "verified" THEN P!Done \cup {w} ELSE P!Done) /\ w \notin P!Done
  BY DEF OfferShape, P!Done
<1> QED BY <1>1, <1>2, HoldingFinite, FS_AddElement, FS_RemoveElement

LEMMA OfferStep == OfferInv /\ [P!Next]_(P!vars) => OfferInv'
<1> SUFFICES ASSUME OfferInv, [P!Next]_(P!vars) PROVE OfferInv'
  OBVIOUS
<1> USE DEF P!ledger
<1>0. OfferShape /\ OfferCounts /\ OfferFits /\ OfferCost /\ Returns /\ OfferPool
  BY DEF OfferInv
<1>n. /\ offer.status \in P!Open \cup P!Closed /\ offer.slots \in Slots /\ offer.price \in Prices
      /\ offer.slots \in Nat \ {0} /\ offer.price \in Nat \ {0} /\ offer.completed \in Nat /\ offer.pending \in Nat
      /\ offer.cost \in Nat
      /\ offer.slots * offer.price \in Nat /\ offer.completed * offer.price \in Nat /\ offer.pending * offer.price \in Nat
      /\ earned \in Nat /\ returned \in Nat /\ funded \in Nat
      /\ offer \in OfferType /\ history \in HistoryType /\ taken \in [Takers -> Stages]
  BY <1>0, OfferNumbers DEF OfferShape
<1>1. ASSUME NEW w \in Takers, P!Assign(w) PROVE OfferInv'
  <2>0. /\ offer.status = "ACTIVE" /\ offer.completed + offer.pending < offer.slots /\ taken[w] = "none"
        /\ offer' = [offer EXCEPT !.pending = @ + 1] /\ taken' = [taken EXCEPT ![w] = "assigned"]
        /\ UNCHANGED <<call, update, order, funded, earned, returned, history>>
    BY <1>1 DEF P!Assign, P!InUse
  <2>f. /\ offer' \in OfferType /\ offer'.pending = offer.pending + 1 /\ offer'.completed = offer.completed
        /\ offer'.status = offer.status /\ offer'.slots = offer.slots /\ offer'.price = offer.price /\ offer'.cost = offer.cost
    BY <2>0, <1>n DEF OfferType
  <2>1. OfferShape'
    BY <1>0, <1>n, <2>0, <2>f DEF OfferShape, Stages
  <2>2. OfferCounts'
    BY <1>0, <1>n, <2>0, <2>f, TakenUp, HoldingFinite DEF OfferCounts
  <2>3. OfferFits' /\ OfferCost' /\ Returns'
    BY <1>0, <1>n, <2>0, <2>f DEF OfferFits, OfferCost, Returns
  <2>4. OfferPool'
    <3> SUFFICES ASSUME ~history.updated, funded # 0, ~history.reopened
                 PROVE  earned + returned + offer'.pending * offer.price <= funded
      BY <1>0, <2>0, <2>f DEF OfferPool
    <3>1. funded = offer.slots * offer.price /\ earned = offer.completed * offer.price /\ returned = 0
      BY <1>0, <1>n, <2>0 DEF OfferPool, Returns
    <3>2. (offer.completed + offer.pending + 1) * offer.price <= offer.slots * offer.price
      <4>1. PICK m \in Nat : m = offer.completed + offer.pending + 1
        BY <1>n
      <4>2. m <= offer.slots /\ offer.slots \in Nat /\ offer.price \in Nat
        BY <1>n, <2>0, <4>1
      <4>3. m * offer.price <= offer.slots * offer.price
        BY <4>2, Times
      <4> QED BY <4>1, <4>3
    <3>3. (offer.completed + offer.pending + 1) * offer.price
            = offer.completed * offer.price + (offer.pending + 1) * offer.price
      BY <1>n
    <3> QED BY <1>n, <2>f, <3>1, <3>2, <3>3
  <2> QED BY <2>1, <2>2, <2>3, <2>4 DEF OfferInv
<1>2. ASSUME NEW w \in Takers, P!Reject(w) PROVE OfferInv'
  <2>0. /\ taken[w] = "submitted" /\ offer.pending > 0
        /\ offer' = [offer EXCEPT !.pending = @ - 1] /\ taken' = [taken EXCEPT ![w] = "rejected"]
        /\ UNCHANGED <<call, update, order, funded, earned, returned, history>>
    BY <1>2 DEF P!Reject
  <2>f. /\ offer' \in OfferType /\ offer'.pending = offer.pending - 1 /\ offer'.completed = offer.completed
        /\ offer'.pending \in Nat
        /\ offer'.status = offer.status /\ offer'.slots = offer.slots /\ offer'.price = offer.price /\ offer'.cost = offer.cost
    BY <2>0, <1>n DEF OfferType
  <2>1. OfferShape'
    BY <1>0, <1>n, <2>0, <2>f DEF OfferShape, Stages
  <2>2. OfferCounts'
    BY <1>0, <1>n, <2>0, <2>f, LetOff, HoldingFinite DEF OfferCounts
  <2>3. OfferFits' /\ OfferCost' /\ Returns'
    BY <1>0, <1>n, <2>0, <2>f DEF OfferFits, OfferCost, Returns
  <2>4. OfferPool'
    <3>1. offer'.pending * offer.price <= offer.pending * offer.price /\ offer'.pending * offer.price \in Nat
      BY <1>n, <2>f, Times
    <3>2. UNCHANGED <<call, funded, earned, returned, history>>
      BY <2>0
    <3>3. ASSUME earned + returned + offer.pending * offer.price <= funded
          PROVE  earned + returned + offer'.pending * offer.price <= funded
      BY <1>n, <3>1, <3>3
    <3> QED BY <1>0, <2>f, <3>2, <3>3 DEF OfferPool
  <2> QED BY <2>1, <2>2, <2>3, <2>4 DEF OfferInv
<1>3. ASSUME NEW w \in Takers, NEW c \in Calls, P!Read(c, w) PROVE OfferInv'
  <2>0. /\ taken[w] \in {"assigned", "submitted"}
        /\ call' = [call EXCEPT ![c] = [at |-> "read", worker |-> w, from |-> taken[w], price |-> offer.price]]
        /\ UNCHANGED <<offer, taken, update, order, funded, earned, returned, history>>
    BY <1>3 DEF P!Read
  <2>c. /\ DOMAIN call' = Calls /\ \A d \in Calls \ {c} : call'[d] = call[d]
        /\ call'[c].worker = w /\ call'[c].from = taken[w] /\ call'[c].price = offer.price
    BY <1>0, <2>0 DEF OfferShape
  <2>1. OfferShape'
    BY <1>0, <1>n, <2>0, <2>c DEF OfferShape
  <2>2. OfferCounts' /\ OfferFits' /\ OfferCost' /\ Returns'
    BY <1>0, <2>0 DEF OfferCounts, OfferFits, OfferCost, Returns, P!Holding, P!Done
  <2>3. OfferPool'
    BY <1>0, <2>0, <2>c DEF OfferPool
  <2> QED BY <2>1, <2>2, <2>3 DEF OfferInv
<1>4. ASSUME NEW c \in Calls, P!Pay(c) PROVE OfferInv'
  <2> DEFINE w == call[c].worker
  <2>0. /\ call[c].at = "read" /\ taken[w] = call[c].from
        /\ offer.completed + offer.pending <= offer.slots /\ offer.pending > 0 /\ offer.completed < offer.slots
        /\ offer' = [offer EXCEPT !.status = P!StatusAfter, !.completed = @ + 1, !.pending = @ - 1]
        /\ taken' = [taken EXCEPT ![w] = "verified"] /\ earned' = earned + call[c].price
        /\ call' = [call EXCEPT ![c] = [at |-> "done"]]
        /\ UNCHANGED <<update, order, funded, returned, history>>
    BY <1>4 DEF P!Pay, P!CountersFit, P!InUse, P!Ends
  <2>w. w \in Takers /\ taken[w] \in {"assigned", "submitted"} /\ call[c].price \in Nat
    BY <1>0, <2>0, PlatformHolds DEF OfferShape
  <2>s. /\ P!StatusAfter \in P!Open \cup P!Closed
        /\ offer.completed + 1 >= offer.slots => P!StatusAfter \in P!Closed
        /\ offer.status = "CANCELLED" => P!StatusAfter = "CANCELLED"
    BY <1>n DEF P!StatusAfter, P!Open, P!Closed
  <2>f. /\ offer' \in OfferType /\ offer'.pending = offer.pending - 1 /\ offer'.completed = offer.completed + 1
        /\ offer'.pending \in Nat
        /\ offer'.status = P!StatusAfter /\ offer'.slots = offer.slots /\ offer'.price = offer.price /\ offer'.cost = offer.cost
    <3>1. PICK st \in P!Open \cup P!Closed : st = P!StatusAfter
      BY <2>s
    <3>2. offer' = [offer EXCEPT !.status = st, !.completed = @ + 1, !.pending = @ - 1]
      BY <2>0, <3>1
    <3>3. PICK i \in Nat, j \in Nat : i = offer.completed + 1 /\ j = offer.pending - 1
      BY <1>n, <2>0
    <3>4. offer' = [offer EXCEPT !.status = st, !.completed = i, !.pending = j]
      BY <3>2, <3>3
    <3>5. /\ offer' \in OfferType /\ offer'.pending = j /\ offer'.completed = i /\ offer'.status = st
          /\ offer'.slots = offer.slots /\ offer'.price = offer.price /\ offer'.cost = offer.cost
      BY <3>4, <1>n DEF OfferType
    <3> QED BY <3>1, <3>3, <3>5
  <2>c. /\ DOMAIN call' = Calls /\ (\A d \in Calls \ {c} : call'[d] = call[d]) /\ call'[c].at = "done"
    BY <1>0, <2>0 DEF OfferShape
  <2>1. OfferShape'
    BY <1>0, <1>n, <2>0, <2>f, <2>c, <2>w DEF OfferShape, Stages
  <2>2. OfferCounts'
    <3>1. /\ Cardinality(P!Holding') = Cardinality(P!Holding) - 1
          /\ Cardinality(P!Done') = Cardinality(P!Done) + 1
      BY <1>0, <2>0, <2>w, LetOff
    <3> QED BY <1>0, <1>n, <2>0, <2>f, <3>1, HoldingFinite DEF OfferCounts
  <2>3. OfferFits' /\ OfferCost' /\ Returns'
    BY <1>0, <1>n, <2>0, <2>f, <2>s DEF OfferFits, OfferCost, Returns
  <2>4. OfferPool'
    <3> SUFFICES ASSUME ~history.updated PROVE OfferPool'
      BY <2>0 DEF OfferPool
    <3>1. call[c].price = offer.price /\ earned = offer.completed * offer.price
      BY <1>0, <2>0 DEF OfferPool
    <3>2. /\ (offer.completed + 1) * offer.price = offer.completed * offer.price + offer.price
          /\ offer.pending * offer.price = (offer.pending - 1) * offer.price + offer.price
      BY <1>n
    <3>3. earned' = offer'.completed * offer'.price
      BY <2>0, <2>f, <3>1, <3>2
    <3>4. earned' + returned' + offer'.pending * offer'.price = earned + returned + offer.pending * offer.price
      <4>1. (offer.pending - 1) * offer.price \in Nat
        BY <2>f, <1>n
      <4> QED BY <1>n, <2>0, <2>f, <3>1, <3>2, <4>1
    <3> QED BY <1>0, <2>0, <2>f, <2>c, <3>3, <3>4 DEF OfferPool
  <2> QED BY <2>1, <2>2, <2>3, <2>4 DEF OfferInv
<1>5. ASSUME NEW c \in Calls, P!Submit(c) PROVE OfferInv'
  <2> DEFINE w == call[c].worker
  <2>0. /\ call[c].at = "read" /\ call[c].from = "assigned"
        /\ taken' = [taken EXCEPT ![w] = "submitted"]
        /\ history' = IF taken[w] \in {"verified", "rejected"}
                      THEN [history EXCEPT !.clobbered = @ \cup {w}] ELSE history
        /\ call' = [call EXCEPT ![c] = [at |-> "done"]]
        /\ UNCHANGED <<offer, update, order, funded, earned, returned>>
    BY <1>5 DEF P!Submit, P!Ends
  <2>w. w \in Takers /\ taken[w] # "none"
    BY <1>0, <2>0 DEF OfferShape
  <2>c. /\ DOMAIN call' = Calls /\ (\A d \in Calls \ {c} : call'[d] = call[d]) /\ call'[c].at = "done"
    BY <1>0, <2>0 DEF OfferShape
  <2>h. /\ history' \in HistoryType /\ history'.crossed = history.crossed /\ history'.tight = history.tight
        /\ history'.reopened = history.reopened /\ history'.updated = history.updated
        /\ taken[w] \in {"verified", "rejected"} => history'.clobbered # {}
        /\ taken[w] \notin {"verified", "rejected"} => history' = history
    BY <1>n, <2>0, <2>w DEF HistoryType
  <2>1. OfferShape'
    BY <1>0, <1>n, <2>0, <2>c, <2>h, <2>w DEF OfferShape, Stages
  <2>2. OfferCounts'
    <3>1. taken[w] \in {"assigned", "submitted"} => P!Holding' = P!Holding /\ P!Done' = P!Done
      BY <1>n, <2>0, <2>w DEF P!Holding, P!Done
    <3> QED BY <1>0, <1>n, <2>0, <2>h, <2>w, <3>1 DEF OfferCounts, Stages
  <2>3. OfferFits' /\ OfferCost' /\ Returns'
    BY <1>0, <2>0, <2>h DEF OfferFits, OfferCost, Returns
  <2>4. OfferPool'
    BY <1>0, <2>0, <2>h, <2>c DEF OfferPool
  <2> QED BY <2>1, <2>2, <2>3, <2>4 DEF OfferInv
<1>6. ASSUME NEW u \in Updates, P!UpdateRead(u) PROVE OfferInv'
  <2>0. UNCHANGED <<offer, taken, call, order, funded, earned, returned, history>>
    BY <1>6 DEF P!UpdateRead
  <2>1. PICK s \in Slots \cup {Kept}, p \in Prices \cup {Kept} :
          update' = [update EXCEPT ![u] = [at |-> "read", slots |-> s, price |-> p,
                                           seen |-> <<offer.slots, offer.price>>]]
    BY <1>6 DEF P!UpdateRead
  <2>2. OfferShape'
    <3>1. /\ DOMAIN update' = Updates /\ (\A d \in Updates \ {u} : update'[d] = update[d])
          /\ update'[u].slots = s /\ update'[u].price = p /\ update'[u].seen = <<offer.slots, offer.price>>
      BY <1>0, <2>1 DEF OfferShape
    <3> QED BY <1>0, <1>n, <2>0, <2>1, <3>1 DEF OfferShape
  <2> QED BY <1>0, <2>0, <2>2 DEF OfferInv, OfferCounts, OfferFits, OfferCost, Returns, OfferPool, P!Holding, P!Done
<1>7. ASSUME NEW u \in Updates, P!UpdateWrite(u) PROVE OfferInv'
  <2>0. /\ update[u].at = "read" /\ offer' = P!Updated(u)
        /\ update' = [update EXCEPT ![u] = [at |-> "done"]]
        /\ history' = [history EXCEPT !.updated = TRUE, !.crossed = update[u].seen # <<offer.slots, offer.price>>,
                         !.tight = IF update[u].slots = Kept THEN @ ELSE update[u].slots <= offer.completed + offer.pending]
        /\ UNCHANGED <<taken, call, order, funded, earned, returned>>
    BY <1>7 DEF P!UpdateWrite, P!InUse
  <2>p. PICK s, p, a, b : /\ s = P!Or(update[u].slots, offer.slots) /\ p = P!Or(update[u].price, offer.price)
                          /\ a = P!Or(update[u].slots, update[u].seen[1]) /\ b = P!Or(update[u].price, update[u].seen[2])
    OBVIOUS
  <2>r. /\ s \in Slots /\ p \in Prices /\ a \in Slots /\ b \in Prices
        /\ update[u].slots = Kept => s = offer.slots
        /\ update[u].slots # Kept => s = update[u].slots
        /\ update[u].seen = <<offer.slots, offer.price>> => a = s /\ b = p
    BY <1>0, <1>n, <2>0, <2>p DEF OfferShape, P!Or
  <2>m. a * b \in Nat /\ a \in Nat /\ b \in Nat /\ s \in Nat \ {0}
    <3>1. a \in Nat /\ b \in Nat /\ s \in Nat \ {0}
      BY <2>r, PlatformHolds
    <3> QED BY <3>1, Product
  <2>q. offer' = [offer EXCEPT !.slots = s, !.price = p, !.cost = a * b]
    BY <2>0, <2>p DEF P!Updated
  <2>f. /\ offer' \in OfferType /\ offer'.pending = offer.pending /\ offer'.completed = offer.completed
        /\ offer'.status = offer.status /\ offer'.slots = s /\ offer'.price = p /\ offer'.cost = a * b
    <3>1. PICK z \in Nat : z = a * b
      BY <2>m
    <3>2. offer' = [offer EXCEPT !.slots = s, !.price = p, !.cost = z]
      BY <2>q, <3>1
    <3> QED BY <3>2, <3>1, <2>r, <1>n DEF OfferType
  <2>h. /\ history' \in HistoryType /\ history'.updated /\ history'.reopened = history.reopened
        /\ history'.clobbered = history.clobbered
        /\ history'.crossed = (update[u].seen # <<offer.slots, offer.price>>)
        /\ update[u].slots = Kept => history'.tight = history.tight
        /\ update[u].slots # Kept => history'.tight = (s <= offer.completed + offer.pending)
    <3>1. PICK x \in BOOLEAN : x = (update[u].seen # <<offer.slots, offer.price>>)
      OBVIOUS
    <3>2. PICK y \in BOOLEAN :
            /\ y = (IF update[u].slots = Kept THEN history.tight ELSE update[u].slots <= offer.completed + offer.pending)
      <4>1. history.tight \in BOOLEAN
        BY <1>n DEF HistoryType
      <4>2. (update[u].slots <= offer.completed + offer.pending) \in BOOLEAN
        OBVIOUS
      <4> QED BY <4>1, <4>2
    <3>3. history' = [history EXCEPT !.updated = TRUE, !.crossed = x, !.tight = y]
      BY <2>0, <3>1, <3>2
    <3>4. history' \in HistoryType /\ history'.updated = TRUE /\ history'.reopened = history.reopened
          /\ history'.clobbered = history.clobbered /\ history'.crossed = x /\ history'.tight = y
      BY <1>n, <3>3 DEF HistoryType
    <3> QED BY <3>1, <3>2, <3>4, <2>r
  <2>1. OfferShape'
    <3>1. /\ DOMAIN update' = Updates /\ (\A d \in Updates \ {u} : update'[d] = update[d]) /\ update'[u].at = "done"
      BY <1>0, <2>0 DEF OfferShape
    <3> QED BY <1>0, <1>n, <2>0, <2>f, <2>h, <3>1 DEF OfferShape
  <2>2. OfferCounts' /\ Returns' /\ OfferPool'
    BY <1>0, <2>0, <2>f, <2>h DEF OfferCounts, Returns, OfferPool, P!Holding, P!Done
  <2>3. OfferFits'
    <3>1. CASE update[u].slots = Kept
      BY <1>0, <1>n, <2>f, <2>h, <2>r, <3>1 DEF OfferFits
    <3>2. CASE update[u].slots # Kept
      <4>1. history'.tight \/ s > offer.completed + offer.pending
        <5>1. ~(s <= offer.completed + offer.pending) => s > offer.completed + offer.pending
          BY <1>n, <2>m
        <5>2. history'.tight = (s <= offer.completed + offer.pending)
          BY <2>h, <3>2
        <5>3. ~history'.tight => ~(s <= offer.completed + offer.pending)
          BY <5>2, Zenon
        <5> QED BY <5>1, <5>3
      <4> QED BY <1>n, <2>f, <2>m, <4>1 DEF OfferFits
    <3> QED BY <3>1, <3>2
  <2>4. OfferCost'
    BY <2>f, <2>h, <2>r DEF OfferCost
  <2> QED BY <2>1, <2>2, <2>3, <2>4 DEF OfferInv
<1>8. ASSUME NEW o \in Orders, NEW to \in P!Open \cup {"CANCELLED"}, P!OrderRead(o, to) PROVE OfferInv'
  <2>0. /\ UNCHANGED <<offer, taken, call, update, funded, earned, returned, history>>
        /\ order' = [order EXCEPT ![o] = [at |-> "read", to |-> to]]
    BY <1>8 DEF P!OrderRead
  <2>2. OfferShape'
    <3>1. /\ DOMAIN order' = Orders /\ (\A d \in Orders \ {o} : order'[d] = order[d]) /\ order'[o].to = to
      BY <1>0, <2>0 DEF OfferShape
    <3> QED BY <1>0, <2>0, <3>1 DEF OfferShape, P!Closed
  <2> QED BY <1>0, <2>0, <2>2 DEF OfferInv, OfferCounts, OfferFits, OfferCost, Returns, OfferPool, P!Holding, P!Done
<1>9. ASSUME NEW o \in Orders, P!OrderWrite(o) PROVE OfferInv'
  <2>0. /\ order[o].at = "read" /\ offer' = [offer EXCEPT !.status = order[o].to]
        /\ order' = [order EXCEPT ![o] = [at |-> "done"]]
        /\ history' = [history EXCEPT !.reopened = @ \/ offer.status \in P!Closed]
        /\ UNCHANGED <<taken, call, update, funded, earned, returned>>
    BY <1>9 DEF P!OrderWrite
  <2>f. /\ offer' \in OfferType /\ offer'.pending = offer.pending /\ offer'.completed = offer.completed
        /\ offer'.status = order[o].to /\ offer'.slots = offer.slots /\ offer'.price = offer.price /\ offer'.cost = offer.cost
    <3>1. order[o].to \in P!Open \cup P!Closed
      BY <1>0, <2>0 DEF OfferShape
    <3> QED BY <2>0, <3>1, <1>n DEF OfferType
  <2>h. /\ history' \in HistoryType /\ history'.updated = history.updated
        /\ history'.reopened = (history.reopened \/ offer.status \in P!Closed)
        /\ history'.clobbered = history.clobbered /\ history'.crossed = history.crossed /\ history'.tight = history.tight
    <3>1. PICK x \in BOOLEAN : x = (history.reopened \/ offer.status \in P!Closed)
      OBVIOUS
    <3>2. history' = [history EXCEPT !.reopened = x]
      BY <2>0, <3>1
    <3> QED BY <3>1, <3>2, <1>n DEF HistoryType
  <2>1. OfferShape'
    <3>1. /\ DOMAIN order' = Orders /\ (\A d \in Orders \ {o} : order'[d] = order[d]) /\ order'[o].at = "done"
      BY <1>0, <2>0 DEF OfferShape
    <3> QED BY <1>0, <1>n, <2>0, <2>f, <2>h, <3>1 DEF OfferShape
  <2>2. OfferCounts' /\ OfferPool' /\ OfferCost'
    BY <1>0, <2>0, <2>f, <2>h DEF OfferCounts, OfferCost, OfferPool, P!Holding, P!Done
  <2>3. OfferFits' /\ Returns'
    BY <1>0, <1>n, <2>0, <2>f, <2>h DEF OfferFits, Returns, P!Closed
  <2> QED BY <2>1, <2>2, <2>3 DEF OfferInv
<1>10. ASSUME P!PauseForPlatform PROVE OfferInv'
  <2>0. /\ offer.status = "ACTIVE" /\ offer' = [offer EXCEPT !.status = "PAUSED"]
        /\ UNCHANGED <<taken, call, update, order, funded, earned, returned, history>>
    BY <1>10 DEF P!PauseForPlatform
  <2>f. /\ offer' \in OfferType /\ offer'.pending = offer.pending /\ offer'.completed = offer.completed
        /\ offer'.status = "PAUSED" /\ offer'.slots = offer.slots /\ offer'.price = offer.price /\ offer'.cost = offer.cost
    BY <2>0, <1>n DEF OfferType, P!Open
  <2>1. OfferShape'
    BY <1>0, <2>0, <2>f DEF OfferShape
  <2> QED
    BY <1>0, <2>0, <2>f, <2>1
    DEF OfferInv, OfferCounts, OfferFits, OfferCost, Returns, OfferPool, P!Holding, P!Done, P!Closed
<1>11. ASSUME P!Cancel PROVE OfferInv'
  <2>0. /\ offer.status \in P!Open /\ offer.completed + offer.pending <= offer.slots
        /\ P!Refund <= funded - returned /\ (funded = 0 => returned = 0)
        /\ offer' = [offer EXCEPT !.status = "CANCELLED"] /\ returned' = returned + P!Refund
        /\ UNCHANGED <<taken, call, update, order, funded, earned, history>>
    BY <1>11 DEF P!Cancel, P!CountersFit, P!InUse, P!Refundable
  <2>f. /\ offer' \in OfferType /\ offer'.pending = offer.pending /\ offer'.completed = offer.completed
        /\ offer'.status = "CANCELLED" /\ offer'.slots = offer.slots /\ offer'.price = offer.price /\ offer'.cost = offer.cost
    BY <2>0, <1>n DEF OfferType, P!Closed
  <2>p. PICK rest \in Nat : rest = offer.slots - (offer.completed + offer.pending)
    BY <1>n, <2>0
  <2>q. PICK r \in Nat : /\ r = P!Refund /\ (funded = 0 => r = 0) /\ (funded # 0 => r = rest * offer.price)
    <3>1. PICK x : x = rest * offer.price
      OBVIOUS
    <3>2. x \in Nat
      BY <3>1, <1>n, Product
    <3>3. P!Refund = IF funded = 0 THEN 0 ELSE x
      BY <3>1, <2>p DEF P!Refund, P!InUse
    <3> QED BY <3>1, <3>2, <3>3
  <2>r. returned' = returned + r /\ r <= funded - returned /\ returned' \in Nat /\ returned' <= funded
    <3>1. returned' = returned + r /\ r <= funded - returned
      BY <2>0, <2>q
    <3> QED BY <3>1, <1>n
  <2>1. OfferShape'
    BY <1>0, <2>0, <2>f, <2>r DEF OfferShape
  <2>2. OfferCounts' /\ OfferFits' /\ OfferCost' /\ Returns'
    BY <1>0, <2>0, <2>f, <2>r DEF OfferCounts, OfferFits, OfferCost, Returns, P!Holding, P!Done, P!Closed
  <2>3. OfferPool'
    <3> SUFFICES ASSUME ~history.updated, funded # 0, ~history.reopened
                 PROVE  earned + returned' + offer.pending * offer.price <= funded
      BY <1>0, <2>0, <2>f DEF OfferPool
    <3>1. funded = offer.slots * offer.price /\ earned = offer.completed * offer.price /\ returned = 0
      BY <1>0, <1>n, <2>0 DEF OfferPool, Returns, P!Open
    <3>2. offer.slots * offer.price = offer.completed * offer.price + offer.pending * offer.price + rest * offer.price
      <4>1. offer.slots = offer.completed + offer.pending + rest
        BY <1>n, <2>p
      <4>2. (offer.completed + offer.pending + rest) * offer.price
              = offer.completed * offer.price + offer.pending * offer.price + rest * offer.price
        BY <1>n
      <4> QED BY <4>1, <4>2
    <3> QED BY <1>n, <2>q, <2>r, <3>1, <3>2
  <2> QED BY <2>1, <2>2, <2>3 DEF OfferInv
<1>12. CASE UNCHANGED P!vars
  BY <1>0, <1>12
  DEF P!vars, OfferInv, OfferShape, OfferCounts, OfferFits, OfferCost, Returns, OfferPool, P!Holding, P!Done
<1> QED
  BY <1>1, <1>2, <1>3, <1>4, <1>5, <1>6, <1>7, <1>8, <1>9, <1>10, <1>11, <1>12 DEF P!Next

\* The row of a platform task adds up under updates of its slots and price (updatePlatformTask,
\* claimCompletionForVerification, resolveFundedRefund), for any slots, prices and calls.
THEOREM TaskCorrect == P!Spec => []TaskAddsUp
BY OfferInit, OfferStep, OfferAddsUp, PTL DEF P!Spec
=============================================================================
