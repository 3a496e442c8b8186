-------------------------- MODULE ChallengesProofs --------------------------
(* Proofs about Challenges.tla, for every set of users, calls and sweeps and *)
(* every reward and fee.                                                     *)
EXTENDS Challenges, TLAPS

\* The three together are inductive: the guards of each transaction, together
\* with the matching of the two rows, leave room for one settlement only.
IInv == TypeOK /\ StatusesAgree /\ SettledOnce

LEMMA ReservedNat == Reserved \in Nat /\ Reserved = Reward + Fee /\ Reserved > 0
BY ChallengeAssumption DEF Reserved

LEMMA IInvInit == Init => IInv
<1> SUFFICES ASSUME Init PROVE IInv
  OBVIOUS
<1>1. TypeOK
  BY DEF Init, TypeOK
<1>2. StatusesAgree
  BY DEF Init, StatusesAgree
<1>3. SettledOnce
  BY DEF Init, SettledOnce
<1> QED BY <1>1, <1>2, <1>3 DEF IInv

LEMMA IInvStep == IInv /\ [Next]_vars => IInv'
<1> SUFFICES ASSUME IInv, [Next]_vars PROVE IInv'
  OBVIOUS
<1> USE ChallengeAssumption, ReservedNat DEF IInv, TypeOK, StatusesAgree, SettledOnce
<1>1. CASE DeadlinePasses
  BY <1>1 DEF DeadlinePasses, rows
<1>2. CASE Cancel
  BY <1>2 DEF Cancel, Cancellable
<1>3. CASE Approve
  BY <1>3 DEF Approve
<1>4. CASE Reject
  BY <1>4 DEF Reject
<1>5. ASSUME NEW u \in Users, ClaimRead(u) PROVE IInv'
  BY <1>5 DEF ClaimRead, rows
<1>6. ASSUME NEW u \in Users, ClaimWrite(u) PROVE IInv'
  <2>1. CASE StillOpen
    BY <1>6, <2>1 DEF ClaimWrite, StillOpen
  <2>2. CASE ~StillOpen
    BY <1>6, <2>2 DEF ClaimWrite, rows
  <2> QED BY <2>1, <2>2
<1>7. ASSUME NEW s \in Submits, SubmitRead(s) PROVE IInv'
  BY <1>7 DEF SubmitRead, rows
<1>8. ASSUME NEW s \in Submits, SubmitWrite(s) PROVE IInv'
  BY <1>8 DEF SubmitWrite, StillAssigned
<1>9. ASSUME NEW s \in Sweeps, Select(s) PROVE IInv'
  BY <1>9 DEF Select, rows
<1>10. ASSUME NEW s \in Sweeps, CloseOffer(s) PROVE IInv'
  BY <1>10 DEF CloseOffer, CloseExpiredOnly, Expired, Finish
<1>11. ASSUME NEW s \in Sweeps, CloseAbandoned(s) PROVE IInv'
  <2>1. CASE claim = "assigned"
    BY <1>11, <2>1 DEF CloseAbandoned, Finish
  <2>2. CASE claim # "assigned"
    BY <1>11, <2>2 DEF CloseAbandoned, Finish
  <2> QED BY <2>1, <2>2
<1>12. ASSUME NEW s \in Sweeps, CloseFails(s) PROVE IInv'
  BY <1>12 DEF CloseFails, Finish
<1>13. CASE UNCHANGED vars
  BY <1>13 DEF vars
<1> QED
  BY <1>1, <1>2, <1>3, <1>4, <1>5, <1>6, <1>7, <1>8, <1>9, <1>10, <1>11, <1>12, <1>13 DEF Next

LEMMA Invariant == Spec => []IInv
<1>1. Init => IInv BY IInvInit
<1>2. IInv /\ [Next]_vars => IInv' BY IInvStep
<1> QED BY <1>1, <1>2, PTL DEF Spec

\* Every row keeps its type.
THEOREM TypeCorrect == Spec => []TypeOK
<1>1. IInv => TypeOK BY DEF IInv
<1> QED BY <1>1, Invariant, PTL

\* A challenge and its completion never get out of step, whatever claims,
\* proofs, reviews and sweeps interleave.
THEOREM StatusesAgreeCorrect == Spec => []StatusesAgree
<1>1. IInv => StatusesAgree BY DEF IInv
<1> QED BY <1>1, Invariant, PTL

\* The reserve is settled once, in full, and to the right party.
THEOREM SettledOnceCorrect == Spec => []SettledOnce
<1>1. IInv => SettledOnce BY DEF IInv
<1> QED BY <1>1, Invariant, PTL

\* Nobody replaces the first claimant.
THEOREM OneClaimantCorrect == Spec => OneClaimant
<1>1. IInv /\ [Next]_vars => [claimant # Nobody => claimant' = claimant]_vars
  BY DEF IInv, StatusesAgree, Next, DeadlinePasses, Cancel, Approve, Reject, ClaimRead, ClaimWrite,
         StillOpen, SubmitRead, SubmitWrite, Select, CloseOffer, CloseAbandoned, CloseFails,
         Finish, rows
<1> QED BY <1>1, Invariant, PTL DEF Spec, OneClaimant

\* Nothing that was under way when the challenge closed changes it afterwards.
THEOREM ClosedIsFinalCorrect == Spec => ClosedIsFinal
<1> DEFINE Final == Closed => rows' = rows
<1>1. IInv /\ [Next]_vars => [Final]_vars
  <2> SUFFICES ASSUME IInv, Next, Closed PROVE rows' = rows
    OBVIOUS
  <2>1. /\ status # "OPEN" /\ status # "CLAIMED"
        /\ claim # "assigned" /\ claim # "submitted"
    BY DEF Closed, IInv, StatusesAgree
  <2> QED
    BY <2>1 DEF Next, DeadlinePasses, Cancel, Cancellable, Approve, Reject, ClaimRead, ClaimWrite,
         StillOpen, SubmitRead, SubmitWrite, StillAssigned, Select, CloseOffer, CloseExpiredOnly,
         Expired, CloseAbandoned, CloseFails, Finish, rows
<1> HIDE DEF Final
<1>2. Spec => [][Final]_vars
  BY <1>1, Invariant, PTL DEF Spec
<1> QED BY <1>2 DEF Final, ClosedIsFinal

\* The reserve is an escrow: what leaves it is what was put in, once.
THEOREM EscrowCorrect == Spec => ImplementsEscrow
<1>1. Init => Pot!Init
  BY ReservedNat DEF Init, Pot!Init
<1>2. IInv /\ [Next]_vars => [Pot!Next]_(Pot!evars)
  <2> SUFFICES ASSUME IInv, [Next]_vars
               PROVE  Pot!Next \/ UNCHANGED <<Reserved - paid - refunded, paid, refunded>>
    BY DEF Pot!evars
  <2>1. paid \in Nat /\ refunded \in Nat /\ Reserved' = Reserved
    BY ReservedNat DEF IInv, TypeOK, Reserved
  <2>2. ASSUME UNCHANGED <<paid, refunded>>
        PROVE  UNCHANGED <<Reserved - paid - refunded, paid, refunded>>
    BY <2>1, <2>2
  <2>3. ASSUME paid = 0, refunded = 0, paid' = 0, refunded' = refunded + Reserved PROVE Pot!Next
    <3>1. Reserved \in 1 .. (Reserved - paid - refunded)
      BY <2>3, ReservedNat
    <3>2. Pot!Return(Reserved)
      BY <2>1, <2>3, ReservedNat DEF Pot!Return
    <3> QED BY <3>1, <3>2 DEF Pot!Next
  <2>4. ASSUME paid = 0, refunded = 0, refunded' = 0, paid' = paid + Reward + Fee PROVE Pot!Next
    <3>1. Reserved \in 1 .. (Reserved - paid - refunded)
      BY <2>4, ReservedNat
    <3>2. Pot!Pay(Reserved)
      BY <2>1, <2>4, ReservedNat, ChallengeAssumption DEF Pot!Pay
    <3> QED BY <3>1, <3>2 DEF Pot!Next
  <2>5. status \in {"OPEN", "CLAIMED"} => paid = 0 /\ refunded = 0
    BY DEF IInv, StatusesAgree, SettledOnce
  <2>6. CASE Cancel \/ Reject
    BY <2>3, <2>5, <2>6 DEF Cancel, Cancellable, Reject
  <2>7. CASE Approve
    BY <2>4, <2>5, <2>7 DEF Approve
  <2>8. ASSUME NEW s \in Sweeps, CloseOffer(s) \/ CloseAbandoned(s)
        PROVE  \/ Pot!Next
               \/ UNCHANGED <<Reserved - paid - refunded, paid, refunded>>
    BY <2>2, <2>3, <2>5, <2>8
    DEF CloseOffer, CloseExpiredOnly, Expired, CloseAbandoned, Finish
  <2>9. ASSUME NEW u \in Users, ClaimRead(u) \/ ClaimWrite(u) PROVE UNCHANGED <<paid, refunded>>
    BY <2>9 DEF ClaimRead, ClaimWrite, rows
  <2>10. ASSUME NEW s \in Submits, SubmitRead(s) \/ SubmitWrite(s)
         PROVE  UNCHANGED <<paid, refunded>>
    BY <2>10 DEF SubmitRead, SubmitWrite, rows
  <2>11. ASSUME NEW s \in Sweeps, Select(s) \/ CloseFails(s) PROVE UNCHANGED <<paid, refunded>>
    BY <2>11 DEF Select, CloseFails, Finish, rows
  <2>12. CASE DeadlinePasses \/ UNCHANGED vars
    BY <2>2, <2>12 DEF DeadlinePasses, vars, rows
  <2> QED
    BY <2>2, <2>6, <2>7, <2>8, <2>9, <2>10, <2>11, <2>12 DEF Next
<1> QED
  BY <1>1, <1>2, Invariant, PTL DEF Spec, ImplementsEscrow, Pot!Spec

\* The promise of the escrow: no sequence of payments and returns overdraws the pot or
\* loses some of it.
LEMMA Promise == Pot!Spec => []Pot!Conserved
<1> DEFINE Inv == /\ Reserved - paid - refunded \in Nat /\ paid \in Nat /\ refunded \in Nat
                  /\ Pot!Conserved
<1>1. Pot!Init => Inv
  BY ReservedNat DEF Pot!Init, Pot!Conserved
<1>2. Inv /\ [Pot!Next]_(Pot!evars) => Inv'
  <2> SUFFICES ASSUME Inv, [Pot!Next]_(Pot!evars) PROVE Inv'
    OBVIOUS
  <2>1. ASSUME NEW n \in 1 .. Reserved - paid - refunded, Pot!Pay(n) \/ Pot!Return(n) PROVE Inv'
    BY <2>1, ReservedNat DEF Pot!Pay, Pot!Return, Pot!Conserved
  <2>2. CASE UNCHANGED Pot!evars
    BY <2>2 DEF Pot!evars, Pot!Conserved
  <2> QED BY <2>1, <2>2 DEF Pot!Next
<1>3. Inv => Pot!Conserved
  OBVIOUS
<1> HIDE DEF Inv
<1> QED
  BY <1>1, <1>2, <1>3, PTL DEF Pot!Spec

\* Whatever create set aside for a challenge is there, was paid or came back
\* (reviewSubmission, cancel, sweepExpired).
THEOREM Conservation == Spec => []Pot!Conserved
BY EscrowCorrect, Promise, PTL DEF ImplementsEscrow
=============================================================================
