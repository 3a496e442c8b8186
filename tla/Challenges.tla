----------------------------- MODULE Challenges -----------------------------
(* A 1v1 challenge, from the offer its creator pays for to the settlement of *)
(* its reserve: claim, cancel, reviewSubmission and the sweepExpired cron of *)
(* challenges.service.ts, submitChallengeProof of tasks.service.ts and the   *)
(* admins' reviewChallengeSubmission.                                        *)
(*                                                                           *)
(* claim, submitChallengeProof and the sweep read first and write later, in  *)
(* a transaction whose guards are checked again; a transaction that throws   *)
(* leaves every row as it was.  The reviews and cancel allow no more for     *)
(* their earlier reads, which their guards repeat: one action each.          *)
EXTENDS Integers

CONSTANTS
  Users,     \* users other than the creator, one claim call each
  Nobody,    \* claimed_by_id of an unclaimed challenge
  Submits,   \* submitChallengeProof calls of the claimant
  Sweeps,    \* runs of sweepExpired that may overlap (cron every five minutes)
  Reward,    \* rewardCredits
  Fee        \* feeAmount

ASSUME ChallengeAssumption ==
  /\ Nobody \notin Users
  /\ Reward \in Nat \ {0}
  /\ Fee \in Nat

VARIABLES
  status,    \* challenges.status
  claimant,  \* challenges.claimed_by_id
  claim,     \* status of the challenge's row in task_completions
  late,      \* whether expiresAt, shared by the challenge and the claim, has passed
  claiming,  \* where each user's claim call stands
  submit,    \* where each submitChallengeProof call stands
  sweep,     \* what each sweep has selected
  earned,    \* EARN_TASK_COMPLETION credits of each user
  paid,      \* rewards credited and fees booked as platform revenue, in all
  refunded   \* REFUND_CHALLENGE_CLOSE credits of the creator

vars == <<status, claimant, claim, late, claiming, submit, sweep, earned, paid, refunded>>
rows == <<status, claimant, claim, earned, paid, refunded>>

Reserved == Reward + Fee   \* reservedCredits

Init ==
  /\ status = "OPEN" /\ claimant = Nobody /\ claim = "none"
  /\ late = FALSE
  /\ claiming = [u \in Users |-> "new"]
  /\ submit = [s \in Submits |-> "new"]
  /\ sweep = [s \in Sweeps |-> "idle"]
  /\ earned = [u \in Users |-> 0] /\ paid = 0 /\ refunded = 0

DeadlinePasses ==
  /\ ~late /\ late' = TRUE
  /\ UNCHANGED <<rows, claiming, submit, sweep>>

-----------------------------------------------------------------------------
(* claim and submitChallengeProof                                            *)

\* The time the conditional UPDATE compares with is taken here.
ClaimRead(u) ==
  /\ claiming[u] = "new" /\ status = "OPEN" /\ ~late
  /\ claiming' = [claiming EXCEPT ![u] = "write"]
  /\ UNCHANGED <<rows, late, submit, sweep>>

StillOpen == status = "OPEN"

ClaimWrite(u) ==
  /\ claiming[u] = "write"
  /\ claiming' = [claiming EXCEPT ![u] = "ended"]
  /\ IF StillOpen
     THEN /\ status' = "CLAIMED" /\ claimant' = u /\ claim' = "assigned"
          /\ UNCHANGED <<earned, paid, refunded>>
     ELSE UNCHANGED rows
  /\ UNCHANGED <<late, submit, sweep>>

SubmitRead(s) ==
  /\ submit[s] = "new" /\ status = "CLAIMED" /\ claim = "assigned" /\ ~late
  /\ submit' = [submit EXCEPT ![s] = "write"]
  /\ UNCHANGED <<rows, late, claiming, sweep>>

\* Faulty: the proof is attached by the completion's id alone.
AnyClaimSubmittable == TRUE

StillAssigned == claim = "assigned"

SubmitWrite(s) ==
  /\ submit[s] = "write"
  /\ submit' = [submit EXCEPT ![s] = "ended"]
  /\ claim' = IF StillAssigned THEN "submitted" ELSE claim
  /\ UNCHANGED <<status, claimant, earned, paid, refunded, late, claiming, sweep>>

-----------------------------------------------------------------------------
(* Closing the challenge: cancel, the reviews and the sweep                  *)

Cancellable == status = "OPEN"

Cancel ==
  /\ Cancellable
  /\ status' = "CANCELLED" /\ refunded' = refunded + Reserved
  /\ UNCHANGED <<claimant, claim, earned, paid, late, claiming, submit, sweep>>

\* By the creator or by an admin.
Approve ==
  /\ claim = "submitted" /\ status = "CLAIMED"
  /\ claim' = "verified" /\ status' = "COMPLETED"
  /\ earned' = [earned EXCEPT ![claimant] = @ + Reward]
  /\ paid' = paid + Reward + Fee
  /\ UNCHANGED <<claimant, refunded, late, claiming, submit, sweep>>

Reject ==
  /\ claim = "submitted" /\ status = "CLAIMED"
  /\ claim' = "rejected" /\ status' = "COMPLETED"
  /\ refunded' = refunded + Reserved
  /\ UNCHANGED <<claimant, earned, paid, late, claiming, submit, sweep>>

Expired == late /\ status = "OPEN"

\* Faulty: the sweep looks for unclaimed offers only.
NeverAbandoned == FALSE

Abandoned == late /\ status = "CLAIMED" /\ claim = "assigned"

Select(s) ==
  /\ sweep[s] = "idle"
  /\ \/ Expired /\ sweep' = [sweep EXCEPT ![s] = "expired"]
     \/ Abandoned /\ sweep' = [sweep EXCEPT ![s] = "abandoned"]
  /\ UNCHANGED <<rows, late, claiming, submit>>

\* Faulty: closeWithoutAward closes from any state.
CloseStale == TRUE

CloseExpiredOnly == Expired

Finish(s) ==
  /\ sweep' = [sweep EXCEPT ![s] = "idle"]
  /\ UNCHANGED <<claimant, earned, paid, late, claiming, submit>>

\* closeWithoutAward: writes and refunds nothing if the offer was taken meanwhile.
CloseOffer(s) ==
  /\ sweep[s] = "expired" /\ Finish(s)
  /\ IF CloseExpiredOnly
     THEN status' = "EXPIRED" /\ refunded' = refunded + Reserved
     ELSE UNCHANGED <<status, refunded>>
  /\ UNCHANGED claim

\* The claim expires; the reserve goes back only if the challenge was claimed
\* still, and if not the transaction commits without it.
CloseAbandoned(s) ==
  /\ sweep[s] = "abandoned" /\ Finish(s)
  /\ claim' = IF claim = "assigned" THEN "expired" ELSE claim
  /\ IF claim = "assigned" /\ status = "CLAIMED"
     THEN status' = "EXPIRED" /\ refunded' = refunded + Reserved
     ELSE UNCHANGED <<status, refunded>>

\* The transaction throws; the sweep logs it and the next run selects again.
CloseFails(s) ==
  /\ sweep[s] # "idle" /\ Finish(s)
  /\ UNCHANGED <<status, claim, refunded>>

Next ==
  \/ DeadlinePasses \/ Cancel \/ Approve \/ Reject
  \/ \E u \in Users : ClaimRead(u) \/ ClaimWrite(u)
  \/ \E s \in Submits : SubmitRead(s) \/ SubmitWrite(s)
  \/ \E s \in Sweeps : Select(s) \/ CloseOffer(s) \/ CloseAbandoned(s) \/ CloseFails(s)

Spec == Init /\ [][Next]_vars

\* The clock runs, the cron keeps starting, a call that began returns, and a
\* closing that is tried again and again does not fail every time: a conflict
\* on the creator's wallet needs another write of it to win.
Fairness ==
  /\ WF_vars(DeadlinePasses)
  /\ \A s \in Sweeps : /\ WF_vars(Select(s))
                       /\ SF_vars(CloseOffer(s)) /\ SF_vars(CloseAbandoned(s))

FairSpec == Spec /\ Fairness

-----------------------------------------------------------------------------
(* Properties                                                                *)

\* Every row keeps its columns' types, and the reserve only moves as a whole.
TypeOK ==
  /\ status \in {"OPEN", "CLAIMED", "COMPLETED", "CANCELLED", "EXPIRED"}
  /\ claimant \in Users \cup {Nobody}
  /\ claim \in {"none", "assigned", "submitted", "verified", "rejected", "expired"}
  /\ late \in BOOLEAN
  /\ claiming \in [Users -> {"new", "write", "ended"}]
  /\ submit \in [Submits -> {"new", "write", "ended"}]
  /\ sweep \in [Sweeps -> {"idle", "expired", "abandoned"}]
  /\ earned \in [Users -> {0, Reward}]
  /\ paid \in {0, Reserved} /\ refunded \in {0, Reserved}

\* The challenge and its completion are in matching states: in particular a
\* proof never hangs on a refunded challenge, and the sweep never expires a
\* claim without closing the challenge and returning its reserve.
StatusesAgree ==
  /\ claim = "none" <=> claimant = Nobody
  /\ claim = "none" <=> status = "OPEN" \/ status = "CANCELLED"
                          \/ (status = "EXPIRED" /\ claimant = Nobody)
  /\ claim \in {"assigned", "submitted"} <=> status = "CLAIMED"
  /\ claim \in {"verified", "rejected"} <=> status = "COMPLETED"
  /\ claim = "expired" => status = "EXPIRED"

\* The reserve is settled exactly once: to the claimant and the platform if the
\* work was verified, back to the creator on any other close, and not before.
SettledOnce ==
  /\ refunded = IF status \in {"CANCELLED", "EXPIRED"} \/ claim = "rejected"
                THEN Reserved ELSE 0
  /\ paid = IF claim = "verified" THEN Reserved ELSE 0
  /\ \A u \in Users : earned[u] = IF claim = "verified" /\ u = claimant THEN Reward ELSE 0

\* However many users claim at once, the first is the only one.
OneClaimant == [][claimant # Nobody => claimant' = claimant]_vars

Closed == status \in {"COMPLETED", "CANCELLED", "EXPIRED"}

\* A closed challenge stays as it is: no claim, proof, review or sweep that was
\* under way when it closed touches its rows or its money.
ClosedIsFinal ==
  [][Closed => rows' = rows]_vars

\* The reserve of an offer nobody took or a claim nobody worked on does not stay
\* locked: after the deadline the sweep closes it, unless a proof came in.
DeadlineFreesReserve ==
  [](late /\ (status = "OPEN" \/ claim = "assigned")
       => <>(Closed \/ claim = "submitted"))

\* The reserve is an escrow.
Pot == INSTANCE Escrow WITH Deposit <- Reserved, held <- Reserved - paid - refunded,
                            returned <- refunded
ImplementsEscrow == Pot!Spec
=============================================================================
