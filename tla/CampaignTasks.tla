--------------------------- MODULE CampaignTasks ---------------------------
(* One funded campaign and the tasks done for it: assignTask, submitProof    *)
(* and recheckTask (tasks.service.ts), the reviews of the creator and of the *)
(* admins, update, cancel and cancelUserCampaign (campaigns.service.ts,      *)
(* admin.service.ts), over the campaign's row, its completions and its money.*)
(*                                                                           *)
(* submitProof and recheckTask read the completion, wait for the platform's  *)
(* API and only then write; update reads the campaign and then writes it.    *)
(* Everything else decides under the campaign's row lock or with a guarded   *)
(* UPDATE, so the reads before its transaction allow nothing more: one       *)
(* action each.  A transaction that throws leaves every row as it was.       *)
EXTENDS Integers, FiniteSets

CONSTANTS
  Workers,        \* users the campaign's tasks can be assigned to
  Proofs,         \* submitProof and recheckTask calls, one element per call
  Edits,          \* update calls that set a status, one element per call
  TotalSlots,     \* campaign.totalSlots
  CreditPerTask   \* campaign.creditPerTask

ASSUME CampaignAssumption ==
  /\ IsFiniteSet(Workers)
  /\ TotalSlots \in Nat \ {0}
  /\ CreditPerTask \in Nat \ {0}

VARIABLES
  campaign,    \* the campaigns row: status, completed and pending slots
  autoVerify,  \* campaign.autoVerify; never changes
  completion,  \* status of each worker's row in task_completions
  overdue,     \* whether the row's expiresAt has passed
  proof,       \* where each submitProof or recheckTask call stands
  edit,        \* where each update call stands
  payouts,     \* ledger: EARN_TASK_COMPLETION credits each worker was paid
  paid,        \* ledger: what they sum up to
  refunded,    \* ledger: REFUND_CAMPAIGN_CANCEL credits of the creator
  clobbered,   \* history: workers whose row a late proof overwrote
  reopened     \* history: an edit landed on a closed campaign

task == <<completion, overdue, payouts, paid>>
vars == <<campaign, autoVerify, proof, edit, refunded, clobbered, reopened, task>>

Closed == {"COMPLETED", "CANCELLED"}
Open == {"ACTIVE", "PAUSED"}

Pool == TotalSlots * CreditPerTask

Init ==
  /\ campaign = [status |-> "ACTIVE", completed |-> 0, pending |-> 0]
  /\ autoVerify \in BOOLEAN
  /\ completion = [w \in Workers |-> "none"]
  /\ overdue = [w \in Workers |-> FALSE]
  /\ proof \in [Proofs -> [at: {"new"}, op: {"submit", "recheck"}, worker: Workers]]
  /\ edit \in [Edits -> [at: {"new"}, to: Open]]
  /\ payouts = [w \in Workers |-> 0]
  /\ paid = 0 /\ refunded = 0
  /\ clobbered = {} /\ reopened = FALSE

-----------------------------------------------------------------------------
(* assignTask                                                                *)

\* Faulty: the UPDATE that claims the slot does not compare the counters.
\* (A faulty variant stands before the definition it would replace; the README
\* says which property rejects it.)
SlotAssumed == TRUE

SlotFree == campaign.pending + campaign.completed < TotalSlots

\* A second row for the same worker would violate the unique constraint.
Assign(w) ==
  /\ campaign.status = "ACTIVE" /\ SlotFree
  /\ completion[w] = "none"
  /\ campaign' = [campaign EXCEPT !.pending = @ + 1]
  /\ completion' = [completion EXCEPT ![w] = "assigned"]
  /\ UNCHANGED <<autoVerify, overdue, proof, edit, payouts, paid, refunded, clobbered, reopened>>

DeadlinePasses(w) ==
  /\ completion[w] = "assigned" /\ ~overdue[w]
  /\ overdue' = [overdue EXCEPT ![w] = TRUE]
  /\ UNCHANGED <<campaign, autoVerify, completion, proof, edit, payouts, paid, refunded,
                 clobbered, reopened>>

-----------------------------------------------------------------------------
(* claimCompletionForVerification and rejectCompletionAndReleaseSlot         *)

\* Faulty: the claim has no status predicate.
ClaimableAnyhow(w, from) == TRUE

Claimable(w, from) == completion[w] = from

CountersFit ==
  /\ campaign.completed >= 0 /\ campaign.pending >= 0
  /\ campaign.completed + campaign.pending <= TotalSlots

SlotPending == campaign.pending > 0

Verified ==
  [status |-> IF campaign.completed + 1 >= TotalSlots /\ campaign.status \in Open
              THEN "COMPLETED" ELSE campaign.status,
   completed |-> campaign.completed + 1, pending |-> campaign.pending - 1]

\* Claim the completion, move the slot from pending to completed, credit the worker.
Verify(w, from) ==
  /\ Claimable(w, from)
  /\ CountersFit /\ SlotPending /\ campaign.completed < TotalSlots
  /\ campaign' = Verified
  /\ completion' = [completion EXCEPT ![w] = "verified"]
  /\ payouts' = [payouts EXCEPT ![w] = @ + 1]
  /\ paid' = paid + CreditPerTask
  /\ UNCHANGED <<autoVerify, overdue, edit, refunded, clobbered, reopened>>

\* Faulty: a rejection keeps the slot.
ReleasedNothing == campaign

Released == [campaign EXCEPT !.pending = @ - 1]

\* reviewSubmission of the creator and of the admins.
Approve(w) == Verify(w, "submitted") /\ UNCHANGED proof

Reject(w) ==
  /\ Claimable(w, "submitted")
  /\ CountersFit /\ SlotPending
  /\ campaign' = Released
  /\ completion' = [completion EXCEPT ![w] = "rejected"]
  /\ UNCHANGED <<autoVerify, overdue, proof, edit, payouts, paid, refunded, clobbered, reopened>>

-----------------------------------------------------------------------------
(* submitProof and recheckTask                                               *)

Worker(p) == proof[p].worker

Moves(p, to) == proof' = [proof EXCEPT ![p].at = to]

Waits(p) == UNCHANGED <<campaign, autoVerify, edit, refunded, clobbered, reopened, task>>

Submittable(w) == completion[w] = "assigned" /\ ~overdue[w]

Begin(p) ==
  /\ proof[p].at = "new" /\ Submittable(Worker(p))
  /\ Moves(p, "api") /\ Waits(p)

\* verifyPlatformAction returns true.
Confirmed(p) ==
  /\ proof[p].at = "api"
  /\ Moves(p, "verify") /\ Waits(p)

\* It returns null (no linked account, API error) or false.
Unconfirmed(p) ==
  /\ proof[p].at = "api" /\ proof[p].op = "submit"
  /\ Moves(p, IF autoVerify THEN "verify" ELSE "manual") /\ Waits(p)

\* It throws, or a recheck gets no confirmation.
TurnedDown(p) ==
  /\ proof[p].at = "api"
  /\ Moves(p, "ended") /\ Waits(p)

AutoVerify(p) ==
  /\ proof[p].at = "verify" /\ Verify(Worker(p), "assigned")
  /\ Moves(p, "ended")

\* The claim, the counters or the wallet refuse: the transaction rolls back.
VerifyFails(p) ==
  /\ proof[p].at = "verify"
  /\ Moves(p, "ended") /\ Waits(p)

\* The UPDATE names the row by its id alone, whatever became of it meanwhile.
SubmitForReview(p) ==
  /\ proof[p].at = "manual"
  /\ completion' = [completion EXCEPT ![Worker(p)] = "submitted"]
  /\ clobbered' = IF completion[Worker(p)] \in {"verified", "rejected"}
                  THEN clobbered \cup {Worker(p)} ELSE clobbered
  /\ Moves(p, "ended")
  /\ UNCHANGED <<campaign, autoVerify, overdue, edit, payouts, paid, refunded, reopened>>

-----------------------------------------------------------------------------
(* update, pauseCampaignsForPlatform, cancel and cancelUserCampaign          *)

EditRead(e) ==
  /\ edit[e].at = "new" /\ campaign.status \in Open
  /\ edit' = [edit EXCEPT ![e].at = "write"]
  /\ UNCHANGED <<campaign, autoVerify, proof, refunded, clobbered, reopened, task>>

EditWrite(e) ==
  /\ edit[e].at = "write"
  /\ campaign' = [campaign EXCEPT !.status = edit[e].to]
  /\ edit' = [edit EXCEPT ![e].at = "ended"]
  /\ reopened' = (reopened \/ campaign.status \in Closed)
  /\ UNCHANGED <<autoVerify, proof, refunded, clobbered, task>>

PauseForPlatform ==
  /\ campaign.status = "ACTIVE"
  /\ campaign' = [campaign EXCEPT !.status = "PAUSED"]
  /\ UNCHANGED <<autoVerify, proof, edit, refunded, clobbered, reopened, task>>

\* Faulty: slots that are still being worked on are refunded too.
RefundOfPendingToo == (TotalSlots - campaign.completed) * CreditPerTask

Refund == (TotalSlots - campaign.completed - campaign.pending) * CreditPerTask

\* resolveFundedRefund: the funding debit less the fee and earlier refunds.
Refundable == Pool - refunded

Close ==
  /\ campaign.status \in Open /\ CountersFit
  /\ Refund <= Refundable
  /\ campaign' = [campaign EXCEPT !.status = "CANCELLED"]
  /\ refunded' = refunded + Refund
  /\ UNCHANGED <<autoVerify, proof, edit, clobbered, reopened, task>>

Cancel == (\A w \in Workers : completion[w] = "none") /\ Close

CancelUserCampaign == Close

Next ==
  \/ \E w \in Workers : Assign(w) \/ DeadlinePasses(w) \/ Approve(w) \/ Reject(w)
  \/ \E p \in Proofs : Begin(p) \/ Confirmed(p) \/ Unconfirmed(p) \/ TurnedDown(p)
                         \/ AutoVerify(p) \/ VerifyFails(p) \/ SubmitForReview(p)
  \/ \E e \in Edits : EditRead(e) \/ EditWrite(e)
  \/ PauseForPlatform \/ Cancel \/ CancelUserCampaign

Spec == Init /\ [][Next]_vars

-----------------------------------------------------------------------------
(* Properties                                                                *)

CampaignRow == [status: Open \cup Closed, completed: Nat, pending: Nat]

\* Every row keeps its columns' types; no counter is ever negative.
TypeOK ==
  /\ campaign \in CampaignRow
  /\ autoVerify \in BOOLEAN
  /\ completion \in [Workers -> {"none", "assigned", "submitted", "verified", "rejected"}]
  /\ overdue \in [Workers -> BOOLEAN]
  /\ proof \in [Proofs -> [at: {"new", "api", "verify", "manual", "ended"},
                           op: {"submit", "recheck"}, worker: Workers]]
  /\ edit \in [Edits -> [at: {"new", "write", "ended"}, to: Open]]
  /\ payouts \in [Workers -> Nat]
  /\ paid \in Nat /\ refunded \in Nat
  /\ clobbered \subseteq Workers /\ reopened \in BOOLEAN

\* However assignments, verifications, rejections and edits interleave, the
\* slots promised and the slots used never exceed the slots the creator funded.
NeverOversubscribed == CountersFit

Holding == {w \in Workers : completion[w] \in {"assigned", "submitted"}}
Done == {w \in Workers : completion[w] = "verified"}

\* The counters of the campaign's row are the completions they stand for: no
\* slot leaks and none is released twice, unless a late proof overwrote a row.
SlotsAreCompletions ==
  clobbered = {} => /\ campaign.pending = Cardinality(Holding)
                    /\ campaign.completed = Cardinality(Done)

\* A worker whose row no late proof overwrote is paid exactly if verified, and once,
\* whichever of submitProof, recheckTask and the reviews got to it.
PaidOnceIfVerified ==
  \A w \in Workers \ clobbered : payouts[w] = IF completion[w] = "verified" THEN 1 ELSE 0

\* The pot always covers the payouts, the refund and the slots still promised,
\* unless an edit reopened a closed campaign; the refund alone, even then.
PoolCovers ==
  /\ paid = campaign.completed * CreditPerTask
  /\ refunded <= Pool
  /\ ~reopened => paid + refunded + campaign.pending * CreditPerTask <= Pool

\* A payout or any other step never undoes a cancellation or a completion
\* (COMPLETION_TRANSITION_STATUSES); only an edit that raced it can.
ClosedStaysClosed ==
  [][campaign.status \in Closed => campaign'.status = campaign.status \/ reopened']_vars

\* The campaign's money is an escrow, at least until an edit reopens a closed campaign.
Pot == INSTANCE Escrow WITH Deposit <- Pool, held <- Pool - paid - refunded, returned <- refunded
ImplementsEscrow == Pot!Init /\ [][~reopened' => [Pot!Next]_(Pot!evars)]_vars

\* What the comment on claimCompletionForVerification says: a completion can
\* never pay out twice.
NeverPaidTwice == \A w \in Workers : payouts[w] <= 1
=============================================================================
