----------------------- MODULE ProviderDepositsProofs -----------------------
(* Every safety property of ProviderDeposits, for any number of creations,   *)
(* captures, deliveries, cancels and reviews that overlap.                   *)
EXTENDS ProviderDeposits, TLAPS

\* What a call that is under way knows, however long ago it learned it: a creation
\* has not made its checkout yet, a capture calls PayPal after the deposit left
\* PENDING, and what is about to be credited has been paid in full.  Neither of the
\* last two is ever undone.
CallsKnow ==
  /\ \A c \in Creates : create[c] # "done" => order[c].state = "none"
  /\ \A k \in Captures :
       /\ capture[k].at # "idle" => method = "paypal"
       /\ capture[k].at \in {"call", "look", "settle"} => status # "PENDING"
       /\ capture[k].at = "settle" => PaidInFull(capture[k].of)
  /\ \A w \in Hooks : hook[w].at = "complete" => PaidInFull(hook[w].of)

Inv ==
  /\ TypeOK /\ CallsKnow
  /\ CompletedMeansCredited /\ CreditMeansPaid /\ PayableIsStored /\ CapturedMeansClaimed

USE DEF row, provider, calls, ledger, Open, Rejected, Statuses

LEMMA CreateStepKeeps ==
  ASSUME Inv, NEW c \in Creates, CreateStep(c)
  PROVE  Inv'
<1> USE ProviderAssumption DEF Inv, CallsKnow, CompletedMeansCredited, CreditMeansPaid,
      CapturedMeansClaimed, Captured, PaidInFull
<1>1. ASSUME CreateClaim(c)
      PROVE  Inv'
  <2>1. TypeOK'
    BY <1>1 DEF CreateClaim, TypeOK, Refs, ClaimBy
  <2>2. PayableIsStored'
    <3>1. \A d \in Creates : ref # Checkout(d)
      BY <1>1 DEF CreateClaim, Claimable, Nothing, Checkout
    <3> QED BY <1>1, <3>1 DEF CreateClaim, PayableIsStored, Given
  <2> QED BY <1>1, <2>1, <2>2 DEF CreateClaim
<1>2. ASSUME CreateFails(c)
      PROVE  Inv'
  BY <1>2 DEF CreateFails, TypeOK, Refs, PayableIsStored, Given, ClaimBy, Checkout
<1>3. ASSUME NEW fits \in BOOLEAN, CreatePersist(c, fits)
      PROVE  Inv'
  <2>1. CASE ~StillOwned(c)
    BY <1>3, <2>1 DEF CreatePersist, TypeOK, PayableIsStored, Given
  <2>2. CASE StillOwned(c)
    <3> DEFINE made == [state |-> "open", fits |-> fits]
    <3>1. /\ made \in [state: OrderStates, fits: BOOLEAN] /\ made.state = "open"
          /\ Checkout(c) \in Refs
      BY DEF OrderStates, Refs, Checkout
    <3>2. /\ order' = [order EXCEPT ![c] = made] /\ create' = [create EXCEPT ![c] = "done"]
          /\ ref' = Checkout(c) /\ url' = c /\ stale' = FALSE
          /\ UNCHANGED <<method, status, owed, capture, hook, decline, expiry, cancel, review, ledger>>
      BY <1>3, <2>2 DEF CreatePersist
    <3>3. create[c] = "call"
      BY <1>3 DEF CreatePersist
    <3> HIDE DEF made
    <3>4. TypeOK'
      BY <3>1, <3>2 DEF TypeOK
    <3>5. status \in Open \cup {"CANCELLED"} => Given = {}
      BY <2>2 DEF StillOwned, ClaimBy, Checkout, PayableIsStored
    <3>6. PayableIsStored'
      BY <3>5, <3>2 DEF PayableIsStored, Given, TypeOK
    <3>7. CallsKnow' /\ CreditMeansPaid' /\ CapturedMeansClaimed'
      BY <3>1, <3>2, <3>3 DEF TypeOK
    <3> QED BY <3>4, <3>6, <3>7, <3>2
  <2> QED BY <2>1, <2>2
<1> QED BY <1>1, <1>2, <1>3 DEF CreateStep

LEMMA ProviderStepKeeps ==
  ASSUME Inv, NEW c \in Creates, ProviderStep(c)
  PROVE  Inv'
<1> USE ProviderAssumption DEF Inv, TypeOK, CallsKnow, CompletedMeansCredited, CreditMeansPaid,
        PayableIsStored, Given, CapturedMeansClaimed, Captured, PaidInFull, OrderStates
<1>1. ASSUME PayerPays(c)
      PROVE  Inv'
  BY <1>1 DEF PayerPays
<1>2. ASSUME PayerApproves(c)
      PROVE  Inv'
  BY <1>2 DEF PayerApproves
<1>3. ASSUME OrderDies(c)
      PROVE  Inv'
  BY <1>3 DEF OrderDies
<1>4. ASSUME NEW s \in {"paid", "denied"}, HeldResolved(c, s)
      PROVE  Inv'
  BY <1>4 DEF HeldResolved
<1> QED BY <1>1, <1>2, <1>3, <1>4 DEF ProviderStep

LEMMA EventStepKeeps ==
  ASSUME Inv, NEW c \in Creates, EventStep(c)
  PROVE  Inv'
<1> USE ProviderAssumption DEF Inv, TypeOK, CallsKnow, CompletedMeansCredited, CreditMeansPaid,
        PayableIsStored, Given, CapturedMeansClaimed, Captured, PaidInFull
<1>1. ASSUME HookIgnored(c)
      PROVE  Inv'
  BY <1>1 DEF HookIgnored
<1>2. ASSUME CaptureCompleted(c)
      PROVE  Inv'
  BY <1>2 DEF CaptureCompleted, Verified, Settleable, Complete, Checkout
<1>3. ASSUME ClosedByEvent(c)
      PROVE  Inv'
  BY <1>3 DEF ClosedByEvent, Closes
<1>4. ASSUME NEW w \in Hooks, HookClaim(w, c)
      PROVE  Inv'
  BY <1>4 DEF HookClaim, PaidClaimable, Matches
<1> QED BY <1>1, <1>2, <1>3, <1>4 DEF EventStep

LEMMA HookStepKeeps ==
  ASSUME Inv, NEW w \in Hooks, HookStep(w)
  PROVE  Inv'
<1> USE ProviderAssumption DEF Inv, TypeOK, CallsKnow, CompletedMeansCredited, CreditMeansPaid,
        PayableIsStored, Given, CapturedMeansClaimed, Captured, PaidInFull
<1>1. ASSUME HookComplete(w)
      PROVE  Inv'
  BY <1>1 DEF HookComplete, Settleable, Complete, Payment, Refs, Idle
<1>2. ASSUME HookFails(w)
      PROVE  Inv'
  BY <1>2 DEF HookFails, Idle
<1> QED BY <1>1, <1>2 DEF HookStep

LEMMA CaptureStepKeeps ==
  ASSUME Inv, NEW k \in Captures, CaptureStep(k)
  PROVE  Inv'
<1> USE ProviderAssumption DEF Inv, TypeOK, CallsKnow, CompletedMeansCredited, CreditMeansPaid,
        PayableIsStored, Given, CapturedMeansClaimed, Captured, PaidInFull
<1>1. ASSUME CaptureClaim(k)
      PROVE  Inv'
  BY <1>1 DEF CaptureClaim, Idle
<1>2. ASSUME CaptureLook(k)
      PROVE  Inv'
  BY <1>2 DEF CaptureLook, Verified, Idle
<1>3. ASSUME CaptureSettle(k)
      PROVE  Inv'
  BY <1>3 DEF CaptureSettle, Settleable, Complete, Checkout, Refs, Idle
<1>4. ASSUME CaptureFails(k)
      PROVE  Inv'
  BY <1>4 DEF CaptureFails, Idle
<1>5. ASSUME NEW c \in Creates, CaptureRead(k, c)
      PROVE  Inv'
  BY <1>5 DEF CaptureRead, AfterRead, Idle
<1>6. ASSUME NEW s \in {"paid", "held"}, CaptureCall(k, s)
      PROVE  Inv'
  BY <1>6 DEF CaptureCall, OrderStates, Idle
<1> QED BY <1>1, <1>2, <1>3, <1>4, <1>5, <1>6 DEF CaptureStep

LEMMA CancelStepKeeps ==
  ASSUME Inv, NEW n \in Cancels, CancelStep(n)
  PROVE  Inv'
<1> USE ProviderAssumption DEF Inv, TypeOK, CallsKnow, CompletedMeansCredited, CreditMeansPaid,
        PayableIsStored, Given, CapturedMeansClaimed, Captured, PaidInFull
<1>1. ASSUME CancelRead(n)
      PROVE  Inv'
  BY <1>1 DEF CancelRead
<1>2. ASSUME CancelWrite(n)
      PROVE  Inv'
  BY <1>2 DEF CancelWrite, Cancellable
<1>3. ASSUME CancelNote(n)
      PROVE  Inv'
  BY <1>3 DEF CancelNote
<1> QED BY <1>1, <1>2, <1>3 DEF CancelStep

LEMMA ReviewStepKeeps ==
  ASSUME Inv, NEW r \in Reviews, ReviewStep(r)
  PROVE  Inv'
<1> USE ProviderAssumption DEF Inv, TypeOK, CallsKnow, CompletedMeansCredited, CreditMeansPaid,
        PayableIsStored, Given, CapturedMeansClaimed, Captured, PaidInFull
<1>1. ASSUME ReviewRead(r)
      PROVE  Inv'
  BY <1>1 DEF ReviewRead
<1>2. ASSUME NEW given \in BOOLEAN, ReviewApproves(r, given)
      PROVE  Inv'
  BY <1>2 DEF ReviewApproves, Reviewed, Settleable, Complete, Manual, Nothing, Refs
<1>3. ASSUME NEW given \in BOOLEAN, NEW s \in Rejected, ReviewRejects(r, s, given)
      PROVE  Inv'
  BY <1>3 DEF ReviewRejects, Reviewed, Reject, Manual, Nothing, Refs
<1> QED BY <1>1, <1>2, <1>3 DEF ReviewStep

LEMMA ClaimGoesStaleKeeps == Inv /\ ClaimGoesStale => Inv'
  BY ProviderAssumption DEF Inv, TypeOK, CallsKnow, CompletedMeansCredited, CreditMeansPaid,
        PayableIsStored, Given, CapturedMeansClaimed, Captured, PaidInFull, ClaimGoesStale

LEMMA DeclineStepKeeps ==
  ASSUME Inv, DeclineStep
  PROVE  Inv'
<1> USE ProviderAssumption DEF Inv, TypeOK, CallsKnow, CompletedMeansCredited, CreditMeansPaid,
        PayableIsStored, Given, CapturedMeansClaimed, Captured, PaidInFull
<1>1. CASE DeclineRead
  BY <1>1 DEF DeclineRead
<1>2. CASE DeclineWrite
  BY <1>2 DEF DeclineWrite, Reject
<1> QED BY <1>1, <1>2 DEF DeclineStep

LEMMA ExpiryStepKeeps ==
  ASSUME Inv, ExpiryStep
  PROVE  Inv'
<1> USE ProviderAssumption DEF Inv, TypeOK, CallsKnow, CompletedMeansCredited, CreditMeansPaid,
        PayableIsStored, Given, CapturedMeansClaimed, Captured, PaidInFull
<1>1. CASE ExpiryRead
  BY <1>1 DEF ExpiryRead
<1>2. CASE ExpiryWrite
  BY <1>2 DEF ExpiryWrite
<1>3. CASE SessionExpires
  BY <1>3 DEF SessionExpires
<1>4. CASE PayPalExpires
  BY <1>4 DEF PayPalExpires
<1> QED BY <1>1, <1>2, <1>3, <1>4 DEF ExpiryStep

LEMMA InvInit == Init => Inv
<1> SUFFICES ASSUME Init
             PROVE  Inv
  OBVIOUS
<1> USE ProviderAssumption DEF Init
<1>1. TypeOK
  <2>1. /\ Nothing \in Refs /\ order \in [Creates -> [state: OrderStates, fits: BOOLEAN]]
        /\ cancel \in [Cancels -> [at: {"new", "write", "note", "done"}, url: Creates \cup {None}]]
    BY DEF Refs, OrderStates
  <2>2. review \in [Reviews -> [at: {"new", "write", "done"}, ref: Refs]]
    BY <2>1
  <2>3. /\ capture \in [Captures -> {Idle} \cup [at: {"claim", "call", "look", "settle"}, of: Creates]]
        /\ hook \in [Hooks -> {Idle} \cup [at: {"complete"}, of: Creates]]
    OBVIOUS
  <2>4. /\ method \in {"paymongo", "paypal"} /\ status \in Statuses /\ ref \in Refs
        /\ url \in Creates \cup {None} /\ owed \subseteq Creates
        /\ create \in [Creates -> {"new", "call", "done"}]
    BY <2>1
  <2>5. /\ decline \in {"idle", "write"} /\ expiry \in {"idle", "write"} /\ credits \in 0 .. 1
    OBVIOUS
  <2>6. stale \in BOOLEAN /\ approved \in BOOLEAN /\ overruled \in BOOLEAN
    OBVIOUS
  <2> QED BY <2>1, <2>2, <2>3, <2>4, <2>5, <2>6 DEF TypeOK
<1>2. CallsKnow
  BY DEF CallsKnow, Idle
<1>3. PayableIsStored
  BY DEF PayableIsStored, Given
<1>4. CompletedMeansCredited /\ CreditMeansPaid /\ CapturedMeansClaimed
  BY DEF CompletedMeansCredited, CreditMeansPaid, CapturedMeansClaimed, Captured
<1> QED BY <1>1, <1>2, <1>3, <1>4 DEF Inv

LEMMA InvStep == Inv /\ [Next]_vars => Inv'
<1> SUFFICES ASSUME Inv, [Next]_vars
             PROVE  Inv'
  OBVIOUS
<1>1. ASSUME NEW n \in Cancels, CancelStep(n)
      PROVE  Inv'
  BY <1>1, CancelStepKeeps
<1>2. ASSUME NEW r \in Reviews, ReviewStep(r)
      PROVE  Inv'
  BY <1>2, ReviewStepKeeps
<1>3. ASSUME NEW c \in Creates, CreateStep(c) \/ ProviderStep(c) \/ EventStep(c)
      PROVE  Inv'
  BY <1>3, CreateStepKeeps, ProviderStepKeeps, EventStepKeeps
<1>4. ASSUME NEW w \in Hooks, HookStep(w)
      PROVE  Inv'
  BY <1>4, HookStepKeeps
<1>5. ASSUME NEW k \in Captures, CaptureStep(k)
      PROVE  Inv'
  BY <1>5, CaptureStepKeeps
<1>6. CASE ClaimGoesStale \/ DeclineStep \/ ExpiryStep
  BY <1>6, ClaimGoesStaleKeeps, DeclineStepKeeps, ExpiryStepKeeps
<1>7. CASE UNCHANGED vars
  BY <1>7 DEF vars, Inv, TypeOK, CallsKnow, CompletedMeansCredited, CreditMeansPaid,
              PayableIsStored, Given, CapturedMeansClaimed, Captured, PaidInFull
<1> QED BY <1>1, <1>2, <1>3, <1>4, <1>5, <1>6, <1>7 DEF Next

LEMMA Invariant == Spec => []Inv
<1> QED BY InvInit, InvStep, PTL DEF Spec

-----------------------------------------------------------------------------
\* Every row and every call stay well-formed, and the deposit is credited once at most,
\* by whichever of webhook, capture and admin gets there first (completeDeposit).
THEOREM TypeCorrect == Spec => []TypeOK
<1>1. Inv => TypeOK
  BY DEF Inv
<1> QED BY <1>1, Invariant, PTL

\* Status and credit agree, but for the two writes by id that mark a credited deposit
\* FAILED or REFUNDED (completeDeposit, payment.failed, reviewDeposit).
THEOREM CompletedCorrect == Spec => []CompletedMeansCredited
<1>1. Inv => CompletedMeansCredited
  BY DEF Inv
<1> QED BY <1>1, Invariant, PTL

\* Nothing is credited but a full payment or an admin's approval, whichever webhooks and
\* captures are late, repeated or retried (verifyPaidEvidence, assertVerifiedCapture).
THEOREM PaidCorrect == Spec => []CreditMeansPaid
<1>1. Inv => CreditMeansPaid
  BY DEF Inv
<1> QED BY <1>1, Invariant, PTL

\* However many creations overlap, take each other's claim over and fail, the payer
\* never holds a checkout the row has forgotten (createCheckoutSession, createOrder).
THEOREM PayableCorrect == Spec => []PayableIsStored
<1>1. Inv => PayableIsStored
  BY DEF Inv
<1> QED BY <1>1, Invariant, PTL

\* PayPal never captures for a deposit that the cron may still cancel as PENDING
\* (captureOrder, cancelExpiredPayPalDeposits).
THEOREM CapturedCorrect == Spec => []CapturedMeansClaimed
<1>1. Inv => CapturedMeansClaimed
  BY DEF Inv
<1> QED BY <1>1, Invariant, PTL

-----------------------------------------------------------------------------
(* A rejection is never undone.                                              *)

\* Every write of the status either requires it to be open or cancelled, or rejects.
LEMMA NothingRevives == Inv /\ [Next]_vars => (Dismissed => Dismissed')
<1> SUFFICES ASSUME Inv, [Next]_vars, Dismissed
             PROVE  Dismissed'
  OBVIOUS
<1> USE DEF Dismissed
<1>1. ASSUME NEW n \in Cancels, CancelStep(n)
      PROVE  Dismissed'
  BY <1>1 DEF CancelStep, CancelRead, CancelWrite, CancelNote, Cancellable
<1>2. ASSUME NEW r \in Reviews, ReviewStep(r)
      PROVE  Dismissed'
  BY <1>2 DEF ReviewStep, ReviewRead, ReviewApproves, ReviewRejects, Reject, Settleable
<1>3. ASSUME NEW c \in Creates, CreateStep(c) \/ ProviderStep(c)
      PROVE  Dismissed'
  BY <1>3 DEF CreateStep, CreateClaim, CreateFails, CreatePersist,
              ProviderStep, PayerPays, PayerApproves, OrderDies, HeldResolved
<1>4. ASSUME NEW c \in Creates, EventStep(c)
      PROVE  Dismissed'
  BY <1>4 DEF EventStep, HookIgnored, HookClaim, PaidClaimable,
              CaptureCompleted, ClosedByEvent, Settleable
<1>5. ASSUME NEW w \in Hooks, HookStep(w)
      PROVE  Dismissed'
  BY <1>5 DEF HookStep, HookComplete, HookFails, Settleable
<1>6. ASSUME NEW k \in Captures, CaptureStep(k)
      PROVE  Dismissed'
  BY <1>6 DEF CaptureStep, CaptureRead, CaptureClaim, CaptureCall, CaptureLook,
              CaptureSettle, CaptureFails, Settleable
<1>7. CASE ClaimGoesStale \/ DeclineStep \/ ExpiryStep
  BY <1>7 DEF ClaimGoesStale, DeclineStep, DeclineRead, DeclineWrite, Reject,
              ExpiryStep, ExpiryRead, ExpiryWrite, SessionExpires, PayPalExpires
<1>8. CASE UNCHANGED vars
  BY <1>8 DEF vars
<1> QED BY <1>1, <1>2, <1>3, <1>4, <1>5, <1>6, <1>7, <1>8 DEF Next

\* No late webhook, capture, cancel or cron takes a FAILED or REFUNDED deposit up again
\* (settlePaidDeposit, captureOrder, cancelDeposit and the crons).
THEOREM RejectedCorrect == Spec => RejectedIsFinal
<1>1. Inv /\ [Next]_vars => [Dismissed => Dismissed']_vars
  BY NothingRevives
<1> QED BY Invariant, <1>1, PTL DEF Spec, RejectedIsFinal
=============================================================================
