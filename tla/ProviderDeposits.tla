-------------------------- MODULE ProviderDeposits --------------------------
(* One deposit paid through PayMongo or PayPal: createCheckoutSession and    *)
(* createOrder, the webhooks of both, captureOrder, the crons that expire    *)
(* deposits, cancelDeposit and completeDeposit (wallet.service.ts) and the   *)
(* admins' reviewDeposit.                                                    *)
(*                                                                           *)
(* The provider keeps the money and the truth about it.  The row follows by  *)
(* webhooks that come late, twice or again after an error, and by calls that *)
(* may end anywhere between two writes.                                      *)
EXTENDS Integers

CONSTANTS
  Creates,   \* calls that create a checkout; each names the checkout it asks for
  Captures,  \* captureOrder calls under way at once
  Hooks,     \* payment.paid deliveries under way at once
  Cancels,   \* cancelDeposit calls
  Reviews,   \* reviewDeposit calls
  None       \* no checkout

ASSUME ProviderAssumption == None \notin Creates

VARIABLES
  method,    \* the deposit's method; never changes
  status,    \* its status
  ref,       \* paymentRef: a claim "creating:...", a checkout, a payment, an admin's text
  stale,     \* the claim in paymentRef is older than CLAIM_TTL
  url,       \* the checkout whose URL gatewayData holds
  order,     \* the checkouts given to a payer, at the provider: state, and whether the
             \* amount is the deposit's
  create,    \* where each createCheckoutSession or createOrder call stands
  capture,   \* where each captureOrder call stands
  hook,      \* where each payment.paid delivery stands, and for which checkout
  owed,      \* paid checkouts whose event the provider still has to deliver
  decline,   \* where the handling of a payment.failed event stands
  expiry,    \* where the PayMongo cron stands with this deposit
  cancel,    \* where each cancelDeposit call stands, with the URL it read
  review,    \* where each reviewDeposit call stands, with the paymentRef it read
  credits,   \* how often the deposit was credited
  approved,  \* an admin approved the credit
  overruled  \* history: a credited deposit was marked FAILED or REFUNDED

row == <<status, ref, stale, url>>
provider == <<order, owed>>
calls == <<create, capture, hook, decline, expiry, cancel, review>>
ledger == <<credits, approved, overruled>>
vars == <<method, row, provider, calls, ledger>>

Open == {"PENDING", "PROCESSING"}
Rejected == {"FAILED", "REFUNDED"}
Statuses == Open \cup Rejected \cup {"COMPLETED", "CANCELLED"}

Nothing == [kind |-> "none", of |-> None]
Manual == [kind |-> "manual", of |-> None]
ClaimBy(c) == [kind |-> "claim", of |-> c]
Checkout(c) == [kind |-> "checkout", of |-> c]
Payment(c) == [kind |-> "payment", of |-> c]
Refs == {Nothing, Manual} \cup [kind: {"claim", "checkout", "payment"}, of: Creates]

OrderStates == {"none", "open", "approved", "held", "paid", "denied", "dead"}
\* The checkouts whose URL a payer was given.
Given == {c \in Creates : order[c].state # "none"}
Captured(c) == order[c].state \in {"held", "paid", "denied"}
PaidInFull(c) == order[c].state = "paid" /\ order[c].fits

Idle == [at |-> "idle", of |-> None]

\* initiateDeposit leaves a PENDING row without a reference.
Init ==
  /\ method \in {"paymongo", "paypal"}
  /\ status = "PENDING" /\ ref = Nothing /\ stale = FALSE /\ url = None
  /\ order = [c \in Creates |-> [state |-> "none", fits |-> FALSE]]
  /\ owed = {}
  /\ create = [c \in Creates |-> "new"]
  /\ capture = [k \in Captures |-> Idle]
  /\ hook = [w \in Hooks |-> Idle]
  /\ decline = "idle" /\ expiry = "idle"
  /\ cancel = [n \in Cancels |-> [at |-> "new", url |-> None]]
  /\ review = [r \in Reviews |-> [at |-> "new", ref |-> Nothing]]
  /\ credits = 0 /\ approved = FALSE /\ overruled = FALSE

-----------------------------------------------------------------------------
(* createCheckoutSession and createOrder                                     *)

\* The UPDATE that claims paymentRef; only PayMongo's looks at the status.
Claimable == ref = Nothing \/ (ref.kind = "claim" /\ stale)

\* A call that finds a checkout, or another's claim, hands out what is there or fails.
CreateClaim(c) ==
  /\ create[c] = "new" /\ Claimable
  /\ method = "paymongo" => status \in Open
  /\ ref' = ClaimBy(c) /\ stale' = FALSE
  /\ create' = [create EXCEPT ![c] = "call"]
  /\ UNCHANGED <<method, status, url, provider, capture, hook, decline, expiry, cancel, review, ledger>>

\* The claim's updatedAt is more than CLAIM_TTL ago.
ClaimGoesStale ==
  /\ ref.kind = "claim" /\ ~stale /\ stale' = TRUE
  /\ UNCHANGED <<method, status, ref, url, provider, calls, ledger>>

\* Faulty: the checkout is stored by the deposit's id alone.  (A faulty variant stands
\* before the definition it would replace; the README says which property rejects it.)
OwnedByAnyone(c) == TRUE

\* The UPDATE that stores the checkout repeats the claim.
StillOwned(c) == ref = ClaimBy(c)

\* The provider makes the checkout, PayMongo for the deposit's amount, PayPal for the
\* caller's, and its URL is handed out.  If the claim was taken over, the winner's is
\* handed out instead, or none, and nobody ever sees this checkout.
CreatePersist(c, fits) ==
  /\ create[c] = "call"
  /\ method = "paymongo" => fits
  /\ create' = [create EXCEPT ![c] = "done"]
  /\ IF StillOwned(c)
     THEN /\ ref' = Checkout(c) /\ url' = c /\ stale' = FALSE
          /\ order' = [order EXCEPT ![c] = [state |-> "open", fits |-> fits]]
     ELSE UNCHANGED <<ref, url, stale, order>>
  /\ UNCHANGED <<method, status, owed, capture, hook, decline, expiry, cancel, review, ledger>>

\* The provider cannot be reached, refuses, or its answer is lost: releaseClaim.
\* (A call that ends without it, by a crash or an uncaught timeout, just stops.)
CreateFails(c) ==
  /\ create[c] = "call"
  /\ create' = [create EXCEPT ![c] = "done"]
  /\ ref' = IF ref = ClaimBy(c) THEN Nothing ELSE ref
  /\ UNCHANGED <<method, status, stale, url, provider, capture, hook, decline, expiry, cancel, review, ledger>>

-----------------------------------------------------------------------------
(* The payer and the provider                                                *)

\* A PayMongo session is paid at once.
PayerPays(c) ==
  /\ method = "paymongo" /\ order[c].state = "open"
  /\ order' = [order EXCEPT ![c].state = "paid"] /\ owed' = owed \cup {c}
  /\ UNCHANGED <<method, row, calls, ledger>>

\* A PayPal order is approved by the payer and paid when it is captured.
PayerApproves(c) ==
  /\ method = "paypal" /\ order[c].state = "open"
  /\ order' = [order EXCEPT ![c].state = "approved"]
  /\ UNCHANGED <<method, row, owed, calls, ledger>>

OrderDies(c) ==
  /\ order[c].state \in {"open", "approved"}
  /\ order' = [order EXCEPT ![c].state = "dead"]
  /\ UNCHANGED <<method, row, owed, calls, ledger>>

\* PayPal decides on a capture that it held back.
HeldResolved(c, s) ==
  /\ order[c].state = "held"
  /\ order' = [order EXCEPT ![c].state = s]
  /\ owed' = IF s = "paid" THEN owed \cup {c} ELSE owed
  /\ UNCHANGED <<method, row, calls, ledger>>

-----------------------------------------------------------------------------
(* completeDeposit                                                           *)

Settleable == status \in Open

\* Status, paymentRef and the credit in one transaction.
Complete(newRef) ==
  /\ status' = "COMPLETED" /\ ref' = newRef /\ credits' = credits + 1
  /\ UNCHANGED <<stale, url, overruled>>

\* Marked by id alone, whatever the deposit has become.
Reject(s, newRef) ==
  /\ status' = s /\ ref' = newRef /\ overruled' = (credits > 0)
  /\ UNCHANGED <<stale, url, credits, approved>>

-----------------------------------------------------------------------------
(* PayMongo's webhooks and cron                                              *)

\* The intent is compared when the stored reference is one; a deposit that has none
\* yet is found by the id in the event's metadata.
Matches(c) == ref.kind = "checkout" => ref.of = c

\* Faulty: a deposit that another delivery has claimed is not claimed again.
ClaimedOnce == status \in {"PENDING", "CANCELLED"}

\* The UPDATE of settlePaidDeposit.
PaidClaimable == status \in Open \cup {"CANCELLED"}

\* payment.paid: find and verify, then claim the deposit.
HookClaim(w, c) ==
  /\ method = "paymongo" /\ hook[w].at = "idle"
  /\ PaidInFull(c) /\ Matches(c) /\ PaidClaimable
  /\ status' = "PROCESSING"
  /\ hook' = [hook EXCEPT ![w] = [at |-> "complete", of |-> c]]
  /\ UNCHANGED <<method, ref, stale, url, provider, create, capture, decline, expiry, cancel, review, ledger>>

\* Mismatch, already COMPLETED, or claimed: acknowledged and ignored.
HookIgnored(c) ==
  /\ method = "paymongo" /\ order[c].state = "paid"
  /\ ~(PaidInFull(c) /\ Matches(c) /\ PaidClaimable)
  /\ owed' = owed \ {c}
  /\ UNCHANGED <<method, row, order, calls, ledger>>

\* A refusal of completeDeposit is acknowledged, too.
HookComplete(w) ==
  LET c == hook[w].of
  IN /\ hook[w].at = "complete"
     /\ hook' = [hook EXCEPT ![w] = Idle] /\ owed' = owed \ {c}
     /\ IF Settleable THEN Complete(Payment(c)) ELSE UNCHANGED <<row, credits, overruled>>
     /\ UNCHANGED <<method, order, create, capture, decline, expiry, cancel, review, approved>>

\* Any other error answers 500: the event is delivered again.
HookFails(w) ==
  /\ hook[w].at = "complete"
  /\ hook' = [hook EXCEPT ![w] = Idle] /\ owed' = owed \cup {hook[w].of}
  /\ UNCHANGED <<method, row, order, create, capture, decline, expiry, cancel, review, ledger>>

\* payment.failed for an attempt at a checkout the payer has.
DeclineRead ==
  /\ method = "paymongo" /\ Given # {} /\ decline = "idle" /\ status # "COMPLETED"
  /\ decline' = "write"
  /\ UNCHANGED <<method, row, provider, create, capture, hook, expiry, cancel, review, ledger>>

DeclineWrite ==
  /\ decline = "write" /\ decline' = "idle"
  /\ Reject("FAILED", ref)
  /\ UNCHANGED <<method, provider, create, capture, hook, expiry, cancel, review>>

\* cancelExpiredPayMongoDeposits may select a deposit that has no session, ...
ExpiryRead ==
  /\ method = "paymongo" /\ expiry = "idle" /\ status \in Open /\ url = None
  /\ expiry' = "write"
  /\ UNCHANGED <<method, row, provider, create, capture, hook, decline, cancel, review, ledger>>

\* ... and cancels what it selected if it is still open.
ExpiryWrite ==
  /\ expiry = "write" /\ expiry' = "idle"
  /\ status' = IF status \in Open THEN "CANCELLED" ELSE status
  /\ UNCHANGED <<method, ref, stale, url, provider, create, capture, hook, decline, cancel, review, ledger>>

\* expireProviderDeadSessions: a dead session is never paid any more.
SessionExpires ==
  /\ method = "paymongo" /\ status \in Open
  /\ url # None /\ order[url].state = "dead"
  /\ status' = "CANCELLED"
  /\ UNCHANGED <<method, ref, stale, url, provider, calls, ledger>>

-----------------------------------------------------------------------------
(* PayPal's captureOrder, webhooks and cron                                  *)

AfterRead == IF status = "PENDING" THEN "claim" ELSE "call"

\* From the browser, or from the webhook CHECKOUT.ORDER.APPROVED.
CaptureRead(k, c) ==
  /\ method = "paypal" /\ capture[k].at = "idle" /\ ref = Checkout(c)
  /\ status \notin {"COMPLETED", "CANCELLED", "FAILED"}
  /\ capture' = [capture EXCEPT ![k] = [at |-> AfterRead, of |-> c]]
  /\ UNCHANGED <<method, row, provider, create, hook, decline, expiry, cancel, review, ledger>>

\* Who loses the claim to another capture leaves; who loses it to a cancel goes on.
CaptureClaim(k) ==
  /\ capture[k].at = "claim"
  /\ status' = IF status = "PENDING" THEN "PROCESSING" ELSE status
  /\ capture' = [capture EXCEPT ![k] = IF status \in {"COMPLETED", "PROCESSING"} THEN Idle
                                       ELSE [@ EXCEPT !.at = "call"]]
  /\ UNCHANGED <<method, ref, stale, url, provider, create, hook, decline, expiry, cancel, review, ledger>>

\* Faulty: the amount of a capture is not compared with the deposit's.
PaidAtAll(c) == order[c].state = "paid"

\* assertVerifiedCapture
Verified(c) == PaidInFull(c)

\* PayPal captures the approved order at once or holds the payment back.
CaptureCall(k, s) ==
  LET c == capture[k].of
  IN /\ capture[k].at = "call" /\ order[c].state = "approved"
     /\ order' = [order EXCEPT ![c].state = s]
     /\ owed' = IF s = "paid" THEN owed \cup {c} ELSE owed
     /\ capture' = [capture EXCEPT ![k].at = "look"]
     /\ UNCHANGED <<method, row, create, hook, decline, expiry, cancel, review, ledger>>

\* The capture's answer, or the order of an earlier capture whose answer was lost.
CaptureLook(k) ==
  LET c == capture[k].of
  IN /\ capture[k].at = "look" \/ (capture[k].at = "call" /\ Captured(c))
     /\ capture' = [capture EXCEPT ![k] = IF Verified(c) THEN [@ EXCEPT !.at = "settle"] ELSE Idle]
     /\ UNCHANGED <<method, row, provider, create, hook, decline, expiry, cancel, review, ledger>>

CaptureSettle(k) ==
  LET c == capture[k].of
  IN /\ capture[k].at = "settle"
     /\ capture' = [capture EXCEPT ![k] = Idle]
     /\ IF Settleable THEN Complete(Checkout(c)) ELSE UNCHANGED <<row, credits, overruled>>
     /\ UNCHANGED <<method, provider, create, hook, decline, expiry, cancel, review, approved>>

\* Not approved, no answer, or a failed transaction; the deposit stays as it is.
CaptureFails(k) ==
  /\ capture[k].at \in {"call", "look", "settle"}
  /\ capture' = [capture EXCEPT ![k] = Idle]
  /\ UNCHANGED <<method, row, provider, create, hook, decline, expiry, cancel, review, ledger>>

\* PAYMENT.CAPTURE.COMPLETED
CaptureCompleted(c) ==
  /\ method = "paypal" /\ order[c].state = "paid"
  /\ owed' = owed \ {c}
  /\ IF ref = Checkout(c) /\ Verified(c) /\ Settleable THEN Complete(ref)
     ELSE UNCHANGED <<row, credits, overruled>>
  /\ UNCHANGED <<method, order, calls, approved>>

\* PAYMENT.CAPTURE.DENIED, CHECKOUT.ORDER.VOIDED
Closes(s) == CASE s = "denied" -> "FAILED" [] s = "dead" -> "CANCELLED"

ClosedByEvent(c) ==
  /\ method = "paypal" /\ order[c].state \in {"denied", "dead"}
  /\ ref = Checkout(c) /\ status \in Open
  /\ status' = Closes(order[c].state)
  /\ UNCHANGED <<method, ref, stale, url, provider, calls, ledger>>

\* cancelExpiredPayPalDeposits
PayPalExpires ==
  /\ method = "paypal" /\ status = "PENDING" /\ status' = "CANCELLED"
  /\ UNCHANGED <<method, ref, stale, url, provider, calls, ledger>>

-----------------------------------------------------------------------------
(* cancelDeposit and reviewDeposit                                           *)

CancelRead(n) ==
  /\ cancel[n].at = "new" /\ status \in Open
  /\ cancel' = [cancel EXCEPT ![n] = [at |-> "write", url |-> url]]
  /\ UNCHANGED <<method, row, provider, create, capture, hook, decline, expiry, review, ledger>>

\* Faulty: the UPDATE of cancelDeposit names the row by its id alone.
CancelAnyway == TRUE

Cancellable == status \in Open

CancelWrite(n) ==
  /\ cancel[n].at = "write"
  /\ cancel' = [cancel EXCEPT ![n].at = IF Cancellable THEN "note" ELSE "done"]
  /\ status' = IF Cancellable THEN "CANCELLED" ELSE status
  /\ UNCHANGED <<method, ref, stale, url, provider, create, capture, hook, decline, expiry, review, ledger>>

\* gatewayData becomes what was read at first, with a note of the cancel.
CancelNote(n) ==
  /\ cancel[n].at = "note"
  /\ cancel' = [cancel EXCEPT ![n].at = "done"]
  /\ url' = cancel[n].url
  /\ UNCHANGED <<method, status, ref, stale, provider, create, capture, hook, decline, expiry, review, ledger>>

ReviewRead(r) ==
  /\ review[r].at = "new" /\ status \in Open \cup {"REFUNDED"}
  /\ review' = [review EXCEPT ![r] = [at |-> "write", ref |-> ref]]
  /\ UNCHANGED <<method, row, provider, create, capture, hook, decline, expiry, cancel, ledger>>

Reviewed(r) == review' = [review EXCEPT ![r].at = "done"]

\* The admin's reference, the one that was read, or none.
ReviewApproves(r, given) ==
  LET newRef == IF given THEN Manual ELSE IF review[r].ref = Nothing THEN ref ELSE review[r].ref
  IN /\ review[r].at = "write" /\ Settleable
     /\ Reviewed(r) /\ Complete(newRef) /\ approved' = TRUE
     /\ UNCHANGED <<method, provider, create, capture, hook, decline, expiry, cancel>>

ReviewRejects(r, s, given) ==
  /\ review[r].at = "write" /\ Reviewed(r)
  /\ Reject(s, IF given THEN Manual ELSE ref)
  /\ UNCHANGED <<method, provider, create, capture, hook, decline, expiry, cancel>>

-----------------------------------------------------------------------------
CreateStep(c) ==
  \/ CreateClaim(c) \/ CreateFails(c)
  \/ \E fits \in BOOLEAN : CreatePersist(c, fits)

ProviderStep(c) ==
  \/ PayerPays(c) \/ PayerApproves(c) \/ OrderDies(c)
  \/ \E s \in {"paid", "denied"} : HeldResolved(c, s)

EventStep(c) ==
  \/ HookIgnored(c) \/ CaptureCompleted(c) \/ ClosedByEvent(c)
  \/ \E w \in Hooks : HookClaim(w, c)

CaptureStep(k) ==
  \/ CaptureClaim(k) \/ CaptureLook(k) \/ CaptureSettle(k) \/ CaptureFails(k)
  \/ \E c \in Creates : CaptureRead(k, c)
  \/ \E s \in {"paid", "held"} : CaptureCall(k, s)

HookStep(w) == HookComplete(w) \/ HookFails(w)

DeclineStep == DeclineRead \/ DeclineWrite

ExpiryStep == ExpiryRead \/ ExpiryWrite \/ SessionExpires \/ PayPalExpires

CancelStep(n) == CancelRead(n) \/ CancelWrite(n) \/ CancelNote(n)

ReviewStep(r) ==
  \/ ReviewRead(r)
  \/ \E given \in BOOLEAN :
       \/ ReviewApproves(r, given)
       \/ \E s \in Rejected : ReviewRejects(r, s, given)

Next ==
  \/ \E n \in Cancels : CancelStep(n)
  \/ \E r \in Reviews : ReviewStep(r)
  \/ \E c \in Creates : CreateStep(c) \/ ProviderStep(c) \/ EventStep(c)
  \/ \E w \in Hooks : HookStep(w)
  \/ \E k \in Captures : CaptureStep(k)
  \/ ClaimGoesStale \/ DeclineStep \/ ExpiryStep

Spec == Init /\ [][Next]_vars

\* The provider delivers the event of a payment until it is acknowledged; a delivery
\* ends, and does not end with an error every time.
Delivered(c) ==
  /\ c \in owed
  /\ HookIgnored(c) \/ CaptureCompleted(c) \/ \E w \in Hooks : HookClaim(w, c)

Fairness ==
  /\ \A c \in Creates : SF_vars(Delivered(c))
  /\ \A w \in Hooks : SF_vars(HookComplete(w))

FairSpec == Spec /\ Fairness

-----------------------------------------------------------------------------
(* Properties                                                                *)

\* The row and every call are well-formed, and no two of webhook, capture and admin
\* credit the deposit twice.
TypeOK ==
  /\ method \in {"paymongo", "paypal"} /\ status \in Statuses
  /\ ref \in Refs /\ stale \in BOOLEAN /\ url \in Creates \cup {None}
  /\ order \in [Creates -> [state: OrderStates, fits: BOOLEAN]]
  /\ owed \subseteq Creates
  /\ create \in [Creates -> {"new", "call", "done"}]
  /\ capture \in [Captures -> {Idle} \cup [at: {"claim", "call", "look", "settle"}, of: Creates]]
  /\ hook \in [Hooks -> {Idle} \cup [at: {"complete"}, of: Creates]]
  /\ decline \in {"idle", "write"} /\ expiry \in {"idle", "write"}
  /\ cancel \in [Cancels -> [at: {"new", "write", "note", "done"}, url: Creates \cup {None}]]
  /\ review \in [Reviews -> [at: {"new", "write", "done"}, ref: Refs]]
  /\ credits \in 0 .. 1 /\ approved \in BOOLEAN /\ overruled \in BOOLEAN

\* A deposit is credited exactly when it is COMPLETED, up to the two writes by id
\* that mark a credited deposit FAILED or REFUNDED (payment.failed, reviewDeposit).
CompletedMeansCredited ==
  /\ credits = 1 <=> (status = "COMPLETED" \/ overruled)
  /\ overruled => status \in Rejected

\* A credit answers a payment in full that the provider has, or an admin's approval.
CreditMeansPaid ==
  credits > 0 => approved \/ \E c \in Creates : PaidInFull(c)

\* However creation calls overlap, are taken over and fail: as long as the deposit
\* can be settled, the one checkout a payer was ever given is the one the row stores, so
\* that its payment is matched (createCheckoutSession, createOrder).
PayableIsStored ==
  status \in Open \cup {"CANCELLED"} => \A c \in Given : ref = Checkout(c)

\* PayPal holds no payment for a PENDING deposit: the capture claims it first.  Hence
\* the cron, which cancels PENDING deposits by age, cancels no captured one.
CapturedMeansClaimed ==
  method = "paypal" /\ status = "PENDING" => \A c \in Creates : ~Captured(c)

\* What an admin or a failed payment rejected stays rejected: no late webhook,
\* capture, cancel or cron takes it up again.
Dismissed == status \in Rejected
RejectedIsFinal == [][Dismissed => Dismissed']_vars

\* A deposit whose payment the provider has does not stay open: it is credited,
\* or closed by somebody.
PaidSettles ==
  \A c \in Creates : PaidInFull(c) ~> (credits > 0 \/ status \notin Open)
=============================================================================
