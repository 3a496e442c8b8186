------------------------------ MODULE Account ------------------------------
(* What a wallet promises its callers (campaigns, challenges, store, tips,  *)
(* deposits): a credit or a debit happens once and at once, or not at all.   *)
(* There is no version, no retry, no cached copy: Wallet.tla shows that the  *)
(* optimistic-locking engine of wallet.service.ts implements this.           *)
EXTENDS Integers

CONSTANTS Users, Requests, Amounts, WelcomeCredits

VARIABLES call,     \* what each request asks for; never changes
          bal,      \* credits each user owns
          outcome   \* what each request's caller has been told

vars == <<call, bal, outcome>>

Calls == [user: Users, direction: {"credit", "debit"}, amount: Amounts]

Init ==
  /\ call \in [Requests -> Calls]
  /\ bal = [u \in Users |-> WelcomeCredits]
  /\ outcome = [r \in Requests |-> "open"]

Credit(r) ==
  /\ outcome[r] = "open" /\ call[r].direction = "credit" /\ call[r].amount > 0
  /\ bal' = [bal EXCEPT ![call[r].user] = @ + call[r].amount]
  /\ outcome' = [outcome EXCEPT ![r] = "done"]
  /\ UNCHANGED call

Debit(r) ==
  /\ outcome[r] = "open" /\ call[r].direction = "debit" /\ call[r].amount > 0
  /\ bal[call[r].user] >= call[r].amount
  /\ bal' = [bal EXCEPT ![call[r].user] = @ - call[r].amount]
  /\ outcome' = [outcome EXCEPT ![r] = "done"]
  /\ UNCHANGED call

\* A request that ends without effect, and why it may.
Decline(r, reason) ==
  /\ outcome[r] = "open"
  /\ reason = "rejected" => call[r].amount <= 0
  /\ reason = "insufficient" =>
       call[r].direction = "debit" /\ bal[call[r].user] < call[r].amount
  /\ outcome' = [outcome EXCEPT ![r] = reason]
  /\ UNCHANGED <<call, bal>>

Next ==
  \E r \in Requests :
    \/ Credit(r)
    \/ Debit(r)
    \/ \E reason \in {"rejected", "insufficient", "contention", "error"} :
         Decline(r, reason)

Spec == Init /\ [][Next]_vars
=============================================================================
