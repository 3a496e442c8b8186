------------------------------- MODULE Wallet -------------------------------
(* The optimistic-locking engine of apps/api/src/modules/wallet/             *)
(* wallet.service.ts: credit(), debit(), executeWithOptimisticLock() and     *)
(* reconcileCreditBalanceMirror(), over the rows they touch.                 *)
(*                                                                           *)
(* A request reads the wallet row in one statement and writes it in a later  *)
(* transaction; any number of requests and the reconciliation interleave     *)
(* between the two.  The write transaction (wallet, ledger row, mirror)      *)
(* commits or rolls back as a whole, so it is one action.                    *)
EXTENDS Integers, Sequences

CONSTANTS
  Users,
  Requests,        \* the credit() and debit() calls made, one element per call
  Amounts,         \* amounts a caller may pass
  WelcomeCredits,  \* WELCOME_CREDITS, granted when the account is registered
  Welcome,         \* names the welcome row's origin in the ledger
  MaxRetry,        \* MAX_RETRY
  MaxInt           \* largest value of an Int column (2^31 - 1 in PostgreSQL)

ASSUME WalletAssumption ==
  /\ Amounts \subseteq Int
  /\ WelcomeCredits \in Nat
  /\ MaxRetry \in Nat \ {0}
  /\ MaxInt \in Nat
  /\ WelcomeCredits <= MaxInt
  /\ Welcome \notin Requests

VARIABLES
  call,        \* arguments of each request; never changes
  pc,          \* where each request stands, or how it ended
  attempt,     \* the loop counter of executeWithOptimisticLock
  seen,        \* balance and version the request read last
  since,       \* history: the wallet's version when the request began
  wallet,      \* the wallets table
  mirror,      \* users.creditBalance
  ledger,      \* the transactions table, per wallet, in commit order
  reconciler   \* the reconciliation transaction on each wallet

vars == <<call, pc, attempt, seen, since, wallet, mirror, ledger, reconciler>>

Calls == [user: Users, direction: {"credit", "debit"}, amount: Amounts]
Declined == {"rejected", "insufficient", "contention", "error"}
Ended == Declined \cup {"done"}

Row(origin, amount, before) ==
  [origin |-> origin, amount |-> amount, before |-> before, after |-> before + amount]

\* Accounts are registered with the welcome grant in every table.  The mirror
\* of an account that predates the ledger-routed referral bonuses may have
\* drifted; that is what the reconciliation is for.
Init ==
  /\ call \in [Requests -> Calls]
  /\ pc = [r \in Requests |-> "new"]
  /\ attempt = [r \in Requests |-> 0]
  /\ seen = [r \in Requests |-> [balance |-> 0, version |-> 0]]
  /\ since = [r \in Requests |-> 0]
  /\ wallet = [u \in Users |-> [balance |-> WelcomeCredits, version |-> 0,
                                earned |-> WelcomeCredits, spent |-> 0]]
  /\ mirror \in [Users -> {0, WelcomeCredits}]
  /\ ledger = [u \in Users |-> <<Row(Welcome, WelcomeCredits, 0)>>]
  /\ reconciler = [u \in Users |-> [at |-> "idle", balance |-> 0]]

-----------------------------------------------------------------------------
(* credit() and debit()                                                      *)

User(r) == call[r].user

\* The signed amount of the request's ledger row.
Delta(r) == IF call[r].direction = "credit" THEN call[r].amount ELSE 0 - call[r].amount

rows == <<wallet, mirror, ledger>>

Refuse(r) ==
  /\ pc[r] = "new" /\ call[r].amount <= 0
  /\ pc' = [pc EXCEPT ![r] = "rejected"]
  /\ UNCHANGED <<call, attempt, seen, since, rows, reconciler>>

Submit(r) ==
  /\ pc[r] = "new" /\ call[r].amount > 0
  /\ pc' = [pc EXCEPT ![r] = "read"]
  /\ attempt' = [attempt EXCEPT ![r] = 1]
  /\ since' = [since EXCEPT ![r] = wallet[User(r)].version]
  /\ UNCHANGED <<call, seen, rows, reconciler>>

Short(r) == call[r].direction = "debit" /\ wallet[User(r)].balance < call[r].amount

Insufficient(r) ==
  /\ pc[r] = "read" /\ Short(r)
  /\ pc' = [pc EXCEPT ![r] = "insufficient"]
  /\ UNCHANGED <<call, attempt, seen, since, rows, reconciler>>

Read(r) ==
  /\ pc[r] = "read" /\ ~Short(r)
  /\ seen' = [seen EXCEPT ![r] = [balance |-> wallet[User(r)].balance,
                                  version |-> wallet[User(r)].version]]
  /\ pc' = [pc EXCEPT ![r] = "apply"]
  /\ UNCHANGED <<call, attempt, since, rows, reconciler>>

-----------------------------------------------------------------------------
(* apply(): one transaction                                                  *)

\* Faulty: the reconciliation reads without FOR UPDATE, so no writer waits for it.
WriterNeverWaits(r) == TRUE

\* An UPDATE of the wallet row waits for a reconciliation that holds its lock.
WriterMayProceed(r) == reconciler[User(r)].at = "idle"

\* Faulty: the UPDATE has no version condition.  (A faulty variant stands before the
\* definition it would replace; the README says which property rejects it.)
AnyVersion(r) == TRUE

SameVersion(r) == wallet[User(r)].version = seen[r].version

\* The row the UPDATE writes, computed from the balance read before.
Updated(r) ==
  LET w == wallet[User(r)]
      credit == call[r].direction = "credit"
  IN [balance |-> seen[r].balance + Delta(r),
      version |-> w.version + 1,
      earned  |-> IF credit THEN w.earned + call[r].amount ELSE w.earned,
      spent   |-> IF credit THEN w.spent ELSE w.spent + call[r].amount]

\* No Int column of the new row is out of range.
Fits(r) == LET w == Updated(r) IN w.balance <= MaxInt /\ w.earned <= MaxInt /\ w.spent <= MaxInt

Posted(r) == [ledger EXCEPT ![User(r)] = Append(@, Row(r, Delta(r), seen[r].balance))]

Apply(r) ==
  /\ pc[r] = "apply" /\ WriterMayProceed(r)
  /\ SameVersion(r) /\ Fits(r)
  /\ wallet' = [wallet EXCEPT ![User(r)] = Updated(r)]
  /\ ledger' = Posted(r)
  /\ mirror' = [mirror EXCEPT ![User(r)] = seen[r].balance + Delta(r)]
  /\ pc' = [pc EXCEPT ![r] = "done"]
  /\ UNCHANGED <<call, attempt, seen, since, reconciler>>

\* PostgreSQL refuses the value: the transaction rolls back, the error reaches the caller.
OutOfRange(r) ==
  /\ pc[r] = "apply" /\ WriterMayProceed(r)
  /\ SameVersion(r) /\ ~Fits(r)
  /\ pc' = [pc EXCEPT ![r] = "error"]
  /\ UNCHANGED <<call, attempt, seen, since, rows, reconciler>>

\* Faulty: the caller is refused one attempt too early.
LastAttemptEarly(r) == attempt[r] = MaxRetry - 1

LastAttempt(r) == attempt[r] = MaxRetry

\* Faulty: the ledger row survives the failed attempt.
ConflictKeepingRow(r) ==
  /\ pc[r] = "apply" /\ WriterMayProceed(r)
  /\ ~SameVersion(r) /\ ~LastAttempt(r)
  /\ attempt' = [attempt EXCEPT ![r] = @ + 1]
  /\ pc' = [pc EXCEPT ![r] = "read"]
  /\ ledger' = Posted(r)
  /\ UNCHANGED <<call, seen, since, wallet, mirror, reconciler>>

\* updateMany matched no row: OPTIMISTIC_LOCK_CONFLICT, back off, read again.
Conflict(r) ==
  /\ pc[r] = "apply" /\ WriterMayProceed(r)
  /\ ~SameVersion(r) /\ ~LastAttempt(r)
  /\ attempt' = [attempt EXCEPT ![r] = @ + 1]
  /\ pc' = [pc EXCEPT ![r] = "read"]
  /\ UNCHANGED <<call, seen, since, rows, reconciler>>

\* Conflict on the last attempt: WalletContentionException.
GiveUp(r) ==
  /\ pc[r] = "apply" /\ WriterMayProceed(r)
  /\ ~SameVersion(r) /\ LastAttempt(r)
  /\ pc' = [pc EXCEPT ![r] = "contention"]
  /\ UNCHANGED <<call, attempt, seen, since, rows, reconciler>>

-----------------------------------------------------------------------------
(* reconcileCreditBalanceMirror(): SELECT ... FOR UPDATE, then the copy      *)

requests == <<call, pc, attempt, seen, since>>

ReconcileLock(u) ==
  /\ reconciler[u].at = "idle"
  /\ reconciler' = [reconciler EXCEPT ![u] = [at |-> "locked", balance |-> wallet[u].balance]]
  /\ UNCHANGED <<requests, rows>>

\* Faulty: returns without ending the transaction when nothing has drifted.
ReconcileWriteIfDrifted(u) ==
  /\ reconciler[u].at = "locked" /\ mirror[u] # reconciler[u].balance
  /\ mirror' = [mirror EXCEPT ![u] = reconciler[u].balance]
  /\ reconciler' = [reconciler EXCEPT ![u] = [at |-> "idle", balance |-> 0]]
  /\ UNCHANGED <<requests, wallet, ledger>>

ReconcileWrite(u) ==
  /\ reconciler[u].at = "locked"
  /\ mirror' = [mirror EXCEPT ![u] = reconciler[u].balance]
  /\ reconciler' = [reconciler EXCEPT ![u] = [at |-> "idle", balance |-> 0]]
  /\ UNCHANGED <<requests, wallet, ledger>>

-----------------------------------------------------------------------------
Step(r) ==
  \/ Refuse(r) \/ Submit(r) \/ Insufficient(r) \/ Read(r)
  \/ Apply(r) \/ OutOfRange(r) \/ Conflict(r) \/ GiveUp(r)

Next ==
  \/ \E r \in Requests : Step(r)
  \/ \E u \in Users : ReconcileLock(u) \/ ReconcileWrite(u)

Spec == Init /\ [][Next]_vars

\* A request runs until it ends, and PostgreSQL serves a row lock in the order
\* of arrival, so a writer that keeps finding the row free gets it.
FairSpec ==
  /\ Spec
  /\ \A r \in Requests : SF_vars(Step(r))
  /\ \A u \in Users : WF_vars(ReconcileWrite(u))

-----------------------------------------------------------------------------
(* Properties                                                                *)

WalletRow == [balance: Int, version: Nat, earned: Int, spent: Int]
LedgerRow == [origin: Requests \cup {Welcome}, amount: Int, before: Int, after: Int]

TypeOK ==
  /\ call \in [Requests -> Calls]
  /\ pc \in [Requests -> {"new", "read", "apply"} \cup Ended]
  /\ attempt \in [Requests -> 0 .. MaxRetry]
  /\ seen \in [Requests -> [balance: Int, version: Nat]]
  /\ since \in [Requests -> Nat]
  /\ wallet \in [Users -> WalletRow]
  /\ mirror \in [Users -> Int]
  /\ ledger \in [Users -> Seq(LedgerRow)]
  /\ reconciler \in [Users -> [at: {"idle", "locked"}, balance: Int]]

\* The ledger is a statement of the wallet: every row continues the row before
\* it, and the last one ends at the wallet's balance.  A lost update breaks it.
LedgerIsStatement ==
  \A u \in Users :
    LET l == ledger[u] IN
    /\ Len(l) > 0
    /\ l[1].before = 0
    /\ \A i \in 1 .. Len(l) : l[i].after = l[i].before + l[i].amount
    /\ \A i \in 1 .. Len(l) - 1 : l[i + 1].before = l[i].after
    /\ l[Len(l)].after = wallet[u].balance

\* A request that succeeded posted one row, its own, of its amount; a request
\* that failed at any point, or has not ended, posted none.
PostedOnce ==
  \A r \in Requests, u \in Users :
    LET mine == {i \in 1 .. Len(ledger[u]) : ledger[u][i].origin = r} IN
    /\ mine # {} => pc[r] = "done" /\ User(r) = u
    /\ \A i, j \in mine : i = j
    /\ \A i \in mine : ledger[u][i].amount = Delta(r)
    /\ pc[r] = "done" /\ User(r) = u => mine # {}

\* No interleaving of debits overdraws a wallet, although each checks a balance
\* it read before its transaction.
NeverOverdrawn ==
  \A u \in Users :
    /\ wallet[u].balance >= 0
    /\ \A i \in 1 .. Len(ledger[u]) : ledger[u][i].after >= 0

\* lifetimeEarned - lifetimeSpent accounts for every credit in the wallet.
LifetimeTotals == \A u \in Users : wallet[u].balance = wallet[u].earned - wallet[u].spent

\* A caller is told "failed after retries" only when MAX_RETRY other operations
\* on the same wallet committed meanwhile: contention never stops everybody.
ContentionMeansProgress ==
  \A r \in Requests :
    pc[r] = "contention" => wallet[User(r)].version - since[r] >= MaxRetry

\* users.creditBalance, once in step with the wallet, never falls behind it,
\* and every movement of the wallet brings it back in step.
MirrorNeverDiverges ==
  [][\A u \in Users :
       (mirror[u] = wallet[u].balance \/ wallet'[u] # wallet[u]) => mirror'[u] = wallet'[u].balance]_vars

\* Every call returns or throws.
EveryRequestEnds == \A r \in Requests : <>(pc[r] \in Ended)

\* The engine implements Account: to its callers a request takes effect at once.
Outcome == [r \in Requests |-> IF pc[r] \in Ended THEN pc[r] ELSE "open"]
Balances == [u \in Users |-> wallet[u].balance]
Abstract == INSTANCE Account WITH bal <- Balances, outcome <- Outcome
ImplementsAccount == Abstract!Spec
=============================================================================
