--------------------------- MODULE CryptoDeposits ---------------------------
(* USDT deposits: initiateDeposit, submitTxHash, proveWalletOwnership,       *)
(* cancelDeposit, verifyCryptoDeposit with its cron, completeDeposit and     *)
(* releaseCryptoClaim (wallet.service.ts), and the admins' reviewDeposit.    *)
(*                                                                           *)
(* Two rows compete for one transfer through the unique paymentRef; an       *)
(* unverified payer's hash is kept as evidence in gatewayData, which is not  *)
(* unique.  A verification reads the deposit, asks the chain and writes what *)
(* it learned to whatever the deposit has become; the writes are guarded.    *)
EXTENDS Integers, FiniteSets

CONSTANTS
  Users,     \* accounts; a user's wallet is named by its user
  Deposits,  \* deposits users may initiate
  Hashes,    \* transaction hashes
  None,      \* a null column
  Owner,     \* the user of each deposit
  Checks,    \* verifyCryptoDeposit calls of users and admins
  Crons,     \* runs of the verifyCryptoDeposits cron
  Reviewed,  \* deposits an admin may reject, once each
  Transfers  \* what a transaction may be on chain

Kinds == {"paid", "short", "reverted"}

ASSUME CryptoAssumption ==
  /\ None \notin Hashes
  /\ Owner \in [Deposits -> Users]
  /\ Transfers \subseteq [from: Users, kind: Kinds]
  /\ Checks \cap Crons = {}
  /\ Reviewed \subseteq Deposits

VARIABLES
  chain,       \* the transfer behind each hash; never changes
  mined,       \* hashes included in a block
  deposit,     \* the deposits table
  initiate,    \* where the initiateDeposit call of each deposit stands
  submit,      \* where its submitTxHash call stands, with walletVerified as it read it
  check,       \* where each verification stands, with what it read and was told
  review,      \* where the admins' rejection of each deposit stands
  creditedFor, \* ledger: the hash each deposit was credited for
  overruled    \* history: deposits an admin rejected after they were credited

vars == <<chain, mined, deposit, initiate, submit, check, review, creditedFor, overruled>>
calls == <<initiate, submit, check, review>>

Pending == {"PENDING", "PROCESSING"}
Statuses == Pending \cup {"none", "COMPLETED", "FAILED", "CANCELLED", "REFUNDED"}

NotSubmitting == [at |-> "new", verified |-> FALSE]
Results == {"waiting", "valid", "invalid", "terminal"}
Idle == [at |-> "idle", deposit |-> None, hash |-> None, verified |-> FALSE, result |-> "none"]

Init ==
  /\ chain \in [Hashes -> Transfers]
  /\ mined = {}
  /\ deposit = [d \in Deposits |-> [status |-> "none", wallet |-> Owner[d], ref |-> None,
                                    evidence |-> None, verified |-> FALSE, older |-> {}]]
  /\ initiate = [d \in Deposits |-> "new"]
  /\ submit = [d \in Deposits |-> NotSubmitting]
  /\ check = [v \in Checks \cup Crons |-> Idle]
  /\ review = [d \in Deposits |-> "new"]
  /\ creditedFor = [d \in Deposits |-> None]
  /\ overruled = {}

\* A transfer gets into a block; no block is ever undone.
Mine(h) ==
  /\ h \notin mined
  /\ mined' = mined \cup {h}
  /\ UNCHANGED <<chain, deposit, calls, creditedFor, overruled>>

-----------------------------------------------------------------------------
(* initiateDeposit, submitTxHash and proveWalletOwnership                    *)

\* Faulty: paymentRef is not unique.  (A faulty variant stands before the
\* definition it would replace; the README says which property rejects it.)
NeverTaken(d, h) == FALSE

\* The unique constraint on paymentRef refuses h for d.
Taken(d, h) == \E e \in Deposits \ {d} : deposit[e].ref = h

\* Only the owner of a wallet can sign the challenge for it.
CanSign(d, wallet) == wallet = Owner[d]

\* The claim columns of a row on which hash h is submitted.
Claimed(row, h, verified) ==
  IF verified THEN [row EXCEPT !.status = "PROCESSING", !.verified = TRUE, !.ref = h]
  ELSE [row EXCEPT !.status = "PROCESSING", !.verified = FALSE, !.evidence = h]

NoPending(u) == \A e \in Deposits : Owner[e] = u => deposit[e].status \notin Pending

InitiateCheck(d) ==
  /\ initiate[d] = "new" /\ NoPending(Owner[d])
  /\ initiate' = [initiate EXCEPT ![d] = "checked"]
  /\ UNCHANGED <<chain, mined, deposit, submit, check, review, creditedFor, overruled>>

InitiateCreate(d, wallet, h, signed) ==
  LET row == [status |-> "PENDING", wallet |-> wallet, ref |-> None, evidence |-> None,
              verified |-> signed, older |-> mined]
  IN /\ initiate[d] = "checked"
     /\ signed => CanSign(d, wallet)
     /\ (h # None /\ signed) => ~Taken(d, h)
     /\ deposit' = [deposit EXCEPT ![d] = IF h = None THEN row ELSE Claimed(row, h, signed)]
     /\ initiate' = [initiate EXCEPT ![d] = "created"]
     /\ UNCHANGED <<chain, mined, submit, check, review, creditedFor, overruled>>

\* The instructions replace gatewayData, and with it an unverified payer's hash.
InitiateInstruct(d) ==
  /\ initiate[d] = "created"
  /\ deposit' = [deposit EXCEPT ![d].evidence = None]
  /\ initiate' = [initiate EXCEPT ![d] = "done"]
  /\ UNCHANGED <<chain, mined, submit, check, review, creditedFor, overruled>>

SubmitRead(d) ==
  /\ submit[d].at = "new" /\ deposit[d].status = "PENDING"
  /\ submit' = [submit EXCEPT ![d] = [at |-> "write", verified |-> deposit[d].verified]]
  /\ UNCHANGED <<chain, mined, deposit, initiate, check, review, creditedFor, overruled>>

\* If the row is not PENDING any more or the hash is taken, nothing is written.
SubmitWrite(d, h, signed) ==
  LET verified == submit[d].verified \/ signed
      refused == deposit[d].status # "PENDING" \/ (verified /\ Taken(d, h))
  IN /\ submit[d].at = "write"
     /\ signed => CanSign(d, deposit[d].wallet)
     /\ submit' = [submit EXCEPT ![d] = NotSubmitting]
     /\ deposit' = IF refused THEN deposit
                   ELSE [deposit EXCEPT ![d] = Claimed(@, h, verified)]
     /\ UNCHANGED <<chain, mined, initiate, check, review, creditedFor, overruled>>

ProveOwnership(d) ==
  /\ deposit[d].status \in Pending /\ ~deposit[d].verified
  /\ CanSign(d, deposit[d].wallet)
  /\ deposit' = [deposit EXCEPT ![d].verified = TRUE]
  /\ UNCHANGED <<chain, mined, calls, creditedFor, overruled>>

Cancellable(d) == deposit[d].status \in Pending

CancelDeposit(d) ==
  /\ Cancellable(d)
  /\ deposit' = [deposit EXCEPT ![d].status = "CANCELLED"]
  /\ UNCHANGED <<chain, mined, calls, creditedFor, overruled>>

-----------------------------------------------------------------------------
(* verifyCryptoDeposit and its cron                                          *)

\* Faulty: only paymentRef is looked at.
ReservedClaim(row) == row.ref

Claim(row) == IF row.ref # None THEN row.ref ELSE row.evidence

\* Faulty: the sender of the transfer is not compared with the declared wallet.
VerdictWithoutSender(d, h) ==
  CASE h \notin mined -> "waiting"
    [] h \in mined /\ chain[h].kind = "paid" -> "valid"
    [] OTHER -> "invalid"

\* verifyDeposit: what the chain says about transfer h as a payment of deposit d.
Verdict(d, h) ==
  CASE h \notin mined -> "waiting"
    [] h \in mined /\ chain[h].kind = "reverted" -> "invalid"
    [] OTHER -> IF chain[h].from # deposit[d].wallet \/ h \in deposit[d].older THEN "terminal"
                ELSE IF chain[h].kind = "short" THEN "invalid" ELSE "valid"

Verifiable(row) == row.status = "PROCESSING" /\ Claim(row) # None

\* One deposit's turn.  The cron reads all its deposits at its start, so this may
\* lie long before the write.
CheckRead(v, d) ==
  /\ check[v].at = "idle" /\ Verifiable(deposit[d])
  /\ check' = [check EXCEPT ![v] = [at |-> "chain", deposit |-> d, hash |-> Claim(deposit[d]),
                                    verified |-> deposit[d].verified, result |-> "none"]]
  /\ UNCHANGED <<chain, mined, deposit, initiate, submit, review, creditedFor, overruled>>

\* A node that does not answer, or too few confirmations, says "waiting".
CheckAsk(v, r) ==
  /\ check[v].at = "chain"
  /\ r \in {Verdict(check[v].deposit, check[v].hash), "waiting"}
  /\ check' = [check EXCEPT ![v] = [@ EXCEPT !.at = "write", !.result = r]]
  /\ UNCHANGED <<chain, mined, deposit, initiate, submit, review, creditedFor, overruled>>

ClaimUnchanged(v) ==
  LET row == deposit[check[v].deposit]
  IN row.verified /\ Claim(row) = check[v].hash

\* Faulty: completeDeposit accepts a deposit in any status.
AlwaysSettleable(d) == TRUE

Settleable(d) == deposit[d].status \in Pending

Over(v) == check' = [check EXCEPT ![v] = Idle]

\* completeDeposit: status, paymentRef and the credit in one transaction.
Complete(v) ==
  LET d == check[v].deposit  h == check[v].hash
  IN /\ check[v].at = "write" /\ check[v].result = "valid" /\ check[v].verified
     /\ Settleable(d) /\ ClaimUnchanged(v) /\ ~Taken(d, h)
     /\ deposit' = [deposit EXCEPT ![d].status = "COMPLETED", ![d].ref = h]
     /\ creditedFor' = [creditedFor EXCEPT ![d] = h]
     /\ Over(v)
     /\ UNCHANGED <<chain, mined, initiate, submit, review, overruled>>

Release(v) ==
  LET d == check[v].deposit  h == check[v].hash  row == deposit[d]
  IN /\ check[v].at = "write" /\ check[v].result = "terminal"
     /\ deposit' =
          IF row.status = "PROCESSING" /\ row.ref = h
          THEN [deposit EXCEPT ![d].status = "PENDING", ![d].ref = None]
          ELSE IF row.status = "PROCESSING" /\ row.evidence = h
          THEN [deposit EXCEPT ![d].status = "PENDING", ![d].evidence = None]
          ELSE deposit
     /\ Over(v)
     /\ UNCHANGED <<chain, mined, initiate, submit, review, creditedFor, overruled>>

\* Only the cron gives up on a deposit.
Fail(v) ==
  LET d == check[v].deposit
  IN /\ v \in Crons /\ check[v].at = "write" /\ check[v].result = "invalid"
     /\ deposit' = IF deposit[d].status = "PROCESSING"
                   THEN [deposit EXCEPT ![d].status = "FAILED"] ELSE deposit
     /\ Over(v)
     /\ UNCHANGED <<chain, mined, initiate, submit, review, creditedFor, overruled>>

\* Still waiting, flagged for review, refused by completeDeposit, or an error.  What
\* is then written to gatewayData is guarded by the claim, and keeps it.
NoResult(v) ==
  /\ check[v].at = "write" /\ Over(v)
  /\ UNCHANGED <<chain, mined, deposit, initiate, submit, review, creditedFor, overruled>>

-----------------------------------------------------------------------------
(* reviewDeposit with FAILED or REFUNDED                                     *)

ReviewRead(d) ==
  /\ d \in Reviewed /\ review[d] = "new"
  /\ deposit[d].status \in Pending \cup {"REFUNDED"}
  /\ review' = [review EXCEPT ![d] = "write"]
  /\ UNCHANGED <<chain, mined, deposit, initiate, submit, check, creditedFor, overruled>>

\* The UPDATE names the row by its id alone; the admin may give a paymentRef.
ReviewWrite(d, to, h) ==
  /\ review[d] = "write"
  /\ h # None => ~Taken(d, h)
  /\ review' = [review EXCEPT ![d] = "ended"]
  /\ deposit' = [deposit EXCEPT ![d].status = to, ![d].ref = IF h = None THEN @ ELSE h]
  /\ overruled' = IF creditedFor[d] # None THEN overruled \cup {d} ELSE overruled
  /\ UNCHANGED <<chain, mined, initiate, submit, check, creditedFor>>

Next ==
  \/ \E h \in Hashes : Mine(h)
  \/ \E d \in Deposits :
       \/ InitiateCheck(d) \/ InitiateInstruct(d) \/ SubmitRead(d) \/ ProveOwnership(d)
       \/ CancelDeposit(d) \/ ReviewRead(d)
       \/ \E h \in Hashes \cup {None} :
            \/ \E w \in Users, signed \in BOOLEAN : InitiateCreate(d, w, h, signed)
            \/ \E to \in {"FAILED", "REFUNDED"} : ReviewWrite(d, to, h)
       \/ \E h \in Hashes, signed \in BOOLEAN : SubmitWrite(d, h, signed)
       \/ \E v \in Checks \cup Crons : CheckRead(v, d)
  \/ \E v \in Checks \cup Crons :
       \/ \E r \in Results : CheckAsk(v, r)
       \/ Complete(v) \/ Release(v) \/ Fail(v) \/ NoResult(v)

Spec == Init /\ [][Next]_vars

Cron(v, d) ==
  /\ check[v].deposit = d
  /\ CheckAsk(v, Verdict(d, check[v].hash)) \/ Complete(v)

\* The cron runs every minute, visits every deposit that awaits verification and
\* ends; not every node it asks and not every transaction fails for ever.
Fairness ==
  \A v \in Crons :
    /\ WF_vars(\E r \in Results : CheckAsk(v, r))
    /\ WF_vars(NoResult(v))
    /\ \A d \in Deposits :
         /\ SF_vars(CheckRead(v, d))
         /\ SF_vars(check[v].at = "chain" /\ Cron(v, d))
         /\ SF_vars(check[v].at = "write" /\ Cron(v, d))

FairSpec == Spec /\ Fairness

-----------------------------------------------------------------------------
(* Properties                                                                *)

\* Every row and every call is well-formed, and a verification under way has a
\* deposit and a hash to ask about.
TypeOK ==
  /\ chain \in [Hashes -> Transfers] /\ mined \subseteq Hashes
  /\ deposit \in [Deposits -> [status: Statuses, wallet: Users, ref: Hashes \cup {None},
                               evidence: Hashes \cup {None}, verified: BOOLEAN,
                               older: SUBSET Hashes]]
  /\ initiate \in [Deposits -> {"new", "checked", "created", "done"}]
  /\ submit \in [Deposits -> [at: {"new", "write"}, verified: BOOLEAN]]
  /\ check \in [Checks \cup Crons -> [at: {"idle", "chain", "write"},
                 deposit: Deposits \cup {None}, hash: Hashes \cup {None},
                 verified: BOOLEAN, result: Results \cup {"none"}]]
  /\ \A v \in Checks \cup Crons :
       check[v].at # "idle" => check[v].deposit \in Deposits /\ check[v].hash \in Hashes
  /\ review \in [Deposits -> {"new", "write", "ended"}]
  /\ creditedFor \in [Deposits -> Hashes \cup {None}]
  /\ overruled \subseteq Deposits

\* One transfer is credited to one deposit: paymentRef is taken in the transaction
\* that credits.  (A rejection that comes too late may replace a credited
\* deposit's paymentRef.)
OneCreditPerTransfer ==
  \A d, e \in Deposits \ overruled :
    d # e /\ creditedFor[d] # None => creditedFor[d] # creditedFor[e]

\* A credit answers a payment the deposit's own user made after initiating it:
\* the declared wallet is the sender's, and a signature proved it is the user's.
CreditMeansOwnPayment ==
  \A d \in Deposits : creditedFor[d] # None =>
    /\ chain[creditedFor[d]] = [from |-> Owner[d], kind |-> "paid"]
    /\ creditedFor[d] \in mined \ deposit[d].older

\* A deposit is COMPLETED, under the paymentRef it was credited for, exactly when
\* it was credited: cancel, cron and check race and only one of them wins.
CompletedMeansCredited ==
  \A d \in Deposits \ overruled :
    IF deposit[d].status = "COMPLETED"
    THEN creditedFor[d] # None /\ deposit[d].ref = creditedFor[d]
    ELSE creditedFor[d] = None

\* A verification that was under way when its deposit was cancelled, failed or
\* rejected does not credit it any more (completeDeposit).
Closed(d) == deposit[d].status \in {"CANCELLED", "FAILED", "REFUNDED"}
NoCreditAfterClose ==
  [][\A d \in Deposits : Closed(d) => creditedFor'[d] = creditedFor[d]]_vars

\* The cron settles a valid transfer on a deposit whose wallet is proven, unless
\* the claim is withdrawn or another deposit holds the transfer.
AwaitsCredit(d, h) ==
  /\ deposit[d].status = "PROCESSING" /\ deposit[d].verified
  /\ h \in {deposit[d].ref, deposit[d].evidence}
  /\ Verdict(d, h) = "valid" /\ ~Taken(d, h)
ValidClaimSettles ==
  \A d \in Deposits, h \in Hashes : AwaitsCredit(d, h) ~> ~AwaitsCredit(d, h)
=============================================================================
