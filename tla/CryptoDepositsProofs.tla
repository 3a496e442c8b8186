------------------------ MODULE CryptoDepositsProofs ------------------------
(* Proofs about CryptoDeposits.tla, for every set of users, deposits, hashes *)
(* and verifications, and for whatever the transactions are on chain; and,   *)
(* after them, about Visits.tla.                                             *)
EXTENDS MCCryptoDeposits, FiniteSetTheorems, TLAPS

Verifiers == Checks \cup Crons

\* A deposit nobody has initiated is blank, and no call works on it.
Started ==
  /\ \A d \in Deposits :
       IF deposit[d].status = "none"
       THEN /\ initiate[d] \in {"new", "checked"} /\ creditedFor[d] = None
            /\ submit[d] = NotSubmitting /\ review[d] # "write" /\ d \notin overruled
       ELSE initiate[d] \in {"created", "done"}
  /\ \A v \in Verifiers : check[v].at # "idle" => deposit[check[v].deposit].status # "none"

\* Whoever holds a deposit, or a call, as verified has signed for its wallet.
Proven ==
  /\ \A d \in Deposits :
       (deposit[d].verified \/ submit[d].verified) /\ deposit[d].status # "none"
         => deposit[d].wallet = Owner[d]
  /\ \A v \in Verifiers :
       check[v].at # "idle" /\ check[v].verified
         => deposit[check[v].deposit].wallet = Owner[check[v].deposit]

\* An answer a verification carries stays true until it is used.
Answered ==
  \A v \in Verifiers : check[v].at = "write" /\ check[v].result = "valid" =>
    /\ chain[check[v].hash].kind = "paid"
    /\ chain[check[v].hash].from = deposit[check[v].deposit].wallet
    /\ check[v].hash \in mined
    /\ check[v].hash \notin deposit[check[v].deposit].older

\* The unique index on payment_ref.
RefsUnique ==
  \A d, e \in Deposits : d # e /\ deposit[d].ref # None => deposit[d].ref # deposit[e].ref

IInv ==
  /\ TypeOK /\ Started /\ Proven /\ Answered /\ RefsUnique
  /\ CompletedMeansCredited /\ CreditMeansOwnPayment

CheckRow == [at: {"idle", "chain", "write"},
             deposit: Deposits \cup {None}, hash: Hashes \cup {None},
             verified: BOOLEAN, result: Results \cup {"none"}]
SubmitRow == [at: {"new", "write"}, verified: BOOLEAN]

LEMMA CallTypes ==
  /\ TypeOK => check \in [Verifiers -> CheckRow] /\ submit \in [Deposits -> SubmitRow]
  /\ Idle \in CheckRow /\ NotSubmitting \in SubmitRow
BY DEF TypeOK, Verifiers, CheckRow, SubmitRow, Idle, NotSubmitting

-----------------------------------------------------------------------------
(* The initial states                                                        *)

LEMMA IInvInit == Init => IInv
<1> SUFFICES ASSUME Init PROVE IInv
  OBVIOUS
<1> USE CryptoAssumption DEF Init, Idle, NotSubmitting, Verifiers
<1>1. TypeOK
  BY DEF TypeOK, Statuses, Pending
<1>2. Started /\ Proven /\ Answered /\ RefsUnique
  BY DEF Started, Proven, Answered, RefsUnique
<1>3. CompletedMeansCredited /\ CreditMeansOwnPayment
  BY DEF CompletedMeansCredited, CreditMeansOwnPayment
<1> QED BY <1>1, <1>2, <1>3 DEF IInv

-----------------------------------------------------------------------------
(* What the chain says                                                       *)

LEMMA VerdictMeaning ==
  ASSUME NEW d \in Deposits, NEW h \in Hashes, Verdict(d, h) = "valid"
  PROVE  /\ h \in mined /\ chain[h].kind # "reverted" /\ chain[h].kind # "short"
         /\ chain[h].from = deposit[d].wallet /\ h \notin deposit[d].older
BY DEF Verdict

LEMMA VerdictType ==
  ASSUME NEW d \in Deposits, NEW h \in Hashes
  PROVE  Verdict(d, h) \in Results
BY DEF Verdict, Results

-----------------------------------------------------------------------------
(* Every action keeps the invariant                                          *)

\* Steps that leave the deposits alone.
LEMMA QuietSteps ==
  ASSUME IInv,
         \/ \E h \in Hashes : Mine(h)
         \/ \E d \in Deposits : InitiateCheck(d) \/ SubmitRead(d) \/ ReviewRead(d)
         \/ \E v \in Verifiers :
              \/ \E d \in Deposits : CheckRead(v, d)
              \/ \E r \in Results : CheckAsk(v, r)
              \/ NoResult(v)
         \/ UNCHANGED vars
  PROVE  IInv'
<1> USE CryptoAssumption DEF IInv, TypeOK, Started, Proven, Answered, RefsUnique,
        CompletedMeansCredited, CreditMeansOwnPayment, Verifiers, calls
<1>1. ASSUME NEW h \in Hashes, Mine(h) PROVE IInv'
  BY <1>1 DEF Mine
<1>2. ASSUME NEW d \in Deposits, InitiateCheck(d) PROVE IInv'
  BY <1>2 DEF InitiateCheck
<1>3. ASSUME NEW d \in Deposits, SubmitRead(d) PROVE IInv'
  BY <1>3 DEF SubmitRead
<1>4. ASSUME NEW v \in Verifiers, NEW d \in Deposits, CheckRead(v, d) PROVE IInv'
  <2>1. Claim(deposit[d]) \in Hashes
    BY <1>4 DEF CheckRead, Verifiable, Claim
  <2> QED BY <1>4, <2>1 DEF CheckRead, Verifiable, Results
<1>5. ASSUME NEW v \in Verifiers, NEW r \in Results, CheckAsk(v, r) PROVE IInv'
  <2>1. r = "valid" => /\ check[v].hash \in mined
                       /\ chain[check[v].hash].kind = "paid"
                       /\ chain[check[v].hash].from = deposit[check[v].deposit].wallet
                       /\ check[v].hash \notin deposit[check[v].deposit].older
    <3>1. check[v].deposit \in Deposits /\ check[v].hash \in Hashes
      BY <1>5 DEF CheckAsk
    <3>2. r = "valid" => Verdict(check[v].deposit, check[v].hash) = "valid"
      BY <1>5 DEF CheckAsk
    <3>3. chain[check[v].hash].kind \in {"paid", "short", "reverted"}
      BY <3>1 DEF Kinds
    <3> QED BY <3>1, <3>2, <3>3, VerdictMeaning
  <2>2. check' = [check EXCEPT ![v] = [@ EXCEPT !.at = "write", !.result = r]]
    BY <1>5 DEF CheckAsk
  <2>3. UNCHANGED <<chain, mined, deposit, initiate, submit, review, creditedFor, overruled>>
    BY <1>5 DEF CheckAsk
  <2>4. check[v].at = "chain"
    BY <1>5 DEF CheckAsk
  <2>5. TypeOK' /\ Started'
    <3>0. [check[v] EXCEPT !.at = "write", !.result = r] \in CheckRow
      <4>1. check[v] \in CheckRow
        BY CallTypes
      <4>2. "write" \in {"idle", "chain", "write"} /\ r \in Results \cup {"none"}
        BY <1>5
      <4> QED BY <4>1, <4>2 DEF CheckRow
    <3>1. check' \in [Verifiers -> CheckRow]
      BY <2>2, <3>0, CallTypes
    <3>2. \A w \in Verifiers : /\ check'[w].deposit = check[w].deposit
                               /\ check'[w].hash = check[w].hash
                               /\ check'[w].at # "idle" => check[w].at # "idle"
      BY <2>2, <2>4
    <3>3. TypeOK'
      BY <2>3, <3>1, <3>2 DEF CheckRow
    <3>4. Started'
      <4>1. deposit'[check'[v].deposit] = deposit[check[v].deposit] BY <2>3, <3>2
      <4> QED BY <2>3, <3>2
    <3> QED BY <3>3, <3>4
  <2>6. Proven' /\ Answered'
    BY <2>1, <2>2, <2>3, <2>4
  <2>7. RefsUnique' /\ CompletedMeansCredited' /\ CreditMeansOwnPayment'
    BY <2>3
  <2> QED BY <2>5, <2>6, <2>7
<1>6. ASSUME NEW v \in Verifiers, NoResult(v) PROVE IInv'
  BY <1>6 DEF NoResult, Over, Idle
<1>7. ASSUME NEW d \in Deposits, ReviewRead(d) PROVE IInv'
  BY <1>7 DEF ReviewRead, Pending
<1>8. CASE UNCHANGED vars
  BY <1>8 DEF vars
<1> QED BY <1>1, <1>2, <1>3, <1>4, <1>5, <1>6, <1>7, <1>8

Row == [status: Statuses, wallet: Users, ref: Hashes \cup {None},
        evidence: Hashes \cup {None}, verified: BOOLEAN, older: SUBSET Hashes]

\* What a step that rewrites the row of deposit d may do to it and to the calls.
RowStep(d, row) ==
  /\ deposit' = [deposit EXCEPT ![d] = row] /\ row \in Row /\ row.status # "none"
  /\ deposit[d].status # "none" =>
       row.wallet = deposit[d].wallet /\ row.older = deposit[d].older
  /\ row.verified => row.wallet = Owner[d]
  /\ row.ref # None => row.ref = deposit[d].ref \/ ~Taken(d, row.ref)

CallsStep(d) ==
  /\ UNCHANGED <<chain, mined>>
  /\ \/ initiate' = initiate /\ deposit[d].status # "none"
     \/ \E at \in {"created", "done"} : initiate' = [initiate EXCEPT ![d] = at]
  /\ submit' = submit \/ submit' = [submit EXCEPT ![d] = NotSubmitting]
  /\ check' = check \/ \E v \in Verifiers : check' = [check EXCEPT ![v] = Idle]
  /\ review' = review \/ review' = [review EXCEPT ![d] = "ended"]

CreditStep(d, row) ==
  /\ creditedFor' = creditedFor
     \/ \E h \in Hashes : creditedFor' = [creditedFor EXCEPT ![d] = h]
  /\ creditedFor'[d] # None =>
       /\ chain[creditedFor'[d]] = [from |-> Owner[d], kind |-> "paid"]
       /\ creditedFor'[d] \in mined \ row.older
  /\ overruled' = overruled \/ overruled' = overruled \cup {d}
  /\ d \in overruled' \/ IF row.status = "COMPLETED"
                         THEN creditedFor'[d] # None /\ row.ref = creditedFor'[d]
                         ELSE creditedFor'[d] = None

\* Such a step keeps the invariant.
LEMMA RowSteps ==
  ASSUME IInv, NEW d \in Deposits, NEW row, RowStep(d, row), CallsStep(d), CreditStep(d, row)
  PROVE  IInv'
<1> USE CryptoAssumption DEF IInv, TypeOK, Verifiers
<1>1. /\ deposit' \in [Deposits -> Row] /\ deposit'[d] = row
      /\ \A e \in Deposits \ {d} : deposit'[e] = deposit[e]
  BY DEF RowStep, Row
<1>2. /\ check' \in [Verifiers -> CheckRow]
      /\ \A v \in Checks \cup Crons : check'[v] = check[v] \/ check'[v] = Idle
  <2>1. CASE check' = check
    BY <2>1, CallTypes
  <2>2. ASSUME NEW v \in Verifiers, check' = [check EXCEPT ![v] = Idle]
        PROVE  /\ check' \in [Verifiers -> CheckRow]
               /\ \A w \in Checks \cup Crons : check'[w] = check[w] \/ check'[w] = Idle
    BY <2>2, CallTypes
  <2> QED BY <2>1, <2>2 DEF CallsStep
<1>3. \A v \in Checks \cup Crons : check'[v].at # "idle" => check'[v] = check[v]
  BY <1>2 DEF Idle
<1>4. /\ submit' \in [Deposits -> SubmitRow]
      /\ \A e \in Deposits : submit'[e] = submit[e] \/ submit'[e] = NotSubmitting
      /\ \A e \in Deposits \ {d} : submit'[e] = submit[e]
  <2>1. CASE submit' = submit
    BY <2>1, CallTypes
  <2>2. CASE submit' = [submit EXCEPT ![d] = NotSubmitting]
    BY <2>2, CallTypes
  <2> QED BY <2>1, <2>2 DEF CallsStep
<1>5. /\ creditedFor' \in [Deposits -> Hashes \cup {None}]
      /\ \A e \in Deposits \ {d} : creditedFor'[e] = creditedFor[e]
      /\ overruled' \subseteq Deposits
      /\ \A e \in Deposits \ {d} : e \in overruled' <=> e \in overruled
  BY DEF CreditStep
<1>6. /\ initiate' \in [Deposits -> {"new", "checked", "created", "done"}]
      /\ \A e \in Deposits \ {d} : initiate'[e] = initiate[e]
      /\ initiate'[d] \in {"created", "done"}
  <2>1. CASE initiate' = initiate /\ deposit[d].status # "none"
    BY <2>1 DEF Started
  <2>2. ASSUME NEW at \in {"created", "done"}, initiate' = [initiate EXCEPT ![d] = at]
        PROVE  /\ initiate' \in [Deposits -> {"new", "checked", "created", "done"}]
               /\ \A e \in Deposits \ {d} : initiate'[e] = initiate[e]
               /\ initiate'[d] \in {"created", "done"}
    BY <2>2
  <2> QED BY <2>1, <2>2 DEF CallsStep
<1>7. /\ review' \in [Deposits -> {"new", "write", "ended"}]
      /\ \A e \in Deposits \ {d} : review'[e] = review[e]
  BY DEF CallsStep
<1>8. UNCHANGED <<chain, mined>>
  BY DEF CallsStep
<1>9. deposit[d].status # "none" =>
        row.wallet = deposit[d].wallet /\ row.older = deposit[d].older
  BY DEF RowStep
<1>10. TypeOK'
  BY <1>1, <1>2, <1>3, <1>4, <1>5, <1>6, <1>7, <1>8 DEF Row, CheckRow, SubmitRow
<1>11. Started'
  <2>1. row.status # "none" BY DEF RowStep
  <2>2. \A v \in Verifiers : check'[v].at # "idle" =>
          /\ check'[v].deposit \in Deposits /\ deposit[check'[v].deposit].status # "none"
    BY <1>3 DEF Started
  <2>3. \A v \in Verifiers : check'[v].at # "idle" => deposit'[check'[v].deposit].status # "none"
    BY <1>1, <2>1, <2>2
  <2>4. \A e \in Deposits :
       IF deposit'[e].status = "none"
       THEN /\ initiate'[e] \in {"new", "checked"} /\ creditedFor'[e] = None
            /\ submit'[e] = NotSubmitting /\ review'[e] # "write" /\ e \notin overruled'
       ELSE initiate'[e] \in {"created", "done"}
    <3> SUFFICES ASSUME NEW e \in Deposits, e # d
                 PROVE  /\ deposit'[e] = deposit[e] /\ initiate'[e] = initiate[e]
                        /\ creditedFor'[e] = creditedFor[e] /\ submit'[e] = submit[e]
                        /\ review'[e] = review[e]
                        /\ e \in overruled' <=> e \in overruled
      BY <1>1, <1>6, <2>1 DEF Started
    <3> QED BY <1>1, <1>4, <1>5, <1>6, <1>7
  <2> QED BY <2>3, <2>4 DEF Started
<1>12. Proven'
  <2>1. row.verified => row.wallet = Owner[d] BY DEF RowStep
  <2>2. submit[d].verified => deposit[d].status # "none"
    BY DEF Started, NotSubmitting
  <2>3. submit'[d].verified => row.wallet = Owner[d]
    BY <1>4, <1>9, <2>2 DEF Proven, NotSubmitting
  <2>4. \A e \in Deposits :
       (deposit'[e].verified \/ submit'[e].verified) /\ deposit'[e].status # "none"
         => deposit'[e].wallet = Owner[e]
    <3> SUFFICES ASSUME NEW e \in Deposits, e # d
                 PROVE  deposit'[e] = deposit[e] /\ submit'[e] = submit[e]
      BY <1>1, <2>1, <2>3 DEF Proven
    <3> QED BY <1>1, <1>4
  <2>5. ASSUME NEW v \in Verifiers, check'[v].at # "idle", check'[v].verified
        PROVE  deposit'[check'[v].deposit].wallet = Owner[check'[v].deposit]
    <3>1. check'[v] = check[v] BY <1>3, <2>5
    <3>2. check[v].deposit \in Deposits /\ deposit[check[v].deposit].status # "none"
      BY <2>5, <3>1 DEF Started
    <3>3. deposit[check[v].deposit].wallet = Owner[check[v].deposit]
      BY <2>5, <3>1 DEF Proven
    <3> QED BY <1>1, <1>9, <3>1, <3>2, <3>3
  <2> QED BY <2>4, <2>5 DEF Proven
<1>13. Answered'
  <2> SUFFICES ASSUME NEW v \in Verifiers, check'[v].at = "write", check'[v].result = "valid"
      PROVE /\ chain[check'[v].hash].kind = "paid"
            /\ chain[check'[v].hash].from = deposit'[check'[v].deposit].wallet
            /\ check'[v].hash \in mined
            /\ check'[v].hash \notin deposit'[check'[v].deposit].older
    BY <1>8 DEF Answered
  <2>1. check'[v] = check[v] BY <1>3
  <2>2. check[v].deposit \in Deposits /\ deposit[check[v].deposit].status # "none"
    BY <2>1 DEF Started
  <2>3. /\ deposit'[check[v].deposit].wallet = deposit[check[v].deposit].wallet
        /\ deposit'[check[v].deposit].older = deposit[check[v].deposit].older
    BY <1>1, <1>9, <2>2
  <2> QED BY <2>1, <2>3 DEF Answered
<1>14. RefsUnique'
  BY <1>1 DEF RowStep, RefsUnique, Taken
<1>15. CompletedMeansCredited'
  BY <1>1, <1>5 DEF CompletedMeansCredited, CreditStep
<1>16. CreditMeansOwnPayment'
  BY <1>1, <1>5, <1>8 DEF CreditMeansOwnPayment, CreditStep
<1> QED BY <1>10, <1>11, <1>12, <1>13, <1>14, <1>15, <1>16

LEMMA RowType == IInv => deposit \in [Deposits -> Row] /\ \A d \in Deposits : deposit[d] \in Row
BY DEF IInv, TypeOK, Row

\* Steps of the user and the admins.
LEMMA UserSteps ==
  ASSUME IInv, NEW d \in Deposits,
         \/ \E w \in Users, h \in Hashes \cup {None}, signed \in BOOLEAN :
              InitiateCreate(d, w, h, signed)
         \/ InitiateInstruct(d)
         \/ \E h \in Hashes, signed \in BOOLEAN : SubmitWrite(d, h, signed)
         \/ ProveOwnership(d) \/ CancelDeposit(d)
         \/ \E to \in {"FAILED", "REFUNDED"}, h \in Hashes \cup {None} : ReviewWrite(d, to, h)
  PROVE  IInv'
<1> USE CryptoAssumption, RowType
<1> DEFINE old == deposit[d]
<1>0. /\ old \in Row /\ deposit \in [Deposits -> Row] /\ mined \subseteq Hashes
      /\ old.verified => (old.status # "none" => old.wallet = Owner[d])
      /\ submit[d].at = "write" => old.status # "none"
      /\ submit[d].verified => old.wallet = Owner[d]
      /\ review[d] = "write" => old.status # "none"
      /\ initiate[d] \in {"new", "checked"} <=> old.status = "none"
  BY DEF IInv, TypeOK, Started, Proven, NotSubmitting
<1>1. ASSUME NEW w \in Users, NEW h \in Hashes \cup {None}, NEW signed \in BOOLEAN,
             InitiateCreate(d, w, h, signed)
      PROVE IInv'
  <2> DEFINE row == [status |-> "PENDING", wallet |-> w, ref |-> None, evidence |-> None,
                     verified |-> signed, older |-> mined]
             new == IF h = None THEN row ELSE Claimed(row, h, signed)
  <2>1. old.status = "none" /\ deposit' = [deposit EXCEPT ![d] = new]
    BY <1>0, <1>1 DEF InitiateCreate
  <2>2. row \in Row
    BY <1>0 DEF Row, Statuses, Pending
  <2>3. /\ new \in Row /\ new.status \in Pending /\ new.wallet = w
        /\ new.verified => signed
        /\ new.ref # None => new.ref = h /\ signed /\ h # None
    BY <2>2 DEF Claimed, Row, Statuses, Pending
  <2>4. /\ signed => w = Owner[d]
        /\ (h # None /\ signed) => ~Taken(d, h)
        /\ initiate' = [initiate EXCEPT ![d] = "created"]
        /\ UNCHANGED <<chain, mined, submit, check, review, creditedFor, overruled>>
    BY <1>1 DEF InitiateCreate, CanSign
  <2> HIDE DEF new, row
  <2>5. RowStep(d, new)
    BY <2>1, <2>3, <2>4 DEF RowStep, Pending
  <2>6. CallsStep(d)
    BY <2>4 DEF CallsStep
  <2>7. creditedFor[d] = None
    BY <2>1 DEF IInv, Started
  <2>8. CreditStep(d, new)
    BY <2>3, <2>4, <2>7 DEF CreditStep, Pending
  <2> QED BY <2>5, <2>6, <2>8, RowSteps
<1>2. CASE InitiateInstruct(d)
  <2> DEFINE new == [old EXCEPT !.evidence = None]
  <2>1. new \in Row /\ deposit' = [deposit EXCEPT ![d] = new]
    BY <1>0, <1>2 DEF InitiateInstruct, Row
  <2>2. RowStep(d, new)
    BY <1>0, <1>2, <2>1 DEF InitiateInstruct, RowStep, Row
  <2>3. CallsStep(d)
    BY <1>0, <1>2 DEF InitiateInstruct, CallsStep
  <2>4. CreditStep(d, new)
    BY <1>0, <1>2 DEF InitiateInstruct, CreditStep, IInv, CompletedMeansCredited,
       CreditMeansOwnPayment, Row
  <2> QED BY <2>2, <2>3, <2>4, RowSteps
<1>3. ASSUME NEW h \in Hashes, NEW signed \in BOOLEAN, SubmitWrite(d, h, signed)
      PROVE IInv'
  <2> DEFINE proof == submit[d].verified \/ signed
             refused == deposit[d].status # "PENDING" \/ (proof /\ Taken(d, h))
             new == IF refused THEN old ELSE Claimed(old, h, proof)
  <2>1. deposit' = [deposit EXCEPT ![d] = new]
    BY <1>0, <1>3 DEF SubmitWrite
  <2>2. /\ new \in Row /\ new.wallet = old.wallet /\ new.older = old.older
        /\ new.status # "none" /\ (new = old \/ new.status = "PROCESSING")
        /\ new # old => old.status = "PENDING"
    BY <1>0, <1>3 DEF SubmitWrite, Claimed, Row, Statuses, Pending
  <2>3. /\ new.verified => new.wallet = Owner[d]
        /\ new.ref # None => new.ref = old.ref \/ ~Taken(d, new.ref)
    BY <1>0, <1>3 DEF SubmitWrite, Claimed, CanSign, Row
  <2>4. RowStep(d, new)
    BY <2>1, <2>2, <2>3 DEF RowStep
  <2>5. CallsStep(d)
    BY <1>0, <1>3 DEF SubmitWrite, CallsStep
  <2> HIDE DEF new
  <2>6. CreditStep(d, new)
    BY <1>0, <1>3, <2>2 DEF SubmitWrite, CreditStep, IInv, CompletedMeansCredited,
       CreditMeansOwnPayment
  <2> QED BY <2>4, <2>5, <2>6, RowSteps
<1>4. CASE ProveOwnership(d)
  <2> DEFINE new == [old EXCEPT !.verified = TRUE]
  <2>1. new \in Row /\ deposit' = [deposit EXCEPT ![d] = new]
    BY <1>0, <1>4 DEF ProveOwnership, Row
  <2>2. RowStep(d, new)
    BY <1>0, <1>4, <2>1 DEF ProveOwnership, CanSign, RowStep, Row, Pending
  <2>3. CallsStep(d)
    BY <1>0, <1>4 DEF ProveOwnership, CallsStep, calls, Pending
  <2>4. CreditStep(d, new)
    BY <1>0, <1>4 DEF ProveOwnership, CreditStep, IInv, CompletedMeansCredited,
       CreditMeansOwnPayment, Row
  <2> QED BY <2>2, <2>3, <2>4, RowSteps
<1>5. CASE CancelDeposit(d)
  <2> DEFINE new == [old EXCEPT !.status = "CANCELLED"]
  <2>1. new \in Row /\ deposit' = [deposit EXCEPT ![d] = new]
    BY <1>0, <1>5 DEF CancelDeposit, Row, Statuses
  <2>2. RowStep(d, new)
    BY <1>0, <1>5, <2>1 DEF CancelDeposit, Cancellable, RowStep, Row, Pending
  <2>3. CallsStep(d)
    BY <1>0, <1>5 DEF CancelDeposit, Cancellable, CallsStep, calls, Pending
  <2>4. CreditStep(d, new)
    BY <1>0, <1>5 DEF CancelDeposit, Cancellable, Pending, CreditStep, IInv,
       CompletedMeansCredited, CreditMeansOwnPayment, Row
  <2> QED BY <2>2, <2>3, <2>4, RowSteps
<1>6. ASSUME NEW to \in {"FAILED", "REFUNDED"}, NEW h \in Hashes \cup {None},
             ReviewWrite(d, to, h)
      PROVE IInv'
  <2> DEFINE new == [old EXCEPT !.status = to, !.ref = IF h = None THEN @ ELSE h]
  <2>1. new \in Row /\ deposit' = [deposit EXCEPT ![d] = new]
    BY <1>0, <1>6 DEF ReviewWrite, Row, Statuses
  <2>2. RowStep(d, new)
    BY <1>0, <1>6, <2>1 DEF ReviewWrite, RowStep, Row
  <2>3. CallsStep(d)
    BY <1>0, <1>6 DEF ReviewWrite, CallsStep
  <2>4. CreditStep(d, new)
    BY <1>0, <1>6 DEF ReviewWrite, CreditStep, IInv, TypeOK, CompletedMeansCredited,
       CreditMeansOwnPayment, Row
  <2> QED BY <2>2, <2>3, <2>4, RowSteps
<1> QED BY <1>1, <1>2, <1>3, <1>4, <1>5, <1>6

\* Steps of a verification that write to its deposit.
LEMMA VerificationSteps ==
  ASSUME IInv, NEW v \in Verifiers, Complete(v) \/ Release(v) \/ Fail(v)
  PROVE  IInv'
<1> USE CryptoAssumption, RowType
<1> DEFINE d == check[v].deposit
           h == check[v].hash
           old == deposit[d]
<1>0. /\ d \in Deposits /\ h \in Hashes /\ old \in Row /\ old.status # "none"
      /\ deposit \in [Deposits -> Row]
      /\ old.verified => old.wallet = Owner[d]
      /\ check' = [check EXCEPT ![v] = Idle]
      /\ UNCHANGED <<chain, mined, initiate, submit, review, overruled>>
  BY DEF IInv, TypeOK, Started, Proven, Verifiers, Complete, Release, Fail, Over
<1>1. CallsStep(d)
  BY <1>0 DEF CallsStep
<1>2. CASE Complete(v)
  <2> DEFINE new == [old EXCEPT !.status = "COMPLETED", !.ref = h]
  <2>1. new \in Row /\ deposit' = [deposit EXCEPT ![d] = new]
    BY <1>0, <1>2 DEF Complete, Row, Statuses
  <2>2. RowStep(d, new)
    BY <1>0, <1>2, <2>1 DEF Complete, RowStep, Row
  <2>3. /\ chain[h].kind = "paid" /\ chain[h].from = Owner[d]
        /\ h \in mined /\ h \notin old.older
    BY <1>0, <1>2 DEF Complete, IInv, Answered, Verifiers, ClaimUnchanged
  <2>4. chain[h] = [from |-> Owner[d], kind |-> "paid"]
    BY <1>0, <2>3 DEF IInv, TypeOK
  <2>5. creditedFor' = [creditedFor EXCEPT ![d] = h] /\ creditedFor'[d] = h
    BY <1>0, <1>2 DEF Complete, IInv, TypeOK
  <2>6. CreditStep(d, new)
    BY <1>0, <2>1, <2>3, <2>4, <2>5 DEF CreditStep, Row
  <2> QED BY <1>0, <1>1, <2>2, <2>6, RowSteps
<1>3. CASE Release(v)
  <2>1. PICK new \in {old, [old EXCEPT !.status = "PENDING", !.ref = None],
                      [old EXCEPT !.status = "PENDING", !.evidence = None]} :
          /\ deposit' = [deposit EXCEPT ![d] = new]
          /\ new # old => old.status = "PROCESSING"
    BY <1>0, <1>3 DEF Release
  <2>2. /\ new \in Row /\ new.wallet = old.wallet /\ new.older = old.older
        /\ new.verified = old.verified /\ (new.ref = old.ref \/ new.ref = None)
        /\ new = old \/ (old.status = "PROCESSING" /\ new.status = "PENDING")
    <3>1. CASE new = old
      BY <1>0, <3>1
    <3>2. CASE new = [old EXCEPT !.status = "PENDING", !.ref = None] /\ new # old
      BY <1>0, <2>1, <3>2 DEF Row, Statuses, Pending
    <3>3. CASE new = [old EXCEPT !.status = "PENDING", !.evidence = None] /\ new # old
      BY <1>0, <2>1, <3>3 DEF Row, Statuses, Pending
    <3> QED BY <2>1, <3>1, <3>2, <3>3
  <2>3. RowStep(d, new)
    BY <1>0, <2>1, <2>2 DEF RowStep
  <2>4. CreditStep(d, new)
    BY <1>0, <1>3, <2>2 DEF Release, CreditStep, IInv, CompletedMeansCredited,
       CreditMeansOwnPayment
  <2> QED BY <1>0, <1>1, <2>3, <2>4, RowSteps
<1>4. CASE Fail(v)
  <2>1. PICK new \in {old, [old EXCEPT !.status = "FAILED"]} :
          /\ deposit' = [deposit EXCEPT ![d] = new]
          /\ new # old => old.status = "PROCESSING"
    BY <1>0, <1>4 DEF Fail
  <2>2. /\ new \in Row /\ new.wallet = old.wallet /\ new.older = old.older
        /\ new.verified = old.verified /\ new.ref = old.ref
        /\ new = old \/ (old.status = "PROCESSING" /\ new.status = "FAILED")
    BY <1>0, <2>1 DEF Row, Statuses
  <2>3. RowStep(d, new)
    BY <1>0, <2>1, <2>2 DEF RowStep
  <2>4. CreditStep(d, new)
    BY <1>0, <1>4, <2>2 DEF Fail, CreditStep, IInv, CompletedMeansCredited,
       CreditMeansOwnPayment
  <2> QED BY <1>0, <1>1, <2>3, <2>4, RowSteps
<1> QED BY <1>2, <1>3, <1>4

-----------------------------------------------------------------------------
(* Theorems                                                                  *)

LEMMA IInvStep == IInv /\ [Next]_vars => IInv'
<1> SUFFICES ASSUME IInv, [Next]_vars PROVE IInv'
  OBVIOUS
<1>1. ASSUME NEW h \in Hashes, Mine(h) PROVE IInv'
  BY <1>1, QuietSteps
<1>2. ASSUME NEW d \in Deposits, InitiateCheck(d) \/ SubmitRead(d) \/ ReviewRead(d)
      PROVE IInv'
  BY <1>2, QuietSteps
<1>3. ASSUME NEW v \in Verifiers,
             \/ \E d \in Deposits : CheckRead(v, d)
             \/ \E r \in Results : CheckAsk(v, r)
             \/ NoResult(v)
      PROVE IInv'
  BY <1>3, QuietSteps
<1>4. CASE UNCHANGED vars
  BY <1>4, QuietSteps
<1> QED BY <1>1, <1>2, <1>3, <1>4, UserSteps, VerificationSteps DEF Next, Verifiers

LEMMA Invariant == Spec => []IInv
<1>1. Init => IInv BY IInvInit
<1>2. IInv /\ [Next]_vars => IInv' BY IInvStep
<1> QED BY <1>1, <1>2, PTL DEF Spec

\* Deposits, calls and verifications keep their types.
THEOREM TypeCorrect == Spec => []TypeOK
<1>1. IInv => TypeOK BY DEF IInv
<1> QED BY <1>1, Invariant, PTL

\* However cancel, checks, crons and reviews interleave, a deposit is completed
\* exactly when it was credited, unless an admin overruled it later.
THEOREM CompletedCorrect == Spec => []CompletedMeansCredited
<1>1. IInv => CompletedMeansCredited BY DEF IInv
<1> QED BY <1>1, Invariant, PTL

\* Every credit answers its owner's own, later and sufficient transfer.
THEOREM OwnPaymentCorrect == Spec => []CreditMeansOwnPayment
<1>1. IInv => CreditMeansOwnPayment BY DEF IInv
<1> QED BY <1>1, Invariant, PTL

\* No transfer is credited to two deposits: each deposit credited still holds its
\* hash in paymentRef, which is unique.
THEOREM OneCreditCorrect == Spec => []OneCreditPerTransfer
<1>1. IInv => OneCreditPerTransfer
  BY DEF IInv, RefsUnique, CompletedMeansCredited, OneCreditPerTransfer
<1> QED BY <1>1, Invariant, PTL

\* No verification credits a deposit that was closed meanwhile.
THEOREM NoCreditCorrect == Spec => NoCreditAfterClose
<1> DEFINE Kept == \A d \in Deposits : Closed(d) => creditedFor'[d] = creditedFor[d]
<1>1. IInv /\ [Next]_vars => [Kept]_vars
  <2> SUFFICES ASSUME IInv, Next, NEW d \in Deposits, Closed(d)
               PROVE  creditedFor'[d] = creditedFor[d]
    OBVIOUS
  <2>1. ASSUME NEW v \in Verifiers, Complete(v) PROVE creditedFor'[d] = creditedFor[d]
    <3>1. check[v].deposit # d
      BY <2>1 DEF Complete, Settleable, Pending, Closed
    <3> QED BY <2>1, <3>1 DEF Complete, IInv, TypeOK
  <2>2. (\E v \in Verifiers : Complete(v)) \/ creditedFor' = creditedFor
    <3>1. ASSUME NEW h \in Hashes, Mine(h) PROVE creditedFor' = creditedFor
      BY <3>1 DEF Mine
    <3>2. ASSUME NEW e \in Deposits,
                 InitiateCheck(e) \/ InitiateInstruct(e) \/ SubmitRead(e)
                   \/ ProveOwnership(e) \/ CancelDeposit(e) \/ ReviewRead(e)
          PROVE  creditedFor' = creditedFor
      BY <3>2 DEF InitiateCheck, InitiateInstruct, SubmitRead, ProveOwnership, CancelDeposit,
         ReviewRead
    <3>3. ASSUME NEW e \in Deposits, NEW h \in Hashes \cup {None}, NEW w \in Users,
                 NEW signed \in BOOLEAN,
                 InitiateCreate(e, w, h, signed)
          PROVE  creditedFor' = creditedFor
      BY <3>3 DEF InitiateCreate
    <3>4. ASSUME NEW e \in Deposits, NEW h \in Hashes \cup {None},
                 NEW to \in {"FAILED", "REFUNDED"}, ReviewWrite(e, to, h)
          PROVE  creditedFor' = creditedFor
      BY <3>4 DEF ReviewWrite
    <3>5. ASSUME NEW v \in Verifiers,
                 \/ \E e \in Deposits : CheckRead(v, e)
                 \/ \E r \in Results : CheckAsk(v, r)
                 \/ Release(v) \/ Fail(v) \/ NoResult(v)
          PROVE  creditedFor' = creditedFor
      BY <3>5 DEF CheckRead, CheckAsk, Release, Fail, NoResult
    <3>6. ASSUME NEW e \in Deposits, NEW h \in Hashes, NEW signed \in BOOLEAN,
                 SubmitWrite(e, h, signed)
          PROVE  creditedFor' = creditedFor
      BY <3>6 DEF SubmitWrite
    <3> QED BY <3>1, <3>2, <3>3, <3>4, <3>5, <3>6 DEF Next, Verifiers
  <2> QED BY <2>1, <2>2
<1> HIDE DEF Kept
<1>2. Spec => [][Kept]_vars
  BY <1>1, Invariant, PTL DEF Spec
<1> QED BY <1>2 DEF Kept, NoCreditAfterClose

-----------------------------------------------------------------------------
(* Visits, beside CryptoDeposits in MCCryptoDeposits.                        *)

CallType ==
  [at : {"new", "done"}]
    \cup [at : {"look"}, beacon : Beacons, now : 0..LastTime]
    \cup [at : {"commit"}, beacon : Beacons, now : 0..LastTime, open : Beacons \cup {None}]

RunType ==
  [at : {"new", "done"}]
    \cup [at : {"waits", "deleted"}, day : V!Days, had : BOOLEAN]
    \cup [at : {"read"}, day : V!Days, had : BOOLEAN, stale : BOOLEAN, figures : V!FiguresRow]

VisitTypes == V!TypeOK /\ call \in [Deliveries -> CallType] /\ run \in [Runs -> RunType]

Flying(c) == call[c].at \in {"look", "commit"}
From(c) == Sender[call[c].beacon]

\* A delivery lasts less than a window, and only since it began may its page view be stored.
Delivered ==
  \A c \in Deliveries : Flying(c) =>
    /\ call[c].now <= time /\ time < call[c].now + Window
    /\ event[call[c].beacon] # None => call[c].now <= event[call[c].beacon].at

\* The page view that opened a visit is the visit's, and every page view has one.
Grouped ==
  \A b \in Beacons :
    /\ visit[b] # None => event[b] # None /\ event[b].visit = b
    /\ event[b] # None => visit[event[b].visit] # None

\* Only what is old is purged.
Clocked ==
  \A b \in Beacons :
    /\ visit[b] # None => /\ visit[b].started <= time /\ visit[b].seen <= time
                          /\ Sender[b] \notin raced => visit[b].started <= visit[b].seen
                          /\ visit[b].gone => visit[b].started + RawDays * DayLength < time
    /\ event[b] # None => /\ event[b].at <= time
                          /\ event[b].gone => event[b].at + RawDays * DayLength < time

\* A delivery that did not overlap with another of its visitor is the visitor's latest.
Alone ==
  \A c \in Deliveries : Flying(c) /\ From(c) \notin raced =>
    /\ \A q \in Deliveries : Flying(q) /\ From(q) = From(c) => q = c
    /\ \A w \in V!Rows : Sender[w] = From(c) => visit[w].seen <= call[c].now

\* What it found when it looked for an open visit still holds.
Found ==
  \A c \in Deliveries : call[c].at = "commit" =>
    /\ call[c].open # None => visit[call[c].open] # None /\ Sender[call[c].open] = From(c)
    /\ From(c) \notin raced =>
         IF call[c].open # None THEN call[c].now < visit[call[c].open].seen + Window
         ELSE \A w \in V!Rows : Sender[w] = From(c) /\ ~visit[w].gone =>
                visit[w].seen + Window <= call[c].now

\* A run rebuilds a day whose rows are kept; the figures it deletes are there until it ends.
Rebuilt ==
  \A r \in Runs : run[r].at \in V!InProgress =>
    V!Today < run[r].day + Rebuild /\ (run[r].had => daily[run[r].day] # None)

OneHolder ==
  \A r, s \in Runs, d \in V!Days : V!Holds(r, d) /\ V!Holds(s, d) => r = s

\* Figures of a day by all its rows.
OnDay(d) == {b \in V!Views : V!DayOf(event[b].at) = d}
Begun(d) == {v \in V!Rows : V!DayOf(visit[v].started) = d}
Bounced(d) == {v \in Begun(d) : visit[v].views = 1}
DayFigures(d) ==
  [visits |-> Cardinality(Begun(d)), views |-> Cardinality(OnDay(d)),
   bounces |-> Cardinality(Bounced(d)), uniques |-> Cardinality({Sender[b] : b \in OnDay(d)})]

\* Figures that were read are those of the day, or the day is known to be behind, or the
\* insert will conflict.
Figured ==
  \A r \in Runs, d \in V!Days : run[r].at = "read" /\ run[r].day = d =>
    IF ~run[r].stale THEN run[r].figures = DayFigures(d)
    ELSE d \in behind \/ (~run[r].had /\ daily[d] # None)

\* Of CountedOnce: the page views of a visit.
Members(v) == {b \in V!Views : event[b].visit = v}

Tally == \A v \in V!Rows : visit[v].views = Cardinality(Members(v))

\* Of FiguresKept: the figures of days that are not behind.
Upheld == \A d \in V!Days \ behind : V!Today < d + FigureDays => daily[d] = DayFigures(d)

VisitsInv ==
  /\ VisitTypes /\ Delivered /\ Grouped /\ Clocked /\ Alone /\ Found
  /\ Rebuilt /\ OneHolder /\ Figured
  /\ Tally /\ V!VisitsApart /\ Upheld

LEMMA VisitsHold ==
  /\ IsFiniteSet(Beacons) /\ DOMAIN Sender = Beacons
  /\ Window \in Nat \ {0} /\ DayLength \in Nat \ {0}
  /\ Rebuild \in Nat /\ RawDays \in Nat /\ FigureDays \in Nat /\ LastTime \in Nat
  /\ Rebuild <= RawDays /\ Rebuild <= FigureDays /\ Window <= RawDays * DayLength
  /\ None \notin Beacons /\ None \notin V!VisitRow /\ None \notin V!EventRow /\ None \notin V!FiguresRow
BY VisitsAssumed DEF V!VisitsAssumption, V!IsFiniteSet, IsFiniteSet

LEMMA SameCardinality == \A T : V!Cardinality(T) = Cardinality(T)
BY DEF V!Cardinality, Cardinality

LEMMA Product == ASSUME NEW a \in Nat, NEW b \in Nat PROVE a * b \in Nat
OBVIOUS

-----------------------------------------------------------------------------
(* Days                                                                      *)

LEMMA DayBounds ==
  ASSUME NEW t \in Nat
  PROVE  /\ V!DayOf(t) \in Nat /\ V!DayOf(t) * DayLength \in Nat
         /\ V!DayOf(t) * DayLength <= t /\ t < V!DayOf(t) * DayLength + DayLength
<1>1. PICK n \in Nat \ {0} : n = DayLength
  BY VisitsHold
<1>2. t \div n \in Nat /\ t = n * (t \div n) + (t % n) /\ t % n \in 0..n - 1
  OBVIOUS
<1>3. PICK q \in Nat, r \in 0..n - 1 : q = t \div n /\ r = t % n
  BY <1>2
<1>4. q * n \in Nat /\ t = q * n + r
  BY <1>2, <1>3
<1> QED BY <1>1, <1>3, <1>4 DEF V!DayOf

LEMMA DaysOrdered ==
  ASSUME NEW a \in Nat, NEW b \in Nat, NEW n \in Nat \ {0}, a * n < b * n + n
  PROVE  a <= b
<1> SUFFICES ASSUME b < a PROVE FALSE
  OBVIOUS
<1>1. PICK k \in Nat : a = b + 1 + k
  <2>1. a - b - 1 \in Nat /\ a = b + 1 + (a - b - 1)
    OBVIOUS
  <2> QED BY <2>1
<1>2. a * n = b * n + n + k * n
  BY <1>1
<1>3. b * n \in Nat /\ k * n \in Nat
  BY Product
<1> QED BY <1>2, <1>3

\* A later time is of no earlier day.
LEMMA DayMonotone ==
  ASSUME NEW s \in Nat, NEW t \in Nat, s <= t
  PROVE  V!DayOf(s) <= V!DayOf(t)
<1>1. PICK p \in Nat, q \in Nat, n \in Nat \ {0} : p = V!DayOf(s) /\ q = V!DayOf(t) /\ n = DayLength
  BY DayBounds, VisitsHold
<1>2. p * n \in Nat /\ q * n \in Nat /\ p * n <= s /\ t < q * n + n
  BY <1>1, DayBounds
<1>3. p * n < q * n + n
  BY <1>2
<1> QED BY <1>1, <1>3, DaysOrdered

\* What is k days older is of a day k days before.
LEMMA DaysApart ==
  ASSUME NEW d \in Nat, NEW t \in Nat, NEW k \in Nat, d * DayLength + k * DayLength < t
  PROVE  d + k <= V!DayOf(t)
<1>1. PICK q \in Nat, n \in Nat \ {0} : q = V!DayOf(t) /\ n = DayLength
  BY DayBounds, VisitsHold
<1>2. q * n \in Nat /\ t < q * n + n
  BY <1>1, DayBounds
<1>3. (d + k) * n = d * n + k * n /\ d * n \in Nat /\ k * n \in Nat /\ (d + k) \in Nat
  BY Product
<1>4. (d + k) * n < q * n + n
  BY <1>1, <1>2, <1>3
<1> QED BY <1>1, <1>3, <1>4, DaysOrdered

LEMMA OldRow ==
  ASSUME NEW s \in Nat, NEW t \in Nat, s + RawDays * DayLength < t
  PROVE  V!DayOf(s) + RawDays <= V!DayOf(t)
<1>1. RawDays * DayLength \in Nat
  BY VisitsHold, Product
<1>2. PICK d \in Nat, m \in Nat, x \in Nat :
        d = V!DayOf(s) /\ m = V!DayOf(s) * DayLength /\ x = RawDays * DayLength
  BY <1>1, DayBounds
<1>3. m <= s
  BY <1>2, DayBounds
<1>4. m + x < t
  BY <1>2, <1>3
<1>5. d * DayLength + RawDays * DayLength < t
  BY <1>2, <1>4
<1> QED BY <1>2, <1>5, DaysApart, VisitsHold

LEMMA DayInDays == ASSUME NEW t \in 0..LastTime PROVE V!DayOf(t) \in V!Days
<1>1. t \in Nat /\ t <= LastTime /\ LastTime \in Nat
  BY VisitsHold
<1>2. V!DayOf(t) \in Nat /\ V!DayOf(LastTime) \in Nat /\ V!DayOf(t) <= V!DayOf(LastTime)
  BY <1>1, DayBounds, DayMonotone
<1>3. V!Days = 0..V!DayOf(LastTime)
  BY DEF V!Days, V!DayOf
<1> QED BY <1>2, <1>3

LEMMA DaysAreNat == V!Days \subseteq Nat
<1>1. V!DayOf(LastTime) \in Nat /\ V!Days = 0..V!DayOf(LastTime)
  BY DayBounds, VisitsHold DEF V!Days, V!DayOf
<1> QED BY <1>1

-----------------------------------------------------------------------------
(* The rows and the calls                                                    *)

LEMMA CallFields ==
  ASSUME VisitTypes, NEW c \in Deliveries
  PROVE  /\ Flying(c) => call[c].beacon \in Beacons /\ call[c].now \in 0..LastTime
         /\ call[c].at = "commit" => call[c].open \in Beacons \cup {None}
<1>1. call[c] \in CallType
  BY DEF VisitTypes
<1> QED BY <1>1 DEF CallType, Flying

LEMMA RowFields ==
  ASSUME VisitTypes, NEW b \in Beacons
  PROVE  /\ visit[b] # None => /\ visit[b] \in V!VisitRow
                               /\ visit[b].started \in 0..LastTime /\ visit[b].seen \in 0..LastTime
                               /\ visit[b].views \in Nat /\ visit[b].gone \in BOOLEAN
         /\ event[b] # None => /\ event[b] \in V!EventRow /\ event[b].at \in 0..LastTime
                               /\ event[b].visit \in Beacons /\ event[b].gone \in BOOLEAN
<1>1. visit[b] \in V!VisitRow \cup {None} /\ event[b] \in V!EventRow \cup {None}
  BY DEF VisitTypes, V!TypeOK
<1> QED BY <1>1 DEF V!VisitRow, V!EventRow

LEMMA RunFields ==
  ASSUME VisitTypes, NEW r \in Runs
  PROVE  /\ run[r].at \in {"new", "done", "waits", "deleted", "read"}
         /\ run[r].at \in V!InProgress => run[r].day \in V!Days /\ run[r].had \in BOOLEAN
         /\ run[r].at = "read" => run[r].stale \in BOOLEAN /\ run[r].figures \in V!FiguresRow
<1>1. run[r] \in RunType
  BY DEF VisitTypes
<1> QED BY <1>1 DEF RunType, V!InProgress

LEMMA TimeIsNat == ASSUME VisitTypes PROVE time \in 0..LastTime /\ time \in Nat
BY VisitsHold DEF VisitTypes, V!TypeOK

\* Of the deliveries: the parts that speak of no figures.
VisitsCounted ==
  Delivered /\ Grouped /\ Clocked /\ Alone /\ Found /\ Tally /\ V!VisitsApart

LEMMA SameCalls ==
  ASSUME VisitsCounted, UNCHANGED <<visit, event, call, raced>>
  PROVE  Grouped' /\ Alone' /\ Found' /\ Tally' /\ V!VisitsApart'
<1>1. V!Rows' = V!Rows /\ V!Views' = V!Views
  BY DEF V!Rows, V!Views
<1>2. \A c \in Deliveries : Flying(c)' = Flying(c) /\ From(c)' = From(c)
  BY DEF Flying, From
<1>3. Grouped'
  BY DEF VisitsCounted, Grouped
<1>4. Alone'
  BY <1>1, <1>2 DEF VisitsCounted, Alone
<1>5. Found'
  BY <1>1, <1>2 DEF VisitsCounted, Found
<1>6. Tally'
  <2>1. \A v \in V!Rows : Members(v)' = Members(v)
    BY <1>1 DEF Members
  <2> QED BY <1>1, <2>1 DEF VisitsCounted, Tally
<1>7. V!VisitsApart'
  BY <1>1 DEF VisitsCounted, V!VisitsApart
<1> QED BY <1>3, <1>4, <1>5, <1>6, <1>7

LEMMA CountedTick ==
  ASSUME VisitTypes, VisitsCounted, V!Tick
  PROVE  VisitTypes' /\ VisitsCounted'
<1>1. time \in 0..LastTime /\ time' = time + 1 /\ time' \in 0..LastTime
  BY VisitsHold DEF VisitTypes, V!TypeOK, V!Tick
<1>2. UNCHANGED <<visit, event, call, daily, run, raced, behind>>
  BY DEF V!Tick
<1>3. VisitTypes'
  BY <1>1, <1>2 DEF VisitTypes, V!TypeOK, V!Days, V!DayOf, CallType, RunType
<1>4. Delivered'
  <2> SUFFICES ASSUME NEW c \in Deliveries, Flying(c)
               PROVE  /\ call[c].now <= time' /\ time' < call[c].now + Window
                      /\ event[call[c].beacon] # None => call[c].now <= event[call[c].beacon].at
    BY <1>2 DEF Delivered, Flying
  <2>1. call[c].now \in 0..LastTime
    BY CallFields
  <2>2. time + 1 - call[c].now < Window
    BY DEF V!Tick, Flying
  <2>3. call[c].now <= time /\ (event[call[c].beacon] # None => call[c].now <= event[call[c].beacon].at)
    BY DEF Delivered, VisitsCounted
  <2> QED BY <1>1, <2>1, <2>2, <2>3, VisitsHold
<1>5. Clocked'
  <2> SUFFICES ASSUME NEW b \in Beacons
      PROVE /\ visit[b] # None =>
                 /\ visit[b].started <= time' /\ visit[b].seen <= time'
                 /\ Sender[b] \notin raced => visit[b].started <= visit[b].seen
                 /\ visit[b].gone => visit[b].started + RawDays * DayLength < time'
            /\ event[b] # None =>
                 /\ event[b].at <= time'
                 /\ event[b].gone => event[b].at + RawDays * DayLength < time'
    BY <1>2 DEF Clocked
  <2>1. PICK x \in Nat : x = RawDays * DayLength
    BY VisitsHold, Product
  <2> QED BY <1>1, <2>1, RowFields DEF Clocked, VisitsCounted
<1> QED BY <1>2, <1>3, <1>4, <1>5, SameCalls DEF VisitsCounted

\* The steps of the cron leave the deliveries and their rows alone.
LEMMA CountedRollup ==
  ASSUME VisitsCounted, UNCHANGED <<time, visit, event, call, raced>>
  PROVE  VisitsCounted'
<1>1. Delivered'
  BY DEF VisitsCounted, Delivered, Flying
<1>2. Clocked'
  BY DEF VisitsCounted, Clocked
<1> QED BY <1>1, <1>2, SameCalls DEF VisitsCounted

LEMMA CountedArrive ==
  ASSUME VisitTypes, VisitsCounted, NEW c \in Deliveries, NEW b \in Beacons, V!Arrive(c, b)
  PROVE  VisitTypes' /\ VisitsCounted'
<1>0. UNCHANGED <<time, visit, event, daily, run, behind>>
  BY DEF V!Arrive
<1>1. PICK w \in CallType : call' = [call EXCEPT ![c] = w] /\
        \/ w = [at |-> "done"]
        \/ w = [at |-> "look", beacon |-> b, now |-> time] /\ event[b] = None
  <2>1. time \in 0..LastTime
    BY TimeIsNat
  <2>2. V!Stored(b) \/ event[b] = None
    BY DEF V!Arrive
  <2>3. CASE V!Stored(b)
    <3>1. [at |-> "done"] \in CallType
      BY DEF CallType
    <3> QED BY <2>3, <3>1 DEF V!Arrive
  <2>4. CASE ~V!Stored(b)
    <3>1. [at |-> "look", beacon |-> b, now |-> time] \in CallType
      BY <2>1 DEF CallType
    <3> QED BY <2>2, <2>4, <3>1 DEF V!Arrive
  <2> QED BY <2>3, <2>4
<1>2. call \in [Deliveries -> CallType] /\ call' \in [Deliveries -> CallType]
  BY <1>1 DEF VisitTypes
<1>3. /\ call'[c] = w /\ \A q \in Deliveries \ {c} : call'[q] = call[q]
  BY <1>1, <1>2
<1>4. raced \subseteq raced' /\ raced' \subseteq raced \cup {Sender[b]}
  BY DEF V!Arrive
<1>5. w.at = "look" /\ V!UnderWay(Sender[b]) # {} => Sender[b] \in raced'
  <2>1. event[b] = None => ~V!Stored(b)
    BY DEF V!Stored
  <2> QED BY <1>1, <2>1 DEF V!Arrive
<1>6. VisitTypes'
  BY <1>0, <1>2, <1>4 DEF VisitTypes, V!TypeOK
<1>7. Delivered'
  BY <1>0, <1>1, <1>3, TimeIsNat, VisitsHold DEF VisitsCounted, Delivered, Flying
<1>8. Grouped' /\ Clocked'
  BY <1>0, <1>4 DEF VisitsCounted, Grouped, Clocked
<1>9. ASSUME NEW q \in Deliveries, Flying(q)', (From(q) \notin raced)'
      PROVE  /\ \A p \in Deliveries : Flying(p)' /\ From(p)' = From(q)' => p = q
             /\ \A x \in V!Rows : Sender[x] = From(q)' => visit[x].seen <= call'[q].now
  <2>1. CASE q = c
    <3>1. w.at = "look" /\ w.beacon = b /\ w.now = time
      BY <1>1, <1>3, <1>9, <2>1 DEF Flying
    <3>2. From(q)' = Sender[b]
      BY <1>3, <2>1, <3>1 DEF From
    <3>3. V!UnderWay(Sender[b]) = {}
      BY <1>5, <1>9, <3>1, <3>2
    <3>4. ASSUME NEW p \in Deliveries, Flying(p)', From(p)' = From(q)', p # c PROVE FALSE
      BY <1>3, <3>2, <3>3, <3>4 DEF V!UnderWay, Flying, From
    <3>5. \A x \in V!Rows : visit[x].seen <= time
      BY DEF V!Rows, Clocked, VisitsCounted
    <3> QED BY <1>3, <2>1, <3>1, <3>4, <3>5
  <2>2. CASE q # c
    <3>1. call'[q] = call[q] /\ Flying(q) /\ From(q)' = From(q) /\ From(q) \notin raced
      BY <1>3, <1>4, <1>9, <2>2 DEF Flying, From
    <3>2. /\ \A p \in Deliveries : Flying(p) /\ From(p) = From(q) => p = q
          /\ \A x \in V!Rows : Sender[x] = From(q) => visit[x].seen <= call[q].now
      BY <3>1 DEF Alone, VisitsCounted
    <3>3. ~(Flying(c)' /\ From(c)' = From(q)')
      <4> SUFFICES ASSUME Flying(c)', From(c)' = From(q)' PROVE FALSE
        OBVIOUS
      <4>1. w.at = "look" /\ w.beacon = b
        BY <1>1, <1>3 DEF Flying
      <4>2. Sender[b] = From(q)
        BY <1>3, <3>1, <4>1 DEF From
      <4>3. q \in V!UnderWay(Sender[b])
        BY <3>1, <4>2 DEF V!UnderWay, Flying, From
      <4> QED BY <1>5, <1>9, <3>1, <4>1, <4>2, <4>3
    <3>4. \A p \in Deliveries \ {c} : Flying(p)' = Flying(p) /\ From(p)' = From(p)
      BY <1>3 DEF Flying, From
    <3> QED BY <3>1, <3>2, <3>3, <3>4
  <2> QED BY <2>1, <2>2
<1>10. Alone'
  BY <1>0, <1>9 DEF Alone, V!Rows
<1>11. Found'
  <2>1. \A q \in Deliveries : call'[q].at = "commit" => call'[q] = call[q] /\ From(q)' = From(q)
    BY <1>1, <1>3 DEF From
  <2>2. V!Rows' = V!Rows
    BY <1>0 DEF V!Rows
  <2>3. ASSUME NEW q \in Deliveries, call'[q].at = "commit"
        PROVE  /\ call[q].at = "commit" /\ call'[q] = call[q] /\ From(q)' = From(q)
               /\ call[q].open # None => visit[call[q].open] # None /\ Sender[call[q].open] = From(q)
    BY <2>1, <2>3 DEF VisitsCounted, Found
  <2>4. ASSUME NEW q \in Deliveries, call'[q].at = "commit", From(q) \notin raced
        PROVE  IF call[q].open # None THEN call[q].now < visit[call[q].open].seen + Window
               ELSE \A x \in V!Rows : Sender[x] = From(q) /\ ~visit[x].gone =>
                      visit[x].seen + Window <= call[q].now
    BY <2>3, <2>4 DEF VisitsCounted, Found
  <2> SUFFICES ASSUME NEW q \in Deliveries, call'[q].at = "commit"
      PROVE  /\ call'[q].open # None => visit'[call'[q].open] # None /\ Sender[call'[q].open] = From(q)'
             /\ From(q)' \notin raced' =>
                  IF call'[q].open # None THEN call'[q].now < visit'[call'[q].open].seen + Window
                  ELSE \A x \in V!Rows' : Sender[x] = From(q)' /\ ~visit'[x].gone =>
                         visit'[x].seen + Window <= call'[q].now
    BY DEF Found
  <2>6. call'[q] = call[q] /\ From(q)' = From(q) /\ visit' = visit /\ V!Rows' = V!Rows
    BY <1>0, <2>2, <2>3
  <2>7. From(q)' \notin raced' => From(q) \notin raced
    BY <1>4, <2>6
  <2>8. From(q)' \notin raced' =>
             IF call'[q].open # None THEN call'[q].now < visit'[call'[q].open].seen + Window
             ELSE \A x \in V!Rows' : Sender[x] = From(q)' /\ ~visit'[x].gone =>
                    visit'[x].seen + Window <= call'[q].now
    BY <2>4, <2>6, <2>7
  <2> QED BY <2>3, <2>6, <2>8
<1>12. Tally'
  <2>1. V!Rows' = V!Rows /\ \A v \in V!Rows : Members(v)' = Members(v)
    BY <1>0 DEF Members, V!Rows, V!Views
  <2> QED BY <1>0, <2>1 DEF VisitsCounted, Tally
<1>13. V!VisitsApart'
  BY <1>0, <1>4 DEF VisitsCounted, V!VisitsApart, V!Rows
<1> QED BY <1>6, <1>7, <1>8, <1>10, <1>11, <1>12, <1>13 DEF VisitsCounted

LEMMA CountedLook ==
  ASSUME VisitTypes, VisitsCounted, NEW c \in Deliveries, V!Look(c)
  PROVE  VisitTypes' /\ VisitsCounted'
<1>0. UNCHANGED <<time, visit, event, daily, run, raced, behind>> /\ call[c].at = "look"
  BY DEF V!Look
<1>1. call[c].beacon \in Beacons /\ call[c].now \in 0..LastTime
  BY <1>0, CallFields DEF Flying
<1>2. PICK v \in Beacons \cup {None} :
        /\ call' = [call EXCEPT ![c] = [at |-> "commit", beacon |-> call[c].beacon,
                                        now |-> call[c].now, open |-> v]]
        /\ v # None => v \in V!OpenVisits(From(c), call[c].now)
        /\ v = None => V!OpenVisits(From(c), call[c].now) = {}
  <2>1. V!OpenVisits(From(c), call[c].now) \subseteq Beacons
    BY DEF V!OpenVisits
  <2> QED BY <2>1, VisitsHold DEF V!Look, From
<1>3. PICK w \in CallType : w = [at |-> "commit", beacon |-> call[c].beacon,
                                  now |-> call[c].now, open |-> v]
  BY <1>1 DEF CallType
<1>4. call \in [Deliveries -> CallType] /\ call' \in [Deliveries -> CallType]
  BY <1>2, <1>3 DEF VisitTypes
<1>5. call'[c] = w /\ \A q \in Deliveries \ {c} : call'[q] = call[q]
  BY <1>2, <1>3, <1>4
<1>6. VisitTypes'
  BY <1>0, <1>4 DEF VisitTypes, V!TypeOK
<1>7. \A q \in Deliveries : /\ Flying(q)' = Flying(q)
                            /\ Flying(q) => /\ From(q)' = From(q)
                                            /\ call'[q].now = call[q].now /\ call'[q].beacon = call[q].beacon
  BY <1>0, <1>3, <1>5 DEF Flying, From
<1>8. V!Rows' = V!Rows
  BY <1>0 DEF V!Rows
<1>9. Delivered'
  BY <1>0, <1>7 DEF VisitsCounted, Delivered
<1>10. Grouped' /\ Clocked'
  BY <1>0 DEF VisitsCounted, Grouped, Clocked
<1>11. Alone'
  BY <1>0, <1>7, <1>8 DEF VisitsCounted, Alone
<1>12. Found'
  <2>1. ASSUME NEW q \in Deliveries, call'[q].at = "commit"
        PROVE  /\ call'[q].open # None => visit[call'[q].open] # None /\ Sender[call'[q].open] = From(q)'
               /\ From(q)' \notin raced =>
                    IF call'[q].open # None THEN call'[q].now < visit[call'[q].open].seen + Window
                    ELSE \A x \in V!Rows : Sender[x] = From(q)' /\ ~visit[x].gone =>
                           visit[x].seen + Window <= call'[q].now
    <3>1. CASE q # c
      <4>1. call'[q] = call[q] /\ From(q)' = From(q)
        BY <1>5, <3>1 DEF From
      <4> QED BY <2>1, <4>1 DEF VisitsCounted, Found
    <3>2. CASE q = c
      <4>1. call'[c].open = v /\ call'[c].now = call[c].now /\ From(c)' = From(c)
        BY <1>3, <1>5 DEF From
      <4>2. CASE v # None
        <5>1. visit[v] # None /\ Sender[v] = From(c) /\ visit[v].seen > call[c].now - Window
          BY <1>2, <4>2 DEF V!OpenVisits
        <5>2. visit[v].seen \in 0..LastTime /\ Window \in Nat
          BY <4>2, <5>1, RowFields, VisitsHold
        <5>3. call[c].now < visit[v].seen + Window
          BY <1>1, <5>1, <5>2
        <5> QED BY <3>2, <4>1, <4>2, <5>1, <5>3
      <4>3. CASE v = None
        <5>1. ASSUME NEW x \in V!Rows, Sender[x] = From(c), ~visit[x].gone
              PROVE  visit[x].seen + Window <= call[c].now
          <6>1. x \in Beacons /\ visit[x] # None /\ x \notin V!OpenVisits(From(c), call[c].now)
            BY <1>2, <4>3 DEF V!Rows
          <6>2. ~(visit[x].seen > call[c].now - Window)
            BY <5>1, <6>1 DEF V!OpenVisits
          <6>3. visit[x].seen \in 0..LastTime /\ Window \in Nat
            BY <6>1, RowFields, VisitsHold
          <6> QED BY <1>1, <6>2, <6>3
        <5> QED BY <3>2, <4>1, <4>3, <5>1
      <4> QED BY <4>2, <4>3
    <3> QED BY <3>1, <3>2
  <2> QED BY <1>0, <1>8, <2>1 DEF Found
<1>13. Tally'
  <2>1. \A x \in V!Rows : Members(x)' = Members(x)
    BY <1>0 DEF Members, V!Views
  <2> QED BY <1>0, <1>8, <2>1 DEF VisitsCounted, Tally
<1>14. V!VisitsApart'
  BY <1>0, <1>8 DEF VisitsCounted, V!VisitsApart
<1> QED BY <1>6, <1>9, <1>10, <1>11, <1>12, <1>13, <1>14 DEF VisitsCounted

\* What a commit leaves: a visit begun, or one with one more page view, and the page view.
Recorded(c, o, row, e) ==
  LET b == call[c].beacon IN
  /\ visit' = [visit EXCEPT ![o] = row] /\ event' = [event EXCEPT ![b] = e]
  /\ event[b] = None /\ visit[b] = None
  /\ e.at = time /\ e.visit = o /\ ~e.gone /\ row.seen = call[c].now /\ ~row.gone
  /\ \/ call[c].open = None /\ o = b /\ row.started = call[c].now /\ row.views = 1
     \/ /\ call[c].open = o /\ o # b /\ visit[o] # None /\ ~visit[o].gone
        /\ row.started = visit[o].started /\ row.views = visit[o].views + 1
  /\ V!Changed({V!DayOf(time), V!DayOf(row.started)})

LEMMA CommitRecords ==
  ASSUME VisitTypes, VisitsCounted, NEW c \in Deliveries, V!Commit(c)
  PROVE  \/ UNCHANGED <<visit, event, run, behind>>
         \/ \E o \in Beacons, row \in V!VisitRow, e \in V!EventRow : Recorded(c, o, row, e)
<1>1. PICK b, v, now : b = call[c].beacon /\ v = call[c].open /\ now = call[c].now
  OBVIOUS
<1>2. call[c].at = "commit" /\ Flying(c)
  BY DEF V!Commit, Flying
<1>3. b \in Beacons /\ now \in 0..LastTime /\ v \in Beacons \cup {None} /\ time \in 0..LastTime
  BY <1>1, <1>2, CallFields, TimeIsNat
<1>4. SUFFICES ASSUME ~UNCHANGED <<visit, event, run, behind>>
      PROVE  \E o \in Beacons, row \in V!VisitRow, e \in V!EventRow : Recorded(c, o, row, e)
  OBVIOUS
<1> DEFINE of == IF v = None THEN b ELSE v
<1>5. /\ ~V!Stored(b) /\ ~(v # None /\ visit[v].gone)
      /\ visit' = V!Seen(v, b, now)
      /\ event' = [event EXCEPT ![b] = [at |-> time, visit |-> of, gone |-> FALSE]]
      /\ V!Changed({V!DayOf(time), V!DayOf(visit'[of].started)})
  BY <1>1, <1>4 DEF V!Commit, V!Refused
<1>6. event[b] = None
  <2> SUFFICES ASSUME event[b] # None PROVE FALSE
    OBVIOUS
  <2>1. event[b].gone /\ event[b].at \in 0..LastTime
    BY <1>3, <1>5, RowFields DEF V!Stored
  <2>2. PICK x \in Nat : x = RawDays * DayLength
    BY VisitsHold, Product
  <2>3. event[b].at + x < time
    BY <1>3, <2>1, <2>2 DEF VisitsCounted, Clocked
  <2>4. now <= event[b].at /\ time < now + Window
    BY <1>1, <1>2 DEF VisitsCounted, Delivered
  <2>5. Window <= x /\ Window \in Nat
    BY <2>2, VisitsHold
  <2> QED BY <1>3, <2>1, <2>3, <2>4, <2>5
<1>7. visit[b] = None
  BY <1>3, <1>6 DEF VisitsCounted, Grouped
<1>8. PICK e \in V!EventRow : e = [at |-> time, visit |-> of, gone |-> FALSE]
  <2>1. of \in Beacons
    BY <1>3
  <2>2. [at |-> time, visit |-> of, gone |-> FALSE] \in V!EventRow
    BY <1>3, <2>1 DEF V!EventRow
  <2> QED BY <2>2
<1>9. visit \in [Beacons -> V!VisitRow \cup {None}]
  BY DEF VisitTypes, V!TypeOK
<1>10. CASE v = None
  <2>1. PICK row \in V!VisitRow : row = [started |-> now, seen |-> now, views |-> 1, gone |-> FALSE]
    BY <1>3 DEF V!VisitRow
  <2>2. visit' = [visit EXCEPT ![b] = row]
    BY <1>5, <1>10, <2>1 DEF V!Seen
  <2>3. visit'[of].started = row.started /\ of = b
    BY <1>3, <1>9, <1>10, <2>2
  <2>4. Recorded(c, b, row, e)
    BY <1>1, <1>5, <1>6, <1>7, <1>8, <1>10, <2>1, <2>2, <2>3 DEF Recorded
  <2> QED BY <1>3, <2>4
<1>11. CASE v # None
  <2>1. visit[v] # None /\ v \in Beacons /\ v # b
    BY <1>1, <1>2, <1>3, <1>7, <1>11 DEF VisitsCounted, Found
  <2>2. PICK old \in V!VisitRow : old = visit[v] /\ old.views \in Nat
    BY <2>1, RowFields
  <2>3. PICK mid : mid = [old EXCEPT !.seen = now]
    OBVIOUS
  <2>a. mid \in V!VisitRow /\ mid.seen = now /\ mid.started = old.started /\ mid.views = old.views /\ mid.gone = old.gone
    BY <1>3, <2>2, <2>3 DEF V!VisitRow
  <2>b. PICK k \in Nat : k = old.views + 1
    BY <2>2
  <2>c. PICK row : row = [mid EXCEPT !.views = k]
    OBVIOUS
  <2>d. row \in V!VisitRow /\ row.seen = now /\ row.started = old.started /\ row.views = k /\ row.gone = old.gone
    BY <2>a, <2>c DEF V!VisitRow
  <2>4. visit' = [visit EXCEPT ![v] = row]
    <3>1. visit' = [visit EXCEPT ![v].seen = now, ![v].views = @ + 1]
      BY <1>5, <1>11 DEF V!Seen
    <3>2. visit' = [visit EXCEPT ![v] = [[old EXCEPT !.seen = now] EXCEPT !.views = k]]
      BY <1>9, <2>1, <2>2, <2>b, <3>1 DEF V!VisitRow
    <3> QED BY <2>3, <2>c, <3>2
  <2>5. visit'[of].started = row.started /\ of = v
    BY <1>9, <1>11, <2>1, <2>4
  <2>6. Recorded(c, v, row, e)
    BY <1>1, <1>5, <1>6, <1>7, <1>8, <1>11, <2>1, <2>2, <2>b, <2>d, <2>4, <2>5 DEF Recorded
  <2> QED BY <2>1, <2>6, <2>d
<1> QED BY <1>10, <1>11

\* A page view that is recorded changes one visit and one page view.
LEMMA RecordedRows ==
  ASSUME VisitTypes, NEW c \in Deliveries, call[c].at = "commit",
         NEW o \in Beacons, NEW row \in V!VisitRow, NEW e \in V!EventRow, Recorded(c, o, row, e)
  PROVE  /\ visit' \in [Beacons -> V!VisitRow \cup {None}] /\ event' \in [Beacons -> V!EventRow \cup {None}]
         /\ visit'[o] = row /\ \A x \in Beacons \ {o} : visit'[x] = visit[x]
         /\ event'[call[c].beacon] = e /\ \A x \in Beacons \ {call[c].beacon} : event'[x] = event[x]
         /\ row # None /\ e # None /\ call[c].beacon \in Beacons
         /\ row.started \in 0..LastTime /\ row.views \in Nat /\ e.at = time
<1>1. call[c].beacon \in Beacons
  BY CallFields DEF Flying
<1>2. visit' = [visit EXCEPT ![o] = row] /\ event' = [event EXCEPT ![call[c].beacon] = e] /\ e.at = time
  BY DEF Recorded
<1>3. visit \in [Beacons -> V!VisitRow \cup {None}] /\ event \in [Beacons -> V!EventRow \cup {None}]
  BY DEF VisitTypes, V!TypeOK
<1>4. row # None /\ e # None
  BY VisitsHold
<1>5. row.started \in 0..LastTime /\ row.views \in Nat
  BY DEF V!VisitRow
<1> QED BY <1>1, <1>2, <1>3, <1>4, <1>5

\* The call ends.
LEMMA CommitEnds ==
  ASSUME VisitTypes, NEW c \in Deliveries, V!Commit(c)
  PROVE  /\ UNCHANGED <<time, daily, raced>> /\ call[c].at = "commit"
         /\ call' \in [Deliveries -> CallType] /\ ~Flying(c)'
         /\ \A q \in Deliveries : Flying(q)' => q # c /\ Flying(q) /\ call'[q] = call[q] /\ From(q)' = From(q)
<1>1. UNCHANGED <<time, daily, raced>> /\ call[c].at = "commit" /\ call' = [call EXCEPT ![c] = [at |-> "done"]]
  BY DEF V!Commit
<1>2. [at |-> "done"] \in CallType
  BY DEF CallType
<1>3. call \in [Deliveries -> CallType]
  BY DEF VisitTypes
<1>4. call'[c] = [at |-> "done"] /\ \A q \in Deliveries \ {c} : call'[q] = call[q]
  BY <1>1, <1>3
<1>5. ~Flying(c)'
  BY <1>4 DEF Flying
<1>6. ASSUME NEW q \in Deliveries, Flying(q)'
      PROVE  q # c /\ Flying(q) /\ call'[q] = call[q] /\ From(q)' = From(q)
  <2>1. q # c /\ call'[q] = call[q]
    BY <1>4, <1>5, <1>6
  <2> QED BY <1>6, <2>1 DEF Flying, From
<1> QED BY <1>1, <1>2, <1>3, <1>5, <1>6

LEMMA TypesCommit ==
  ASSUME VisitTypes, VisitsCounted, NEW c \in Deliveries, V!Commit(c)
  PROVE  VisitTypes'
<1>1. UNCHANGED <<time, daily, raced>> /\ call' \in [Deliveries -> CallType] /\ call[c].at = "commit"
  BY CommitEnds
<1>2. CASE UNCHANGED <<visit, event, run, behind>>
  BY <1>1, <1>2 DEF VisitTypes, V!TypeOK
<1>3. CASE \E o \in Beacons, row \in V!VisitRow, e \in V!EventRow : Recorded(c, o, row, e)
  <2>1. PICK o \in Beacons, row \in V!VisitRow, e \in V!EventRow : Recorded(c, o, row, e)
    BY <1>3
  <2>2. /\ visit' \in [Beacons -> V!VisitRow \cup {None}] /\ event' \in [Beacons -> V!EventRow \cup {None}]
        /\ row.started \in 0..LastTime
    BY <1>1, <2>1, RecordedRows
  <2>3. PICK D \in SUBSET V!Days : D = {V!DayOf(time), V!DayOf(row.started)}
    BY <2>2, DayInDays, TimeIsNat
  <2>4. V!Changed(D)
    BY <2>1, <2>3 DEF Recorded
  <2>5. behind' \subseteq V!Days
    BY <2>4 DEF V!Changed, VisitTypes, V!TypeOK
  <2>6. ASSUME NEW r \in Runs
        PROVE  (IF run[r].at = "read" /\ run[r].day \in D THEN [run[r] EXCEPT !.stale = TRUE] ELSE run[r]) \in RunType
    <3>1. run[r] \in RunType
      BY DEF VisitTypes
    <3>2. CASE run[r].at = "read"
      <4>1. PICK x \in [at : {"read"}, day : V!Days, had : BOOLEAN, stale : BOOLEAN, figures : V!FiguresRow] :
              x = run[r]
        BY <3>1, <3>2 DEF RunType
      <4>2. [x EXCEPT !.stale = TRUE] \in
              [at : {"read"}, day : V!Days, had : BOOLEAN, stale : BOOLEAN, figures : V!FiguresRow]
        OBVIOUS
      <4> QED BY <3>1, <4>1, <4>2 DEF RunType
    <3> QED BY <3>1, <3>2
  <2>7. run' \in [Runs -> RunType]
    BY <2>4, <2>6 DEF V!Changed
  <2> QED BY <1>1, <2>2, <2>5, <2>7 DEF VisitTypes, V!TypeOK
<1> QED BY <1>2, <1>3, CommitRecords

LEMMA CountedCommit ==
  ASSUME VisitTypes, VisitsCounted, NEW c \in Deliveries, V!Commit(c)
  PROVE  VisitsCounted'
<1>1. UNCHANGED <<time, daily, raced>> /\ call[c].at = "commit" /\ Flying(c)
  BY CommitEnds DEF Flying
<1>2. ASSUME NEW q \in Deliveries, Flying(q)'
      PROVE  q # c /\ Flying(q) /\ call'[q] = call[q] /\ From(q)' = From(q)
  BY <1>2, CommitEnds
<1>3. CASE UNCHANGED <<visit, event, run, behind>>
  <2>1. V!Rows' = V!Rows
    BY <1>3 DEF V!Rows
  <2>2. Delivered'
    BY <1>1, <1>2, <1>3 DEF VisitsCounted, Delivered
  <2>3. Grouped' /\ Clocked'
    BY <1>1, <1>3 DEF VisitsCounted, Grouped, Clocked
  <2>4. Alone'
    BY <1>1, <1>2, <1>3, <2>1 DEF VisitsCounted, Alone
  <2>5. Found'
    <3>1. \A q \in Deliveries : call'[q].at = "commit" => Flying(q)'
      BY DEF Flying
    <3> QED BY <1>1, <1>2, <1>3, <2>1, <3>1 DEF VisitsCounted, Found
  <2>6. Tally'
    <3>1. \A x \in V!Rows : Members(x)' = Members(x)
      BY <1>3 DEF Members, V!Views
    <3> QED BY <1>3, <2>1, <3>1 DEF VisitsCounted, Tally
  <2>7. V!VisitsApart'
    BY <1>1, <1>3, <2>1 DEF VisitsCounted, V!VisitsApart
  <2> QED BY <2>2, <2>3, <2>4, <2>5, <2>6, <2>7 DEF VisitsCounted
<1>4. CASE \E o \in Beacons, row \in V!VisitRow, e \in V!EventRow : Recorded(c, o, row, e)
  <2>1. PICK o \in Beacons, row \in V!VisitRow, e \in V!EventRow : Recorded(c, o, row, e)
    BY <1>4
  <2>2. PICK b \in Beacons, now \in 0..LastTime : b = call[c].beacon /\ now = call[c].now
    BY <1>1, CallFields
  <2>3. /\ visit'[o] = row /\ \A x \in Beacons \ {o} : visit'[x] = visit[x]
        /\ event'[b] = e /\ \A x \in Beacons \ {b} : event'[x] = event[x]
        /\ row # None /\ e # None /\ row.started \in 0..LastTime /\ row.views \in Nat
    BY <1>1, <2>1, <2>2, RecordedRows
  <2>4. /\ event[b] = None /\ visit[b] = None
        /\ e.at = time /\ e.visit = o /\ ~e.gone /\ row.seen = now /\ ~row.gone
        /\ \/ call[c].open = None /\ o = b /\ row.started = now /\ row.views = 1
           \/ /\ call[c].open = o /\ o # b /\ visit[o] # None /\ ~visit[o].gone
              /\ row.started = visit[o].started /\ row.views = visit[o].views + 1
    BY <2>1, <2>2 DEF Recorded
  <2>5. now <= time /\ time < now + Window /\ time \in 0..LastTime
    BY <1>1, <2>2, TimeIsNat DEF VisitsCounted, Delivered
  <2>6. Sender[o] = From(c)
    BY <1>1, <2>2, <2>4, VisitsHold DEF VisitsCounted, Found, From
  <2>7. V!Rows' = V!Rows \cup {o} /\ V!Views' = V!Views \cup {b}
    BY <2>3, <2>4 DEF V!Rows, V!Views
  <2>8. \A q \in Deliveries : Flying(q)' /\ From(q) \notin raced => From(q) # From(c)
    BY <1>1, <1>2 DEF VisitsCounted, Alone
  <2>9. Delivered'
    <3> SUFFICES ASSUME NEW q \in Deliveries, Flying(q)'
        PROVE /\ call[q].now <= time /\ time < call[q].now + Window
              /\ event'[call[q].beacon] # None => call[q].now <= event'[call[q].beacon].at
      BY <1>1, <1>2 DEF Delivered
    <3>1. /\ call[q].now <= time /\ time < call[q].now + Window /\ call[q].beacon \in Beacons
          /\ event[call[q].beacon] # None => call[q].now <= event[call[q].beacon].at
      BY <1>2, CallFields DEF VisitsCounted, Delivered
    <3> QED BY <2>3, <2>4, <3>1
  <2>10. Grouped'
    <3> SUFFICES ASSUME NEW x \in Beacons
        PROVE  /\ visit'[x] # None => event'[x] # None /\ event'[x].visit = x
               /\ event'[x] # None => visit'[event'[x].visit] # None
      BY DEF Grouped
    <3>1. /\ visit[x] # None => event[x] # None /\ event[x].visit = x
          /\ event[x] # None => visit[event[x].visit] # None /\ event[x].visit \in Beacons
      BY RowFields DEF VisitsCounted, Grouped
    <3>2. visit[o] # None => event[o] # None /\ event[o].visit = o
      BY DEF VisitsCounted, Grouped
    <3> QED BY <2>3, <2>4, <3>1, <3>2
  <2>11. Clocked'
    <3>1. ASSUME NEW x \in Beacons, visit'[x] # None
          PROVE  /\ visit'[x].started <= time /\ visit'[x].seen <= time
                 /\ Sender[x] \notin raced => visit'[x].started <= visit'[x].seen
                 /\ visit'[x].gone => visit'[x].started + RawDays * DayLength < time
      <4>1. CASE x # o
        BY <2>3, <3>1, <4>1 DEF VisitsCounted, Clocked
      <4>2. CASE x = o
        <5>1. CASE o = b
          BY <2>2, <2>3, <2>4, <2>5, <4>2, <5>1
        <5>2. CASE o # b
          <6>1. visit[o] # None /\ row.started = visit[o].started
            BY <2>4, <5>2
          <6>2. visit[o].started <= time /\ visit[o].started \in 0..LastTime /\ visit[o].seen \in 0..LastTime
            BY <6>1, RowFields DEF VisitsCounted, Clocked
          <6>3. Sender[o] \notin raced => visit[o].started <= visit[o].seen /\ visit[o].seen <= now
            BY <1>1, <2>2, <2>6, <6>1 DEF VisitsCounted, Clocked, Alone, V!Rows
          <6> QED BY <2>2, <2>3, <2>4, <2>5, <4>2, <6>1, <6>2, <6>3
        <5> QED BY <5>1, <5>2
      <4> QED BY <4>1, <4>2
    <3>2. ASSUME NEW x \in Beacons, event'[x] # None
          PROVE  /\ event'[x].at <= time
                 /\ event'[x].gone => event'[x].at + RawDays * DayLength < time
      BY <2>3, <2>4, <2>5, <3>2 DEF VisitsCounted, Clocked
    <3> QED BY <1>1, <3>1, <3>2 DEF Clocked
  <2>12. Alone'
    <3> SUFFICES ASSUME NEW q \in Deliveries, Flying(q)', From(q) \notin raced
        PROVE  /\ \A p \in Deliveries : Flying(p)' /\ From(p)' = From(q)' => p = q
               /\ \A x \in V!Rows' : Sender[x] = From(q) => visit'[x].seen <= call[q].now
      BY <1>1, <1>2 DEF Alone
    <3>1. /\ \A p \in Deliveries : Flying(p) /\ From(p) = From(q) => p = q
          /\ \A x \in V!Rows : Sender[x] = From(q) => visit[x].seen <= call[q].now
      BY <1>2 DEF VisitsCounted, Alone
    <3>2. \A p \in Deliveries : Flying(p)' /\ From(p)' = From(q)' => p = q
      BY <1>2, <3>1
    <3>3. ASSUME NEW x \in V!Rows', Sender[x] = From(q) PROVE visit'[x].seen <= call[q].now
      <4>1. x # o
        BY <2>6, <2>8, <3>3
      <4>2. x \in V!Rows /\ visit'[x] = visit[x]
        BY <2>3, <2>7, <4>1 DEF V!Rows
      <4> QED BY <3>1, <3>3, <4>2
    <3> QED BY <3>2, <3>3
  <2>13. Found'
    <3> SUFFICES ASSUME NEW q \in Deliveries, call'[q].at = "commit"
        PROVE  /\ call[q].open # None => visit'[call[q].open] # None /\ Sender[call[q].open] = From(q)
               /\ From(q) \notin raced =>
                    IF call[q].open # None THEN call[q].now < visit'[call[q].open].seen + Window
                    ELSE \A x \in V!Rows' : Sender[x] = From(q) /\ ~visit'[x].gone =>
                           visit'[x].seen + Window <= call[q].now
      <4>1. \A q \in Deliveries : call'[q].at = "commit" => Flying(q)'
        BY DEF Flying
      <4> QED BY <1>1, <1>2, <4>1 DEF Found
    <3>1. Flying(q)' /\ call[q].at = "commit" /\ call[q].open \in Beacons \cup {None}
      <4>1. Flying(q)'
        BY DEF Flying
      <4> QED BY <1>2, <4>1, CallFields
    <3>2. call[q].open # None => visit[call[q].open] # None /\ Sender[call[q].open] = From(q)
      BY <3>1 DEF VisitsCounted, Found
    <3>3. call[q].open # None => visit'[call[q].open] # None
      BY <2>3, <3>1, <3>2
    <3>4. ASSUME From(q) \notin raced, call[q].open # None
          PROVE  call[q].now < visit'[call[q].open].seen + Window
      <4>1. call[q].open # o /\ call[q].open \in Beacons
        BY <2>6, <2>8, <3>1, <3>2, <3>4
      <4> QED BY <2>3, <3>1, <3>4, <4>1 DEF VisitsCounted, Found
    <3>5. ASSUME From(q) \notin raced, call[q].open = None,
                 NEW x \in V!Rows', Sender[x] = From(q), ~visit'[x].gone
          PROVE  visit'[x].seen + Window <= call[q].now
      <4>1. x # o
        BY <2>6, <2>8, <3>1, <3>5
      <4>2. x \in V!Rows /\ visit'[x] = visit[x]
        BY <2>3, <2>7, <4>1 DEF V!Rows
      <4> QED BY <3>1, <3>5, <4>2 DEF VisitsCounted, Found
    <3> QED BY <3>2, <3>3, <3>4, <3>5
  <2>14. Tally'
    <3>1. ASSUME NEW x \in Beacons, x # o PROVE Members(x)' = Members(x)
      BY <2>3, <2>4, <2>7, <3>1 DEF Members, V!Views
    <3>2. Members(o)' = Members(o) \cup {b} /\ b \notin Members(o)
      BY <2>3, <2>4, <2>7 DEF Members, V!Views
    <3>3. IsFiniteSet(Members(o))
      <4>1. Members(o) \subseteq Beacons
        BY DEF Members, V!Views
      <4> QED BY <4>1, FS_Subset, VisitsHold
    <3>4. Cardinality(Members(o)') = Cardinality(Members(o)) + 1
      BY <3>2, <3>3, FS_AddElement
    <3>5. row.views = Cardinality(Members(o)')
      <4>1. CASE o = b
        <5>1. Members(o) = {}
          BY <2>4, <4>1 DEF VisitsCounted, Grouped, Members, V!Views
        <5>2. Cardinality(Members(o)) = 0
          BY <5>1, FS_EmptySet
        <5> QED BY <2>4, <3>4, <4>1, <5>2
      <4>2. CASE o # b
        <5>1. o \in V!Rows
          BY <2>4, <4>2 DEF V!Rows
        <5> QED BY <2>4, <3>4, <4>2, <5>1 DEF VisitsCounted, Tally
      <4> QED BY <4>1, <4>2
    <3> SUFFICES ASSUME NEW x \in V!Rows' PROVE visit'[x].views = Cardinality(Members(x)')
      BY DEF Tally
    <3>6. CASE x = o
      BY <2>3, <3>5, <3>6
    <3>7. CASE x # o
      <4>1. x \in V!Rows /\ visit'[x] = visit[x] /\ x \in Beacons
        BY <2>3, <2>7, <3>7 DEF V!Rows
      <4> QED BY <3>1, <3>7, <4>1 DEF VisitsCounted, Tally
    <3> QED BY <3>6, <3>7
  <2>15. V!VisitsApart'
    <3> SUFFICES ASSUME NEW x \in V!Rows', NEW y \in V!Rows', x # y, Sender[x] = Sender[y],
                        Sender[x] \notin raced, ~visit'[x].gone, visit'[x].started <= visit'[y].started
                 PROVE  visit'[y].started - visit'[x].seen >= Window
      BY <1>1 DEF V!VisitsApart
    <3>1. x \in Beacons /\ y \in Beacons /\ visit'[x] # None /\ visit'[y] # None
      BY DEF V!Rows
    <3>2. x # o => x \in V!Rows /\ visit'[x] = visit[x]
      BY <2>3, <3>1 DEF V!Rows
    <3>3. y # o => y \in V!Rows /\ visit'[y] = visit[y]
      BY <2>3, <3>1 DEF V!Rows
    <3>4. CASE x # o /\ y # o
      BY <3>2, <3>3, <3>4 DEF VisitsCounted, V!VisitsApart
    <3>5. CASE y = o
      <4>1. x # o /\ x \in V!Rows /\ visit'[x] = visit[x] /\ Sender[x] = From(c) /\ visit[x].seen \in 0..LastTime
        BY <2>6, <3>1, <3>2, <3>5, RowFields DEF V!Rows
      <4>2. CASE o = b
        <5>1. call[c].open = None /\ row.started = now
          BY <2>4, <4>2
        <5>2. visit[x].seen + Window <= now
          BY <1>1, <2>2, <4>1, <5>1 DEF VisitsCounted, Found
        <5> QED BY <2>2, <2>3, <3>5, <4>1, <5>1, <5>2, VisitsHold
      <4>3. CASE o # b
        <5>1. visit[o] # None /\ row.started = visit[o].started /\ o \in V!Rows
          BY <2>4, <4>3 DEF V!Rows
        <5> QED BY <2>3, <3>5, <4>1, <5>1 DEF VisitsCounted, V!VisitsApart
      <4> QED BY <4>2, <4>3
    <3>6. CASE x = o
      <4>1. y # o /\ y \in V!Rows /\ visit'[y] = visit[y] /\ Sender[y] = From(c) /\ From(c) \notin raced
        BY <2>6, <3>3, <3>6
      <4>2. /\ visit[y].seen \in 0..LastTime /\ visit[y].started \in 0..LastTime /\ visit[y].gone \in BOOLEAN
            /\ visit[y].started <= visit[y].seen /\ visit[y].seen <= now
            /\ visit[y].gone => visit[y].started + RawDays * DayLength < time
        BY <1>1, <2>2, <3>1, <4>1, RowFields DEF VisitsCounted, Clocked, Alone, V!Rows
      <4>3. row.started <= visit[y].started
        BY <2>3, <3>6, <4>1
      <4>4. CASE o = b
        <5>1. call[c].open = None /\ row.started = now
          BY <2>4, <4>4
        <5>2. visit[y].started = now /\ visit[y].seen = now
          BY <2>2, <4>2, <4>3, <5>1
        <5>3. PICK m \in Nat : m = RawDays * DayLength /\ Window <= m
          BY VisitsHold, Product
        <5>4. ~visit[y].gone
          BY <2>5, <4>2, <5>2, <5>3, VisitsHold
        <5>5. visit[y].seen + Window <= now
          BY <1>1, <2>2, <4>1, <5>1, <5>4 DEF VisitsCounted, Found
        <5> QED BY <2>2, <5>2, <5>5, VisitsHold
      <4>5. CASE o # b
        <5>1. /\ call[c].open = o /\ o # None /\ visit[o] # None /\ row.started = visit[o].started
              /\ o \in V!Rows /\ ~visit[o].gone
          BY <2>4, <4>5, VisitsHold DEF V!Rows
        <5>2. now < visit[o].seen + Window /\ visit[o].seen \in 0..LastTime
          BY <1>1, <2>2, <4>1, <5>1, RowFields DEF VisitsCounted, Found
        <5>3. visit[y].started - visit[o].seen >= Window
          BY <2>6, <4>1, <4>3, <5>1 DEF VisitsCounted, V!VisitsApart
        <5> QED BY <2>2, <4>2, <5>2, <5>3, VisitsHold
      <4> QED BY <4>4, <4>5
    <3> QED BY <3>4, <3>5, <3>6
  <2> QED BY <2>9, <2>10, <2>11, <2>12, <2>13, <2>14, <2>15 DEF VisitsCounted
<1> QED BY <1>3, <1>4, CommitRecords

\* The purge marks what is old.
LEMMA PurgedRows ==
  ASSUME VisitTypes, V!Purge
  PROVE  /\ visit' \in [Beacons -> V!VisitRow \cup {None}] /\ event' \in [Beacons -> V!EventRow \cup {None}]
         /\ V!Rows' = V!Rows /\ V!Views' = V!Views
         /\ \A b \in V!Rows :
              /\ visit'[b].started = visit[b].started /\ visit'[b].seen = visit[b].seen
              /\ visit'[b].views = visit[b].views /\ (visit[b].gone => visit'[b].gone)
              /\ visit'[b].gone => visit[b].gone \/ visit[b].started + RawDays * DayLength < time
         /\ \A b \in V!Views :
              /\ event'[b].at = event[b].at /\ event'[b].visit = event[b].visit
              /\ event'[b].gone => event[b].gone \/ event[b].at + RawDays * DayLength < time
<1>1. PICK m \in Nat : m = RawDays * DayLength
  BY VisitsHold, Product
<1>2. time \in 0..LastTime
  BY TimeIsNat
<1>3. visit' = [b \in Beacons |-> IF b \in V!Rows /\ visit[b].started < time - m
                                  THEN [visit[b] EXCEPT !.gone = TRUE] ELSE visit[b]]
  BY <1>1 DEF V!Purge
<1>4. event' = [b \in Beacons |-> IF b \in V!Views /\ event[b].at < time - m
                                  THEN [event[b] EXCEPT !.gone = TRUE] ELSE event[b]]
  BY <1>1 DEF V!Purge
<1>5. ASSUME NEW b \in Beacons, visit[b] # None
      PROVE  /\ visit'[b] \in V!VisitRow
             /\ visit'[b].started = visit[b].started /\ visit'[b].seen = visit[b].seen
             /\ visit'[b].views = visit[b].views /\ (visit[b].gone => visit'[b].gone)
             /\ visit'[b].gone => visit[b].gone \/ visit[b].started + m < time
  <2>1. PICK x \in V!VisitRow : x = visit[b] /\ x.started \in 0..LastTime
    BY <1>5, RowFields
  <2>2. PICK y : y = [x EXCEPT !.gone = TRUE]
    OBVIOUS
  <2>3. /\ y \in V!VisitRow /\ y.started = x.started /\ y.seen = x.seen /\ y.views = x.views /\ y.gone = TRUE
    BY <2>1, <2>2 DEF V!VisitRow
  <2>4. visit'[b] = IF x.started < time - m THEN y ELSE x
    BY <1>3, <1>5, <2>1, <2>2 DEF V!Rows
  <2> QED BY <1>1, <1>2, <2>1, <2>3, <2>4
<1>6. ASSUME NEW b \in Beacons, event[b] # None
      PROVE  /\ event'[b] \in V!EventRow
             /\ event'[b].at = event[b].at /\ event'[b].visit = event[b].visit
             /\ event'[b].gone => event[b].gone \/ event[b].at + m < time
  <2>1. PICK x \in V!EventRow : x = event[b] /\ x.at \in 0..LastTime
    BY <1>6, RowFields
  <2>2. PICK y : y = [x EXCEPT !.gone = TRUE]
    OBVIOUS
  <2>3. y \in V!EventRow /\ y.at = x.at /\ y.visit = x.visit /\ y.gone = TRUE
    BY <2>1, <2>2 DEF V!EventRow
  <2>4. event'[b] = IF x.at < time - m THEN y ELSE x
    BY <1>4, <1>6, <2>1, <2>2 DEF V!Views
  <2> QED BY <1>1, <1>2, <2>1, <2>3, <2>4
<1>7. \A b \in Beacons : visit[b] = None => visit'[b] = None
  BY <1>3 DEF V!Rows
<1>8. \A b \in Beacons : event[b] = None => event'[b] = None
  BY <1>4 DEF V!Views
<1>9. V!Rows' = V!Rows /\ V!Views' = V!Views
  BY <1>5, <1>6, <1>7, <1>8, VisitsHold DEF V!Rows, V!Views
<1>10. visit' \in [Beacons -> V!VisitRow \cup {None}] /\ event' \in [Beacons -> V!EventRow \cup {None}]
  <2>1. \A b \in Beacons : visit'[b] \in V!VisitRow \cup {None}
    BY <1>5, <1>7
  <2>2. \A b \in Beacons : event'[b] \in V!EventRow \cup {None}
    BY <1>6, <1>8
  <2>3. visit' = [b \in Beacons |-> visit'[b]] /\ event' = [b \in Beacons |-> event'[b]]
    BY <1>3, <1>4
  <2> QED BY <2>1, <2>2, <2>3
<1> QED BY <1>1, <1>5, <1>6, <1>9, <1>10 DEF V!Rows, V!Views

LEMMA CountedPurge ==
  ASSUME VisitTypes, VisitsCounted, V!Purge
  PROVE  VisitTypes' /\ VisitsCounted'
<1>0. UNCHANGED <<time, call, run, raced, behind>>
  BY DEF V!Purge
<1>1. V!Rows' = V!Rows /\ V!Views' = V!Views
  BY PurgedRows
<1>2. \A b \in V!Rows :
        /\ visit'[b].started = visit[b].started /\ visit'[b].seen = visit[b].seen
        /\ visit'[b].views = visit[b].views /\ (visit[b].gone => visit'[b].gone)
        /\ visit'[b].gone => visit[b].gone \/ visit[b].started + RawDays * DayLength < time
  BY PurgedRows
<1>3. \A b \in V!Views :
        /\ event'[b].at = event[b].at /\ event'[b].visit = event[b].visit
        /\ event'[b].gone => event[b].gone \/ event[b].at + RawDays * DayLength < time
  BY PurgedRows
<1>4. \A b \in Beacons : /\ visit'[b] # None <=> visit[b] # None
                         /\ event'[b] # None <=> event[b] # None
                         /\ visit[b] # None <=> b \in V!Rows
                         /\ event[b] # None <=> b \in V!Views
  BY <1>1 DEF V!Rows, V!Views
<1>5. \A c \in Deliveries : Flying(c)' = Flying(c) /\ From(c)' = From(c)
  BY <1>0 DEF Flying, From
<1>6. VisitTypes'
  <2>1. daily' \in [V!Days -> V!FiguresRow \cup {None}]
    BY DEF V!Purge, VisitTypes, V!TypeOK
  <2> QED BY <1>0, <2>1, PurgedRows DEF VisitTypes, V!TypeOK
<1>7. Delivered'
  <2> SUFFICES ASSUME NEW c \in Deliveries, Flying(c)
               PROVE  /\ call[c].now <= time /\ time < call[c].now + Window
                      /\ event'[call[c].beacon] # None => call[c].now <= event'[call[c].beacon].at
    BY <1>0, <1>5 DEF Delivered
  <2>1. call[c].beacon \in Beacons
    BY CallFields
  <2> QED BY <1>3, <1>4, <2>1 DEF VisitsCounted, Delivered
<1>8. Grouped'
  <2> SUFFICES ASSUME NEW b \in Beacons
      PROVE  /\ visit'[b] # None => event'[b] # None /\ event'[b].visit = b
             /\ event'[b] # None => visit'[event'[b].visit] # None
    BY DEF Grouped
  <2>1. event[b] # None => event[b].visit \in Beacons
    BY RowFields
  <2> QED BY <1>3, <1>4, <2>1 DEF VisitsCounted, Grouped
<1>9. Clocked'
  BY <1>0, <1>2, <1>3, <1>4 DEF VisitsCounted, Clocked
<1>10. Alone'
  BY <1>0, <1>1, <1>2, <1>5 DEF VisitsCounted, Alone
<1>11. Found'
  <2> SUFFICES ASSUME NEW c \in Deliveries, call[c].at = "commit"
      PROVE  /\ call[c].open # None => visit'[call[c].open] # None /\ Sender[call[c].open] = From(c)
             /\ From(c) \notin raced =>
                  IF call[c].open # None THEN call[c].now < visit'[call[c].open].seen + Window
                  ELSE \A x \in V!Rows : Sender[x] = From(c) /\ ~visit'[x].gone =>
                         visit'[x].seen + Window <= call[c].now
    BY <1>0, <1>1, <1>5 DEF Found
  <2>1. call[c].open \in Beacons \cup {None}
    BY CallFields
  <2>2. call[c].open # None => visit[call[c].open] # None /\ Sender[call[c].open] = From(c)
    BY DEF VisitsCounted, Found
  <2>3. From(c) \notin raced =>
           IF call[c].open # None THEN call[c].now < visit[call[c].open].seen + Window
           ELSE \A x \in V!Rows : Sender[x] = From(c) /\ ~visit[x].gone =>
                  visit[x].seen + Window <= call[c].now
    BY DEF VisitsCounted, Found
  <2>4. call[c].open # None => visit'[call[c].open] # None /\ visit'[call[c].open].seen = visit[call[c].open].seen
    BY <1>2, <1>4, <2>1, <2>2
  <2> QED BY <1>2, <2>2, <2>3, <2>4
<1>12. Tally'
  <2>1. \A x \in V!Rows : Members(x)' = Members(x)
    BY <1>1, <1>3 DEF Members
  <2> QED BY <1>1, <1>2, <2>1 DEF VisitsCounted, Tally
<1>13. V!VisitsApart'
  BY <1>0, <1>1, <1>2 DEF VisitsCounted, V!VisitsApart
<1> QED BY <1>6, <1>7, <1>8, <1>9, <1>10, <1>11, <1>12, <1>13 DEF VisitsCounted

-----------------------------------------------------------------------------
(* The figures                                                               *)

VisitsFigured == Rebuilt /\ OneHolder /\ Figured /\ Upheld

LEMMA FiguresOfAll ==
  \A d : V!Figures(d, V!Rows, V!Views) = DayFigures(d)
BY SameCardinality DEF V!Figures, DayFigures, OnDay, Begun, Bounced

LEMMA FiguresAreRows == ASSUME NEW d PROVE DayFigures(d) \in V!FiguresRow
<1>1. OnDay(d) \subseteq Beacons /\ Begun(d) \subseteq Beacons /\ Bounced(d) \subseteq Beacons
  BY DEF OnDay, Begun, Bounced, V!Rows, V!Views
<1>2. IsFiniteSet(OnDay(d)) /\ IsFiniteSet(Begun(d)) /\ IsFiniteSet(Bounced(d))
  BY <1>1, FS_Subset, VisitsHold
<1>3. IsFiniteSet({Sender[b] : b \in OnDay(d)})
  <2> DEFINE f == [b \in OnDay(d) |-> Sender[b]]
             T == {Sender[b] : b \in OnDay(d)}
  <2>1. f \in Surjection(OnDay(d), T)
    BY DEF Surjection
  <2> HIDE DEF f, T
  <2>2. IsFiniteSet(T)
    BY <1>2, <2>1, FS_Surjection
  <2> QED BY <2>2 DEF T
<1>4. PICK i \in Nat, j \in Nat, k \in Nat, m \in Nat :
        /\ i = Cardinality(OnDay(d)) /\ j = Cardinality(Begun(d)) /\ k = Cardinality(Bounced(d))
        /\ m = Cardinality({Sender[b] : b \in OnDay(d)})
  BY <1>2, <1>3, FS_CardinalityType
<1>5. DayFigures(d) = [visits |-> j, views |-> i, bounces |-> k, uniques |-> m]
  BY <1>4 DEF DayFigures
<1> QED BY <1>5 DEF V!FiguresRow

\* Rows of other days do not matter, nor whether rows are purged.
LEMMA SameFigures ==
  ASSUME NEW d, OnDay(d)' = OnDay(d), Begun(d)' = Begun(d),
         \A v \in Begun(d) : visit'[v].views = visit[v].views
  PROVE  DayFigures(d)' = DayFigures(d)
<1>1. Bounced(d)' = Bounced(d)
  BY DEF Bounced
<1> QED BY <1>1 DEF DayFigures

LEMMA UnchangedFigures ==
  ASSUME NEW d, UNCHANGED <<visit, event>>
  PROVE  DayFigures(d)' = DayFigures(d)
<1>1. OnDay(d)' = OnDay(d) /\ Begun(d)' = Begun(d)
  BY DEF OnDay, Begun, V!Rows, V!Views
<1> QED BY <1>1, SameFigures

LEMMA TodayIsNat == ASSUME VisitTypes PROVE V!Today \in Nat /\ V!Today \in V!Days
BY TimeIsNat, DayBounds, DayInDays DEF V!Today

\* The steps of the deliveries that write nothing.
LEMMA FiguredCalls ==
  ASSUME VisitsFigured, UNCHANGED <<time, visit, event, daily, run, behind>>
  PROVE  VisitsFigured'
<1>1. \A d : DayFigures(d)' = DayFigures(d)
  BY UnchangedFigures
<1>2. V!Today' = V!Today
  BY DEF V!Today, V!DayOf
<1>3. Rebuilt'
  BY <1>2 DEF VisitsFigured, Rebuilt
<1>4. OneHolder'
  BY DEF VisitsFigured, OneHolder, V!Holds
<1>5. Figured'
  BY <1>1 DEF VisitsFigured, Figured
<1>6. Upheld'
  BY <1>1, <1>2 DEF VisitsFigured, Upheld
<1> QED BY <1>3, <1>4, <1>5, <1>6 DEF VisitsFigured

LEMMA FiguredTick ==
  ASSUME VisitTypes, VisitsFigured, V!Tick
  PROVE  VisitsFigured'
<1>0. UNCHANGED <<visit, event, daily, run, behind>> /\ time' = time + 1 /\ time \in Nat
  BY TimeIsNat DEF V!Tick
<1>1. \A d : DayFigures(d)' = DayFigures(d)
  BY <1>0, UnchangedFigures
<1>2. PICK i \in Nat, j \in Nat : i = V!Today /\ j = V!DayOf(time + 1) /\ i <= j
  BY <1>0, DayBounds, DayMonotone DEF V!Today
<1>3. V!Today' = j
  BY <1>0, <1>2 DEF V!Today, V!DayOf
<1>4. Rebuilt'
  <2> SUFFICES ASSUME NEW r \in Runs, run[r].at \in V!InProgress
      PROVE  j < run[r].day + Rebuild /\ (run[r].had => daily[run[r].day] # None)
    BY <1>0, <1>3 DEF Rebuilt
  <2>1. run[r].day > j - Rebuild
    BY <1>2 DEF V!Tick
  <2>2. run[r].day \in Nat /\ Rebuild \in Nat
    BY RunFields, DaysAreNat, VisitsHold
  <2> QED BY <2>1, <2>2 DEF VisitsFigured, Rebuilt
<1>5. OneHolder'
  BY <1>0 DEF VisitsFigured, OneHolder, V!Holds
<1>6. Figured'
  BY <1>0, <1>1 DEF VisitsFigured, Figured
<1>7. Upheld'
  <2> SUFFICES ASSUME NEW d \in V!Days \ behind, j < d + FigureDays PROVE daily[d] = DayFigures(d)
    BY <1>0, <1>1, <1>3 DEF Upheld
  <2>1. i < d + FigureDays
    BY <1>2, DaysAreNat, VisitsHold
  <2> QED BY <1>2, <2>1 DEF VisitsFigured, Upheld
<1> QED BY <1>4, <1>5, <1>6, <1>7 DEF VisitsFigured

LEMMA FiguredCommit ==
  ASSUME VisitTypes, VisitsCounted, VisitsFigured, NEW c \in Deliveries, V!Commit(c)
  PROVE  VisitsFigured'
<1>1. UNCHANGED <<time, daily, raced>> /\ call[c].at = "commit"
  BY CommitEnds
<1>2. CASE UNCHANGED <<visit, event, run, behind>>
  BY <1>1, <1>2, FiguredCalls
<1>3. CASE \E o \in Beacons, row \in V!VisitRow, e \in V!EventRow : Recorded(c, o, row, e)
  <2>1. PICK o \in Beacons, row \in V!VisitRow, e \in V!EventRow : Recorded(c, o, row, e)
    BY <1>3
  <2>2. PICK b \in Beacons : b = call[c].beacon
    BY <1>1, RecordedRows, <2>1
  <2>3. /\ visit'[o] = row /\ \A x \in Beacons \ {o} : visit'[x] = visit[x]
        /\ event'[b] = e /\ \A x \in Beacons \ {b} : event'[x] = event[x]
        /\ row # None /\ e # None /\ row.started \in 0..LastTime /\ e.at = time
    BY <1>1, <2>1, <2>2, RecordedRows
  <2>4. /\ event[b] = None /\ visit[b] = None
        /\ o # b => visit[o] # None /\ row.started = visit[o].started
    BY <2>1, <2>2 DEF Recorded
  <2>5. PICK D : D = {V!DayOf(time), V!DayOf(row.started)}
    OBVIOUS
  <2>6. /\ behind' = behind \cup D
        /\ run' = [r \in Runs |-> IF run[r].at = "read" /\ run[r].day \in D
                                  THEN [run[r] EXCEPT !.stale = TRUE] ELSE run[r]]
    BY <2>1, <2>5 DEF Recorded, V!Changed
  <2>7. ASSUME NEW d, d \notin D PROVE DayFigures(d)' = DayFigures(d)
    <3>1. V!DayOf(e.at) # d /\ V!DayOf(row.started) # d
      BY <2>3, <2>5, <2>7
    <3>2. ASSUME NEW x \in Beacons
          PROVE  event'[x] # None /\ V!DayOf(event'[x].at) = d <=> event[x] # None /\ V!DayOf(event[x].at) = d
      BY <2>3, <2>4, <3>1
    <3>3. ASSUME NEW x \in Beacons
          PROVE  visit'[x] # None /\ V!DayOf(visit'[x].started) = d <=> visit[x] # None /\ V!DayOf(visit[x].started) = d
      BY <2>3, <2>4, <3>1
    <3>4. OnDay(d)' = OnDay(d)
      BY <3>2 DEF OnDay, V!Views, V!DayOf
    <3>5. Begun(d)' = Begun(d)
      BY <3>3 DEF Begun, V!Rows, V!DayOf
    <3>6. ASSUME NEW x \in Begun(d) PROVE visit'[x] = visit[x]
      <4>1. x \in Beacons /\ visit[x] # None /\ V!DayOf(visit[x].started) = d
        BY DEF Begun, V!Rows
      <4> QED BY <2>3, <2>4, <3>1, <4>1
    <3> QED BY <3>4, <3>5, <3>6, SameFigures
  <2>8. ASSUME NEW r \in Runs
        PROVE  /\ run'[r].at = run[r].at
               /\ run[r].at \in V!InProgress => run'[r].day = run[r].day /\ run'[r].had = run[r].had
               /\ run[r].at = "read" => /\ run'[r].figures = run[r].figures
                                        /\ run'[r].stale = (run[r].stale \/ run[r].day \in D)
    <3>1. run[r] \in RunType
      BY DEF VisitTypes
    <3>2. CASE run[r].at = "read"
      <4>1. PICK x \in [at : {"read"}, day : V!Days, had : BOOLEAN, stale : BOOLEAN, figures : V!FiguresRow] :
              x = run[r]
        BY <3>1, <3>2 DEF RunType
      <4>2. PICK y : y = [x EXCEPT !.stale = TRUE]
        OBVIOUS
      <4>3. y.at = x.at /\ y.day = x.day /\ y.had = x.had /\ y.figures = x.figures /\ y.stale = TRUE
        BY <4>1, <4>2
      <4>4. run'[r] = IF x.day \in D THEN y ELSE x
        BY <2>6, <3>2, <4>1, <4>2
      <4> QED BY <3>2, <4>1, <4>3, <4>4
    <3>3. CASE run[r].at # "read"
      BY <2>6, <3>3
    <3> QED BY <3>2, <3>3
  <2>9. V!Today' = V!Today
    BY <1>1 DEF V!Today, V!DayOf
  <2>10. Rebuilt'
    BY <1>1, <2>8, <2>9 DEF VisitsFigured, Rebuilt
  <2>11. OneHolder'
    <3>1. \A r \in Runs, d \in V!Days : V!Holds(r, d)' => V!Holds(r, d)
      BY <2>8 DEF V!Holds, V!InProgress
    <3> QED BY <3>1 DEF VisitsFigured, OneHolder, V!Days, V!DayOf
  <2>12. Figured'
    <3> SUFFICES ASSUME NEW r \in Runs, NEW d \in V!Days, run'[r].at = "read", run'[r].day = d
        PROVE  IF ~run'[r].stale THEN run'[r].figures = DayFigures(d)'
               ELSE d \in behind' \/ (~run'[r].had /\ daily'[d] # None)
      BY DEF Figured, V!Days, V!DayOf
    <3>1. /\ run[r].at = "read" /\ run[r].day = d
          /\ run'[r].had = run[r].had /\ run'[r].figures = run[r].figures
          /\ run'[r].stale = (run[r].stale \/ d \in D)
      BY <2>8 DEF V!InProgress
    <3>2. IF ~run[r].stale THEN run[r].figures = DayFigures(d)
          ELSE d \in behind \/ (~run[r].had /\ daily[d] # None)
      BY <3>1 DEF VisitsFigured, Figured
    <3>4. CASE d \in D
      BY <2>6, <3>1, <3>4
    <3>5. CASE d \notin D
      <4>1. DayFigures(d)' = DayFigures(d)
        BY <2>7, <3>5
      <4>2. run'[r].stale = run[r].stale
        BY <3>1, <3>5, RunFields
      <4> QED BY <1>1, <2>6, <3>1, <3>2, <4>1, <4>2
    <3> QED BY <3>4, <3>5
  <2>13. Upheld'
    <3> SUFFICES ASSUME NEW d \in V!Days \ behind', V!Today < d + FigureDays
        PROVE  daily[d] = DayFigures(d)'
      BY <1>1, <2>9 DEF Upheld, V!Days, V!DayOf
    <3>1. d \notin D /\ d \in V!Days \ behind
      BY <2>6
    <3> QED BY <2>7, <3>1 DEF VisitsFigured, Upheld
  <2> QED BY <2>10, <2>11, <2>12, <2>13 DEF VisitsFigured
<1> QED BY <1>2, <1>3, CommitRecords

LEMMA FiguredPurge ==
  ASSUME VisitTypes, VisitsFigured, V!Purge
  PROVE  VisitsFigured'
<1>0. UNCHANGED <<time, run, behind>>
  BY DEF V!Purge
<1>1. ASSUME NEW d PROVE DayFigures(d)' = DayFigures(d)
  <2>1. V!Rows' = V!Rows /\ V!Views' = V!Views
    BY PurgedRows
  <2>2. /\ \A b \in V!Rows : visit'[b].started = visit[b].started /\ visit'[b].views = visit[b].views
        /\ \A b \in V!Views : event'[b].at = event[b].at
    BY PurgedRows
  <2>3. OnDay(d)' = OnDay(d)
    BY <2>1, <2>2 DEF OnDay, V!DayOf
  <2>4. Begun(d)' = Begun(d)
    BY <2>1, <2>2 DEF Begun, V!DayOf
  <2>5. \A v \in Begun(d) : visit'[v].views = visit[v].views
    BY <2>2 DEF Begun
  <2> QED BY <2>3, <2>4, <2>5, SameFigures
<1>2. V!Today' = V!Today
  BY <1>0 DEF V!Today, V!DayOf
<1>3. ASSUME NEW d \in V!Days, V!Today < d + FigureDays PROVE daily'[d] = daily[d]
  <2>1. d \in Nat /\ time \in Nat /\ FigureDays \in Nat /\ DayLength \in Nat
    BY DaysAreNat, TimeIsNat, VisitsHold
  <2>2. PICK m \in Nat, k \in Nat, i \in Nat : m = d * DayLength /\ k = FigureDays * DayLength /\ i = V!Today
    BY <2>1, Product, TodayIsNat
  <2>3. ~(m < time - k)
    <3> SUFFICES ASSUME m < time - k PROVE FALSE
      OBVIOUS
    <3>1. m + k < time
      BY <2>1, <2>2
    <3>2. d * DayLength + FigureDays * DayLength < time
      BY <2>2, <3>1
    <3>3. d + FigureDays <= V!DayOf(time)
      BY <2>1, <3>2, DaysApart
    <3>4. d + FigureDays <= i /\ i < d + FigureDays
      BY <1>3, <2>2, <3>3 DEF V!Today
    <3> QED BY <2>1, <2>2, <3>4
  <2>4. daily'[d] = IF m < time - k THEN None ELSE daily[d]
    BY <2>2 DEF V!Purge
  <2> QED BY <2>3, <2>4
<1>4. ASSUME NEW r \in Runs, run[r].at \in V!InProgress
      PROVE  /\ run[r].day \in V!Days /\ V!Today < run[r].day + Rebuild
             /\ daily'[run[r].day] = daily[run[r].day]
  <2>1. run[r].day \in V!Days /\ run[r].day \in Nat
    BY <1>4, RunFields, DaysAreNat
  <2>2. V!Today < run[r].day + Rebuild
    BY <1>4 DEF VisitsFigured, Rebuilt
  <2>3. V!Today < run[r].day + FigureDays
    BY <2>1, <2>2, VisitsHold, TodayIsNat
  <2> QED BY <1>3, <2>1, <2>2, <2>3
<1>5. Rebuilt'
  BY <1>0, <1>2, <1>4 DEF VisitsFigured, Rebuilt
<1>6. OneHolder'
  BY <1>0 DEF VisitsFigured, OneHolder, V!Holds
<1>7. Figured'
  <2> SUFFICES ASSUME NEW r \in Runs, NEW d \in V!Days, run[r].at = "read", run[r].day = d
      PROVE  IF ~run[r].stale THEN run[r].figures = DayFigures(d)'
             ELSE d \in behind \/ (~run[r].had /\ daily'[d] # None)
    BY <1>0 DEF Figured, V!Days, V!DayOf
  <2>1. daily'[d] = daily[d]
    BY <1>4 DEF V!InProgress
  <2> QED BY <1>1, <2>1 DEF VisitsFigured, Figured
<1>8. Upheld'
  <2> SUFFICES ASSUME NEW d \in V!Days \ behind, V!Today < d + FigureDays
      PROVE  daily'[d] = DayFigures(d)'
    BY <1>0, <1>2 DEF Upheld, V!Days, V!DayOf
  <2> QED BY <1>1, <1>3 DEF VisitsFigured, Upheld
<1> QED BY <1>5, <1>6, <1>7, <1>8 DEF VisitsFigured

\* A step of one run that writes no figures, and in which nobody else is concerned.
LEMMA RunMoves ==
  ASSUME VisitTypes, VisitsFigured, UNCHANGED <<time, visit, event, call, daily, raced, behind>>,
         NEW r \in Runs, NEW w \in RunType, run' = [run EXCEPT ![r] = w],
         w.at \in V!InProgress => /\ V!Today < w.day + Rebuild /\ (w.had => daily[w.day] # None),
         w.at \in {"deleted", "read"} /\ w.had =>
           \A s \in Runs \ {r} : ~V!Holds(s, w.day),
         \A d \in V!Days : w.at = "read" /\ w.day = d => ~w.stale /\ w.figures = DayFigures(d)
  PROVE  VisitTypes' /\ VisitsFigured'
<1>1. run \in [Runs -> RunType] /\ run' \in [Runs -> RunType]
  BY DEF VisitTypes
<1>2. run'[r] = w /\ \A s \in Runs \ {r} : run'[s] = run[s]
  BY <1>1
<1>3. VisitTypes'
  BY <1>1 DEF VisitTypes, V!TypeOK, V!Days, V!DayOf
<1>4. V!Today' = V!Today
  BY DEF V!Today, V!DayOf
<1>5. \A d : DayFigures(d)' = DayFigures(d)
  BY UnchangedFigures
<1>6. Rebuilt'
  BY <1>2, <1>4 DEF VisitsFigured, Rebuilt
<1>7. OneHolder'
  <2> SUFFICES ASSUME NEW p \in Runs, NEW s \in Runs, NEW d \in V!Days, V!Holds(p, d)', V!Holds(s, d)', p # s
               PROVE  FALSE
    BY DEF OneHolder, V!Days, V!DayOf
  <2>1. \A t \in Runs \ {r} : V!Holds(t, d)' = V!Holds(t, d)
    BY <1>2 DEF V!Holds
  <2>2. V!Holds(r, d)' => \A t \in Runs \ {r} : ~V!Holds(t, d)
    BY <1>2 DEF V!Holds
  <2> QED BY <2>1, <2>2 DEF VisitsFigured, OneHolder
<1>8. Figured'
  <2> SUFFICES ASSUME NEW s \in Runs, NEW d \in V!Days, run'[s].at = "read", run'[s].day = d
      PROVE  IF ~run'[s].stale THEN run'[s].figures = DayFigures(d)
             ELSE d \in behind \/ (~run'[s].had /\ daily[d] # None)
    BY <1>5 DEF Figured, V!Days, V!DayOf
  <2>1. CASE s = r
    BY <1>2, <2>1
  <2>2. CASE s # r
    BY <1>2, <2>2 DEF VisitsFigured, Figured
  <2> QED BY <2>1, <2>2
<1>9. Upheld'
  BY <1>4, <1>5 DEF VisitsFigured, Upheld, V!Days, V!DayOf
<1> QED BY <1>3, <1>6, <1>7, <1>8, <1>9 DEF VisitsFigured

LEMMA FiguredDelete ==
  ASSUME VisitTypes, VisitsFigured, NEW r \in Runs, NEW d \in V!Days, V!RollupDelete(r, d)
  PROVE  VisitTypes' /\ VisitsFigured'
<1>1. PICK at \in {"waits", "deleted"}, had \in BOOLEAN :
        /\ at = IF \E s \in Runs : V!Holds(s, d) THEN "waits" ELSE "deleted"
        /\ had = (daily[d] # None)
  OBVIOUS
<1>2. PICK w \in RunType : w = [at |-> at, day |-> d, had |-> had]
  <2>1. [at |-> at, day |-> d, had |-> had] \in [at : {"waits", "deleted"}, day : V!Days, had : BOOLEAN]
    OBVIOUS
  <2> QED BY <2>1 DEF RunType
<1>3. run' = [run EXCEPT ![r] = w] /\ UNCHANGED <<time, visit, event, call, daily, raced, behind>>
  BY <1>1, <1>2 DEF V!RollupDelete
<1>4. w.at = at /\ w.day = d /\ w.had = had /\ w.at # "read"
  BY <1>2
<1>5. V!Today < d + Rebuild
  <2>1. V!Today - Rebuild < d
    BY DEF V!RollupDelete, V!InWindow
  <2> QED BY <2>1, DaysAreNat, VisitsHold, TodayIsNat
<1>6. w.at = "deleted" => \A s \in Runs : ~V!Holds(s, d)
  BY <1>1, <1>4
<1> QED BY <1>1, <1>3, <1>4, <1>5, <1>6, RunMoves

LEMMA FiguredResume ==
  ASSUME VisitTypes, VisitsFigured, NEW r \in Runs, V!RollupResume(r)
  PROVE  VisitTypes' /\ VisitsFigured'
<1>1. run[r].at = "waits" /\ run' = [run EXCEPT ![r].at = "deleted"]
      /\ UNCHANGED <<time, visit, event, call, daily, raced, behind>>
      /\ \A s \in Runs : ~V!Holds(s, run[r].day)
  BY DEF V!RollupResume
<1>2. PICK x \in [at : {"waits", "deleted"}, day : V!Days, had : BOOLEAN] : x = run[r]
  BY <1>1 DEF VisitTypes, RunType
<1>3. PICK w : w = [x EXCEPT !.at = "deleted"]
  OBVIOUS
<1>4. w \in [at : {"waits", "deleted"}, day : V!Days, had : BOOLEAN]
  BY <1>3
<1>5. w \in RunType /\ w.at = "deleted" /\ w.day = x.day /\ w.had = x.had
  BY <1>3, <1>4 DEF RunType
<1>6. run' = [run EXCEPT ![r] = w]
  BY <1>1, <1>2, <1>3 DEF VisitTypes
<1>7. V!Today < w.day + Rebuild /\ (w.had => daily[w.day] # None)
  BY <1>1, <1>2, <1>5 DEF VisitsFigured, Rebuilt, V!InProgress
<1> QED BY <1>1, <1>2, <1>5, <1>6, <1>7, RunMoves

LEMMA FiguredFails ==
  ASSUME VisitTypes, VisitsFigured, NEW r \in Runs, V!RollupFails(r)
  PROVE  VisitTypes' /\ VisitsFigured'
<1>1. PICK w \in RunType : w = [at |-> "done"]
  BY DEF RunType
<1>2. run' = [run EXCEPT ![r] = w] /\ UNCHANGED <<time, visit, event, call, daily, raced, behind>>
  BY <1>1 DEF V!RollupFails
<1>3. w.at \notin V!InProgress /\ w.at \notin {"deleted", "read"}
  BY <1>1 DEF V!InProgress
<1> QED BY <1>2, <1>3, RunMoves

\* Rows that are purged are of earlier days than those rebuilt.
LEMMA FiguredRead ==
  ASSUME VisitTypes, VisitsCounted, VisitsFigured, NEW r \in Runs, V!RollupRead(r)
  PROVE  VisitTypes' /\ VisitsFigured'
<1>1. PICK d \in V!Days, had \in BOOLEAN : d = run[r].day /\ had = run[r].had
  BY RunFields DEF V!RollupRead, V!InProgress
<1> DEFINE K == {v \in V!Rows : ~visit[v].gone}
           L == {b \in V!Views : ~event[b].gone}
<1>2. /\ run[r].at = "deleted" /\ UNCHANGED <<time, visit, event, call, daily, raced, behind>>
      /\ run' = [run EXCEPT ![r] =
           [at |-> "read", day |-> d, had |-> had, stale |-> FALSE, figures |-> V!Figures(d, K, L)]]
  BY <1>1 DEF V!RollupRead
<1>3. V!Today < d + Rebuild /\ (had => daily[d] # None)
  BY <1>1, <1>2 DEF VisitsFigured, Rebuilt, V!InProgress
<1>4. d \in Nat /\ V!Today \in Nat /\ time \in Nat /\ V!Today = V!DayOf(time)
  BY DaysAreNat, TodayIsNat, TimeIsNat DEF V!Today
<1>5. ASSUME NEW t \in 0..LastTime, t + RawDays * DayLength < time PROVE V!DayOf(t) # d
  <2>1. t \in Nat /\ RawDays \in Nat /\ Rebuild \in Nat /\ Rebuild <= RawDays
    BY VisitsHold
  <2>2. V!DayOf(t) + RawDays <= V!Today /\ V!DayOf(t) \in Nat
    BY <1>4, <1>5, <2>1, OldRow, DayBounds
  <2> QED BY <1>3, <1>4, <2>1, <2>2
<1>6. \A v \in V!Rows : visit[v].gone => V!DayOf(visit[v].started) # d
  BY <1>5, RowFields DEF VisitsCounted, Clocked, V!Rows
<1>7. \A b \in V!Views : event[b].gone => V!DayOf(event[b].at) # d
  BY <1>5, RowFields DEF VisitsCounted, Clocked, V!Views
<1>8. /\ {b \in L : V!DayOf(event[b].at) = d} = OnDay(d)
      /\ {v \in K : V!DayOf(visit[v].started) = d} = Begun(d)
  BY <1>6, <1>7 DEF OnDay, Begun
<1>9. V!Figures(d, K, L) = DayFigures(d)
  BY <1>8, SameCardinality DEF V!Figures, DayFigures, Bounced
<1>10. PICK f \in V!FiguresRow : f = DayFigures(d)
  BY FiguresAreRows
<1>11. PICK w \in RunType : w = [at |-> "read", day |-> d, had |-> had, stale |-> FALSE, figures |-> f]
  <2>1. [at |-> "read", day |-> d, had |-> had, stale |-> FALSE, figures |-> f]
          \in [at : {"read"}, day : V!Days, had : BOOLEAN, stale : BOOLEAN, figures : V!FiguresRow]
    OBVIOUS
  <2> QED BY <2>1 DEF RunType
<1>12. run' = [run EXCEPT ![r] = w]
  BY <1>2, <1>9, <1>10, <1>11
<1>13. w.at = "read" /\ w.day = d /\ w.had = had /\ ~w.stale /\ w.figures = DayFigures(d)
  BY <1>10, <1>11
<1>14. had => \A s \in Runs \ {r} : ~V!Holds(s, d)
  BY <1>1, <1>2 DEF VisitsFigured, OneHolder, V!Holds
<1>15. UNCHANGED <<time, visit, event, call, daily, raced, behind>>
  BY <1>2
<1>16. V!Today < w.day + Rebuild /\ (w.had => daily[w.day] # None)
  BY <1>3, <1>13
<1>17. w.had => \A s \in Runs \ {r} : ~V!Holds(s, w.day)
  BY <1>13, <1>14
<1>18. \A e \in V!Days : w.day = e => ~w.stale /\ w.figures = DayFigures(e)
  BY <1>13
<1> HIDE DEF K, L
<1> QED BY <1>12, <1>15, <1>16, <1>17, <1>18, RunMoves

LEMMA FiguredRollup ==
  ASSUME VisitTypes, VisitsFigured, NEW r \in Runs, V!RollupCommit(r)
  PROVE  VisitTypes' /\ VisitsFigured'
<1>1. PICK d \in V!Days, f \in V!FiguresRow, stale \in BOOLEAN :
        d = run[r].day /\ f = run[r].figures /\ stale = run[r].stale
  BY RunFields DEF V!RollupCommit, V!InProgress
<1>2. /\ run[r].at = "read" /\ (run[r].had \/ daily[d] = None)
      /\ daily' = [daily EXCEPT ![d] = f]
      /\ behind' = IF stale THEN behind ELSE behind \ {d}
      /\ UNCHANGED <<time, visit, event, call, raced>>
  BY <1>1 DEF V!RollupCommit, V!Conflicts
<1>3. run' = [s \in Runs |->
         IF s = r THEN [at |-> "done"]
         ELSE IF run[s].at = "waits" /\ run[s].day = d
         THEN [run[s] EXCEPT !.at = "deleted", !.had = FALSE] ELSE run[s]]
  BY <1>1 DEF V!RollupCommit
<1>4. daily \in [V!Days -> V!FiguresRow \cup {None}] /\ behind \subseteq V!Days
  BY DEF VisitTypes, V!TypeOK
<1>5. /\ daily' \in [V!Days -> V!FiguresRow \cup {None}] /\ behind' \subseteq V!Days
      /\ daily'[d] = f /\ f # None /\ \A e \in V!Days \ {d} : daily'[e] = daily[e]
  BY <1>2, <1>4, VisitsHold
<1>6. ASSUME NEW s \in Runs
      PROVE  /\ run'[s] \in RunType
             /\ run'[s].at \in V!InProgress =>
                  /\ s # r /\ run[s].at \in V!InProgress /\ run'[s].day = run[s].day
                  /\ run'[s].had => run[s].had
             /\ run'[s].at \in {"deleted", "read"} /\ run'[s].had => run[s].at \in {"deleted", "read"}
             /\ run'[s].at = "read" => s # r /\ run'[s] = run[s]
  <2>1. CASE s = r
    <3>1. run'[s] = [at |-> "done"]
      BY <1>3, <2>1
    <3> QED BY <3>1 DEF RunType, V!InProgress
  <2>2. CASE s # r /\ run[s].at = "waits" /\ run[s].day = d
    <3>1. PICK x \in [at : {"waits", "deleted"}, day : V!Days, had : BOOLEAN] : x = run[s]
      BY <2>2 DEF VisitTypes, RunType
    <3>2. PICK y : y = [x EXCEPT !.at = "deleted"]
      OBVIOUS
    <3>3. y \in [at : {"waits", "deleted"}, day : V!Days, had : BOOLEAN] /\ y.at = "deleted" /\ y.day = x.day
      BY <3>2
    <3>4. PICK z : z = [y EXCEPT !.had = FALSE]
      OBVIOUS
    <3>5. z \in [at : {"waits", "deleted"}, day : V!Days, had : BOOLEAN]
          /\ z.at = "deleted" /\ z.day = x.day /\ ~z.had
      BY <3>3, <3>4
    <3>6. run'[s] = z
      BY <1>3, <2>2, <3>1, <3>2, <3>4
    <3> QED BY <2>2, <3>1, <3>5, <3>6 DEF RunType, V!InProgress
  <2>3. CASE s # r /\ ~(run[s].at = "waits" /\ run[s].day = d)
    <3>1. run'[s] = run[s] /\ run[s] \in RunType
      BY <1>3, <2>3 DEF VisitTypes
    <3> QED BY <2>3, <3>1
  <2> QED BY <2>1, <2>2, <2>3
<1>7. run' \in [Runs -> RunType]
  BY <1>3, <1>6
<1>8. VisitTypes'
  BY <1>2, <1>5, <1>7 DEF VisitTypes, V!TypeOK, V!Days, V!DayOf
<1>9. V!Today' = V!Today
  BY <1>2 DEF V!Today, V!DayOf
<1>10. \A e : DayFigures(e)' = DayFigures(e)
  BY <1>2, UnchangedFigures
<1>11. Rebuilt'
  <2> SUFFICES ASSUME NEW s \in Runs, run'[s].at \in V!InProgress
      PROVE  V!Today < run'[s].day + Rebuild /\ (run'[s].had => daily'[run'[s].day] # None)
    BY <1>9 DEF Rebuilt
  <2>1. run[s].at \in V!InProgress /\ run'[s].day = run[s].day /\ (run'[s].had => run[s].had)
        /\ run[s].day \in V!Days
    BY <1>6, RunFields
  <2>2. V!Today < run[s].day + Rebuild /\ (run[s].had => daily[run[s].day] # None)
    BY <2>1 DEF VisitsFigured, Rebuilt
  <2> QED BY <1>5, <2>1, <2>2
<1>12. OneHolder'
  <2>1. \A s \in Runs, e \in V!Days : V!Holds(s, e)' => V!Holds(s, e)
    BY <1>6 DEF V!Holds, V!InProgress
  <2> QED BY <2>1 DEF VisitsFigured, OneHolder, V!Days, V!DayOf
<1>13. Figured'
  <2> SUFFICES ASSUME NEW s \in Runs, NEW e \in V!Days, run'[s].at = "read", run'[s].day = e
      PROVE  IF ~run'[s].stale THEN run'[s].figures = DayFigures(e)
             ELSE e \in behind' \/ (~run'[s].had /\ daily'[e] # None)
    BY <1>10 DEF Figured, V!Days, V!DayOf
  <2>1. s # r /\ run'[s] = run[s] /\ run[s].at = "read" /\ run[s].day = e
    BY <1>6
  <2>2. IF ~run[s].stale THEN run[s].figures = DayFigures(e)
        ELSE e \in behind \/ (~run[s].had /\ daily[e] # None)
    BY <2>1 DEF VisitsFigured, Figured
  <2>3. CASE e # d
    BY <1>2, <1>5, <2>1, <2>2, <2>3
  <2>4. CASE e = d
    <3>1. ~run[s].had
      <4> SUFFICES ASSUME run[s].had PROVE FALSE
        OBVIOUS
      <4>1. daily[d] # None
        BY <2>1, <2>4 DEF VisitsFigured, Rebuilt, V!InProgress
      <4>2. run[r].had
        BY <1>2, <4>1
      <4>3. V!Holds(r, d) /\ V!Holds(s, d)
        BY <1>1, <1>2, <2>1, <2>4, <4>2 DEF V!Holds
      <4> QED BY <2>1, <4>3 DEF VisitsFigured, OneHolder
    <3> QED BY <1>5, <2>1, <2>2, <2>4, <3>1
  <2> QED BY <2>3, <2>4
<1>14. Upheld'
  <2> SUFFICES ASSUME NEW e \in V!Days \ behind', V!Today < e + FigureDays PROVE daily'[e] = DayFigures(e)
    BY <1>9, <1>10 DEF Upheld, V!Days, V!DayOf
  <2>1. CASE e # d
    BY <1>2, <1>5, <2>1 DEF VisitsFigured, Upheld
  <2>2. CASE e = d
    <3>1. IF ~stale THEN f = DayFigures(d) ELSE d \in behind \/ (~run[r].had /\ daily[d] # None)
      BY <1>1, <1>2 DEF VisitsFigured, Figured
    <3>2. ~stale
      BY <1>2, <2>2, <3>1
    <3> QED BY <1>5, <2>2, <3>1, <3>2
  <2> QED BY <2>1, <2>2
<1> QED BY <1>8, <1>11, <1>12, <1>13, <1>14 DEF VisitsFigured

-----------------------------------------------------------------------------

LEMMA VisitsInit == V!Init => VisitsInv
<1> SUFFICES ASSUME V!Init PROVE VisitsInv
  OBVIOUS
<1>1. time = 0 /\ time \in 0..LastTime
  BY VisitsHold DEF V!Init
<1>2. [at |-> "new"] \in CallType /\ [at |-> "new"] \in RunType
  BY DEF CallType, RunType
<1>3. VisitTypes
  BY <1>1, <1>2 DEF V!Init, VisitTypes, V!TypeOK
<1>4. V!Rows = {} /\ V!Views = {}
  BY DEF V!Init, V!Rows, V!Views
<1>5. \A c \in Deliveries : call[c].at = "new"
  BY DEF V!Init
<1>6. \A r \in Runs : run[r].at = "new"
  BY DEF V!Init
<1>7. Delivered /\ Alone /\ Found
  BY <1>5 DEF Delivered, Alone, Found, Flying
<1>8. Grouped /\ Clocked
  BY DEF V!Init, Grouped, Clocked
<1>9. Tally /\ V!VisitsApart
  BY <1>4 DEF Tally, V!VisitsApart
<1>10. Rebuilt /\ OneHolder /\ Figured
  BY <1>6 DEF Rebuilt, OneHolder, Figured, V!InProgress, V!Holds
<1>11. Upheld
  BY DEF V!Init, Upheld
<1> QED BY <1>3, <1>7, <1>8, <1>9, <1>10, <1>11 DEF VisitsInv

LEMMA VisitsStep == VisitsInv /\ [V!Next]_(V!vars) => VisitsInv'
<1> SUFFICES ASSUME VisitsInv, [V!Next]_(V!vars) PROVE VisitsInv'
  OBVIOUS
<1>0. VisitTypes /\ VisitsCounted /\ VisitsFigured
  BY DEF VisitsInv, VisitsCounted, VisitsFigured
<1> SUFFICES VisitTypes' /\ VisitsCounted' /\ VisitsFigured'
  BY DEF VisitsInv, VisitsCounted, VisitsFigured
<1>1. CASE V!Tick
  BY <1>0, <1>1, CountedTick, FiguredTick
<1>2. CASE V!Purge
  BY <1>0, <1>2, CountedPurge, FiguredPurge
<1>3. ASSUME NEW c \in Deliveries, NEW b \in Beacons, V!Arrive(c, b) PROVE VisitTypes' /\ VisitsCounted' /\ VisitsFigured'
  <2>1. UNCHANGED <<time, visit, event, daily, run, behind>>
    BY <1>3 DEF V!Arrive
  <2> QED BY <1>0, <1>3, <2>1, CountedArrive, FiguredCalls
<1>4. ASSUME NEW c \in Deliveries, V!Look(c) PROVE VisitTypes' /\ VisitsCounted' /\ VisitsFigured'
  <2>1. UNCHANGED <<time, visit, event, daily, run, behind>>
    BY <1>4 DEF V!Look
  <2> QED BY <1>0, <1>4, <2>1, CountedLook, FiguredCalls
<1>5. ASSUME NEW c \in Deliveries, V!Commit(c) PROVE VisitTypes' /\ VisitsCounted' /\ VisitsFigured'
  BY <1>0, <1>5, TypesCommit, CountedCommit, FiguredCommit
<1>6. ASSUME NEW r \in Runs, NEW d \in V!Days, V!RollupDelete(r, d) PROVE VisitTypes' /\ VisitsCounted' /\ VisitsFigured'
  <2>1. UNCHANGED <<time, visit, event, call, raced>>
    BY <1>6 DEF V!RollupDelete
  <2> QED BY <1>0, <1>6, <2>1, CountedRollup, FiguredDelete
<1>7. ASSUME NEW r \in Runs, V!RollupResume(r) PROVE VisitTypes' /\ VisitsCounted' /\ VisitsFigured'
  <2>1. UNCHANGED <<time, visit, event, call, raced>>
    BY <1>7 DEF V!RollupResume
  <2> QED BY <1>0, <1>7, <2>1, CountedRollup, FiguredResume
<1>8. ASSUME NEW r \in Runs, V!RollupRead(r) PROVE VisitTypes' /\ VisitsCounted' /\ VisitsFigured'
  <2>1. UNCHANGED <<time, visit, event, call, raced>>
    BY <1>8 DEF V!RollupRead
  <2> QED BY <1>0, <1>8, <2>1, CountedRollup, FiguredRead
<1>9. ASSUME NEW r \in Runs, V!RollupCommit(r) PROVE VisitTypes' /\ VisitsCounted' /\ VisitsFigured'
  <2>1. UNCHANGED <<time, visit, event, call, raced>>
    BY <1>9 DEF V!RollupCommit
  <2> QED BY <1>0, <1>9, <2>1, CountedRollup, FiguredRollup
<1>10. ASSUME NEW r \in Runs, V!RollupFails(r) PROVE VisitTypes' /\ VisitsCounted' /\ VisitsFigured'
  <2>1. UNCHANGED <<time, visit, event, call, raced>>
    BY <1>10 DEF V!RollupFails
  <2> QED BY <1>0, <1>10, <2>1, CountedRollup, FiguredFails
<1>11. CASE UNCHANGED V!vars
  <2>1. UNCHANGED <<time, visit, event, call, daily, run, raced, behind>>
    BY <1>11 DEF V!vars
  <2>2. VisitTypes'
    BY <1>0, <2>1 DEF VisitTypes, V!TypeOK, V!Days, V!DayOf
  <2> QED BY <1>0, <2>1, <2>2, CountedRollup, FiguredCalls
<1> QED BY <1>1, <1>2, <1>3, <1>4, <1>5, <1>6, <1>7, <1>8, <1>9, <1>10, <1>11 DEF V!Next

LEMMA VisitsHoldTrue == VisitsInv => VisitsTrue
<1> SUFFICES ASSUME VisitsInv PROVE VisitsTrue
  OBVIOUS
<1>1. V!CountedOnce
  BY SameCardinality DEF VisitsInv, Tally, Members, V!CountedOnce
<1>2. V!FiguresKept
  <2> SUFFICES ASSUME NEW d \in V!Days \ behind, d > V!Today - FigureDays
               PROVE  daily[d] = V!Figures(d, V!Rows, V!Views)
    BY DEF V!FiguresKept
  <2>1. VisitTypes
    BY DEF VisitsInv
  <2>2. V!Today < d + FigureDays
    BY <2>1, DaysAreNat, TodayIsNat, VisitsHold
  <2> QED BY <2>2, FiguresOfAll DEF VisitsInv, Upheld
<1> QED BY <1>1, <1>2 DEF VisitsTrue, V!VisitsTrue, VisitsInv, VisitTypes

\* The statistics tell what the visitors did (ingestBeacon, rollupDailyVisits,
\* purgeExpiredVisitorData): for any page views, copies of them, visitors, runs and days.
THEOREM VisitsCorrect == V!Spec => []VisitsTrue
BY VisitsInit, VisitsStep, VisitsHoldTrue, PTL DEF V!Spec
=============================================================================
