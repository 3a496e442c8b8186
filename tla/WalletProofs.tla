---------------------------- MODULE WalletProofs ----------------------------
(* Proofs about Wallet.tla, for every set of users, requests and amounts.    *)
EXTENDS Wallet, TLAPS

\* A request past the amount check asks for a positive amount and has counted
\* at least one attempt; a row it is about to write was computed from a balance
\* that is still the wallet's if the version is, and that covers the debit.
InFlight ==
  \A r \in Requests :
    /\ pc[r] \in {"read", "apply", "done"} => call[r].amount > 0
    /\ pc[r] = "apply" =>
         /\ seen[r].version <= wallet[User(r)].version
         /\ seen[r].version = wallet[User(r)].version => seen[r].balance = wallet[User(r)].balance
         /\ seen[r].balance + Delta(r) >= 0

\* Every failed attempt of a request was overtaken by one commit of another.
Overtaken ==
  \A r \in Requests :
    /\ pc[r] \in {"read", "apply"} => since[r] <= wallet[User(r)].version /\ attempt[r] >= 1
    /\ pc[r] = "read" => attempt[r] - 1 <= wallet[User(r)].version - since[r]
    /\ pc[r] = "apply" => attempt[r] - 1 <= seen[r].version - since[r]
    /\ pc[r] = "contention" => MaxRetry <= wallet[User(r)].version - since[r]

\* The balance a reconciliation is about to copy is still the wallet's.
LockHolds ==
  \A u \in Users : reconciler[u].at = "locked" => reconciler[u].balance = wallet[u].balance

LEMMA DeltaInt == ASSUME TypeOK, NEW r \in Requests
                  PROVE  User(r) \in Users /\ call[r].amount \in Int /\ Delta(r) \in Int
<1>1. call[r] \in Calls
  BY DEF TypeOK
<1>2. call[r].user \in Users /\ call[r].amount \in Amounts
  BY <1>1 DEF Calls
<1>3. call[r].amount \in Int
  BY <1>2, WalletAssumption
<1> QED
  BY <1>2, <1>3 DEF User, Delta

\* What the writing step leaves behind, for the proofs that depend on the rows.
LEMMA ApplyEffect ==
  ASSUME TypeOK, NEW r \in Requests, Apply(r)
  PROVE  /\ wallet' = [wallet EXCEPT ![User(r)] = Updated(r)]
         /\ Updated(r) \in WalletRow
         /\ Row(r, Delta(r), seen[r].balance) \in LedgerRow
         /\ seen[r].balance \in Int /\ seen[r].version \in Nat
<1>1. User(r) \in Users /\ call[r].amount \in Int /\ Delta(r) \in Int
  BY DeltaInt
<1>2. seen[r].balance \in Int /\ seen[r].version \in Nat /\ wallet[User(r)] \in WalletRow
  BY <1>1 DEF TypeOK
<1>3. Updated(r) \in WalletRow
  BY <1>1, <1>2 DEF Updated, WalletRow
<1>4. Row(r, Delta(r), seen[r].balance) \in LedgerRow
  BY <1>1, <1>2 DEF Row, LedgerRow
<1> QED
  BY <1>2, <1>3, <1>4 DEF Apply

LEMMA TypeInit == Init => TypeOK
<1> SUFFICES ASSUME Init PROVE TypeOK
  OBVIOUS
<1>1. Row(Welcome, WelcomeCredits, 0) \in LedgerRow
  BY WalletAssumption DEF Row, LedgerRow
<1>2. ledger \in [Users -> Seq(LedgerRow)]
  BY <1>1 DEF Init
<1>3. wallet \in [Users -> WalletRow]
  BY WalletAssumption DEF Init, WalletRow
<1> QED
  BY <1>2, <1>3, WalletAssumption DEF Init, TypeOK, Ended, Declined

LEMMA TypeStep == TypeOK /\ [Next]_vars => TypeOK'
<1> SUFFICES ASSUME TypeOK, [Next]_vars PROVE TypeOK'
  OBVIOUS
<1> USE WalletAssumption DEF TypeOK, Ended, Declined
<1>1. ASSUME NEW r \in Requests, Refuse(r) PROVE TypeOK'
  BY <1>1 DEF Refuse, rows
<1>2. ASSUME NEW r \in Requests, Submit(r) PROVE TypeOK'
  <2>1. wallet[User(r)].version \in Nat
    BY DeltaInt DEF WalletRow
  <2> QED BY <1>2, <2>1 DEF Submit, rows
<1>3. ASSUME NEW r \in Requests, Insufficient(r) PROVE TypeOK'
  BY <1>3 DEF Insufficient, rows
<1>4. ASSUME NEW r \in Requests, Read(r) PROVE TypeOK'
  <2>1. wallet[User(r)].version \in Nat /\ wallet[User(r)].balance \in Int
    BY DeltaInt DEF WalletRow
  <2> QED BY <1>4, <2>1 DEF Read, rows
<1>5. ASSUME NEW r \in Requests, Apply(r) PROVE TypeOK'
  <2>1. User(r) \in Users /\ Delta(r) \in Int
    BY DeltaInt
  <2>2. wallet' \in [Users -> WalletRow]
    BY <1>5, ApplyEffect, <2>1
  <2>3. ledger' \in [Users -> Seq(LedgerRow)]
    <3>1. Append(ledger[User(r)], Row(r, Delta(r), seen[r].balance)) \in Seq(LedgerRow)
      BY <1>5, ApplyEffect, <2>1
    <3> QED BY <1>5, <3>1, <2>1 DEF Apply, Posted
  <2>4. mirror' \in [Users -> Int]
    BY <1>5, ApplyEffect, <2>1 DEF Apply
  <2> QED BY <1>5, <2>2, <2>3, <2>4 DEF Apply
<1>6. ASSUME NEW r \in Requests, OutOfRange(r) PROVE TypeOK'
  BY <1>6 DEF OutOfRange, rows
<1>7. ASSUME NEW r \in Requests, Conflict(r) PROVE TypeOK'
  BY <1>7 DEF Conflict, LastAttempt, rows
<1>8. ASSUME NEW r \in Requests, GiveUp(r) PROVE TypeOK'
  BY <1>8 DEF GiveUp, rows
<1>9. ASSUME NEW u \in Users, ReconcileLock(u) PROVE TypeOK'
  BY <1>9 DEF ReconcileLock, requests, rows, WalletRow
<1>10. ASSUME NEW u \in Users, ReconcileWrite(u) PROVE TypeOK'
  BY <1>10 DEF ReconcileWrite, requests
<1>11. CASE UNCHANGED vars
  BY <1>11 DEF vars
<1> QED
  BY <1>1, <1>2, <1>3, <1>4, <1>5, <1>6, <1>7, <1>8, <1>9, <1>10, <1>11 DEF Next, Step

\* The rows and counters of the model keep their types, whatever the number of
\* users and requests; in particular no request counts past MAX_RETRY attempts.
THEOREM TypeCorrect == Spec => []TypeOK
<1>1. Init => TypeOK BY TypeInit
<1>2. TypeOK /\ [Next]_vars => TypeOK' BY TypeStep
<1> QED BY <1>1, <1>2, PTL DEF Spec

-----------------------------------------------------------------------------
(* The inductive invariant                                                   *)

IInv ==
  /\ TypeOK
  /\ InFlight
  /\ Overtaken
  /\ LockHolds
  /\ LedgerIsStatement
  /\ PostedOnce
  /\ NeverOverdrawn
  /\ LifetimeTotals

LEMMA AppendFacts ==
  ASSUME NEW S, NEW l \in Seq(S), NEW e \in S
  PROVE  /\ Append(l, e) \in Seq(S)
         /\ Len(l) \in Nat /\ Len(Append(l, e)) = Len(l) + 1
         /\ \A i \in 1 .. Len(l) : Append(l, e)[i] = l[i]
         /\ Append(l, e)[Len(l) + 1] = e
OBVIOUS

LEMMA IInit == Init => IInv
<1> SUFFICES ASSUME Init PROVE IInv
  OBVIOUS
<1>1. TypeOK
  BY TypeInit
<1>2. InFlight /\ Overtaken /\ LockHolds
  BY DEF Init, InFlight, Overtaken, LockHolds
<1>3. \A u \in Users : /\ Len(ledger[u]) = 1
                       /\ ledger[u][1] = [origin |-> Welcome, amount |-> WelcomeCredits,
                                          before |-> 0, after |-> 0 + WelcomeCredits]
  BY DEF Init, Row
<1>4. WelcomeCredits \in Nat /\ Welcome \notin Requests
  BY WalletAssumption
<1>5. \A u \in Users : /\ wallet[u].balance = WelcomeCredits
                       /\ wallet[u].earned = WelcomeCredits /\ wallet[u].spent = 0
  BY DEF Init
<1>6. ASSUME NEW u \in Users
      PROVE  /\ ledger[u][1].origin = Welcome /\ ledger[u][1].amount = WelcomeCredits
             /\ ledger[u][1].before = 0 /\ ledger[u][1].after = WelcomeCredits
             /\ Len(ledger[u]) = 1 /\ \A i \in 1 .. Len(ledger[u]) : i = 1
  <2>1. Len(ledger[u]) = 1 /\ \A i \in 1 .. 1 : i = 1
    BY <1>3
  <2>2. 0 + WelcomeCredits = WelcomeCredits
    BY <1>4
  <2> QED BY <1>3, <2>1, <2>2
<1>7. LedgerIsStatement
  <2> SUFFICES ASSUME NEW u \in Users
               PROVE  /\ Len(ledger[u]) > 0
                      /\ ledger[u][1].before = 0
                      /\ \A i \in 1 .. Len(ledger[u]) :
                           ledger[u][i].after = ledger[u][i].before + ledger[u][i].amount
                      /\ \A i \in 1 .. Len(ledger[u]) - 1 : ledger[u][i + 1].before = ledger[u][i].after
                      /\ ledger[u][Len(ledger[u])].after = wallet[u].balance
    BY DEF LedgerIsStatement
  <2>1. 1 .. 1 - 1 = {}
    OBVIOUS
  <2> QED BY <1>4, <1>5, <1>6, <2>1
<1>8. PostedOnce
  <2> SUFFICES ASSUME NEW r \in Requests, NEW u \in Users
               PROVE  {i \in 1 .. Len(ledger[u]) : ledger[u][i].origin = r} = {} /\ pc[r] # "done"
    BY DEF PostedOnce
  <2> QED BY <1>4, <1>6 DEF Init
<1>9. NeverOverdrawn
  <2> SUFFICES ASSUME NEW u \in Users
               PROVE  /\ wallet[u].balance >= 0
                      /\ \A i \in 1 .. Len(ledger[u]) : ledger[u][i].after >= 0
    BY DEF NeverOverdrawn
  <2> QED BY <1>4, <1>5, <1>6
<1>10. LifetimeTotals
  <2> SUFFICES ASSUME NEW u \in Users PROVE wallet[u].balance = wallet[u].earned - wallet[u].spent
    BY DEF LifetimeTotals
  <2> QED BY <1>4, <1>5
<1> QED
  BY <1>1, <1>2, <1>7, <1>8, <1>9, <1>10 DEF IInv

-----------------------------------------------------------------------------
(* The steps that write no row of the wallet or the ledger                   *)

LEMMA QuietStep ==
  ASSUME IInv, wallet' = wallet, ledger' = ledger, call' = call, TypeOK',
         \A r \in Requests : pc'[r] = "done" <=> pc[r] = "done"
  PROVE  LedgerIsStatement' /\ PostedOnce' /\ NeverOverdrawn' /\ LifetimeTotals'
<1>1. LedgerIsStatement' /\ NeverOverdrawn' /\ LifetimeTotals'
  BY DEF IInv, LedgerIsStatement, NeverOverdrawn, LifetimeTotals
<1>2. PostedOnce'
  BY DEF IInv, PostedOnce, User, Delta
<1> QED BY <1>1, <1>2

LEMMA InFlightStep == IInv /\ [Next]_vars /\ TypeOK' => InFlight'
<1> SUFFICES ASSUME IInv, [Next]_vars, TypeOK' PROVE InFlight'
  OBVIOUS
<1> USE DEF IInv, InFlight
<1>1. ASSUME NEW r \in Requests, Refuse(r) PROVE InFlight'
  BY <1>1 DEF Refuse, rows, User, Delta, TypeOK
<1>2. ASSUME NEW r \in Requests, Submit(r) PROVE InFlight'
  BY <1>2 DEF Submit, rows, User, Delta, TypeOK
<1>3. ASSUME NEW r \in Requests, Insufficient(r) PROVE InFlight'
  BY <1>3 DEF Insufficient, rows, User, Delta, TypeOK
<1>4. ASSUME NEW r \in Requests, Read(r) PROVE InFlight'
  <2> SUFFICES ASSUME NEW s \in Requests
               PROVE  /\ pc'[s] \in {"read", "apply", "done"} => call'[s].amount > 0
                      /\ pc'[s] = "apply" =>
                           /\ seen'[s].version <= wallet'[User(s)'].version
                           /\ seen'[s].version = wallet'[User(s)'].version
                                => seen'[s].balance = wallet'[User(s)'].balance
                           /\ seen'[s].balance + Delta(s)' >= 0
    OBVIOUS
  <2>1. User(s)' = User(s) /\ Delta(s)' = Delta(s)
    BY <1>4 DEF Read, User, Delta
  <2>2. CASE s # r
    BY <1>4, <2>1, <2>2 DEF Read, rows, TypeOK
  <2>3. CASE s = r
    <3>1. User(r) \in Users /\ call[r].amount \in Int
      BY DeltaInt
    <3>2. wallet[User(r)].version \in Nat /\ wallet[User(r)].balance \in Int
      BY <3>1 DEF TypeOK, WalletRow
    <3>3. wallet[User(r)].balance + Delta(r) >= 0
      <4>1. call[r].amount > 0 /\ wallet[User(r)].balance >= 0
        BY <1>4, <3>1 DEF Read, NeverOverdrawn
      <4>2. CASE call[r].direction = "credit"
        BY <3>1, <3>2, <4>1, <4>2 DEF Delta
      <4>3. CASE call[r].direction = "debit"
        BY <1>4, <3>1, <3>2, <4>3 DEF Delta, Read, Short
      <4>4. call[r].direction \in {"credit", "debit"}
        BY DEF TypeOK, Calls
      <4> QED BY <4>2, <4>3, <4>4
    <3>4. /\ seen'[r].version = wallet[User(r)].version
          /\ seen'[r].balance = wallet[User(r)].balance
          /\ wallet' = wallet /\ call' = call /\ pc[r] = "read"
      BY <1>4 DEF Read, rows, TypeOK
    <3> QED BY <2>1, <2>3, <3>2, <3>3, <3>4
  <2> QED BY <2>2, <2>3
<1>5. ASSUME NEW r \in Requests, Apply(r) PROVE InFlight'
  <2> SUFFICES ASSUME NEW s \in Requests
               PROVE  /\ pc'[s] \in {"read", "apply", "done"} => call'[s].amount > 0
                      /\ pc'[s] = "apply" =>
                           /\ seen'[s].version <= wallet'[User(s)'].version
                           /\ seen'[s].version = wallet'[User(s)'].version
                                => seen'[s].balance = wallet'[User(s)'].balance
                           /\ seen'[s].balance + Delta(s)' >= 0
    OBVIOUS
  <2>1. User(s)' = User(s) /\ Delta(s)' = Delta(s) /\ seen' = seen /\ call' = call
    BY <1>5 DEF Apply, User, Delta
  <2>2. User(s) \in Users /\ User(r) \in Users
    BY DeltaInt
  <2>3. wallet[User(s)].version \in Nat /\ wallet[User(r)].version \in Nat /\ seen[s].version \in Nat
    BY <2>2 DEF TypeOK, WalletRow
  <2>4. wallet'[User(s)] = IF User(s) = User(r) THEN Updated(r) ELSE wallet[User(s)]
    BY <1>5, <2>2, ApplyEffect DEF TypeOK
  <2>5. Updated(r).version = wallet[User(r)].version + 1
    BY DEF Updated
  <2>6. CASE s = r
    <3>1. pc'[s] = "done" /\ pc[s] = "apply"
      BY <1>5, <2>6 DEF Apply, TypeOK
    <3> QED BY <2>1, <3>1
  <2>7. CASE s # r
    <3>1. pc'[s] = pc[s]
      BY <1>5, <2>7 DEF Apply, TypeOK
    <3> QED BY <2>1, <2>3, <2>4, <2>5, <3>1
  <2> QED BY <2>6, <2>7
<1>6. ASSUME NEW r \in Requests, OutOfRange(r) PROVE InFlight'
  BY <1>6 DEF OutOfRange, rows, User, Delta, TypeOK
<1>7. ASSUME NEW r \in Requests, Conflict(r) PROVE InFlight'
  BY <1>7 DEF Conflict, rows, User, Delta, TypeOK
<1>8. ASSUME NEW r \in Requests, GiveUp(r) PROVE InFlight'
  BY <1>8 DEF GiveUp, rows, User, Delta, TypeOK
<1>9. ASSUME NEW u \in Users, ReconcileLock(u) \/ ReconcileWrite(u) PROVE InFlight'
  BY <1>9 DEF ReconcileLock, ReconcileWrite, requests, rows, User, Delta
<1>10. CASE UNCHANGED vars
  BY <1>10 DEF vars, User, Delta
<1> QED
  BY <1>1, <1>2, <1>3, <1>4, <1>5, <1>6, <1>7, <1>8, <1>9, <1>10 DEF Next, Step

LEMMA OvertakenStep == IInv /\ [Next]_vars /\ TypeOK' => Overtaken'
<1> SUFFICES ASSUME IInv, [Next]_vars, TypeOK' PROVE Overtaken'
  OBVIOUS
<1>0. ASSUME NEW r \in Requests
      PROVE  /\ User(r) \in Users /\ wallet[User(r)].version \in Nat
             /\ attempt[r] \in Nat /\ since[r] \in Nat /\ seen[r].version \in Nat
  <2>1. User(r) \in Users
    BY DeltaInt DEF IInv
  <2>2. wallet[User(r)].version \in Nat
    BY <2>1 DEF IInv, TypeOK, WalletRow
  <2>3. attempt[r] \in 0 .. MaxRetry /\ since[r] \in Nat /\ seen[r].version \in Nat
    BY DEF IInv, TypeOK
  <2> QED BY <2>1, <2>2, <2>3, WalletAssumption
<1> USE WalletAssumption DEF IInv, Overtaken
<1>1. ASSUME NEW r \in Requests, Refuse(r) PROVE Overtaken'
  BY <1>1 DEF Refuse, rows, User, TypeOK
<1>2. ASSUME NEW r \in Requests, Submit(r) PROVE Overtaken'
  BY <1>0, <1>2 DEF Submit, rows, User, TypeOK
<1>3. ASSUME NEW r \in Requests, Insufficient(r) PROVE Overtaken'
  BY <1>3 DEF Insufficient, rows, User, TypeOK
<1>4. ASSUME NEW r \in Requests, Read(r) PROVE Overtaken'
  BY <1>0, <1>4 DEF Read, rows, User, TypeOK
<1>5. ASSUME NEW r \in Requests, Apply(r) PROVE Overtaken'
  <2>1. \A s \in Requests : User(s)' = User(s) /\ wallet[User(s)].version <= wallet'[User(s)].version
                              /\ wallet'[User(s)].version \in Nat
    <3> SUFFICES ASSUME NEW s \in Requests
                 PROVE  /\ User(s)' = User(s) /\ wallet'[User(s)].version \in Nat
                        /\ wallet[User(s)].version <= wallet'[User(s)].version
      OBVIOUS
    <3>1. wallet'[User(s)] = IF User(s) = User(r) THEN Updated(r) ELSE wallet[User(s)]
      <4>1. wallet' = [wallet EXCEPT ![User(r)] = Updated(r)] /\ DOMAIN wallet = Users
        BY <1>5 DEF Apply, TypeOK
      <4>2. User(s) \in Users
        BY <1>0
      <4> HIDE DEF IInv, Overtaken
      <4> QED BY <4>1, <4>2
    <3>2. Updated(r).version = wallet[User(r)].version + 1
      BY DEF Updated
    <3> QED BY <1>0, <1>5, <3>1, <3>2 DEF Apply, User
  <2>2. \A s \in Requests : /\ attempt'[s] = attempt[s] /\ since'[s] = since[s] /\ seen'[s] = seen[s]
                            /\ pc'[s] = pc[s] \/ pc'[s] = "done"
    BY <1>5 DEF Apply, TypeOK
  <2> SUFFICES ASSUME NEW s \in Requests
               PROVE  /\ pc'[s] \in {"read", "apply"} =>
                           since'[s] <= wallet'[User(s)'].version /\ attempt'[s] >= 1
                      /\ pc'[s] = "read" => attempt'[s] - 1 <= wallet'[User(s)'].version - since'[s]
                      /\ pc'[s] = "apply" => attempt'[s] - 1 <= seen'[s].version - since'[s]
                      /\ pc'[s] = "contention" => MaxRetry <= wallet'[User(s)'].version - since'[s]
    OBVIOUS
  <2>3. CASE pc'[s] = "done"
    BY <2>3
  <2>4. CASE pc'[s] = pc[s]
    <3> HIDE DEF IInv
    <3> QED BY <1>0, <2>1, <2>2, <2>4 DEF IInv
  <2> QED BY <2>2, <2>3, <2>4
<1>6. ASSUME NEW r \in Requests, OutOfRange(r) PROVE Overtaken'
  BY <1>6 DEF OutOfRange, rows, User, TypeOK
<1>7. ASSUME NEW r \in Requests, Conflict(r) PROVE Overtaken'
  <2>1. seen[r].version < wallet[User(r)].version
    BY <1>0, <1>7 DEF Conflict, SameVersion, InFlight
  <2> QED BY <1>0, <1>7, <2>1 DEF Conflict, rows, User, TypeOK
<1>8. ASSUME NEW r \in Requests, GiveUp(r) PROVE Overtaken'
  <2>1. seen[r].version < wallet[User(r)].version
    BY <1>0, <1>8 DEF GiveUp, SameVersion, InFlight
  <2> QED BY <1>0, <1>8, <2>1 DEF GiveUp, LastAttempt, rows, User, TypeOK
<1>9. ASSUME NEW u \in Users, ReconcileLock(u) \/ ReconcileWrite(u) PROVE Overtaken'
  BY <1>9 DEF ReconcileLock, ReconcileWrite, requests, rows, User
<1>10. CASE UNCHANGED vars
  BY <1>10 DEF vars, User
<1> QED
  BY <1>1, <1>2, <1>3, <1>4, <1>5, <1>6, <1>7, <1>8, <1>9, <1>10 DEF Next, Step

LEMMA LockStep == IInv /\ [Next]_vars => LockHolds'
<1> SUFFICES ASSUME IInv, [Next]_vars PROVE LockHolds'
  OBVIOUS
<1> USE DEF IInv, LockHolds
<1>1. ASSUME NEW r \in Requests, Apply(r) PROVE LockHolds'
  <2> SUFFICES ASSUME NEW u \in Users, reconciler'[u].at = "locked"
               PROVE  reconciler'[u].balance = wallet'[u].balance
    OBVIOUS
  <2>1. reconciler' = reconciler /\ u # User(r)
    BY <1>1 DEF Apply, WriterMayProceed
  <2>2. wallet'[u] = wallet[u]
    BY <1>1, <2>1 DEF Apply, TypeOK
  <2> QED BY <2>1, <2>2
<1>2. ASSUME NEW r \in Requests, Step(r), ~Apply(r) PROVE LockHolds'
  <2>1. wallet' = wallet /\ reconciler' = reconciler
    BY <1>2 DEF Step, Refuse, Submit, Insufficient, Read, OutOfRange, Conflict, GiveUp, rows
  <2> QED BY <2>1
<1>3. ASSUME NEW u \in Users, ReconcileLock(u) \/ ReconcileWrite(u) PROVE LockHolds'
  <2>1. CASE ReconcileLock(u)
    BY <2>1 DEF ReconcileLock, rows, TypeOK
  <2>2. CASE ReconcileWrite(u)
    BY <2>2 DEF ReconcileWrite, TypeOK
  <2> QED BY <1>3, <2>1, <2>2
<1>4. CASE UNCHANGED vars
  BY <1>4 DEF vars
<1> QED BY <1>1, <1>2, <1>3, <1>4 DEF Next

-----------------------------------------------------------------------------
(* The writing step                                                          *)

\* The written ledger: the user's list is one row longer, the others unchanged.
LEMMA Statement ==
  ASSUME IInv, NEW r \in Requests, Apply(r)
  PROVE  /\ User(r) \in Users
         /\ \A u \in Users : u # User(r) => ledger'[u] = ledger[u] /\ wallet'[u] = wallet[u]
         /\ wallet'[User(r)] = Updated(r)
         /\ Len(ledger[User(r)]) \in Nat /\ Len(ledger'[User(r)]) = Len(ledger[User(r)]) + 1
         /\ \A i \in 1 .. Len(ledger[User(r)]) : ledger'[User(r)][i] = ledger[User(r)][i]
         /\ ledger'[User(r)][Len(ledger[User(r)]) + 1] = Row(r, Delta(r), seen[r].balance)
         /\ seen[r].balance = wallet[User(r)].balance
         /\ seen[r].balance \in Int /\ Delta(r) \in Int /\ seen[r].balance + Delta(r) >= 0
<1>1. User(r) \in Users /\ Delta(r) \in Int
  BY DeltaInt DEF IInv
<1>2. Row(r, Delta(r), seen[r].balance) \in LedgerRow /\ ledger[User(r)] \in Seq(LedgerRow)
  BY <1>1, ApplyEffect DEF IInv, TypeOK
<1>3. ledger' = [ledger EXCEPT ![User(r)] = Append(@, Row(r, Delta(r), seen[r].balance))]
  BY DEF Apply, Posted
<1>4. ledger'[User(r)] = Append(ledger[User(r)], Row(r, Delta(r), seen[r].balance))
  BY <1>1, <1>3 DEF IInv, TypeOK
<1>5. \A u \in Users : u # User(r) => ledger'[u] = ledger[u]
  BY <1>3 DEF IInv, TypeOK
<1>6. wallet'[User(r)] = Updated(r) /\ \A u \in Users : u # User(r) => wallet'[u] = wallet[u]
  BY <1>1 DEF Apply, IInv, TypeOK
<1>7. seen[r].balance = wallet[User(r)].balance /\ seen[r].balance + Delta(r) >= 0
  BY DEF Apply, SameVersion, IInv, InFlight
<1>8. seen[r].balance \in Int
  BY DEF IInv, TypeOK
<1> QED
  BY <1>1, <1>2, <1>4, <1>5, <1>6, <1>7, <1>8, AppendFacts

LEMMA ApplyLedger == ASSUME IInv, NEW r \in Requests, Apply(r) PROVE LedgerIsStatement'
<1> SUFFICES ASSUME NEW u \in Users
             PROVE  /\ Len(ledger'[u]) > 0
                    /\ ledger'[u][1].before = 0
                    /\ \A i \in 1 .. Len(ledger'[u]) :
                         ledger'[u][i].after = ledger'[u][i].before + ledger'[u][i].amount
                    /\ \A i \in 1 .. Len(ledger'[u]) - 1 :
                         ledger'[u][i + 1].before = ledger'[u][i].after
                    /\ ledger'[u][Len(ledger'[u])].after = wallet'[u].balance
  BY DEF LedgerIsStatement
<1>1. CASE u # User(r)
  <2>1. ledger'[u] = ledger[u] /\ wallet'[u] = wallet[u]
    BY <1>1, Statement
  <2> QED BY <2>1 DEF IInv, LedgerIsStatement
<1>2. CASE u = User(r)
  <2> DEFINE l == ledger[u]
             m == ledger'[u]
             n == Len(ledger[u])
  <2>1. /\ n \in Nat /\ Len(m) = n + 1
        /\ \A i \in 1 .. n : m[i] = l[i]
        /\ m[n + 1] = Row(r, Delta(r), seen[r].balance)
        /\ wallet'[u] = Updated(r) /\ seen[r].balance = wallet[u].balance
    BY <1>2, Statement
  <2>2. /\ n > 0 /\ l[1].before = 0
        /\ \A i \in 1 .. n : l[i].after = l[i].before + l[i].amount
        /\ \A i \in 1 .. n - 1 : l[i + 1].before = l[i].after
        /\ l[n].after = wallet[u].balance
    BY DEF IInv, LedgerIsStatement
  <2>3. m[n + 1].before = wallet[u].balance
        /\ m[n + 1].after = m[n + 1].before + m[n + 1].amount
        /\ m[n + 1].after = wallet'[u].balance
    BY <1>2, <2>1 DEF Row, Updated
  <2> HIDE DEF l, m, n
  <2>4. Len(m) > 0 /\ m[1].before = 0
    BY <2>1, <2>2
  <2>5. ASSUME NEW i \in 1 .. Len(m) PROVE m[i].after = m[i].before + m[i].amount
    <3>1. i \in 1 .. n \/ i = n + 1
      BY <2>1
    <3> QED BY <2>1, <2>2, <2>3, <3>1
  <2>6. ASSUME NEW i \in 1 .. Len(m) - 1 PROVE m[i + 1].before = m[i].after
    <3>1. i \in 1 .. n - 1 \/ i = n
      BY <2>1, <2>2
    <3>2. CASE i \in 1 .. n - 1
      <4>1. i \in 1 .. n /\ i + 1 \in 1 .. n
        BY <2>1, <3>2
      <4> QED BY <2>1, <2>2, <3>2, <4>1
    <3>3. CASE i = n
      <4>1. i \in 1 .. n
        BY <2>1, <2>2, <3>3
      <4> QED BY <2>1, <2>2, <2>3, <3>3, <4>1
    <3> QED BY <3>1, <3>2, <3>3
  <2>7. m[Len(m)].after = wallet'[u].balance
    BY <2>1, <2>3
  <2> QED BY <2>4, <2>5, <2>6, <2>7 DEF m
<1> QED BY <1>1, <1>2

LEMMA ApplyPosted == ASSUME IInv, TypeOK', NEW r \in Requests, Apply(r) PROVE PostedOnce'
<1> DEFINE Mine(s, u) == {i \in 1 .. Len(ledger[u]) : ledger[u][i].origin = s}
           MineNow(s, u) == {i \in 1 .. Len(ledger'[u]) : ledger'[u][i].origin = s}
<1> SUFFICES ASSUME NEW s \in Requests, NEW u \in Users
             PROVE  /\ MineNow(s, u) # {} => pc'[s] = "done" /\ User(s) = u
                    /\ \A i, j \in MineNow(s, u) : i = j
                    /\ \A i \in MineNow(s, u) : ledger'[u][i].amount = Delta(s)
                    /\ pc'[s] = "done" /\ User(s) = u => MineNow(s, u) # {}
  <2>1. \A s \in Requests : User(s)' = User(s) /\ Delta(s)' = Delta(s)
    BY DEF Apply, User, Delta
  <2> QED BY <2>1 DEF PostedOnce
<1>1. /\ Mine(s, u) # {} => pc[s] = "done" /\ User(s) = u
      /\ \A i, j \in Mine(s, u) : i = j
      /\ \A i \in Mine(s, u) : ledger[u][i].amount = Delta(s)
      /\ pc[s] = "done" /\ User(s) = u => Mine(s, u) # {}
  BY DEF IInv, PostedOnce
<1>2. pc[r] = "apply" /\ pc' = [pc EXCEPT ![r] = "done"] /\ pc \in [Requests -> {"new", "read", "apply"} \cup Ended]
  BY DEF Apply, IInv, TypeOK
<1>3. CASE u # User(r)
  <2>1. MineNow(s, u) = Mine(s, u) /\ ledger'[u] = ledger[u]
    BY <1>3, Statement
  <2>2. s = r => Mine(s, u) = {} /\ User(s) # u
    BY <1>1, <1>2, <1>3
  <2>3. s # r => pc'[s] = pc[s]
    BY <1>2
  <2> HIDE DEF Mine, MineNow
  <2>4. CASE s = r
    BY <2>1, <2>2, <2>4
  <2>5. CASE s # r
    BY <1>1, <2>1, <2>3, <2>5
  <2> QED BY <2>4, <2>5
<1>4. CASE u = User(r)
  <2> DEFINE n == Len(ledger[u])
  <2>1. /\ n \in Nat /\ Len(ledger'[u]) = n + 1
        /\ \A i \in 1 .. n : ledger'[u][i] = ledger[u][i]
        /\ ledger'[u][n + 1] = Row(r, Delta(r), seen[r].balance)
    BY <1>4, Statement
  <2>2. ledger'[u][n + 1].origin = r /\ ledger'[u][n + 1].amount = Delta(r)
    BY <2>1 DEF Row
  <2>3. \A i : i \in 1 .. Len(ledger'[u]) <=> i \in 1 .. n \/ i = n + 1
    BY <2>1
  <2>4. \A i \in 1 .. n : i # n + 1
    BY <2>1
  <2> HIDE DEF n
  <2>5. CASE s = r
    <3>1. \A i \in 1 .. n : ledger[u][i].origin # r
      BY <1>1, <1>2, <2>5 DEF n
    <3>2. \A i : i \in MineNow(s, u) <=> i = n + 1
      BY <2>1, <2>2, <2>3, <2>5, <3>1
    <3>3. pc'[s] = "done"
      BY <1>2, <2>5
    <3> HIDE DEF MineNow
    <3> QED BY <1>4, <2>2, <2>5, <3>2, <3>3
  <2>6. CASE s # r
    <3>1. \A i : i \in MineNow(s, u) <=> i \in Mine(s, u)
      BY <2>1, <2>2, <2>3, <2>6 DEF n
    <3>2. \A i \in Mine(s, u) : ledger'[u][i] = ledger[u][i]
      BY <2>1 DEF n
    <3>3. pc'[s] = pc[s]
      BY <1>2, <2>6
    <3> HIDE DEF Mine, MineNow
    <3> QED BY <1>1, <3>1, <3>2, <3>3
  <2> QED BY <2>5, <2>6
<1> QED BY <1>3, <1>4

LEMMA RowFields ==
  ASSUME NEW r \in Requests
  PROVE  /\ Updated(r).balance = seen[r].balance + Delta(r)
         /\ Row(r, Delta(r), seen[r].balance).after = seen[r].balance + Delta(r)
BY DEF Updated, Row

LEMMA ApplyOverdrawn == ASSUME IInv, NEW r \in Requests, Apply(r) PROVE NeverOverdrawn'
<1> SUFFICES ASSUME NEW u \in Users
             PROVE  /\ wallet'[u].balance >= 0
                    /\ \A i \in 1 .. Len(ledger'[u]) : ledger'[u][i].after >= 0
  BY DEF NeverOverdrawn
<1>1. CASE u # User(r)
  BY <1>1, Statement DEF IInv, NeverOverdrawn
<1>2. CASE u = User(r)
  <2>1. wallet'[u].balance = seen[r].balance + Delta(r) /\ seen[r].balance + Delta(r) >= 0
    BY <1>2, Statement, RowFields
  <2>2. ledger'[u][Len(ledger[u]) + 1].after = seen[r].balance + Delta(r)
    BY <1>2, Statement, RowFields
  <2>3. \A i \in 1 .. Len(ledger[u]) : ledger'[u][i].after >= 0
    BY <1>2, Statement DEF IInv, NeverOverdrawn
  <2>4. Len(ledger[u]) \in Nat /\ Len(ledger'[u]) = Len(ledger[u]) + 1
    BY <1>2, Statement
  <2>5. \A i \in 1 .. Len(ledger'[u]) : i \in 1 .. Len(ledger[u]) \/ i = Len(ledger[u]) + 1
    BY <2>4
  <2> QED BY <2>1, <2>2, <2>3, <2>5
<1> QED BY <1>1, <1>2

LEMMA ApplyLifetime == ASSUME IInv, NEW r \in Requests, Apply(r) PROVE LifetimeTotals'
<1> SUFFICES ASSUME NEW u \in Users PROVE wallet'[u].balance = wallet'[u].earned - wallet'[u].spent
  BY DEF LifetimeTotals
<1>1. CASE u # User(r)
  BY <1>1, Statement DEF IInv, LifetimeTotals
<1>2. CASE u = User(r)
  <2>1. wallet[u] \in WalletRow /\ wallet[u].balance = wallet[u].earned - wallet[u].spent
    BY DEF IInv, TypeOK, LifetimeTotals
  <2>2. wallet'[u] = Updated(r) /\ seen[r].balance = wallet[u].balance
    BY <1>2, Statement
  <2>3. call[r].amount \in Int
    BY DeltaInt DEF IInv
  <2>4. wallet[u].earned \in Int /\ wallet[u].spent \in Int /\ wallet[u].balance \in Int
    BY <2>1 DEF WalletRow
  <2>5. CASE call[r].direction = "credit"
    BY <1>2, <2>1, <2>2, <2>3, <2>4, <2>5 DEF Updated, Delta
  <2>6. CASE call[r].direction # "credit"
    BY <1>2, <2>1, <2>2, <2>3, <2>4, <2>6 DEF Updated, Delta
  <2> QED BY <2>5, <2>6
<1> QED BY <1>1, <1>2

LEMMA IStep == IInv /\ [Next]_vars => IInv'
<1> SUFFICES ASSUME IInv, [Next]_vars PROVE IInv'
  OBVIOUS
<1>1. TypeOK'
  BY TypeStep DEF IInv
<1>2. InFlight' /\ Overtaken' /\ LockHolds'
  BY <1>1, InFlightStep, OvertakenStep, LockStep
<1>3. ASSUME NEW r \in Requests, Apply(r) PROVE IInv'
  BY <1>1, <1>2, <1>3, ApplyLedger, ApplyPosted, ApplyOverdrawn, ApplyLifetime DEF IInv
<1>4. ASSUME NEW r \in Requests, Step(r), ~Apply(r) PROVE IInv'
  <2>1. wallet' = wallet /\ ledger' = ledger /\ call' = call
    BY <1>4 DEF Step, Refuse, Submit, Insufficient, Read, OutOfRange, Conflict, GiveUp, rows
  <2>2. pc[r] \in {"new", "read", "apply"} /\ pc'[r] # "done" /\ \A s \in Requests : s # r => pc'[s] = pc[s]
    BY <1>4 DEF Step, Refuse, Submit, Insufficient, Read, OutOfRange, Conflict, GiveUp, IInv, TypeOK
  <2>3. \A s \in Requests : pc'[s] = "done" <=> pc[s] = "done"
    BY <2>2
  <2> QED BY <1>1, <1>2, <2>1, <2>3, QuietStep DEF IInv
<1>5. ASSUME NEW u \in Users, ReconcileLock(u) \/ ReconcileWrite(u) PROVE IInv'
  <2>1. wallet' = wallet /\ ledger' = ledger /\ call' = call /\ pc' = pc
    BY <1>5 DEF ReconcileLock, ReconcileWrite, requests, rows
  <2> QED BY <1>1, <1>2, <2>1, QuietStep DEF IInv
<1>6. CASE UNCHANGED vars
  <2>1. wallet' = wallet /\ ledger' = ledger /\ call' = call /\ pc' = pc
    BY <1>6 DEF vars
  <2> QED BY <1>1, <1>2, <2>1, QuietStep DEF IInv
<1> QED
  BY <1>3, <1>4, <1>5, <1>6 DEF Next

\* The inductive invariant holds; the theorems below read their part off it.
THEOREM Invariant == Spec => []IInv
<1>1. Init => IInv BY IInit
<1>2. IInv /\ [Next]_vars => IInv' BY IStep
<1> QED BY <1>1, <1>2, PTL DEF Spec

\* No update is lost: each wallet's ledger accounts row by row for its balance.
THEOREM LedgerCorrect == Spec => []LedgerIsStatement
<1>1. IInv => LedgerIsStatement BY DEF IInv
<1> QED BY <1>1, Invariant, PTL

\* A call that succeeded moved credits exactly once, one that failed never did.
THEOREM PostedOnceCorrect == Spec => []PostedOnce
<1>1. IInv => PostedOnce BY DEF IInv
<1> QED BY <1>1, Invariant, PTL

\* Concurrent debits never overdraw a wallet.
THEOREM NeverOverdrawnCorrect == Spec => []NeverOverdrawn
<1>1. IInv => NeverOverdrawn BY DEF IInv
<1> QED BY <1>1, Invariant, PTL

\* The lifetime counters agree with the balance.
THEOREM LifetimeCorrect == Spec => []LifetimeTotals
<1>1. IInv => LifetimeTotals BY DEF IInv
<1> QED BY <1>1, Invariant, PTL

\* A call gives up on contention only after MaxRetry commits of other calls.
THEOREM ContentionCorrect == Spec => []ContentionMeansProgress
<1>1. IInv => ContentionMeansProgress
  <2> SUFFICES ASSUME IInv, NEW r \in Requests, pc[r] = "contention"
               PROVE  wallet[User(r)].version - since[r] >= MaxRetry
    BY DEF ContentionMeansProgress
  <2>1. MaxRetry <= wallet[User(r)].version - since[r]
    BY DEF IInv, Overtaken
  <2>2. wallet[User(r)].version \in Nat /\ since[r] \in Nat
    BY DeltaInt DEF IInv, TypeOK, WalletRow
  <2> QED BY <2>1, <2>2, WalletAssumption
<1> QED BY <1>1, Invariant, PTL

-----------------------------------------------------------------------------
(* The mirror                                                                *)

\* users.creditBalance never falls out of step with the wallet, even when a
\* reconciliation and a settlement overlap.
THEOREM MirrorCorrect == Spec => MirrorNeverDiverges
<1> DEFINE InStep(u) ==
      (mirror[u] = wallet[u].balance \/ wallet'[u] # wallet[u]) => mirror'[u] = wallet'[u].balance
<1>1. IInv /\ [Next]_vars => \A u \in Users : InStep(u)
  <2> SUFFICES ASSUME IInv, [Next]_vars, NEW u \in Users PROVE InStep(u)
    OBVIOUS
  <2>1. ASSUME NEW r \in Requests, Apply(r) PROVE InStep(u)
    <3>1. CASE u = User(r)
      <4>1. mirror'[u] = seen[r].balance + Delta(r)
        BY <2>1, <3>1 DEF Apply, IInv, TypeOK
      <4>2. wallet'[u].balance = seen[r].balance + Delta(r)
        BY <2>1, <3>1, Statement, RowFields
      <4> QED BY <4>1, <4>2
    <3>2. CASE u # User(r)
      <4>1. mirror'[u] = mirror[u]
        BY <2>1, <3>2 DEF Apply, IInv, TypeOK
      <4>2. wallet'[u] = wallet[u]
        BY <2>1, <3>2, Statement
      <4> QED BY <4>1, <4>2
    <3> QED BY <3>1, <3>2
  <2>2. ASSUME NEW r \in Requests, Step(r), ~Apply(r) PROVE InStep(u)
    <3>1. wallet' = wallet /\ mirror' = mirror
      BY <2>2 DEF Step, Refuse, Submit, Insufficient, Read, OutOfRange, Conflict, GiveUp, rows
    <3> QED BY <3>1
  <2>3. ASSUME NEW v \in Users, ReconcileLock(v) PROVE InStep(u)
    <3>1. wallet' = wallet /\ mirror' = mirror
      BY <2>3 DEF ReconcileLock, rows
    <3> QED BY <3>1
  <2>4. ASSUME NEW v \in Users, ReconcileWrite(v) PROVE InStep(u)
    <3>1. wallet' = wallet /\ mirror' = [mirror EXCEPT ![v] = reconciler[v].balance]
          /\ reconciler[v].balance = wallet[v].balance
      BY <2>4 DEF ReconcileWrite, IInv, LockHolds
    <3>2. mirror'[u] = IF u = v THEN reconciler[v].balance ELSE mirror[u]
      BY <3>1 DEF IInv, TypeOK
    <3> QED BY <3>1, <3>2
  <2>5. CASE UNCHANGED vars
    <3>1. wallet' = wallet /\ mirror' = mirror
      BY <2>5 DEF vars
    <3> QED BY <3>1
  <2> QED BY <2>1, <2>2, <2>3, <2>4, <2>5 DEF Next
<1>2. IInv /\ [Next]_vars =>
        [\A u \in Users : (mirror[u] = wallet[u].balance \/ wallet'[u] # wallet[u])
                            => mirror'[u] = wallet'[u].balance]_vars
  BY <1>1
<1> QED
  BY <1>2, Invariant, PTL DEF Spec, MirrorNeverDiverges

-----------------------------------------------------------------------------
(* Refinement of Account                                                     *)

\* A step that ends one request without touching the rows is a Decline.
LEMMA DeclineStep ==
  ASSUME IInv, NEW r \in Requests, NEW reason \in Declined,
         pc[r] \notin Ended, pc' = [pc EXCEPT ![r] = reason], call' = call, wallet' = wallet,
         reason = "rejected" => call[r].amount <= 0,
         reason = "insufficient" => Short(r)
  PROVE  Abstract!Decline(r, reason)
<1>1. Balances' = Balances
  BY DEF Balances
<1>2. Outcome[r] = "open"
  BY DEF Outcome
<1>3. Outcome' = [Outcome EXCEPT ![r] = reason]
  <2>1. pc \in [Requests -> {"new", "read", "apply"} \cup Ended] /\ reason \in Ended
    BY DEF IInv, TypeOK, Ended
  <2>2. \A s \in Requests : pc'[s] = IF s = r THEN reason ELSE pc[s]
    BY <2>1
  <2> QED BY <2>1, <2>2 DEF Outcome
<1>4. reason = "insufficient" => call[r].direction = "debit" /\ Balances[User(r)] < call[r].amount
  BY DeltaInt DEF Short, Balances, IInv
<1> QED
  BY <1>1, <1>2, <1>3, <1>4 DEF Abstract!Decline, Declined, User

LEMMA CommitStep ==
  ASSUME IInv, NEW r \in Requests, Apply(r)
  PROVE  Abstract!Credit(r) \/ Abstract!Debit(r)
<1>1. /\ User(r) \in Users /\ wallet'[User(r)] = Updated(r)
      /\ \A u \in Users : u # User(r) => wallet'[u] = wallet[u]
      /\ seen[r].balance = wallet[User(r)].balance /\ seen[r].balance \in Int
      /\ seen[r].balance + Delta(r) >= 0
  BY Statement
<1>2. Updated(r).balance = seen[r].balance + Delta(r)
  BY RowFields
<1>3. Balances' = [Balances EXCEPT ![User(r)] = @ + Delta(r)]
  BY <1>1, <1>2 DEF Balances
<1>4. pc[r] = "apply" /\ pc' = [pc EXCEPT ![r] = "done"] /\ call' = call
      /\ pc \in [Requests -> {"new", "read", "apply"} \cup Ended]
  BY DEF Apply, IInv, TypeOK
<1>5. Outcome[r] = "open"
  BY <1>4 DEF Outcome, Ended, Declined
<1>6. Outcome' = [Outcome EXCEPT ![r] = "done"]
  <2>1. \A s \in Requests : pc'[s] = IF s = r THEN "done" ELSE pc[s]
    BY <1>4
  <2>2. "done" \in Ended
    BY DEF Ended
  <2> QED BY <2>1, <2>2 DEF Outcome
<1>7. call[r].amount > 0 /\ call[r].amount \in Int /\ call[r].direction \in {"credit", "debit"}
  <2>1. call[r] \in Calls
    BY DEF IInv, TypeOK
  <2> QED BY <1>4, <2>1, DeltaInt DEF IInv, InFlight, Calls
<1>8. CASE call[r].direction = "credit"
  <2>1. Balances' = [Balances EXCEPT ![User(r)] = @ + call[r].amount]
    BY <1>3, <1>8 DEF Delta
  <2> QED BY <1>4, <1>5, <1>6, <1>7, <1>8, <2>1 DEF Abstract!Credit, User
<1>9. CASE call[r].direction = "debit"
  <2>1. Balances[User(r)] = seen[r].balance /\ Delta(r) = 0 - call[r].amount
    BY <1>1, <1>9 DEF Balances, Delta
  <2>2. Balances[User(r)] >= call[r].amount /\ Balances[User(r)] + Delta(r) = Balances[User(r)] - call[r].amount
    BY <1>1, <1>7, <2>1
  <2>3. Balances' = [Balances EXCEPT ![User(r)] = @ - call[r].amount]
    BY <1>1, <1>3, <2>2 DEF Balances
  <2> QED BY <1>4, <1>5, <1>6, <1>7, <1>9, <2>2, <2>3 DEF Abstract!Debit, User
<1> QED BY <1>7, <1>8, <1>9

\* Steps a caller cannot see.
LEMMA StutterStep ==
  ASSUME call' = call, wallet' = wallet,
         \A r \in Requests : pc'[r] = pc[r] \/ (pc[r] \notin Ended /\ pc'[r] \notin Ended)
  PROVE  UNCHANGED Abstract!vars
<1>1. Balances' = Balances
  BY DEF Balances
<1>2. Outcome' = Outcome
  BY DEF Outcome
<1> QED BY <1>1, <1>2 DEF Abstract!vars

\* The optimistic-locking engine implements atomic credits and debits: whatever
\* the interleaving, to its callers a request takes effect at once or not at all.
THEOREM Refinement == Spec => ImplementsAccount
<1>1. Init => Abstract!Init
  <2> SUFFICES ASSUME Init PROVE Abstract!Init
    OBVIOUS
  <2>1. Balances = [u \in Users |-> WelcomeCredits]
    BY DEF Init, Balances
  <2>2. Outcome = [r \in Requests |-> "open"]
    BY DEF Init, Outcome, Ended, Declined
  <2>3. call \in [Requests -> Abstract!Calls]
    BY DEF Init, Calls, Abstract!Calls
  <2> QED BY <2>1, <2>2, <2>3 DEF Abstract!Init
<1>2. IInv /\ [Next]_vars => [Abstract!Next]_Abstract!vars
  <2> SUFFICES ASSUME IInv, [Next]_vars PROVE Abstract!Next \/ UNCHANGED Abstract!vars
    OBVIOUS
  <2>0. pc \in [Requests -> {"new", "read", "apply"} \cup Ended]
    BY DEF IInv, TypeOK
  <2>1. ASSUME NEW r \in Requests, Refuse(r) PROVE Abstract!Next
    <3>1. Abstract!Decline(r, "rejected")
      BY <2>1, DeclineStep DEF Refuse, rows, Ended, Declined
    <3> QED BY <3>1 DEF Abstract!Next
  <2>2. ASSUME NEW r \in Requests, Insufficient(r) PROVE Abstract!Next
    <3>1. Abstract!Decline(r, "insufficient")
      BY <2>2, DeclineStep DEF Insufficient, rows, Ended, Declined
    <3> QED BY <3>1 DEF Abstract!Next
  <2>3. ASSUME NEW r \in Requests, OutOfRange(r) PROVE Abstract!Next
    <3>1. Abstract!Decline(r, "error")
      BY <2>3, DeclineStep DEF OutOfRange, rows, Ended, Declined
    <3> QED BY <3>1 DEF Abstract!Next
  <2>4. ASSUME NEW r \in Requests, GiveUp(r) PROVE Abstract!Next
    <3>1. Abstract!Decline(r, "contention")
      BY <2>4, DeclineStep DEF GiveUp, rows, Ended, Declined
    <3> QED BY <3>1 DEF Abstract!Next
  <2>5. ASSUME NEW r \in Requests, Apply(r) PROVE Abstract!Next
    BY <2>5, CommitStep DEF Abstract!Next
  <2>6. ASSUME NEW r \in Requests, Submit(r) \/ Read(r) \/ Conflict(r) PROVE UNCHANGED Abstract!vars
    <3>1. /\ call' = call /\ wallet' = wallet /\ pc[r] \notin Ended /\ pc'[r] \notin Ended
          /\ \A s \in Requests : s # r => pc'[s] = pc[s]
      BY <2>0, <2>6 DEF Submit, Read, Conflict, rows, Ended, Declined
    <3> QED BY <3>1, StutterStep
  <2>7. ASSUME NEW u \in Users, ReconcileLock(u) \/ ReconcileWrite(u) PROVE UNCHANGED Abstract!vars
    <3>1. call' = call /\ wallet' = wallet /\ pc' = pc
      BY <2>7 DEF ReconcileLock, ReconcileWrite, requests, rows
    <3> QED BY <3>1, StutterStep
  <2>8. CASE UNCHANGED vars
    <3>1. call' = call /\ wallet' = wallet /\ pc' = pc
      BY <2>8 DEF vars
    <3> QED BY <3>1, StutterStep
  <2> QED BY <2>1, <2>2, <2>3, <2>4, <2>5, <2>6, <2>7, <2>8 DEF Next, Step
<1> QED
  BY <1>1, <1>2, Invariant, PTL DEF Spec, ImplementsAccount, Abstract!Spec
=============================================================================
