----------------------------- MODULE Transfers -----------------------------
(* Transactions over several wallets: tips and rain (channels.service.ts)    *)
(* and referral milestones (referrals.service.ts), for any users.            *)
(*                                                                           *)
(* Each is a list of wallet writes, its legs, in one transaction.  A leg is  *)
(* the wallet engine inside its caller's transaction: it reads the row and   *)
(* writes it if the version is still the same.  A written row stays locked   *)
(* until the transaction ends, so two transactions may wait for each other;  *)
(* PostgreSQL then aborts one of them.                                       *)
EXTENDS Integers, Sequences, FiniteSets, Functions, TLC

CONSTANTS
  Users,
  Opening,      \* what a wallet holds at first
  Spenders,     \* users who spend what they have, once, elsewhere
  Totals,       \* bound: credits of one tip or rain
  Circles,      \* bound: whom a tip or rain may go to
  Vips,         \* users who may give
  Gives,        \* calls of sendTip and handleRainCommand
  Awards,       \* calls of awardMilestone
  Referrals,
  Referrer, Referee,          \* the two users of a referral
  Milestones, FirstTask,
  ReferrerBonus, RefereeBonus, \* credits of a milestone
  MaxAttempts,  \* MAX_AWARD_RETRIES
  MaxCalls,     \* bound: calls made
  None          \* no user, referral or milestone

ASSUME TransfersAssumption ==
  /\ Opening \in Nat /\ Spenders \subseteq Users /\ Totals \subseteq Nat \ {0}
  /\ Vips \subseteq Users
  /\ \A rs \in Circles : rs \in Seq(Users) /\ Len(rs) > 0 /\ IsInjective(rs)
  /\ Gives \cap Awards = {} /\ IsFiniteSet(Gives) /\ IsFiniteSet(Awards)
  /\ Referrer \in [Referrals -> Users] /\ Referee \in [Referrals -> Users]
  /\ \A r \in Referrals : Referrer[r] # Referee[r]
  /\ FirstTask \in Milestones /\ None \notin Users \cup Milestones \cup Referrals
  /\ ReferrerBonus \in [Milestones -> Nat] /\ RefereeBonus \in [Milestones -> Nat]
  /\ MaxAttempts \in Nat \ {0} /\ MaxCalls \in Nat \ {0}

VARIABLES
  wallet,   \* committed rows: balance and version
  spent,    \* history: what users paid elsewhere
  at,       \* where a call stands
  legs,     \* what its transaction writes, in order
  next,     \* the leg it is at
  draft,    \* rows its transaction has written and locked
  seen,     \* the row its leg has read
  from,     \* giver
  window,   \* Redis: gifts counted in the last 48 hours
  due,      \* award: referral and milestone
  attempt,  \* award: attempts of the transaction
  flags,    \* referrals.milestones
  merged,   \* award: flags read under the row lock
  qualified,  \* referrals.isQualified
  recent,   \* history: gifts committed in the last 48 hours
  ceiling,  \* history: a quarter of the balance at a giver's latest check
  hasty,    \* history: givers whose gifts overlapped or were not recorded
  paid,     \* history: awards committed
  lost      \* history: awards that failed

rows == <<wallet, spent>>
work == <<at, legs, next, draft, seen>>
budget == <<window, recent, ceiling, hasty>>
referral == <<flags, merged, qualified, paid, lost>>
vars == <<rows, work, from, budget, due, attempt, referral>>

Calls == Gives \cup Awards

Nothing == [balance |-> 0, version |-> 0]

Init ==
  /\ wallet = [u \in Users |-> [balance |-> Opening, version |-> 0]]
  /\ spent = [u \in Users |-> 0]
  /\ at = [k \in Calls |-> "none"]
  /\ legs = [k \in Calls |-> <<>>] /\ next = [k \in Calls |-> 1]
  /\ draft = [k \in Calls |-> <<>>]
  /\ seen = [k \in Calls |-> Nothing]
  /\ from = [k \in Gives |-> None]
  /\ window = {} /\ recent = {} /\ hasty = {} /\ ceiling = [u \in Users |-> 0]
  /\ due = [k \in Awards |-> [referral |-> None, milestone |-> None]]
  /\ attempt = [k \in Awards |-> 1]
  /\ flags = [r \in Referrals |-> {}] /\ merged = [k \in Awards |-> {}]
  /\ qualified = {} /\ paid = {} /\ lost = {}

Closed == {"none", "done", "failed"}

Room == Cardinality({k \in Calls : at[k] # "none"}) < MaxCalls

Leg(u, n) == [user |-> u, amount |-> n]

Start(k, plan) ==
  /\ at' = [at EXCEPT ![k] = "running"]
  /\ legs' = [legs EXCEPT ![k] = plan]
  /\ next' = [next EXCEPT ![k] = 1]
  /\ draft' = [draft EXCEPT ![k] = <<>>]

\* The transaction ends and its locks are gone.
End(k, where) ==
  /\ at' = [at EXCEPT ![k] = where]
  /\ draft' = [draft EXCEPT ![k] = <<>>]
  /\ seen' = [seen EXCEPT ![k] = Nothing]
  /\ next' = [next EXCEPT ![k] = 1]

GiveUp(k) ==
  /\ End(k, "failed")
  /\ legs' = [legs EXCEPT ![k] = <<>>]
  /\ lost' = IF k \in Awards THEN lost \cup {due[k]} ELSE lost

-----------------------------------------------------------------------------
(* Tips and rain: a tip is a rain on one user                                *)

\* What a gift takes from its giver, whose debits are the odd legs.
Given(k) ==
  SumFunctionOnSet([j \in DOMAIN legs[k] |-> -legs[k][j].amount], {j \in DOMAIN legs[k] : j % 2 = 1})

Credits(ks) == SumFunctionOnSet([k \in Gives |-> Given(k)], ks)

Of(u, ks) == {k \in ks : from[k] = u}

Quarter(u) == wallet[u].balance \div 4

\* Faulty: what was given before is not counted.  (A faulty variant stands before the
\* definition it would replace; the README says which property rejects it.)
WholeQuarter(u) == Quarter(u)

Budget(u) == Quarter(u) - Credits(Of(u, window))

\* Equal shares, the remainder to the last.
Share(total, rs, j) == total \div Len(rs) + (IF j = Len(rs) THEN total % Len(rs) ELSE 0)

Shower(u, rs, total) ==
  [j \in 1..2 * Len(rs) |-> IF j % 2 = 1 THEN Leg(u, -Share(total, rs, (j + 1) \div 2))
                                         ELSE Leg(rs[j \div 2], Share(total, rs, j \div 2))]

Busy(u) == \E k \in Of(u, Gives) : at[k] \in {"running", "read", "committed"}

\* validateTipEligibility; a rain makes the same checks.
Eligible(u, rs, total) ==
  u \in Vips /\ u \notin Range(rs) /\ total <= wallet[u].balance /\ total <= Budget(u)

\* Balance and budget are read before the transaction.
GiveCheck(k, u, rs, total) ==
  /\ at[k] = "none" /\ Room /\ Eligible(u, rs, total) /\ Len(rs) <= total
  /\ Start(k, Shower(u, rs, total))
  /\ from' = [from EXCEPT ![k] = u]
  /\ ceiling' = [ceiling EXCEPT ![u] = Quarter(u)]
  /\ hasty' = IF Busy(u) THEN hasty \cup {u} ELSE hasty
  /\ UNCHANGED <<rows, seen, window, recent, due, attempt, referral>>

\* recordTipInWindow, after the commit; Redis, or a notification before it, may fail.
GiveRecord(k) ==
  /\ k \in Gives /\ at[k] = "committed"
  /\ at' = [at EXCEPT ![k] = "done"]
  /\ \/ window' = window \cup {k} /\ UNCHANGED hasty
     \/ hasty' = hasty \cup {from[k]} /\ UNCHANGED window
  /\ UNCHANGED <<rows, legs, next, draft, seen, from, recent, ceiling, due, attempt, referral>>

\* 48 hours later.
WindowSlides(k) ==
  /\ k \in recent /\ at[k] = "done"
  /\ window' = window \ {k} /\ recent' = recent \ {k}
  /\ UNCHANGED <<rows, work, from, ceiling, hasty, due, attempt, referral>>

-----------------------------------------------------------------------------
(* awardMilestone and qualifyReferral                                        *)

AwardRead(k, r, m) ==
  /\ at[k] = "none" /\ Room /\ m \notin flags[r]
  /\ at' = [at EXCEPT ![k] = "due"]
  /\ due' = [due EXCEPT ![k] = [referral |-> r, milestone |-> m]]
  /\ UNCHANGED <<rows, legs, next, draft, seen, from, budget, attempt, referral>>

\* qualifyReferral reads the flag, sets it, and awards the first task.
QualifyRead(k, r) ==
  /\ at[k] = "none" /\ Room /\ r \notin qualified
  /\ at' = [at EXCEPT ![k] = "qualifying"]
  /\ due' = [due EXCEPT ![k] = [referral |-> r, milestone |-> FirstTask]]
  /\ UNCHANGED <<rows, legs, next, draft, seen, from, budget, attempt, referral>>

QualifyWrite(k) ==
  LET r == due[k].referral
  IN  /\ at[k] = "qualifying"
      /\ qualified' = qualified \cup {r}
      /\ at' = [at EXCEPT ![k] = IF FirstTask \in flags[r] THEN "done" ELSE "due"]
      /\ UNCHANGED <<rows, legs, next, draft, seen, from, budget, due, attempt, flags, merged, paid, lost>>

Writing == {"running", "read"}

LockedRow(r) == \E k \in Awards : at[k] \in Writing /\ due[k].referral = r

Bonus(u, n) == IF n > 0 THEN <<Leg(u, n)>> ELSE <<>>

Bonuses(r, m) == Bonus(Referrer[r], ReferrerBonus[m]) \o Bonus(Referee[r], RefereeBonus[m])

\* Faulty: the flag is not read again.
NotAgain(k) == FALSE

Awarded(k) == due[k].milestone \in flags[due[k].referral]

\* SELECT ... FOR UPDATE; the flag is read again.
AwardLock(k) ==
  LET r == due[k].referral  m == due[k].milestone
  IN  /\ at[k] = "due" /\ ~LockedRow(r)
      /\ IF Awarded(k) THEN End(k, "done") /\ UNCHANGED legs ELSE Start(k, Bonuses(r, m)) /\ UNCHANGED seen
      /\ merged' = [merged EXCEPT ![k] = flags[r]]
      /\ UNCHANGED <<rows, from, budget, due, attempt, flags, qualified, paid, lost>>

-----------------------------------------------------------------------------
(* A leg: executeWithOptimisticLock with its caller's transaction            *)

Row(k, u) == IF u \in DOMAIN draft[k] THEN draft[k][u] ELSE wallet[u]

User(k) == legs[k][next[k]].user
Amount(k) == legs[k][next[k]].amount
Holder(u) == {k \in Calls : at[k] \in Writing /\ u \in DOMAIN draft[k]}

LegRead(k) ==
  /\ at[k] = "running" /\ next[k] <= Len(legs[k])
  /\ at' = [at EXCEPT ![k] = "read"]
  /\ seen' = [seen EXCEPT ![k] = Row(k, User(k))]
  /\ UNCHANGED <<rows, legs, next, draft, from, budget, due, attempt, referral>>

\* Faulty: the version is not in the condition of the update.
AnyVersion(k) == TRUE

SameVersion(k) == Row(k, User(k)).version = seen[k].version

Enough(k) == seen[k].balance + Amount(k) >= 0

LegWrite(k) ==
  /\ at[k] = "read" /\ Enough(k) /\ Holder(User(k)) \subseteq {k} /\ SameVersion(k)
  /\ at' = [at EXCEPT ![k] = "running"]
  /\ seen' = [seen EXCEPT ![k] = Nothing]
  /\ next' = [next EXCEPT ![k] = @ + 1]
  /\ draft' = [draft EXCEPT ![k] =
       [u \in DOMAIN draft[k] \cup {User(k)} |->
          IF u = User(k)
          THEN [balance |-> seen[k].balance + Amount(k), version |-> seen[k].version + 1]
          ELSE Row(k, u)]]
  /\ UNCHANGED <<rows, legs, from, budget, due, attempt, referral>>

\* Another transaction committed the row after the read: read again.
LegConflict(k) ==
  /\ at[k] = "read" /\ Holder(User(k)) \subseteq {k} /\ ~SameVersion(k)
  /\ at' = [at EXCEPT ![k] = "running"]
  /\ seen' = [seen EXCEPT ![k] = Nothing]
  /\ UNCHANGED <<rows, legs, next, draft, from, budget, due, attempt, referral>>

\* After MAX_RETRY conflicts the engine gives up; an award starts over, a gift does not.
LegContended(k) ==
  /\ at[k] = "read" /\ Holder(User(k)) \subseteq {k} /\ ~SameVersion(k)
  /\ IF k \in Awards /\ attempt[k] < MaxAttempts
     THEN End(k, "due") /\ attempt' = [attempt EXCEPT ![k] = @ + 1] /\ UNCHANGED <<legs, lost>>
     ELSE GiveUp(k) /\ UNCHANGED attempt
  /\ UNCHANGED <<rows, from, budget, due, flags, merged, qualified, paid>>

LegInsufficient(k) ==
  /\ at[k] = "read" /\ ~Enough(k)
  /\ GiveUp(k)
  /\ UNCHANGED <<rows, from, budget, due, attempt, flags, merged, qualified, paid>>

Commit(k) ==
  /\ at[k] = "running" /\ next[k] > Len(legs[k])
  /\ wallet' = [u \in Users |-> Row(k, u)]
  /\ IF k \in Gives
     THEN /\ recent' = recent \cup {k}
          /\ End(k, "committed")
          /\ UNCHANGED <<flags, paid>>
     ELSE /\ flags' = [flags EXCEPT ![due[k].referral] = merged[k] \cup {due[k].milestone}]
          /\ paid' = paid \cup {k}
          /\ End(k, "done")
          /\ UNCHANGED recent
  /\ UNCHANGED <<spent, legs, from, window, ceiling, hasty, due, attempt, merged, qualified, lost>>

\* The connection, the time limit of a transaction, the process.
Fails(k) ==
  /\ at[k] \in {"running", "due"}
  /\ GiveUp(k)
  /\ UNCHANGED <<rows, from, budget, due, attempt, flags, merged, qualified, paid>>

\* A leg waits for the row another transaction has written.
Waits(k, j) == at[k] = "read" /\ k # j /\ j \in Holder(User(k))

Cycles == {S \in SUBSET Calls : \A k \in S : (\E j \in S : Waits(k, j)) /\ (\E j \in S : Waits(j, k))}

\* PostgreSQL finds a cycle and aborts one of its transactions; nobody retries it.
DeadlockVictim(k) ==
  /\ k \in UNION Cycles
  /\ GiveUp(k)
  /\ UNCHANGED <<rows, from, budget, due, attempt, flags, merged, qualified, paid>>

\* A debit of another service.
Spend(u) ==
  /\ spent[u] = 0 /\ wallet[u].balance > 0 /\ Holder(u) = {}
  /\ spent' = [spent EXCEPT ![u] = wallet[u].balance]
  /\ wallet' = [wallet EXCEPT ![u] = [balance |-> 0, version |-> @.version + 1]]
  /\ UNCHANGED <<work, from, budget, due, attempt, referral>>

Step(k) ==
  \/ LegRead(k) \/ LegWrite(k) \/ LegConflict(k) \/ LegContended(k) \/ LegInsufficient(k)
  \/ Commit(k) \/ DeadlockVictim(k)

Next ==
  \/ \E k \in Calls : Step(k) \/ Fails(k)
  \/ \E u \in Spenders : Spend(u)
  \/ \E k \in Gives : \/ \E u \in Users, rs \in Circles, total \in Totals : GiveCheck(k, u, rs, total)
                      \/ GiveRecord(k) \/ WindowSlides(k)
  \/ \E k \in Awards : \/ \E r \in Referrals, m \in Milestones : AwardRead(k, r, m)
                       \/ \E r \in Referrals : QualifyRead(k, r)
                       \/ QualifyWrite(k) \/ AwardLock(k)

Spec == Init /\ [][Next]_vars

-----------------------------------------------------------------------------
(* Properties                                                                *)

RowType == [balance: Nat, version: Nat]

\* Every row keeps its columns' types.
TypeOK ==
  /\ wallet \in [Users -> RowType]
  /\ at \in [Calls -> Writing \cup {"none", "qualifying", "due", "committed", "done", "failed"}]
  /\ \A k \in Calls : /\ legs[k] \in Seq([user: Users, amount: Int])
                      /\ next[k] \in 1..Len(legs[k]) + 1
                      /\ DOMAIN draft[k] \subseteq Users
                      /\ \A u \in DOMAIN draft[k] : draft[k][u] \in RowType
  /\ seen \in [Calls -> RowType] /\ spent \in [Users -> Nat]
  /\ from \in [Gives -> Users \cup {None}]
  /\ window \subseteq recent /\ recent \subseteq Gives
  /\ ceiling \in [Users -> Nat] /\ hasty \subseteq Users
  /\ due \in [Awards -> [referral: Referrals \cup {None}, milestone: Milestones \cup {None}]]
  /\ attempt \in [Awards -> 1..MaxAttempts]
  /\ flags \in [Referrals -> SUBSET Milestones] /\ merged \in [Awards -> SUBSET Milestones]
  /\ qualified \subseteq Referrals /\ paid \subseteq Awards

Settled == {k \in Gives : at[k] \in {"committed", "done"}} \cup paid

\* What the legs of a call make of a wallet.
Effect(k, u) ==
  SumFunctionOnSet([j \in DOMAIN legs[k] |-> legs[k][j].amount], {j \in DOMAIN legs[k] : legs[k][j].user = u})

\* Every tip, rain and award is settled as a whole or not at all: a wallet holds what all
\* the legs of the settled ones make, whichever of them ran at once, read a row before
\* another committed it, met each other in a deadlock, failed or started over.
WholeOrNothing ==
  \A u \in Users :
    wallet[u].balance = Opening - spent[u] + SumFunctionOnSet([k \in Calls |-> Effect(k, u)], Settled)

\* A milestone of a referral is awarded once, is flagged exactly if it was, also when
\* several milestones of the referral are awarded at once; and a referral that is
\* qualified lacks its first award only while it is under way or after it failed.
MilestonePaidOnce ==
  /\ \A k, j \in paid : due[k] = due[j] => k = j
  /\ \A r \in Referrals : flags[r] = {due[k].milestone : k \in {j \in paid : due[j].referral = r}}
  /\ \A r \in qualified : LET opening == [referral |-> r, milestone |-> FirstTask]
                          IN  \/ FirstTask \in flags[r] \/ opening \in lost
                              \/ \E k \in Awards : at[k] \in Writing \cup {"due"} /\ due[k] = opening

\* What a user gave in the last 48 hours is at most a quarter of the balance that the
\* latest check found, unless gifts of that user overlapped or were not recorded.
BudgetKept == \A u \in Users \ hasty : Credits(Of(u, recent)) <= ceiling[u]
=============================================================================
