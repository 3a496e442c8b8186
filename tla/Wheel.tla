------------------------------- MODULE Wheel -------------------------------
(* The prize wheel, from the click in the browser to the settled spin:       *)
(* spinWheel and executeSpinWheel of gamification.service.ts, the retries of *)
(* the web client (lib/api.ts) and the modal that shows the outcome, for one *)
(* player with any number of open pages.                                     *)
(*                                                                           *)
(* A click makes one idempotency key and confirms one price.  Its request    *)
(* may be sent again while an earlier copy still runs; each copy is one      *)
(* transaction.  A transaction holds the unique key of its attempt row from  *)
(* the insert on, and the day's allowance row from its claim on; what waits  *)
(* for either is an action that is not enabled.  Its other writes (debit,    *)
(* prize, spin) are seen by nobody before the commit, so they are part of it.*)
EXTENDS Integers

CONSTANTS
  Clicks,      \* clicks on the spin button; each stands for its key, too
  MaxRetries,  \* MAX_RETRIES of the web client
  Cost,        \* WHEEL_PAID_COST
  MaxPaid,     \* WHEEL_MAX_PAID_PER_DAY
  Prizes,      \* the prize table
  NoPrize,     \* no result
  LastDay      \* bound: the days that are looked at

ASSUME WheelAssumption ==
  /\ MaxRetries \in Nat
  /\ Cost \in Nat \ {0}
  /\ MaxPaid \in Nat
  /\ NoPrize \notin Prizes
  /\ LastDay \in Nat \ {0}

VARIABLES
  today,      \* the UTC day
  page,       \* what the page knows of each click
  retry,      \* how often the page repeated the request
  shown,      \* the prize the page shows
  price,      \* the price each click confirmed, X-Expected-Cost
  stage,      \* where the transaction of each request stands, or how it ended
  plan,       \* the day it charges, and the allowance it counted or claimed
  reply,      \* the prize in its answer
  attempt,    \* committed rows of wheel_spin_attempts: their status
  result,     \* and their result
  allowance,  \* committed rows of wheel_daily_allowances
  spins,      \* committed rows of wheel_spins, counted by the day of createdAt
  used        \* history: committed spins, counted by the day that was charged

pages == <<page, retry, shown, price>>
rows == <<attempt, result, allowance, spins, used>>
vars == <<today, pages, stage, plan, reply, rows>>

Days == 1..LastDay
Unset == -1

\* The first request of a click and its retries.
Requests == Clicks \X (0..MaxRetries)

Key(r) == r[1]
Last(c) == <<c, retry[c]>>

Running == {"begun", "seeded", "claimed"}
Ended == {"won", "repriced", "refused", "conflict", "failed"}
Shown == {"won", "repriced", "unconfirmed"}

NoPlan == [day |-> 1, free |-> 0, paid |-> 0]

\* The player may have taken the day's free spin before.
Init ==
  /\ today = 1
  /\ page = [c \in Clicks |-> "new"]
  /\ retry = [c \in Clicks |-> 0]
  /\ shown = [c \in Clicks |-> NoPrize]
  /\ price = [c \in Clicks |-> Unset]
  /\ stage = [r \in Requests |-> "none"]
  /\ plan = [r \in Requests |-> NoPlan]
  /\ reply = [r \in Requests |-> NoPrize]
  /\ attempt = [c \in Clicks |-> "none"]
  /\ result = [c \in Clicks |-> NoPrize]
  /\ \E taken \in 0..1 :
       /\ used = [d \in Days |-> [free |-> IF d = 1 THEN taken ELSE 0, paid |-> 0]]
       /\ allowance = [d \in Days |-> [at |-> IF used[d].free = 1 THEN "made" ELSE "none",
                                      free |-> used[d].free, paid |-> 0]]
  /\ spins = used

Midnight ==
  /\ today < LastDay
  /\ today' = today + 1
  /\ UNCHANGED <<pages, stage, plan, reply, rows>>

-----------------------------------------------------------------------------
(* The page                                                                  *)

\* The page may show the price of a status that is no longer current.
Click(c, cost) ==
  /\ page[c] = "new"
  /\ page' = [page EXCEPT ![c] = "waiting"]
  /\ price' = [price EXCEPT ![c] = cost]
  /\ stage' = [stage EXCEPT ![<<c, 0>>] = "sent"]
  /\ UNCHANGED <<today, retry, shown, plan, reply, rows>>

\* The response is lost, late or a 5xx: the same request goes out again.
Resend(c) ==
  /\ page[c] = "waiting" /\ retry[c] < MaxRetries
  /\ retry' = [retry EXCEPT ![c] = @ + 1]
  /\ stage' = [stage EXCEPT ![<<c, retry[c] + 1>>] = "sent"]
  /\ UNCHANGED <<today, page, shown, price, plan, reply, rows>>

\* Faulty: without a timeout, a page whose last response is lost waits on.
GiveUpOnFailure(c) ==
  /\ page[c] = "waiting" /\ retry[c] = MaxRetries /\ stage[Last(c)] = "failed"
  /\ page' = [page EXCEPT ![c] = "unconfirmed"]
  /\ UNCHANGED <<today, retry, shown, price, stage, plan, reply, rows>>

GiveUp(c) ==
  /\ page[c] = "waiting" /\ retry[c] = MaxRetries
  /\ page' = [page EXCEPT ![c] = "unconfirmed"]
  /\ UNCHANGED <<today, retry, shown, price, stage, plan, reply, rows>>

\* What the modal makes of an answer; a 4xx other than PRICE_CHANGED tells it nothing.
Answer(c) ==
  /\ page[c] = "waiting" /\ stage[Last(c)] \in Ended \ {"failed"}
  /\ page' = [page EXCEPT ![c] =
                IF stage[Last(c)] \in {"won", "repriced"} THEN stage[Last(c)] ELSE "unconfirmed"]
  /\ shown' = [shown EXCEPT ![c] = reply[Last(c)]]
  /\ UNCHANGED <<today, retry, price, stage, plan, reply, rows>>

-----------------------------------------------------------------------------
(* spinWheel                                                                 *)

\* Faulty: the key is not unique.  (A faulty variant stands before the
\* definition it would replace; the README says which property rejects it.)
KeyNeverTaken(c) == FALSE

KeyTaken(c) == attempt[c] = "committed"

KeyHeld(c) == \E r \in Requests : Key(r) = c /\ stage[r] \in Running

Begin(r) ==
  /\ stage[r] = "sent" /\ ~KeyTaken(Key(r)) /\ ~KeyHeld(Key(r))
  /\ stage' = [stage EXCEPT ![r] = "begun"]
  /\ UNCHANGED <<today, pages, plan, reply, rows>>

\* The unique violation: replay the stored result, if there is one.
Replay(r) ==
  /\ stage[r] = "sent" /\ KeyTaken(Key(r))
  /\ stage' = [stage EXCEPT ![r] = IF result[Key(r)] = NoPrize THEN "conflict" ELSE "won"]
  /\ reply' = [reply EXCEPT ![r] = result[Key(r)]]
  /\ UNCHANGED <<today, pages, plan, rows>>

\* What a transaction that is over had planned is forgotten.
Ends(r, how) ==
  /\ stage' = [stage EXCEPT ![r] = how]
  /\ plan' = [plan EXCEPT ![r] = NoPlan]

-----------------------------------------------------------------------------
(* executeSpinWheel                                                          *)

\* dailyAllowanceUsage: the day is fixed and its committed spins are counted.
Seed(r) ==
  /\ stage[r] = "begun"
  /\ stage' = [stage EXCEPT ![r] = "seeded"]
  /\ plan' = [plan EXCEPT ![r] = [day |-> today, free |-> IF spins[today].free > 0 THEN 1 ELSE 0,
                                  paid |-> spins[today].paid]]
  /\ UNCHANGED <<today, pages, reply, rows>>

\* Faulty: the claim does not take the lock of the allowance row.
RowNeverHeld(d) == FALSE

RowHeld(d) == \E r \in Requests : stage[r] = "claimed" /\ plan[r].day = d

\* INSERT ... ON CONFLICT DO NOTHING, and the row read back.
Row(r) == IF allowance[plan[r].day].at = "none" THEN plan[r] ELSE allowance[plan[r].day]

\* Faulty: the spin goes on at whatever it costs.
AnyPrice(r, cost) == TRUE

AtConfirmedPrice(r, cost) == price[Key(r)] = cost

\* The claimed row, or a price change that gives it back.
Claim(r, cost, paid) ==
  IF AtConfirmedPrice(r, cost)
  THEN /\ stage' = [stage EXCEPT ![r] = "claimed"]
       /\ plan' = [plan EXCEPT ![r] = [day |-> plan[r].day, free |-> 1, paid |-> paid]]
  ELSE Ends(r, "repriced")

ClaimFree(r) ==
  /\ stage[r] = "seeded" /\ ~RowHeld(plan[r].day) /\ Row(r).free = 0
  /\ Claim(r, 0, Row(r).paid)
  /\ UNCHANGED <<today, pages, reply, rows>>

ClaimPaid(r) ==
  /\ stage[r] = "seeded" /\ ~RowHeld(plan[r].day) /\ Row(r).free # 0
  /\ Row(r).paid < MaxPaid
  /\ Claim(r, Cost, Row(r).paid + 1)
  /\ UNCHANGED <<today, pages, reply, rows>>

\* The balance is short, or the paid spins are used up.
Deny(r) ==
  /\ stage[r] = "seeded" /\ ~RowHeld(plan[r].day) /\ Row(r).free # 0
  /\ Ends(r, "refused")
  /\ UNCHANGED <<today, pages, reply, rows>>

Count(counts, cost) ==
  IF cost = 0 THEN [free |-> counts.free + 1, paid |-> counts.paid]
  ELSE [free |-> counts.free, paid |-> counts.paid + 1]

\* Faulty: the result is not stored with the attempt.
StoredNothing(p) == NoPrize

Stored(p) == p

\* Debit, prize, wheel_spins row, stored result; the commit frees both rows.
Settle(r, p) ==
  /\ stage[r] = "claimed"
  /\ Ends(r, "won")
  /\ reply' = [reply EXCEPT ![r] = p]
  /\ attempt' = [attempt EXCEPT ![Key(r)] = "committed"]
  /\ result' = [result EXCEPT ![Key(r)] = Stored(p)]
  /\ allowance' = [allowance EXCEPT ![plan[r].day] =
                     [at |-> "made", free |-> plan[r].free, paid |-> plan[r].paid]]
  /\ spins' = [spins EXCEPT ![today] = Count(@, price[Key(r)])]
  /\ used' = [used EXCEPT ![plan[r].day] = Count(@, price[Key(r)])]
  /\ UNCHANGED <<today, pages>>

\* Contention in the wallet (400), an error, a timeout or a crash (5xx).
RollBack(r) ==
  /\ stage[r] \in Running
  /\ \E how \in {"refused", "failed"} : Ends(r, how)
  /\ UNCHANGED <<today, pages, reply, rows>>

Page(c) == Resend(c) \/ GiveUp(c) \/ Answer(c)

Server(r) ==
  \/ Begin(r) \/ Replay(r) \/ Seed(r) \/ ClaimFree(r) \/ ClaimPaid(r) \/ Deny(r)
  \/ RollBack(r) \/ \E p \in Prizes : Settle(r, p)

Next ==
  \/ Midnight
  \/ \E c \in Clicks : Page(c) \/ \E cost \in {0, Cost} : Click(c, cost)
  \/ \E r \in Requests : Server(r)

\* The page's timers run.  A transaction that began ends, at the latest when the
\* time limit of an interactive transaction rolls it back.
Fairness ==
  /\ \A c \in Clicks : WF_vars(Page(c))
  /\ \A r \in Requests : WF_vars(stage[r] \in Running /\ Server(r))

Spec == Init /\ [][Next]_vars
FairSpec == Spec /\ Fairness

-----------------------------------------------------------------------------
(* Properties                                                                *)

PrizeOrNone == Prizes \cup {NoPrize}
Counts == [free: Nat, paid: Nat]

\* Every row keeps its columns' types.
TypeOK ==
  /\ today \in Days
  /\ page \in [Clicks -> Shown \cup {"new", "waiting"}]
  /\ retry \in [Clicks -> 0..MaxRetries]
  /\ shown \in [Clicks -> PrizeOrNone]
  /\ price \in [Clicks -> {Unset, 0, Cost}]
  /\ stage \in [Requests -> Running \cup Ended \cup {"none", "sent"}]
  /\ plan \in [Requests -> [day: Days, free: 0..1, paid: Nat]]
  /\ reply \in [Requests -> PrizeOrNone]
  /\ attempt \in [Clicks -> {"none", "committed"}]
  /\ result \in [Clicks -> PrizeOrNone]
  /\ allowance \in [Days -> [at: {"none", "made"}, free: 0..1, paid: Nat]]
  /\ spins \in [Days -> Counts]
  /\ used \in [Days -> Counts]

\* Whatever copies of whatever clicks run at once, fail and are repeated, around
\* midnight, too: a click settles once, at the price it confirmed, and no day
\* gives more than one free and MaxPaid paid spins.
Promise == INSTANCE Spins WITH prize <- result
ImplementsSpins == Promise!Init /\ [][Promise!Next]_(Promise!svars)

\* The page never shows an invented prize: what it shows is what the click's
\* attempt stored, however many copies of the request were answered; and a
\* settled click is never told that it is still being processed.
AnswersAreTrue ==
  /\ \A c \in Clicks : page[c] = "won" => shown[c] = result[c] /\ shown[c] # NoPrize
  /\ \A r \in Requests : stage[r] # "conflict"

\* No click waits for ever, and no transaction: neither for a key nor for the
\* day's row that another one holds.  (Each of them waits at most once, so all of
\* them end exactly if the wheel comes to rest.)
SpinsEnd ==
  <>[](/\ \A c \in Clicks : page[c] # "waiting"
       /\ \A r \in Requests : stage[r] \notin Running)
=============================================================================
