------------------------------ MODULE Rewards ------------------------------
(* Daily rewards, streak achievements and daily missions                     *)
(* (gamification.service.ts), for any users and any calls at once.           *)
(*                                                                           *)
(* A daily claim computes the streak from what it read and then runs one     *)
(* transaction; its conditional update of the user row, held until the end,  *)
(* is the claim.  An achievement is a unique row: the claim inserts it in    *)
(* its transaction, checkAchievements without one.  A mission is read,       *)
(* written and paid in three steps.                                          *)
EXTENDS Integers, FiniteSets

CONSTANTS
  Users,
  Claims,       \* calls of claimDailyReward
  Checks,       \* calls of checkAchievements
  Bumps,        \* calls of updateMissionProgress
  Networks,     \* client addresses
  NoNetwork,
  Cooldown,     \* DAILY_REWARD_COOLDOWN_MS, which is also the length of a UTC day
  Grace,        \* STREAK_GRACE_MS
  StreakGoal,   \* requirement of the streak achievement (DEFAULT_ACHIEVEMENTS)
  Goals,        \* requirements an admin may give its row
  Requirement,  \* requirement of the mission
  MaxTime,      \* bound: the clock stops here
  MaxCalls,     \* bound: calls made
  None          \* no user

RewardsAssumption ==
  /\ Cooldown \in Nat \ {0} /\ Grace \in Nat /\ Cooldown <= Grace
  /\ StreakGoal \in Nat \ {0} /\ Goals \subseteq Nat /\ Requirement \in Nat \ {0} /\ MaxTime \in Nat /\ MaxCalls \in Nat
  /\ NoNetwork \notin Networks /\ None \notin Users

VARIABLES
  now,
  last, streak, network,      \* users: lastDailyRewardAt, currentStreak, lastClaimIp
  claimAt, claim,             \* where a claim stands, and what it read and computed
  goal,                       \* achievements.requirement
  unlocked,                   \* committed rows of user_achievements
  checkAt, checked,           \* where a check stands, and its user
  progress, completed,        \* user_mission_progress, by user and day
  bumpAt, bump,               \* where an update stands, and what it read
  log,      \* daily_reward_logs
  paid,     \* history: how often the achievement was paid
  earned,   \* history: how often the mission was paid
  torn      \* history: missions whose progress was overwritten

users == <<last, streak, network, log>>
claims == <<claimAt, claim>>
awards == <<goal, unlocked, paid>>
checks == <<checkAt, checked>>
missions == <<progress, completed, earned, torn>>
bumps == <<bumpAt, bump>>
vars == <<now, users, claims, awards, checks, missions, bumps>>

Never == -1
Day(t) == t \div Cooldown
Missions == Users \X (0..Day(MaxTime))

Holding == {"holding", "skipping", "inserting", "unlocking"}

Init ==
  /\ now = 0
  /\ last = [u \in Users |-> Never] /\ streak = [u \in Users |-> 0]
  /\ network = [u \in Users |-> NoNetwork]
  /\ claimAt = [k \in Claims |-> "none"]
  /\ claim = [k \in Claims |-> [user |-> None, at |-> 0, streak |-> 0, network |-> NoNetwork]]
  /\ goal = StreakGoal /\ unlocked = {}
  /\ checkAt = [h \in Checks |-> "none"] /\ checked = [h \in Checks |-> None]
  /\ progress = [m \in Missions |-> 0] /\ completed = {}
  /\ bumpAt = [b \in Bumps |-> "none"]
  /\ bump = [b \in Bumps |-> [mission |-> <<None, 0>>, progress |-> 0]]
  /\ log = {}
  /\ paid = [u \in Users |-> 0] /\ earned = [m \in Missions |-> 0]
  /\ torn = {}

Room ==
  Cardinality({k \in Claims : claimAt[k] # "none"}) + Cardinality({h \in Checks : checkAt[h] # "none"})
    + Cardinality({b \in Bumps : bumpAt[b] # "none"}) < MaxCalls

\* No call lasts as long as the cooldown.
Tick ==
  /\ now < MaxTime
  /\ \A k \in Claims : claimAt[k] \in Holding \cup {"read"} => now + 1 < claim[k].at + Cooldown
  /\ now' = now + 1
  /\ UNCHANGED <<users, claims, awards, checks, missions, bumps>>

-----------------------------------------------------------------------------
(* claimDailyReward                                                          *)

\* Another user claimed from this network today.
Taken(u, n) == \E v \in Users \ {u} : network[v] = n /\ last[v] # Never /\ Day(last[v]) = Day(now)

Broken(u) == last[u] # Never /\ last[u] < now - Grace

ClaimRead(k, u, n) ==
  /\ claimAt[k] = "none" /\ Room /\ ~Taken(u, n)
  /\ claimAt' = [claimAt EXCEPT ![k] = "read"]
  /\ claim' = [claim EXCEPT ![k] = [user |-> u, at |-> now, network |-> n,
                                    streak |-> IF Broken(u) THEN 1 ELSE streak[u] + 1]]
  /\ UNCHANGED <<now, users, awards, checks, missions, bumps>>

RowHeld(u) == \E k \in Claims : claimAt[k] \in Holding /\ claim[k].user = u

\* Faulty: any user may claim whenever no other claim runs.  (A faulty variant stands
\* before the definition it would replace; the README says which property rejects it.)
AlwaysEligible(u, t) == TRUE

Eligible(u, t) == last[u] = Never \/ last[u] <= t - Cooldown

\* The conditional updateMany waits for the row and looks at it again.
ClaimRow(k) ==
  LET u == claim[k].user
  IN  /\ claimAt[k] = "read" /\ ~RowHeld(u)
      /\ claimAt' = [claimAt EXCEPT ![k] = IF Eligible(u, claim[k].at) THEN "holding" ELSE "refused"]
      /\ UNCHANGED <<now, users, claim, awards, checks, missions, bumps>>

\* checkStreakAchievements looks for the row ...
ClaimLook(k) ==
  /\ claimAt[k] = "holding"
  /\ claimAt' = [claimAt EXCEPT ![k] =
                   IF claim[k].streak >= StreakGoal /\ claim[k].user \notin unlocked
                   THEN "inserting" ELSE "skipping"]
  /\ UNCHANGED <<now, users, claim, awards, checks, missions, bumps>>

\* ... and inserts it; a row that a check inserted meanwhile aborts the whole claim.
ClaimInsert(k) ==
  /\ claimAt[k] = "inserting"
  /\ claimAt' = [claimAt EXCEPT ![k] = IF claim[k].user \in unlocked THEN "failed" ELSE "unlocking"]
  /\ UNCHANGED <<now, users, claim, awards, checks, missions, bumps>>

\* Marker, credits, log and achievement become visible at once.
ClaimCommit(k) ==
  LET u == claim[k].user
  IN  /\ claimAt[k] \in {"skipping", "unlocking"}
      /\ claimAt' = [claimAt EXCEPT ![k] = "done"]
      /\ last' = [last EXCEPT ![u] = claim[k].at]
      /\ streak' = [streak EXCEPT ![u] = claim[k].streak]
      /\ network' = [network EXCEPT ![u] = claim[k].network]
      /\ log' = log \cup {claim[k]}
      /\ IF claimAt[k] = "unlocking"
         THEN /\ unlocked' = unlocked \cup {u}
              /\ paid' = [paid EXCEPT ![u] = @ + 1]
              /\ UNCHANGED goal
         ELSE UNCHANGED awards
      /\ UNCHANGED <<now, claim, checks, missions, bumps>>

ClaimFails(k) ==
  /\ claimAt[k] \in Holding
  /\ claimAt' = [claimAt EXCEPT ![k] = "failed"]
  /\ UNCHANGED <<now, users, claim, awards, checks, missions, bumps>>

-----------------------------------------------------------------------------
(* checkAchievements                                                         *)

CheckRead(h, u) ==
  /\ checkAt[h] = "none" /\ Room /\ u \notin unlocked /\ streak[u] >= goal
  /\ checkAt' = [checkAt EXCEPT ![h] = "read"]
  /\ checked' = [checked EXCEPT ![h] = u]
  /\ UNCHANGED <<now, users, claims, awards, missions, bumps>>

Duplicate(u) == u \in unlocked

\* The insert waits for a claim that inserted the same row.
CheckInsert(h) ==
  LET u == checked[h]
  IN  /\ checkAt[h] = "read"
      /\ \A k \in Claims : ~(claimAt[k] = "unlocking" /\ claim[k].user = u)
      /\ checkAt' = [checkAt EXCEPT ![h] = IF Duplicate(u) THEN "failed" ELSE "inserted"]
      /\ unlocked' = unlocked \cup {u}
      /\ UNCHANGED <<now, users, claims, goal, paid, checked, missions, bumps>>

\* The credit, which may fail and is not tried again.
CheckPay(h) ==
  /\ checkAt[h] = "inserted"
  /\ \/ /\ checkAt' = [checkAt EXCEPT ![h] = "done"]
        /\ paid' = [paid EXCEPT ![checked[h]] = @ + 1]
     \/ /\ checkAt' = [checkAt EXCEPT ![h] = "failed"]
        /\ UNCHANGED paid
  /\ UNCHANGED <<now, users, claims, goal, unlocked, checked, missions, bumps>>

\* adminUpdateAchievement.
EditGoal(n) ==
  /\ goal # n
  /\ goal' = n
  /\ UNCHANGED <<now, users, claims, unlocked, paid, checks, missions, bumps>>

-----------------------------------------------------------------------------
(* updateMissionProgress                                                     *)

BumpRead(b, u) ==
  LET m == <<u, Day(now)>>
  IN  /\ bumpAt[b] = "none" /\ Room /\ m \notin completed
      /\ bumpAt' = [bumpAt EXCEPT ![b] = "read"]
      /\ bump' = [bump EXCEPT ![b] = [mission |-> m, progress |-> progress[m]]]
      /\ UNCHANGED <<now, users, claims, awards, checks, missions>>

\* Faulty: the comparison is off by one.
MoreThanRequired(n) == n >= Requirement - 1

Required(n) == n >= Requirement

BumpWrite(b) ==
  LET m == bump[b].mission
      n == bump[b].progress + 1
  IN  /\ bumpAt[b] = "read"
      /\ bumpAt' = [bumpAt EXCEPT ![b] = IF Required(n) THEN "paying" ELSE "done"]
      /\ progress' = [progress EXCEPT ![m] = n]
      /\ completed' = IF Required(n) THEN completed \cup {m} ELSE completed \ {m}
      /\ torn' = IF progress[m] = bump[b].progress THEN torn ELSE torn \cup {m}
      /\ UNCHANGED <<now, users, claims, awards, checks, earned, bump>>

BumpPay(b) ==
  /\ bumpAt[b] = "paying"
  /\ bumpAt' = [bumpAt EXCEPT ![b] = "done"]
  /\ earned' = [earned EXCEPT ![bump[b].mission] = @ + 1]
  /\ UNCHANGED <<now, users, claims, awards, checks, progress, completed, torn, bump>>

Next ==
  \/ Tick
  \/ \E n \in Goals : EditGoal(n)
  \/ \E k \in Claims : \/ \E u \in Users, n \in Networks : ClaimRead(k, u, n)
                       \/ ClaimRow(k) \/ ClaimLook(k) \/ ClaimInsert(k) \/ ClaimCommit(k) \/ ClaimFails(k)
  \/ \E h \in Checks : (\E u \in Users : CheckRead(h, u)) \/ CheckInsert(h) \/ CheckPay(h)
  \/ \E b \in Bumps : (\E u \in Users : BumpRead(b, u)) \/ BumpWrite(b) \/ BumpPay(b)

Spec == Init /\ [][Next]_vars

-----------------------------------------------------------------------------
(* Properties                                                                *)

ClaimRecords == [user: Users, at: Nat, streak: Nat, network: Networks]

\* Every row keeps its columns' types.
TypeOK ==
  /\ now \in 0..MaxTime
  /\ last \in [Users -> 0..MaxTime \cup {Never}] /\ streak \in [Users -> Nat]
  /\ network \in [Users -> Networks \cup {NoNetwork}]
  /\ claimAt \in [Claims -> Holding \cup {"none", "read", "refused", "failed", "done"}]
  /\ \A k \in Claims : claimAt[k] # "none" => claim[k] \in ClaimRecords
  /\ goal \in Goals \cup {StreakGoal} /\ unlocked \in SUBSET Users /\ paid \in [Users -> Nat]
  /\ checkAt \in [Checks -> {"none", "read", "inserted", "failed", "done"}]
  /\ \A h \in Checks : checkAt[h] # "none" => checked[h] \in Users
  /\ progress \in [Missions -> Nat] /\ completed \in SUBSET Missions
  /\ earned \in [Missions -> Nat] /\ torn \in SUBSET Missions
  /\ bumpAt \in [Bumps -> {"none", "read", "paying", "done"}]
  /\ \A b \in Bumps : bumpAt[b] # "none" => bump[b] \in [mission: Missions, progress: Nat]
  /\ log \in SUBSET ClaimRecords

Before(e) == {d \in log : d.user = e.user /\ d.at < e.at}
Previous(e) == CHOOSE d \in Before(e) : \A c \in Before(e) : c.at <= d.at

\* Two rewards of a user are at least the cooldown apart, and each was paid for the
\* length of the run of rewards, without a gap beyond the grace, that it ends:
\* whatever claims run at once, fail, or read the streak before another one commits.
StreakIsRun ==
  /\ \A d, e \in log : d.user = e.user /\ d # e => d.at + Cooldown <= e.at \/ e.at + Cooldown <= d.at
  /\ \A e \in log :
       e.streak = IF Before(e) = {} \/ e.at - Previous(e).at > Grace THEN 1 ELSE Previous(e).streak + 1

\* A reward is paid once: an achievement and its row together, although a claim
\* and any number of checks may unlock it at the same time; a mission when its
\* requirement was met, unless updates wrote over progress they had not read.
PaidOnce ==
  /\ \A u \in Users : paid[u] <= 1 /\ (paid[u] = 1 => u \in unlocked)
  /\ \A m \in Missions \ torn : earned[m] <= 1 /\ (earned[m] = 1 => progress[m] >= Requirement)
=============================================================================
