----------------------------- MODULE MCRewards -----------------------------
(* The instance of Rewards, under names of its own, so that what is proved   *)
(* of it can stand beside what is proved of the wheel.                       *)
EXTENDS TLC

CONSTANTS
  Users, Claims, Checks, Bumps, Networks, NoNetwork, Cooldown, Grace, StreakGoal, Goals,
  Requirement, MaxTime, MaxCalls, None

VARIABLES
  now, last, streak, network, claimAt, claim, goal, unlocked, checkAt, checked, progress,
  completed, bumpAt, bump, log, paid, earned, torn

R == INSTANCE Rewards

ASSUME RewardsAssumed == R!RewardsAssumption

MCRewardsSpec == R!Spec

MCRewardsSymmetry == Permutations(Users) \cup Permutations(Claims) \cup Permutations(Checks) \cup Permutations(Bumps)

-----------------------------------------------------------------------------

\* The reward a daily claim pays is for the run of claims it ends
\* (claimDailyReward): stated in Rewards.
StreakIsRun == R!StreakIsRun

\* An achievement and a mission are paid once (unlockAchievement,
\* updateMissionProgress): stated in Rewards.
PaidOnce == R!PaidOnce
=============================================================================
